\* Two client threads and the listen thread, every interleaving of accesses.
CONSTANTS
    Nil = Nil
    Threads = {t1, t2}
    Listener = listener
    Node = {n1, n2, n3, n4}
    Budget <- MCOneEach
SPECIFICATION Spec
INVARIANTS
    TypeOK
    ExactWhenSerial
    ListenerNodesLive
    
    EveryWalkEnds
SYMMETRY MCSymmetry
