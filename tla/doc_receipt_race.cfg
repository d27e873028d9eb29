\* Expected violation: a receipt is linked to a node that is being unlinked.
CONSTANTS
    Nil = Nil
    Threads = {t1}
    Listener = listener
    Node = {n1, n2}
    Budget <- MCClients
SPECIFICATION Spec
INVARIANTS
    RegisteredBeforeWrite
