-------------------------- MODULE OvsAction_proofs --------------------------
(***************************************************************************)
(* OvsAction implements AgentContract, for every set of rows, networks,    *)
(* models and faults: a row is answered at most once, in order, and never  *)
(* after it has been passed over, crashes and restarts included.  Failures *)
(* that are noticed are reported, and other ports stay in their bridges.   *)
(* A row that succeeds has its bridge, port and flows as it asks.          *)
(***************************************************************************)
EXTENDS OvsAction, SequenceTheorems, TLAPS

Idle == {"off", "listen", "deaf"}

InRow == Point \ Idle

\* The row in work has been counted as handled.
RowInv ==
    /\ pc \in Point
    /\ status \in {"SUCCESS", "FAILED"}
    /\ rows \in Seq(Config)
    /\ handled \in 0 .. Len(rows)
    /\ feedback \in Seq([row: Nat, status: {"SUCCESS", "FAILED"}])
    /\ pc \in InRow => handled # 0

rowSteps == <<rows, handled, feedback>>

\* The steps between taking a row and answering it.
working ==
    \/ delete_interface \/ ovs_createBridge \/ ovs_createVlan \/ ovs_createGRE
    \/ ovs_addPort
    \/ setupEthSwitch_find \/ setupEthSwitch_create \/ setupEthSwitch_bhaul
    \/ removeExistingInterfacePort \/ configureParentBridge
    \/ modifyParentBridge_flows
    \/ ovs_setup_port_flows \/ ovs_setup_admin_gui_access
    \/ ovs_block_mso_ui_access

\* A step of the work on a row neither leaves the row nor touches the tables.
LEMMA WorkStaysInRow ==
  ASSUME RowInv, working
  PROVE  pc \in InRow /\ pc' \in InRow /\ status' \in {"SUCCESS", "FAILED"}
         /\ UNCHANGED rowSteps
<1> USE DEF InRow, Idle, Point, RowInv, rowSteps, configVars, rowVars, localVars,
            AfterLink, AfterParent, bridge_flows_status
<1>1. CASE delete_interface
  BY <1>1 DEF delete_interface
<1>2. CASE ovs_createBridge
  BY <1>2 DEF ovs_createBridge
<1>3. CASE ovs_createVlan
  BY <1>3 DEF ovs_createVlan, create_link
<1>4. CASE ovs_createGRE
  BY <1>4 DEF ovs_createGRE, create_link
<1>5. CASE ovs_addPort
  BY <1>5 DEF ovs_addPort
<1>6. CASE setupEthSwitch_find
  BY <1>6 DEF setupEthSwitch_find
<1>7. CASE setupEthSwitch_create
  BY <1>7 DEF setupEthSwitch_create
<1>8. CASE setupEthSwitch_bhaul
  BY <1>8 DEF setupEthSwitch_bhaul
<1>9. CASE removeExistingInterfacePort
  BY <1>9 DEF removeExistingInterfacePort
<1>10. CASE configureParentBridge
  BY <1>10 DEF configureParentBridge
<1>11. CASE modifyParentBridge_flows
  BY <1>11 DEF modifyParentBridge_flows
<1>12. CASE ovs_setup_port_flows
  BY <1>12 DEF ovs_setup_port_flows
<1>13. CASE ovs_setup_admin_gui_access
  BY <1>13 DEF ovs_setup_admin_gui_access
<1>14. CASE ovs_block_mso_ui_access
  BY <1>14 DEF ovs_block_mso_ui_access
<1> QED
  BY <1>1, <1>2, <1>3, <1>4, <1>5, <1>6, <1>7, <1>8, <1>9, <1>10, <1>11, <1>12,
     <1>13, <1>14 DEF working

----------------------------------------------------------------------------

\* Nothing is asked or answered before the agent starts.
LEMMA InitRowInv == Init => RowInv
  BY EmptySeq DEF Init, RowInv, Point, InRow, Idle

\* A row that is taken has been inserted: it has one of the four types.
LEMMA RowTaken ==
  ASSUME RowInv, ovs_action_gateway_config
  PROVE  /\ pc \in Idle /\ pc' \in InRow
         /\ handled' = handled + 1 /\ handled' \in 1 .. Len(rows)
         /\ status' = "SUCCESS" /\ UNCHANGED <<rows, feedback>>
<1>1. handled \in Nat /\ handled' = handled + 1 /\ handled' \in 1 .. Len(rows)
  BY LenProperties DEF RowInv, ovs_action_gateway_config
<1>2. rows[handled'] \in Config
  BY <1>1, ElementOfSeq DEF RowInv
<1>3. req'.type \in {"bridge", "vlan", "gre", "other"}
  BY <1>2 DEF ovs_action_gateway_config, Config
<1>4. pc' \in {"delete", "bridge", "vlan", "gre", "other"}
  BY <1>3 DEF ovs_action_gateway_config
<1> QED
  BY <1>1, <1>4 DEF ovs_action_gateway_config, InRow, Point, Idle

\* A Feedback is a well-formed row, and the answered rows grow by the row in work.
LEMMA RowAnswered ==
  ASSUME RowInv, feedback' = Append(feedback, [row |-> handled, status |-> status])
  PROVE  /\ feedback' \in Seq([row: Nat, status: {"SUCCESS", "FAILED"}])
         /\ Answered' = Answered \cup {handled}
<1> DEFINE F == [row: Nat, status: {"SUCCESS", "FAILED"}]
           e == [row |-> handled, status |-> status]
<1>1. e \in F /\ feedback \in Seq(F)
  BY LenProperties DEF RowInv
<1>2. /\ feedback' \in Seq(F)
      /\ Len(feedback') = Len(feedback) + 1
      /\ \A i \in 1 .. Len(feedback) : feedback'[i] = feedback[i]
      /\ feedback'[Len(feedback) + 1] = e
  BY <1>1, AppendProperties
<1>3. Len(feedback) \in Nat
  BY <1>1, LenProperties
<1>4. ASSUME NEW x PROVE x \in Answered' <=> x \in Answered \cup {handled}
  <2>1. 1 .. Len(feedback') = 1 .. Len(feedback) \cup {Len(feedback) + 1}
    BY <1>2, <1>3
  <2>2. x \in Answered' <=> \E i \in 1 .. Len(feedback') : x = feedback'[i].row
    BY DEF Answered
  <2>3. x \in Answered <=> \E i \in 1 .. Len(feedback) : x = feedback[i].row
    BY DEF Answered
  <2>4. feedback'[Len(feedback) + 1].row = handled
    BY <1>2
  <2> QED
    BY <2>1, <2>2, <2>3, <2>4, <1>2, <1>3
<1> QED
  BY <1>2, <1>4

----------------------------------------------------------------------------
(* Every step keeps RowInv and is a step of the contract *)

settled == IF pc \in Idle THEN handled ELSE handled - 1

\* What the contract sees of a state.
LEMMA ContractView ==
  /\ Contract!Init <=> Len(rows) = 0 /\ settled = 0 /\ Answered = {}
  /\ Contract!Insert <=> /\ Len(rows)' = Len(rows) + 1
                         /\ UNCHANGED <<settled, Answered>>
  /\ Contract!Answer <=> /\ settled < Len(rows)
                         /\ settled' = settled + 1
                         /\ Answered' = Answered \cup {settled'}
                         /\ UNCHANGED Len(rows)
  /\ Contract!PassOver <=> /\ settled' \in settled .. Len(rows)
                           /\ UNCHANGED <<Len(rows), Answered>>
  /\ UNCHANGED Contract!vars <=> UNCHANGED <<Len(rows), settled, Answered>>
  BY DEF Contract!Init, Contract!Insert, Contract!Answer, Contract!PassOver,
         Contract!vars, settled, Idle

\* A step that does not change the tables leaves the answered rows alone.
LEMMA SameFeedback == UNCHANGED feedback => UNCHANGED Answered
  BY DEF Answered

ContractStep == Contract!Next \/ UNCHANGED Contract!vars

\* A writer's insert, and the steps of the agent, its database and hostapd.
LEMMA RowStep ==
  ASSUME RowInv, [Next]_vars
  PROVE  RowInv' /\ ContractStep
<1> USE DEF ContractStep
<1>0. Len(rows) \in Nat /\ handled \in Nat /\ settled \in 0 .. Len(rows)
  BY LenProperties DEF RowInv, settled, Idle, InRow
<1>1. CASE insert_row
  <2>1. PICK c \in Configs : rows' = Append(rows, c)
    BY <1>1 DEF insert_row
  <2>2. rows' \in Seq(Config) /\ Len(rows') = Len(rows) + 1
    BY <2>1, AppendProperties, ConfigsAssumption DEF RowInv
  <2>3. RowInv'
    BY <1>0, <1>1, <2>2 DEF insert_row, RowInv
  <2>4. Contract!Insert
    BY <1>1, <2>2, ContractView, SameFeedback DEF insert_row, settled
  <2> QED
    BY <2>3, <2>4 DEF Contract!Next
<1>2. CASE ovs_action_init
  <2>1. pc = "off" /\ UNCHANGED <<rows, feedback, status>>
    BY <1>2 DEF ovs_action_init
  <2>2. \/ pc' = "listen" /\ handled' = Len(rows)
        \/ pc' = "off" /\ handled' = handled
    BY <1>2, <2>1 DEF ovs_action_init
  <2>3. RowInv'
    BY <1>0, <2>1, <2>2 DEF RowInv, Point, InRow, Idle
  <2>4. settled' \in settled .. Len(rows)
    BY <1>0, <2>1, <2>2 DEF settled, Idle, RowInv
  <2> QED
    BY <2>1, <2>3, <2>4, ContractView, SameFeedback DEF Contract!Next
<1>3. CASE ovs_action_gateway_config
  <2>1. RowInv'
    BY <1>3, RowTaken DEF RowInv, InRow
  <2>2. UNCHANGED settled
    BY <1>0, <1>3, RowTaken DEF settled, InRow
  <2> QED
    BY <1>3, <2>1, <2>2, RowTaken, ContractView, SameFeedback
<1>4. CASE gwconf_mon_cb
  <2>1. /\ pc = "answer" /\ pc' = "listen" /\ status' = "SUCCESS"
        /\ UNCHANGED <<handled, rows>>
        /\ \/ UNCHANGED feedback
           \/ feedback' = Append(feedback, [row |-> handled, status |-> status])
    BY <1>4 DEF gwconf_mon_cb, Forget
  <2>2. handled \in 1 .. Len(rows) /\ settled = handled - 1 /\ settled' = handled
    BY <1>0, <2>1 DEF RowInv, settled, InRow, Idle, Point
  <2>3. CASE UNCHANGED feedback
    BY <1>0, <2>1, <2>2, <2>3, ContractView, SameFeedback
    DEF RowInv, Contract!Next, Point, InRow, Idle
  <2>4. CASE feedback' = Append(feedback, [row |-> handled, status |-> status])
    <3>1. RowInv'
      BY <2>1, <2>4, RowAnswered DEF RowInv, Point, InRow, Idle
    <3>2. Contract!Answer
      BY <2>1, <2>2, <2>4, RowAnswered, ContractView
    <3> QED
      BY <3>1, <3>2 DEF Contract!Next
  <2> QED
    BY <2>1, <2>3, <2>4
<1>5. CASE working
  <2>1. RowInv'
    BY <1>5, WorkStaysInRow DEF RowInv, rowSteps, InRow
  <2>2. UNCHANGED <<rows, settled, feedback>>
    BY <1>5, WorkStaysInRow DEF settled, rowSteps, InRow
  <2> QED
    BY <2>1, <2>2, ContractView, SameFeedback
<1>6. CASE ovsdb_closed
  <2>1. pc = "listen" /\ pc' = "deaf" /\ UNCHANGED <<handled, rows, feedback, status>>
    BY <1>6 DEF ovsdb_closed, rowVars
  <2>2. RowInv' /\ UNCHANGED settled
    BY <2>1 DEF RowInv, settled, Point, InRow, Idle
  <2> QED
    BY <2>1, <2>2, ContractView, SameFeedback
<1>7. CASE crash
  <2>1. pc' = "off" /\ status' = "SUCCESS" /\ UNCHANGED <<handled, rows, feedback>>
    BY <1>7 DEF crash, Forget
  <2>2. RowInv' /\ settled' \in settled .. Len(rows)
    BY <1>0, <2>1 DEF RowInv, settled, Point, InRow, Idle
  <2> QED
    BY <2>1, <2>2, ContractView, SameFeedback DEF Contract!Next
<1>8. CASE hostapd \/ quiet \/ UNCHANGED vars
  <2>1. UNCHANGED <<pc, status, handled, rows, feedback>>
    BY <1>8 DEF hostapd, quiet, vars, rowVars
  <2> QED
    BY <2>1, ContractView, SameFeedback DEF RowInv, settled
<1>9. CASE update_lost
  <2>1. /\ pc = "listen" /\ pc' = "listen" /\ handled' \in handled + 1 .. Len(rows)
        /\ UNCHANGED <<rows, feedback, status>>
    BY <1>9 DEF update_lost
  <2>2. RowInv' /\ settled' \in settled .. Len(rows)
    BY <1>0, <2>1 DEF RowInv, settled, Point, InRow, Idle
  <2> QED
    BY <2>1, <2>2, ContractView, SameFeedback DEF Contract!Next
<1> QED
  BY <1>1, <1>2, <1>3, <1>4, <1>5, <1>6, <1>7, <1>8, <1>9 DEF Next, agent, working

\* The agent implements its contract (ImplementsAgentContract) whatever rows are
\* inserted, whatever fails and whenever the daemon crashes and is restarted: a
\* row gets at most one Feedback, in the order of the rows, and a row that
\* gwconf_mon_cb has passed over is never answered.
THEOREM AgentImplementsContract == Spec => ImplementsAgentContract
<1>1. Init => RowInv /\ Contract!Init
  <2>1. Init => Len(rows) = 0 /\ settled = 0 /\ Answered = {}
    BY EmptySeq DEF Init, settled, Idle, Answered
  <2> QED
    BY <2>1, InitRowInv, ContractView
<1>2. RowInv /\ [Next]_vars => RowInv' /\ [Contract!Next]_(Contract!vars)
  BY RowStep DEF ContractStep
<1> QED
  BY <1>1, <1>2, PTL DEF Spec, ImplementsAgentContract, Contract!Spec

----------------------------------------------------------------------------
(* The commands on the network *)

\* What a step of the agent may rely on: a row that names no bridge does not come
\* to the steps on bridges, the eth switch has two ports, and the bridge that is
\* to be restored is there.
ActionTypeInv ==
    /\ TypeOK /\ PortsInBridges(net)
    /\ pc \in {"remove", "configure", "bridgeFlows", "portFlows", "msoFlows"}
         => req.parent # NoName
    /\ pc \in {"ethCreate", "ethBhaul"} => req.name \in {PUMA7_ETH1, PUMA7_ETH2}
    /\ pc = "ethCreate" /\ restoreBridge # NoName =>
         /\ {PUMA7_ETH1, PUMA7_ETH2} \subseteq Names
         /\ restoreBridge \in net.bridges["ovs"]
    /\ ethBhaulFound => ETH_BHAUL_IF \in Names

\* Which failures of the row in work there can be at a point, and what they have
\* done to the status.
FailureInv ==
    /\ pc \in InRow =>
         failed \subseteq {"command", "list", "address", "mac", "lookup", "param"}
    /\ pc \in InRow /\ "lookup" \in failed =>
         status = "FAILED" /\ pc \in {"ethBhaul", "answer"}
    /\ pc \in InRow /\ "param" \in failed => status = "FAILED" /\ pc = "answer"
    /\ pc \in InRow /\ "list" \in failed =>
         \/ ~Exists(before, req.parent)
         \/ req.parent = ETH_BHAUL_IF
         \/ status = "FAILED" /\ pc = "answer"
    /\ pc \in InRow /\ failed \cap {"address", "mac"} # {} => IsGuiPort
    /\ pc \in InRow \ {"answer"} =>
         \A x \in Names \ {ETH_BHAUL_IF} : Exists(before, x) => Exists(net, x)

\* The port that the eth switch has taken out of its bridge for the moment.
Lifted(k, i) ==
    /\ pc = "ethCreate" /\ k = "ovs" /\ i = Other(req.name)
    /\ net.master["ovs"][i] = NoName
    /\ before.master["ovs"][i] = restoreBridge

Moved(k, i) ==
    \/ req.cmd = "delete" /\ before.master[k][i] = req.name
    \/ i = ETH_BHAUL_IF /\ net.master[k][i] = ETH_BHAUL_BR

\* The ports a row is not about are where they were.
PortInv ==
    /\ pc \in {"delete", "bridge", "vlan", "gre", "other"} => net.master = before.master
    /\ pc = "delete" => req.cmd = "delete"
    /\ pc = "ethCreate" /\ restoreBridge # NoName =>
         restoreBridge = before.master["ovs"][Other(req.name)]
    /\ /\ pc \in InRow /\ "command" \notin failed
       /\ status = "FAILED" => pc \notin {"ethBhaul", "answer"}
       => \A k \in Kind : \A i \in Names \ {req.name} :
              net.master[k][i] # before.master[k][i] => Moved(k, i) \/ Lifted(k, i)

\* A network with its ports in bridges.
Sound(n) == n \in Net /\ PortsInBridges(n)

\* A command that only concerns links and flows.
LEMMA LinksSound ==
  ASSUME NEW n, Sound(n), NEW m, m \in Net,
         m.bridges = n.bridges, m.master = n.master
  PROVE  Sound(m)
  BY DEF Sound, PortsInBridges

\* add_bridge: the bridges grow.
LEMMA AddBridge ==
  ASSUME NEW n, Sound(n), NEW k \in Kind, NEW b \in Names
  PROVE  LET m == add_bridge(n, k, b) IN
         /\ Sound(m) /\ m.master = n.master /\ m.present = n.present
         /\ m.flows = n.flows /\ m.up = n.up
         /\ \A j \in Kind : n.bridges[j] \subseteq m.bridges[j]
<1> DEFINE m == add_bridge(n, k, b)
<1>1. n \in Net /\ PortsInBridges(n)
  BY DEF Sound
<1>2. CASE Exists(n, b)
  BY <1>1, <1>2 DEF add_bridge, Sound
<1>3. CASE ~Exists(n, b)
  <2>1. m = [n EXCEPT !.bridges[k] = n.bridges[k] \cup {b}]
    BY <1>3 DEF add_bridge
  <2>2. m \in Net
    <3>1. n.bridges[k] \cup {b} \in SUBSET Names
      BY <1>1 DEF Net
    <3> DEFINE S == n.bridges[k] \cup {b}
    <3> HIDE DEF S
    <3>2. m = [n EXCEPT !.bridges[k] = S]
      BY <2>1 DEF S
    <3>3. S \in SUBSET Names
      BY <3>1 DEF S
    <3> HIDE DEF m
    <3> QED
      BY <1>1, <3>2, <3>3 DEF Net
  <2>3. /\ m.master = n.master /\ m.present = n.present
        /\ m.flows = n.flows /\ m.up = n.up
        /\ \A j \in Kind : n.bridges[j] \subseteq m.bridges[j]
    BY <1>1, <2>1 DEF Net
  <2>4. PortsInBridges(m)
    BY <1>1, <2>3 DEF PortsInBridges
  <2> QED
    BY <2>2, <2>3, <2>4 DEF Sound
<1> QED
  BY <1>2, <1>3

\* del_bridge: the ports of the bridge, and no others, are without a bridge.
LEMMA DelBridge ==
  ASSUME NEW n, Sound(n), NEW b \in Names
  PROVE  LET m == del_bridge(n, b) IN
         /\ Sound(m)
         /\ \A k \in Kind : \A i \in Names :
                m.master[k][i] # n.master[k][i] => n.master[k][i] = b
<1> DEFINE m == del_bridge(n, b)
<1>1. n \in Net /\ PortsInBridges(n)
  BY DEF Sound
<1>2. CASE b \notin n.bridges["ovs"]
  BY <1>1, <1>2 DEF del_bridge, Sound
<1>3. CASE b \in n.bridges["ovs"]
  <2> DEFINE M == [i \in Names |-> IF n.master["ovs"][i] = b THEN NoName
                                   ELSE n.master["ovs"][i]]
             F == {f \in n.flows : f[1] # b}
  <2>1. M \in [Names -> Names \cup {NoName}] /\ F \subseteq Names \X Flow
    BY <1>1 DEF Net, Kind
  <2>2. m = [n EXCEPT !.bridges["ovs"] = n.bridges["ovs"] \ {b},
                      !.master["ovs"] = M,
                      !.up = n.up \ {b},
                      !.flows = F]
    BY <1>3 DEF del_bridge
  <2>3. \A i \in Names : M[i] = IF n.master["ovs"][i] = b THEN NoName
                               ELSE n.master["ovs"][i]
    OBVIOUS
  <2> HIDE DEF M, F, m
  <2>4. m \in Net
    BY <1>1, <2>1, <2>2 DEF Net, Kind
  <2>5. /\ m.bridges["ovs"] = n.bridges["ovs"] \ {b}
        /\ m.bridges["linux"] = n.bridges["linux"]
        /\ m.master["ovs"] = M
        /\ m.master["linux"] = n.master["linux"]
    BY <1>1, <2>2 DEF Net, Kind
  <2>6. PortsInBridges(m)
    <3>1. ASSUME NEW i \in Names
          PROVE  m.master["ovs"][i] \in m.bridges["ovs"] \cup {NoName}
      <4>1. n.master["ovs"][i] \in n.bridges["ovs"] \cup {NoName}
        BY <1>1 DEF PortsInBridges, Kind
      <4>2. m.master["ovs"][i] = IF n.master["ovs"][i] = b THEN NoName
                                 ELSE n.master["ovs"][i]
        BY <2>3, <2>5
      <4> QED
        BY <2>5, <4>1, <4>2
    <3>2. ASSUME NEW i \in Names
          PROVE  m.master["linux"][i] \in m.bridges["linux"] \cup {NoName}
      BY <1>1, <2>5 DEF PortsInBridges, Kind
    <3> QED
      BY <3>1, <3>2 DEF PortsInBridges, Kind
  <2>7. \A k \in Kind : \A i \in Names :
            m.master[k][i] # n.master[k][i] => n.master[k][i] = b
    BY <2>3, <2>5 DEF Kind
  <2> QED
    BY <2>4, <2>6, <2>7 DEF Sound, m
<1> QED
  BY <1>2, <1>3

\* A port is put into a bridge that is there, or out of its bridge.
LEMMA SetMaster ==
  ASSUME NEW n, Sound(n), NEW k \in Kind, NEW i \in Names,
         NEW b, b \in n.bridges[k] \cup {NoName}
  PROVE  LET m == [n EXCEPT !.master[k][i] = b] IN
         /\ Sound(m) /\ m.bridges = n.bridges /\ m.present = n.present
         /\ m.up = n.up /\ m.flows = n.flows
         /\ m.master[k][i] = b
         /\ \A j \in Kind : \A x \in Names :
                j # k \/ x # i => m.master[j][x] = n.master[j][x]
<1> DEFINE m == [n EXCEPT !.master[k][i] = b]
<1>1. n \in Net /\ PortsInBridges(n)
  BY DEF Sound
<1>2. b \in Names \cup {NoName}
  BY <1>1 DEF Net
<1>3. m \in Net
  BY <1>1, <1>2 DEF Net
<1>4. /\ m.bridges = n.bridges /\ m.present = n.present
      /\ m.up = n.up /\ m.flows = n.flows
      /\ m.master[k][i] = b
      /\ \A j \in Kind : \A x \in Names :
             j # k \/ x # i => m.master[j][x] = n.master[j][x]
  BY <1>1 DEF Net
<1> HIDE DEF m
<1>5. PortsInBridges(m)
  BY <1>1, <1>4 DEF PortsInBridges
<1> QED
  BY <1>3, <1>4, <1>5 DEF Sound, m

\* add_port and del_port move the one port.
LEMMA AddPort ==
  ASSUME NEW n, Sound(n), NEW k \in Kind, NEW b, NEW i
  PROVE  LET m == add_port(n, k, b, i) IN
         /\ Sound(m) /\ m.bridges = n.bridges /\ m.present = n.present
         /\ \A j \in Kind : \A x \in Names :
                m.master[j][x] # n.master[j][x] => j = k /\ x = i /\ m.master[j][x] = b
         /\ k = "ovs" /\ i \in Names /\ b \in n.bridges[k] /\ n.master[k][i] = NoName
              => m.master[k][i] = b
<1> DEFINE m == add_port(n, k, b, i)
<1>1. CASE m = n
  BY <1>1 DEF Sound, add_port, Net
<1>2. CASE m # n
  <2>1. b \in n.bridges[k] /\ m = [n EXCEPT !.master[k][i] = b]
    BY <1>2 DEF add_port
  <2>2. CASE i \in Names
    BY <2>1, <2>2, SetMaster
  <2>3. CASE i \notin Names
    <3>1. m = n
      BY <2>1, <2>3 DEF Sound, Net
    <3> QED
      BY <3>1, <1>2
  <2> QED
    BY <2>2, <2>3
<1> QED
  BY <1>1, <1>2

\* Taking a port out of a bridge touches that port alone.
LEMMA DelPort ==
  ASSUME NEW n, Sound(n), NEW k \in Kind, NEW b, NEW i \in Names
  PROVE  LET m == del_port(n, k, b, i) IN
         /\ Sound(m) /\ m.bridges = n.bridges /\ m.present = n.present
         /\ \A j \in Kind : \A x \in Names :
                m.master[j][x] # n.master[j][x] => j = k /\ x = i
         /\ n.master[k][i] = b => m.master[k][i] = NoName
<1> DEFINE m == del_port(n, k, b, i)
<1>1. CASE n.master[k][i] # b
  BY <1>1 DEF del_port, Sound
<1>2. CASE n.master[k][i] = b
  <2>1. m = [n EXCEPT !.master[k][i] = NoName]
    BY <1>2 DEF del_port
  <2> QED
    BY <2>1, SetMaster
<1> QED
  BY <1>1, <1>2

\* Commands on links and flows.
LEMMA LinkCommands ==
  ASSUME NEW n, Sound(n), NEW x \in Names, NEW cmd
  PROVE  LET m == ifconfig(n, x, cmd) IN
         /\ Sound(m) /\ m.bridges = n.bridges /\ m.master = n.master
         /\ m.present = n.present
<1> DEFINE m == ifconfig(n, x, cmd)
<1>1. PICK u \in SUBSET Names : m = [n EXCEPT !.up = u]
  <2>1. n.up \cup {x} \in SUBSET Names /\ n.up \ {x} \in SUBSET Names /\ n.up \in SUBSET Names
    BY DEF Sound, Net
  <2>2. n = [n EXCEPT !.up = n.up]
    BY DEF Sound, Net
  <2>3. \/ m = [n EXCEPT !.up = n.up \cup {x}]
        \/ m = [n EXCEPT !.up = n.up \ {x}]
        \/ m = n
    BY DEF ifconfig
  <2> QED
    BY <2>1, <2>2, <2>3
<1>2. m \in Net /\ m.bridges = n.bridges /\ m.master = n.master /\ m.present = n.present
  BY <1>1 DEF Sound, Net
<1> QED
  BY <1>2, LinksSound

\* New links change neither bridges nor ports.
LEMMA LinkAdd ==
  ASSUME NEW n, Sound(n), NEW links \in SUBSET Names
  PROVE  LET m == link_add(n, links) IN
         /\ Sound(m) /\ m.bridges = n.bridges /\ m.master = n.master
         /\ m.present = n.present \cup links
<1> DEFINE m == link_add(n, links)
<1>1. /\ m \in Net /\ m.bridges = n.bridges /\ m.master = n.master
      /\ m.present = n.present \cup links
  BY DEF link_add, Sound, Net
<1> QED
  BY <1>1, LinksSound

\* Neither do links that go away.
LEMMA LinkLost ==
  ASSUME NEW n, Sound(n), NEW lost
  PROVE  LET m == [n EXCEPT !.present = @ \ lost, !.up = @ \ lost] IN
         /\ Sound(m) /\ m.bridges = n.bridges /\ m.master = n.master
         /\ m.present = n.present \ lost
<1> DEFINE m == [n EXCEPT !.present = @ \ lost, !.up = @ \ lost]
<1>1. /\ m \in Net /\ m.bridges = n.bridges /\ m.master = n.master
      /\ m.present = n.present \ lost
  BY DEF Sound, Net
<1> QED
  BY <1>1, LinksSound

\* Deleting a link touches no other interface.
LEMMA LinkDel ==
  ASSUME NEW n, Sound(n), NEW i \in Names
  PROVE  LET m == link_del(n, i) IN
         /\ Sound(m)
         /\ \A j \in Kind : \A x \in Names : x # i => m.master[j][x] = n.master[j][x]
<1> DEFINE c == [n EXCEPT !.present = n.present \ {i}, !.up = n.up \ {i}]
           m == link_del(n, i)
<1>1. Sound(c) /\ c.master = n.master
  BY LinkLost
<1>2. m = [c EXCEPT !.master["linux"][i] = NoName]
  BY DEF link_del, Sound, Net
<1> HIDE DEF c
<1> QED
  BY <1>1, <1>2, SetMaster DEF Kind

\* Flows change neither bridges, ports nor links.
LEMMA FlowCommands ==
  ASSUME NEW n, Sound(n), NEW b, NEW fs \in SUBSET Flow
  PROVE  /\ LET m == add_flows(n, b, fs) IN
            Sound(m) /\ m.bridges = n.bridges /\ m.master = n.master /\ m.present = n.present
         /\ LET m == del_flows(n, b, fs) IN
            Sound(m) /\ m.bridges = n.bridges /\ m.master = n.master /\ m.present = n.present
<1>1. ASSUME NEW S \in SUBSET (Names \X Flow), NEW m, m = [n EXCEPT !.flows = S]
      PROVE  Sound(m) /\ m.bridges = n.bridges /\ m.master = n.master /\ m.present = n.present
  <2>1. m \in Net /\ m.bridges = n.bridges /\ m.master = n.master /\ m.present = n.present
    BY <1>1 DEF Sound, Net
  <2> QED
    BY <2>1, LinksSound
<1>2. n.flows \subseteq Names \X Flow /\ (b \in n.bridges["ovs"] => b \in Names)
  BY DEF Sound, Net, Kind
<1>3. add_flows(n, b, fs) = n
      \/ \E S \in SUBSET (Names \X Flow) : add_flows(n, b, fs) = [n EXCEPT !.flows = S]
  <2>1. b \in Names => n.flows \cup ({b} \X fs) \in SUBSET (Names \X Flow)
    BY <1>2
  <2> QED
    BY <1>2, <2>1 DEF add_flows
<1>4. \E S \in SUBSET (Names \X Flow) : del_flows(n, b, fs) = [n EXCEPT !.flows = S]
  <2>1. n.flows \ ({b} \X fs) \in SUBSET (Names \X Flow)
    BY <1>2
  <2> QED
    BY <2>1 DEF del_flows
<1> QED
  BY <1>1, <1>3, <1>4

\* The same for the flows of a new bridge.
LEMMA BridgeFlows ==
  ASSUME NEW n, Sound(n)
  PROVE  LET m == setup_bridge_flows(n) IN
         Sound(m) /\ m.bridges = n.bridges /\ m.master = n.master /\ m.present = n.present
<1> DEFINE cleared == del_flows(n, req.parent, WifiFlows)
           set == add_flows(cleared, req.parent, WifiFlows)
<1>1. WifiFlows \in SUBSET Flow
  BY DEF WifiFlows, Flow
<1>2. /\ Sound(cleared) /\ cleared.bridges = n.bridges
      /\ cleared.master = n.master /\ cleared.present = n.present
  BY <1>1, FlowCommands
<1>3. /\ Sound(set) /\ set.bridges = n.bridges
      /\ set.master = n.master /\ set.present = n.present
  <2> HIDE DEF cleared
  <2> QED
    BY <1>1, <1>2, FlowCommands
<1>4. setup_bridge_flows(n) \in {n, cleared, set}
  BY DEF setup_bridge_flows
<1> QED
  BY <1>2, <1>3, <1>4

----------------------------------------------------------------------------
(* Steps that concern the row's own port *)

\* From n to m no bridge or link has gone and no other port has moved.
Local(n, m) ==
    /\ Sound(m)
    /\ \A k \in Kind : n.bridges[k] \subseteq m.bridges[k]
    /\ n.present \subseteq m.present
    /\ \A k \in Kind : \A i \in Names \ {req.name} : m.master[k][i] = n.master[k][i]

\* A step that moves no port is local to the row.
LEMMA LocalSame ==
  ASSUME NEW n, NEW m, Sound(m), n.bridges = m.bridges, n.present \subseteq m.present,
         n.master = m.master
  PROVE  Local(n, m)
  BY DEF Local

\* Two local steps make one.
LEMMA LocalTwice ==
  ASSUME NEW n, NEW m, NEW l, Local(n, m), Local(m, l)
  PROVE  Local(n, l)
  BY DEF Local

\* The steps but for those of the eth switch and a deletion.
ordinary ==
    \/ ovs_createBridge \/ ovs_createVlan \/ ovs_createGRE \/ ovs_addPort
    \/ removeExistingInterfacePort \/ configureParentBridge
    \/ modifyParentBridge_flows
    \/ ovs_setup_port_flows \/ ovs_setup_admin_gui_access
    \/ ovs_block_mso_ui_access

\* Outside the eth switch and a deletion only the interface of the row moves.
LEMMA OrdinaryLocal ==
  ASSUME ActionTypeInv, ordinary
  PROVE  Local(net, net')
<1>0. /\ Sound(net) /\ Local(net, net)
      /\ req.name \in Names /\ req.parent \in Names \cup {NoName}
      /\ Kind = {"ovs", "linux"} /\ KindOf(req.parent) \in Kind
  BY DEF ActionTypeInv, TypeOK, Sound, Config, Local, Kind, KindOf
<1>1. CASE ovs_createBridge
  <2> DEFINE a == add_bridge(net, "ovs", req.name)
             b == ifconfig(a, req.name, req.cmd)
             c == setup_bridge_flows(b)
  <2>1. Sound(a) /\ Local(net, a)
    BY <1>0, AddBridge DEF Local
  <2>2. Sound(b) /\ Local(a, b)
    <3> HIDE DEF a
    <3> QED  BY <1>0, <2>1, LinkCommands, LocalSame
  <2>3. Local(b, c)
    <3> HIDE DEF b
    <3> QED  BY <2>2, BridgeFlows, LocalSame
  <2>4. net' = net \/ net' = c
    BY <1>1 DEF ovs_createBridge, Run
  <2> HIDE DEF a, b, c
  <2>5. Local(net, c)
    BY <2>1, <2>2, <2>3, LocalTwice
  <2> QED  BY <1>0, <2>4, <2>5
<1>2. CASE ovs_createVlan \/ ovs_createGRE
  <2> DEFINE a == IF req.under THEN link_add(net, {req.name}) ELSE net
             b == ifconfig(a, req.name, req.cmd)
  <2>1. Sound(a) /\ Local(net, a)
    BY <1>0, LinkAdd, LocalSame
  <2>2. Local(a, b)
    <3> HIDE DEF a
    <3> QED  BY <1>0, <2>1, LinkCommands, LocalSame
  <2>3. net' = net \/ net' = b
    BY <1>2 DEF ovs_createVlan, ovs_createGRE, create_link, Run
  <2> HIDE DEF a, b
  <2>4. Local(net, b)
    BY <2>1, <2>2, LocalTwice
  <2> QED  BY <1>0, <2>3, <2>4
<1>3. CASE ovs_addPort
  <2> DEFINE b == ifconfig(net, req.name, req.cmd)
  <2>1. Local(net, b)
    BY <1>0, LinkCommands, LocalSame
  <2>2. net' = net \/ net' = b
    BY <1>3 DEF ovs_addPort, Run
  <2> HIDE DEF b
  <2> QED  BY <1>0, <2>1, <2>2
<1>4. CASE removeExistingInterfacePort
  <2> DEFINE b == del_port(net, KindOf(req.parent), existingBridge, req.name)
  <2>1. Local(net, b)
    BY <1>0, DelPort DEF Local
  <2>2. net' = net \/ net' = b
    BY <1>4 DEF removeExistingInterfacePort, Run
  <2> HIDE DEF b
  <2> QED  BY <1>0, <2>1, <2>2
<1>5. CASE configureParentBridge
  <2> DEFINE k == KindOf(req.parent)
             a == add_bridge(net, k, req.parent)
             b == ifconfig(a, req.parent, req.cmd)
             c == add_port(b, k, req.parent, req.name)
  <2>0. req.parent \in Names /\ k \in Kind
    BY <1>0, <1>5 DEF configureParentBridge, ActionTypeInv
  <2>1. Sound(a) /\ Local(net, a)
    <3> HIDE DEF k
    <3>1. /\ Sound(a) /\ a.master = net.master /\ a.present = net.present
          /\ \A j \in Kind : net.bridges[j] \subseteq a.bridges[j]
      BY <1>0, <2>0, AddBridge
    <3> HIDE DEF a
    <3> QED  BY <3>1 DEF Local
  <2>2. Sound(b) /\ Local(a, b)
    <3> HIDE DEF a
    <3> QED  BY <2>0, <2>1, LinkCommands, LocalSame
  <2>3. Local(b, c)
    <3> HIDE DEF b, k
    <3> QED  BY <1>0, <2>0, <2>2, AddPort DEF Local
  <2>4. net' = net \/ net' = c
    BY <1>5 DEF configureParentBridge, Run
  <2> HIDE DEF a, b, c, k
  <2>5. Local(net, c)
    BY <2>1, <2>2, <2>3, LocalTwice
  <2> QED  BY <1>0, <2>4, <2>5
<1>6. CASE modifyParentBridge_flows \/ ovs_setup_port_flows
  <2> DEFINE c == setup_bridge_flows(net)
  <2>1. Local(net, c)
    BY <1>0, BridgeFlows, LocalSame
  <2>2. net' = net \/ net' = c
    BY <1>6 DEF modifyParentBridge_flows, ovs_setup_port_flows, Run
  <2> HIDE DEF c
  <2> QED  BY <1>0, <2>1, <2>2
<1>7. CASE ovs_setup_admin_gui_access \/ ovs_block_mso_ui_access
  <2>1. ASSUME NEW fs \in SUBSET Flow,
               net' \in {net, del_flows(net, req.parent, fs),
                         add_flows(del_flows(net, req.parent, fs), req.parent, fs)}
        PROVE  Local(net, net')
    <3> DEFINE a == del_flows(net, req.parent, fs)
               b == add_flows(a, req.parent, fs)
    <3>1. Sound(a) /\ Local(net, a)
      BY <1>0, FlowCommands, LocalSame
    <3>2. Local(a, b)
      <4> HIDE DEF a
      <4> QED  BY <3>1, FlowCommands, LocalSame
    <3>3. net' \in {net, a, b}
      BY <2>1
    <3> HIDE DEF a, b
    <3> QED  BY <1>0, <3>1, <3>2, <3>3, LocalTwice
  <2>2. {"arp", "ip"} \in SUBSET Flow /\ {"ipv6"} \in SUBSET Flow
    BY DEF Flow
  <2>3. \E fs \in {{"arp", "ip"}, {"ipv6"}} :
          net' \in {net, del_flows(net, req.parent, fs),
                    add_flows(del_flows(net, req.parent, fs), req.parent, fs)}
    BY <1>7 DEF ovs_setup_admin_gui_access, ovs_block_mso_ui_access, Run
  <2> QED  BY <2>1, <2>2, <2>3
<1> QED
  BY <1>1, <1>2, <1>3, <1>4, <1>5, <1>6, <1>7 DEF ordinary

\* Where an ordinary step leads, and what it leaves alone.
LEMMA OrdinaryControl ==
  ASSUME ActionTypeInv, ordinary
  PROVE  /\ UNCHANGED <<req, before, remade, localVars, envVars>>
         /\ pc \in InRow \ {"delete", "ethCreate", "ethBhaul", "answer"}
         /\ pc' \in {"remove", "configure", "bridgeFlows", "portFlows", "msoFlows",
                     "answer"}
         /\ req.parent = NoName => pc' = "answer"
<1> USE DEF configVars, rowVars, AfterLink, AfterParent, InRow, Point, Idle, ActionTypeInv
<1>1. CASE ovs_createBridge \/ ovs_createVlan \/ ovs_createGRE
  BY <1>1 DEF ovs_createBridge, ovs_createVlan, ovs_createGRE, create_link
<1>2. CASE ovs_addPort
  BY <1>2 DEF ovs_addPort
<1>3. CASE removeExistingInterfacePort
  BY <1>3 DEF removeExistingInterfacePort
<1>4. CASE configureParentBridge \/ modifyParentBridge_flows
  BY <1>4 DEF configureParentBridge, modifyParentBridge_flows
<1>5. CASE \/ ovs_setup_port_flows \/ ovs_setup_admin_gui_access
           \/ ovs_block_mso_ui_access
  BY <1>5 DEF ovs_setup_port_flows, ovs_setup_admin_gui_access,
              ovs_block_mso_ui_access
<1> QED
  BY <1>1, <1>2, <1>3, <1>4, <1>5 DEF ordinary

----------------------------------------------------------------------------
(* The eth switch and deletions *)

\* A deletion takes ports out of the bridge that is deleted.
LEMMA DeleteStep ==
  ASSUME ActionTypeInv, delete_interface
  PROVE  /\ Sound(net')
         /\ \A k \in Kind : \A i \in Names \ {req.name} :
                net'.master[k][i] # net.master[k][i] => net.master[k][i] = req.name
<1> DEFINE a == del_bridge(net, req.name)
           b == link_del(net, req.name)
<1>0. Sound(net) /\ req.name \in Names
  BY DEF ActionTypeInv, TypeOK, Sound, Config
<1>1. /\ Sound(a)
      /\ \A k \in Kind : \A i \in Names :
             a.master[k][i] # net.master[k][i] => net.master[k][i] = req.name
  BY <1>0, DelBridge
<1>2. /\ Sound(b)
      /\ \A k \in Kind : \A i \in Names \ {req.name} : b.master[k][i] = net.master[k][i]
  BY <1>0, LinkDel
<1>3. net' \in {net, a, b}
  BY DEF delete_interface, Run
<1> HIDE DEF a, b
<1> QED
  BY <1>0, <1>1, <1>2, <1>3

\* The other port leaves its bridge, which is remembered.
LEMMA FindStep ==
  ASSUME ActionTypeInv, setupEthSwitch_find
  PROVE  /\ Sound(net') /\ net'.bridges = net.bridges /\ net'.present = net.present
         /\ req.name \in {PUMA7_ETH1, PUMA7_ETH2}
         /\ restoreBridge' \in net.bridges["ovs"] \cup {restoreBridge, NoName}
         /\ ethBhaulFound' <=> ETH_BHAUL_IF \in net.present
         /\ \/ pc' = "answer" /\ status' = "FAILED" /\ net' = net
            \/ /\ pc' = "ethCreate" /\ restoreBridge' = NoName /\ net' = net
            \/ /\ pc' = "ethCreate" /\ restoreBridge' \in net.bridges["ovs"]
               /\ Other(req.name) \in net.present
               /\ restoreBridge' = net.master["ovs"][Other(req.name)]
               /\ \A k \in Kind : \A i \in Names :
                      net'.master[k][i] # net.master[k][i] =>
                          /\ k = "ovs" /\ i = Other(req.name)
                          /\ net'.master[k][i] = NoName
<1> DEFINE other == Other(req.name)
           bridge == net.master["ovs"][other]
           m == del_port(net, "ovs", bridge, other)
<1>0. Sound(net) /\ "ovs" \in Kind /\ net.present \subseteq Names
  BY DEF ActionTypeInv, TypeOK, Sound, Net, Kind
<1>1. req.name \in {PUMA7_ETH1, PUMA7_ETH2}
  BY DEF setupEthSwitch_find, NeedsEthSwitch
<1>2. ethBhaulFound' <=> ETH_BHAUL_IF \in net.present
  BY DEF setupEthSwitch_find
<1>3. CASE pc' = "answer"
  <2>1. status' = "FAILED" /\ net' = net /\ restoreBridge' = restoreBridge
    BY <1>3 DEF setupEthSwitch_find
  <2> QED
    BY <1>0, <1>1, <1>2, <1>3, <2>1
<1>4. CASE pc' # "answer"
  <2>1. /\ pc' = "ethCreate"
        /\ restoreBridge' = IF other \in net.present THEN bridge ELSE NoName
        /\ net' = net \/ (restoreBridge' # NoName /\ net' = m)
    BY <1>4 DEF setupEthSwitch_find, Run
  <2>2. CASE restoreBridge' = NoName
    BY <1>0, <1>1, <1>2, <2>1, <2>2
  <2>3. CASE restoreBridge' # NoName
    <3>1. other \in net.present /\ other \in Names /\ restoreBridge' = bridge
      BY <1>0, <2>1, <2>3
    <3>2. bridge \in net.bridges["ovs"]
      BY <1>0, <2>3, <3>1 DEF Sound, PortsInBridges
    <3>3. /\ Sound(m) /\ m.bridges = net.bridges /\ m.present = net.present
          /\ \A j \in Kind : \A x \in Names :
                 m.master[j][x] # net.master[j][x] => j = "ovs" /\ x = other
          /\ m.master["ovs"][other] = NoName
      BY <1>0, <3>1, DelPort
    <3>4. net' = net \/ net' = m
      BY <2>1
    <3> HIDE DEF m
    <3> QED
      BY <1>0, <1>1, <1>2, <2>1, <3>1, <3>2, <3>3, <3>4
  <2> QED
    BY <2>2, <2>3
<1> QED
  BY <1>3, <1>4

\* The links are made anew and the other port is put back into its bridge.
LEMMA CreateStep ==
  ASSUME ActionTypeInv, setupEthSwitch_create
  PROVE  /\ Sound(net') /\ net'.bridges = net.bridges
         /\ net.present \ {ETH_BHAUL_IF} \subseteq net'.present
         /\ "command" \in failed' \/ status' = "FAILED" \/
              \A k \in Kind : \A i \in Names \ {req.name} :
                  IF /\ restoreBridge # NoName /\ k = "ovs" /\ i = Other(req.name)
                     /\ net.master[k][i] = NoName
                  THEN net'.master[k][i] = restoreBridge
                  ELSE net'.master[k][i] = net.master[k][i]
<1> DEFINE other == Other(req.name)
           own   == del_port(net, "ovs", net.master["ovs"][req.name], req.name)
           both  == link_add(own, {PUMA7_ETH1, PUMA7_ETH2})
           back  == add_port(both, "ovs", restoreBridge, other)
           alone == link_add(net, {req.name})
           Kept(m) == \A k \in Kind : \A i \in Names \ {req.name} :
                        IF /\ restoreBridge # NoName /\ k = "ovs" /\ i = other
                           /\ net.master[k][i] = NoName
                        THEN m.master[k][i] = restoreBridge
                        ELSE m.master[k][i] = net.master[k][i]
           Fine(m) == /\ Sound(m) /\ m.bridges = net.bridges
                      /\ net.present \subseteq m.present /\ Kept(m)
<1>0. /\ Sound(net) /\ "ovs" \in Kind /\ req.name \in Names
      /\ req.name \in {PUMA7_ETH1, PUMA7_ETH2} /\ other # req.name
      /\ other \in {PUMA7_ETH1, PUMA7_ETH2}
  BY DEF ActionTypeInv, TypeOK, Sound, Kind, Config, setupEthSwitch_create, Other,
         PUMA7_ETH1, PUMA7_ETH2
<1> DEFINE made == IF restoreBridge = NoName THEN alone ELSE back
<1>1. Fine(made)
  <2>1. CASE restoreBridge = NoName
    <3>1. /\ Sound(alone) /\ alone.bridges = net.bridges
          /\ alone.master = net.master /\ net.present \subseteq alone.present
      BY <1>0, LinkAdd
    <3> HIDE DEF alone
    <3> QED
      BY <2>1, <3>1
  <2>2. CASE restoreBridge # NoName
    <3>0. /\ {PUMA7_ETH1, PUMA7_ETH2} \in SUBSET Names /\ other \in Names
          /\ restoreBridge \in net.bridges["ovs"]
      BY <1>0, <2>2 DEF ActionTypeInv, setupEthSwitch_create
    <3> HIDE DEF other
    <3>1. /\ Sound(own) /\ own.bridges = net.bridges /\ own.present = net.present
          /\ \A j \in Kind : \A x \in Names :
                 own.master[j][x] # net.master[j][x] => j = "ovs" /\ x = req.name
      BY <1>0, DelPort
    <3> HIDE DEF own
    <3>2. /\ Sound(both) /\ both.bridges = own.bridges /\ both.master = own.master
          /\ own.present \subseteq both.present
      BY <3>0, <3>1, LinkAdd
    <3> HIDE DEF both
    <3>3. /\ Sound(back) /\ back.bridges = both.bridges /\ back.present = both.present
          /\ \A j \in Kind : \A x \in Names :
                 back.master[j][x] # both.master[j][x] =>
                     j = "ovs" /\ x = other /\ back.master[j][x] = restoreBridge
          /\ both.master["ovs"][other] = NoName => back.master["ovs"][other] = restoreBridge
      BY <1>0, <3>0, <3>1, <3>2, AddPort
    <3>4. both.master["ovs"][other] # NoName => back = both
      BY DEF add_port
    <3> HIDE DEF back
    <3>5. Kept(back)
      <4> SUFFICES ASSUME NEW k \in Kind, NEW i \in Names \ {req.name}
                   PROVE  IF /\ restoreBridge # NoName /\ k = "ovs" /\ i = other
                             /\ net.master[k][i] = NoName
                          THEN back.master[k][i] = restoreBridge
                          ELSE back.master[k][i] = net.master[k][i]
        OBVIOUS
      <4>1. both.master[k][i] = net.master[k][i]
        BY <3>1, <3>2
      <4> QED
        BY <2>2, <3>3, <3>4, <4>1
    <3> QED
      BY <2>2, <3>1, <3>2, <3>3, <3>5
  <2> QED
    BY <2>1, <2>2
<1>2. PICK f \in Fault \cup {"none"}, lost \in SUBSET ({ETH_BHAUL_IF} \cap net.present) :
        /\ failed' = failed \cup ({f} \ {"none"})
        /\ IF f = "lookup" THEN status' = "FAILED" /\ net' = net
           ELSE net' = IF f = "command" THEN net
                       ELSE [made EXCEPT !.present = @ \ lost, !.up = @ \ lost]
  BY FaultsAssumption DEF setupEthSwitch_create, Suffer, Run, MayFail
<1> HIDE DEF made, other
<1>3. CASE f \in {"lookup", "command"}
  <2>1. net' = net /\ ("command" \in failed' \/ status' = "FAILED")
    BY <1>2, <1>3
  <2> QED
    BY <1>0, <2>1
<1>4. CASE f \notin {"lookup", "command"}
  <2>1. net' = [made EXCEPT !.present = @ \ lost, !.up = @ \ lost]
    BY <1>2, <1>4
  <2>2. /\ Sound(net') /\ net'.bridges = made.bridges /\ net'.master = made.master
        /\ net'.present = made.present \ lost
    BY <1>1, <2>1, LinkLost
  <2> QED
    BY <1>1, <2>2 DEF other
<1> QED
  BY <1>3, <1>4

\* The backhaul is put back into its bridge.
LEMMA BhaulStep ==
  ASSUME ActionTypeInv, setupEthSwitch_bhaul
  PROVE  /\ Sound(net') /\ net'.bridges = net.bridges
         /\ net.present \subseteq net'.present
         /\ \A k \in Kind : \A i \in Names :
                net'.master[k][i] # net.master[k][i] =>
                    i = ETH_BHAUL_IF /\ net'.master[k][i] = ETH_BHAUL_BR
<1> DEFINE a == link_add(net, {ETH_BHAUL_IF})
           b == ifconfig(a, ETH_BHAUL_IF, "up")
           c == add_port(b, "ovs", ETH_BHAUL_BR, ETH_BHAUL_IF)
<1>0. Sound(net) /\ "ovs" \in Kind
  BY DEF ActionTypeInv, TypeOK, Sound, Kind
<1>1. CASE net' = net
  BY <1>0, <1>1
<1>2. CASE net' # net
  <2>1. net' = c /\ {ETH_BHAUL_IF} \in SUBSET Names
    BY <1>2 DEF setupEthSwitch_bhaul, Run, ActionTypeInv
  <2>2. /\ Sound(a) /\ a.bridges = net.bridges /\ a.master = net.master
        /\ net.present \subseteq a.present
    BY <1>0, <2>1, LinkAdd
  <2> HIDE DEF a
  <2>3. /\ Sound(b) /\ b.bridges = a.bridges /\ b.master = a.master
        /\ b.present = a.present
    BY <2>1, <2>2, LinkCommands
  <2> HIDE DEF b
  <2>4. /\ Sound(c) /\ c.bridges = b.bridges /\ c.present = b.present
        /\ \A j \in Kind : \A x \in Names :
               c.master[j][x] # b.master[j][x] =>
                   x = ETH_BHAUL_IF /\ c.master[j][x] = ETH_BHAUL_BR
    BY <1>0, <2>3, AddPort
  <2> HIDE DEF c
  <2> QED
    BY <2>1, <2>2, <2>3, <2>4
<1> QED
  BY <1>1, <1>2

----------------------------------------------------------------------------
(* Types *)

\* In a step of the work at most one thing goes wrong, and it is recorded.
LEMMA OneFailure ==
  ASSUME working
  PROVE  \E f \in Fault \cup {"none"} : Suffer(f)
<1> USE FaultsAssumption DEF MayFail
<1>1. CASE delete_interface \/ ovs_createBridge \/ ovs_addPort
  BY <1>1 DEF delete_interface, ovs_createBridge, ovs_addPort
<1>2. CASE ovs_createVlan \/ ovs_createGRE
  BY <1>2 DEF ovs_createVlan, ovs_createGRE, create_link
<1>3. CASE setupEthSwitch_find \/ setupEthSwitch_create \/ setupEthSwitch_bhaul
  BY <1>3 DEF setupEthSwitch_find, setupEthSwitch_create, setupEthSwitch_bhaul
<1>4. CASE removeExistingInterfacePort
  BY <1>4 DEF removeExistingInterfacePort
<1>5. CASE configureParentBridge \/ modifyParentBridge_flows
  BY <1>5 DEF configureParentBridge, modifyParentBridge_flows
<1>6. CASE \/ ovs_setup_port_flows \/ ovs_setup_admin_gui_access
           \/ ovs_block_mso_ui_access
  BY <1>6 DEF ovs_setup_port_flows, ovs_setup_admin_gui_access,
              ovs_block_mso_ui_access
<1> QED
  BY <1>1, <1>2, <1>3, <1>4, <1>5, <1>6 DEF working

\* The points the eth switch passes, and what is not touched there.
LEMMA SwitchControl ==
  ASSUME setupEthSwitch_find \/ setupEthSwitch_create \/ setupEthSwitch_bhaul
         \/ delete_interface
  PROVE  /\ UNCHANGED <<req, before, remade, envVars>>
         /\ setupEthSwitch_find \/ UNCHANGED localVars
         /\ setupEthSwitch_find => pc = "other" /\ pc' \in {"ethCreate", "answer"}
         /\ setupEthSwitch_create => pc = "ethCreate" /\ pc' = "ethBhaul"
         /\ setupEthSwitch_bhaul => pc = "ethBhaul" /\ pc' \in {"link", "answer"}
         /\ delete_interface => pc = "delete" /\ pc' = "answer"
<1> USE DEF configVars, rowVars
<1>1. CASE setupEthSwitch_find
  BY <1>1 DEF setupEthSwitch_find, setupEthSwitch_create, setupEthSwitch_bhaul,
              delete_interface
<1>2. CASE setupEthSwitch_create
  BY <1>2 DEF setupEthSwitch_find, setupEthSwitch_create, setupEthSwitch_bhaul,
              delete_interface
<1>3. CASE setupEthSwitch_bhaul
  BY <1>3 DEF setupEthSwitch_find, setupEthSwitch_create, setupEthSwitch_bhaul,
              delete_interface
<1>4. CASE delete_interface
  BY <1>4 DEF setupEthSwitch_find, setupEthSwitch_create, setupEthSwitch_bhaul,
              delete_interface
<1> QED
  BY <1>1, <1>2, <1>3, <1>4

\* The work on a row.
LEMMA WorkTypes ==
  ASSUME RowInv, ActionTypeInv, working
  PROVE  ActionTypeInv'
<1>0. /\ pc' \in Point /\ status' \in {"SUCCESS", "FAILED"}
      /\ UNCHANGED <<rows, handled, feedback>>
  BY WorkStaysInRow DEF InRow, rowSteps
<1>1. faults' \in Nat /\ failed' \subseteq Fault
  <2>1. PICK f \in Fault \cup {"none"} : Suffer(f)
    BY OneFailure
  <2> QED
    BY <2>1 DEF Suffer, Count, ActionTypeInv, TypeOK
<1>2. ASSUME Sound(net'), UNCHANGED <<req, before, remade, envVars>>,
             restoreBridge' \in Names \cup {NoName}, ethBhaulFound' \in BOOLEAN
      PROVE  TypeOK' /\ PortsInBridges(net)'
  BY <1>0, <1>1, <1>2 DEF ActionTypeInv, TypeOK, Sound, envVars
<1>3. CASE ordinary
  <2>1. Sound(net')
    BY <1>3, OrdinaryLocal DEF Local
  <2>2. TypeOK' /\ PortsInBridges(net)'
    BY <1>2, <1>3, <2>1, OrdinaryControl DEF localVars, ActionTypeInv, TypeOK
  <2> QED
    BY <1>3, <2>2, OrdinaryControl DEF localVars, ActionTypeInv
<1>4. CASE delete_interface
  <2>1. TypeOK' /\ PortsInBridges(net)'
    BY <1>2, <1>4, DeleteStep, SwitchControl DEF localVars, ActionTypeInv, TypeOK
  <2> QED
    BY <1>4, <2>1, SwitchControl DEF localVars, ActionTypeInv
<1>5. CASE setupEthSwitch_find
  <2>0. net.bridges["ovs"] \subseteq Names /\ net.present \subseteq Names
        /\ req.name \in Names /\ ethBhaulFound' \in BOOLEAN
    BY <1>5 DEF ActionTypeInv, TypeOK, Net, Kind, Config, setupEthSwitch_find
  <2>1. TypeOK' /\ PortsInBridges(net)'
    BY <1>2, <1>5, <2>0, FindStep, SwitchControl DEF ActionTypeInv, TypeOK
  <2>2. pc' \in {"ethCreate", "answer"} /\ req' = req
    BY <1>5, SwitchControl
  <2>3. ethBhaulFound' => ETH_BHAUL_IF \in Names
    BY <1>5, <2>0, FindStep
  <2>4. pc' = "ethCreate" /\ restoreBridge' # NoName =>
            /\ {PUMA7_ETH1, PUMA7_ETH2} \subseteq Names
            /\ restoreBridge' \in net'.bridges["ovs"]
    BY <1>5, <2>0, FindStep DEF Other
  <2>5. req.name \in {PUMA7_ETH1, PUMA7_ETH2}
    BY <1>5, FindStep
  <2> QED
    BY <2>1, <2>2, <2>3, <2>4, <2>5 DEF ActionTypeInv
<1>6. CASE setupEthSwitch_create
  <2>1. TypeOK' /\ PortsInBridges(net)'
    BY <1>2, <1>6, CreateStep, SwitchControl DEF localVars, ActionTypeInv, TypeOK,
       setupEthSwitch_create
  <2> QED
    BY <1>6, <2>1, SwitchControl DEF localVars, ActionTypeInv, setupEthSwitch_create
<1>7. CASE setupEthSwitch_bhaul
  <2>1. TypeOK' /\ PortsInBridges(net)'
    BY <1>2, <1>7, BhaulStep, SwitchControl DEF localVars, ActionTypeInv, TypeOK,
       setupEthSwitch_bhaul
  <2> QED
    BY <1>7, <2>1, SwitchControl DEF localVars, ActionTypeInv, setupEthSwitch_bhaul
<1> QED
  BY <1>3, <1>4, <1>5, <1>6, <1>7 DEF working, ordinary

\* hostapd adds a bridge.
LEMMA HostapdStep ==
  ASSUME ActionTypeInv, hostapd
  PROVE  /\ Sound(net') /\ net'.master = net.master /\ net'.present = net.present
         /\ \A k \in Kind : net.bridges[k] \subseteq net'.bridges[k]
<1>1. Sound(net) /\ "ovs" \in Kind
  BY DEF ActionTypeInv, TypeOK, Sound, Kind
<1> QED
  BY <1>1, AddBridge, HostapdAssumption DEF hostapd

\* Types, and ports within existing bridges, are kept by every step.
LEMMA ActionTypeNext ==
  ASSUME RowInv, ActionTypeInv, [Next]_vars
  PROVE  ActionTypeInv'
<1>0. RowInv'
  BY RowStep
<1>1. NoRow \in Config
  BY ConfigsAssumption DEF NoRow
<1>2. /\ pc' \in Point /\ status' \in {"SUCCESS", "FAILED"} /\ rows' \in Seq(Config)
      /\ handled' \in 0 .. Len(rows')
      /\ feedback' \in Seq([row: Nat, status: {"SUCCESS", "FAILED"}])
  BY <1>0 DEF RowInv
<1>3. CASE insert_row
  BY <1>2, <1>3 DEF insert_row, ActionTypeInv, TypeOK, localVars, envVars
<1>4. CASE ovs_action_init
  <2>1. PICK f \in Fault \cup {"none"} : Suffer(f)
    BY <1>4, FaultsAssumption DEF ovs_action_init, MayFail
  <2>2. faults' \in Nat /\ failed' \subseteq Fault /\ pc' \in {"off", "listen"}
    BY <1>4, <2>1 DEF ovs_action_init, Suffer, Count, ActionTypeInv, TypeOK
  <2> QED
    BY <1>2, <1>4, <2>2 DEF ovs_action_init, ActionTypeInv, TypeOK, localVars, envVars
<1>5. CASE ovs_action_gateway_config
  <2>1. handled' \in 1 .. Len(rows)
    BY <1>5, RowTaken
  <2>2. req' \in Config
    BY <1>5, <2>1, ElementOfSeq DEF ovs_action_gateway_config, RowInv
  <2>3. pc' \in {"delete", "bridge", "vlan", "gre", "other"}
    BY <1>5, <2>2 DEF ovs_action_gateway_config, Config
  <2> QED
    BY <1>2, <1>5, <2>2, <2>3
    DEF ovs_action_gateway_config, ActionTypeInv, TypeOK, localVars, envVars
<1>6. CASE gwconf_mon_cb
  <2>1. PICK f \in Fault \cup {"none"} : Count(f) /\ failed' = {f} \ {"none"}
    BY <1>6, FaultsAssumption DEF gwconf_mon_cb, MayFail
  <2>2. faults' \in Nat /\ failed' \subseteq Fault
    BY <2>1 DEF Count, ActionTypeInv, TypeOK
  <2> QED
    BY <1>1, <1>2, <1>6, <2>2
    DEF gwconf_mon_cb, Forget, ActionTypeInv, TypeOK, envVars
<1>7. CASE working
  BY <1>7, WorkTypes
<1>8. CASE ovsdb_closed
  BY <1>2, <1>8 DEF ovsdb_closed, Count, ActionTypeInv, TypeOK, rowVars, localVars,
                    envVars
<1>9. CASE crash
  <2>1. /\ pc' = "off" /\ failed' = {} /\ net' = net /\ UNCHANGED envVars
        /\ req' = NoRow /\ before' = net /\ remade' = FALSE
        /\ restoreBridge' = NoName /\ ethBhaulFound' = FALSE
    BY <1>9 DEF crash, Forget
  <2>2. faults' \in Nat
    BY <1>9 DEF crash, Count, ActionTypeInv, TypeOK
  <2>3. TypeOK' /\ PortsInBridges(net)'
    BY <1>1, <1>2, <2>1, <2>2 DEF ActionTypeInv, TypeOK, envVars, PortsInBridges
  <2> QED
    BY <2>1, <2>3 DEF ActionTypeInv
<1>10. CASE hostapd
  <2>1. /\ UNCHANGED <<req, before, handled, rows, localVars, envVars, pc, status,
                        feedback, faults, failed>>
        /\ remade' = TRUE
    BY <1>10 DEF hostapd
  <2>2. TypeOK' /\ PortsInBridges(net)'
    BY <1>2, <1>10, <2>1, HostapdStep DEF ActionTypeInv, TypeOK, Sound, rowVars,
       localVars, envVars
  <2>3. net.bridges["ovs"] \subseteq net'.bridges["ovs"]
    BY <1>10, HostapdStep DEF Kind
  <2> QED
    BY <2>1, <2>2, <2>3 DEF ActionTypeInv, rowVars, localVars, envVars
<1>11. CASE quiet \/ UNCHANGED vars
  BY <1>11 DEF quiet, vars, ActionTypeInv, TypeOK, PortsInBridges, rowVars, localVars,
               envVars
<1>12. CASE update_lost
  <2>1. /\ faults' \in Nat /\ failed' \subseteq Fault
        /\ pc = "listen" /\ pc' = "listen"
    BY <1>12 DEF update_lost, Count, ActionTypeInv, TypeOK, Fault
  <2> QED
    BY <1>2, <1>12, <2>1 DEF update_lost, ActionTypeInv, TypeOK, localVars, envVars
<1> QED
  BY <1>3, <1>4, <1>5, <1>6, <1>7, <1>8, <1>9, <1>10, <1>11, <1>12
  DEF Next, agent, working

\* They hold for every initial network of the assumption.
LEMMA ActionTypeInit == Init => ActionTypeInv
<1>1. NoRow \in Config
  BY ConfigsAssumption DEF NoRow
<1> SUFFICES ASSUME Init PROVE ActionTypeInv
  OBVIOUS
<1>2. net \in Net /\ before \in Net /\ PortsInBridges(net)
  BY NetsAssumption DEF Init
<1>3. /\ rows \in Seq(Config) /\ handled \in 0 .. Len(rows)
      /\ feedback \in Seq([row: Nat, status: {"SUCCESS", "FAILED"}])
  BY InitRowInv DEF RowInv
<1>4. TypeOK
  BY <1>1, <1>2, <1>3 DEF Init, TypeOK, Point
<1> QED
  BY <1>2, <1>4 DEF Init, ActionTypeInv

\* The row in work is always counted as handled.
LEMMA RowInvariant == Spec => []RowInv
<1>1. RowInv /\ [Next]_vars => RowInv'
  BY RowStep
<1> QED
  BY <1>1, InitRowInv, PTL DEF Spec

\* Types hold in every reachable state.
LEMMA ActionTypeInvariant == Spec => []ActionTypeInv
<1>1. RowInv /\ ActionTypeInv /\ [Next]_vars => ActionTypeInv'
  BY ActionTypeNext
<1> QED
  BY <1>1, ActionTypeInit, RowInvariant, PTL DEF Spec

\* The agent's variables keep their types: whatever rows ask for and whatever
\* fails, no command makes a port of a bridge that is not there, or of no bridge
\* at all.
THEOREM ActionTypeCorrect == Spec => [](TypeOK /\ PortsInBridges(net))
<1>1. ActionTypeInv => TypeOK /\ PortsInBridges(net)
  BY DEF ActionTypeInv
<1> QED
  BY <1>1, ActionTypeInvariant, PTL

----------------------------------------------------------------------------
(* Failures *)

\* What the failures of a row say about the point p and the status s.
Excused(p, s, fs) ==
    /\ fs \subseteq {"command", "list", "address", "mac", "lookup", "param"}
    /\ "lookup" \in fs => s = "FAILED" /\ p \in {"ethBhaul", "answer"}
    /\ "param" \in fs => s = "FAILED" /\ p = "answer"
    /\ "list" \in fs => \/ ~Exists(before, req.parent)
                        \/ req.parent = ETH_BHAUL_IF
                        \/ s = "FAILED" /\ p = "answer"
    /\ fs \cap {"address", "mac"} # {} => IsGuiPort

\* An ordinary step, by what can go wrong in it.
LEMMA OrdinaryFailures ==
  ASSUME ActionTypeInv, FailureInv, ordinary
  PROVE  Excused(pc', status', failed')
<1>0. /\ pc \in InRow \ {"delete", "ethCreate", "ethBhaul", "answer"}
      /\ Excused(pc, status, failed)
  BY OrdinaryControl DEF FailureInv, Excused
<1>1. CASE \/ ovs_createBridge \/ ovs_createVlan \/ ovs_createGRE \/ ovs_addPort
           \/ modifyParentBridge_flows \/ ovs_setup_port_flows
  <2>1. failed' \subseteq failed \cup {"command"}
    BY <1>1 DEF ovs_createBridge, ovs_createVlan, ovs_createGRE, create_link,
       ovs_addPort, modifyParentBridge_flows, ovs_setup_port_flows, Suffer, MayFail
  <2> QED
    BY <1>0, <2>1 DEF Excused
<1>2. CASE removeExistingInterfacePort
  <2>1. \/ failed' \subseteq failed \cup {"command"}
        \/ /\ failed' = failed \cup {"lookup"}
           /\ status' = "FAILED" /\ pc' = "answer"
    BY <1>2 DEF removeExistingInterfacePort, Suffer, MayFail
  <2> QED
    BY <1>0, <2>1 DEF Excused
<1>3. CASE configureParentBridge
  <2>0. req.parent \in Names
    BY <1>3 DEF configureParentBridge, ActionTypeInv, TypeOK, Config
  <2>1. \/ failed' \subseteq failed \cup {"command"}
        \/ /\ failed' = failed \cup {"list"}
           /\ Exists(net, req.parent) => status' = "FAILED" /\ pc' = "answer"
    BY <1>3 DEF configureParentBridge, Suffer, MayFail, AfterParent
  <2>2. ~Exists(net, req.parent)
          => ~Exists(before, req.parent) \/ req.parent = ETH_BHAUL_IF
    BY <1>0, <2>0 DEF FailureInv
  <2> QED
    BY <1>0, <2>1, <2>2 DEF Excused
<1>4. CASE ovs_setup_admin_gui_access
  <2>1. IsGuiPort /\ failed' \subseteq failed \cup {"command", "address", "mac"}
    BY <1>4 DEF ovs_setup_admin_gui_access, Suffer, MayFail
  <2> QED
    BY <1>0, <2>1 DEF Excused
<1>5. CASE ovs_block_mso_ui_access
  <2>1. \/ failed' \subseteq failed \cup {"command"}
        \/ /\ failed' = failed \cup {"param"}
           /\ status' = "FAILED" /\ pc' = "answer"
    BY <1>5 DEF ovs_block_mso_ui_access, Suffer, MayFail
  <2> QED
    BY <1>0, <2>1 DEF Excused
<1> QED
  BY <1>1, <1>2, <1>3, <1>4, <1>5 DEF ordinary

\* The eth switch keeps a failed lookup to the end, and a deletion has none.
LEMMA SwitchFailures ==
  ASSUME FailureInv,
         setupEthSwitch_find \/ setupEthSwitch_create \/ setupEthSwitch_bhaul
         \/ delete_interface
  PROVE  Excused(pc', status', failed')
<1>1. CASE setupEthSwitch_find
  <2>1. pc = "other" /\ Excused(pc, status, failed)
    BY <1>1 DEF setupEthSwitch_find, FailureInv, Excused, InRow, Point, Idle
  <2>2. \/ failed' \subseteq failed \cup {"command"}
        \/ failed' = failed \cup {"lookup"} /\ status' = "FAILED" /\ pc' = "answer"
    BY <1>1 DEF setupEthSwitch_find, Suffer, MayFail
  <2> QED
    BY <2>1, <2>2 DEF Excused
<1>2. CASE setupEthSwitch_create
  <2>1. pc = "ethCreate" /\ pc' = "ethBhaul" /\ Excused(pc, status, failed)
    BY <1>2 DEF setupEthSwitch_create, FailureInv, Excused, InRow, Point, Idle
  <2>2. \/ failed' \subseteq failed \cup {"command"}
        \/ failed' = failed \cup {"lookup"} /\ status' = "FAILED"
    BY <1>2 DEF setupEthSwitch_create, Suffer, MayFail
  <2> QED
    BY <2>1, <2>2 DEF Excused
<1>3. CASE setupEthSwitch_bhaul
  <2>1. pc = "ethBhaul" /\ Excused(pc, status, failed)
    BY <1>3 DEF setupEthSwitch_bhaul, FailureInv, Excused, InRow, Point, Idle
  <2>2. /\ failed' \subseteq failed \cup {"command"} /\ status' = status
        /\ status = "FAILED" => pc' = "answer"
    BY <1>3 DEF setupEthSwitch_bhaul, Suffer, MayFail
  <2> QED
    BY <2>1, <2>2 DEF Excused
<1>4. CASE delete_interface
  <2>1. pc = "delete" /\ Excused(pc, status, failed)
    BY <1>4 DEF delete_interface, FailureInv, Excused, InRow, Point, Idle
  <2>2. failed' \subseteq failed \cup {"command"}
    BY <1>4 DEF delete_interface, Suffer, MayFail
  <2> QED
    BY <2>1, <2>2 DEF Excused
<1> QED
  BY <1>1, <1>2, <1>3, <1>4

\* Links and bridges stay while a row is in work, but for the backhaul link.
LEMMA WorkKeepsLinks ==
  ASSUME ActionTypeInv, working, pc' # "answer",
         NEW x \in Names \ {ETH_BHAUL_IF}, Exists(net, x)
  PROVE  Exists(net', x)
<1> USE DEF Exists
<1>1. CASE ordinary
  BY <1>1, OrdinaryLocal DEF Local, Kind
<1>2. CASE setupEthSwitch_find
  BY <1>2, FindStep
<1>3. CASE setupEthSwitch_create
  BY <1>3, CreateStep
<1>4. CASE setupEthSwitch_bhaul
  BY <1>4, BhaulStep
<1>5. CASE delete_interface
  BY <1>5, SwitchControl
<1> QED
  BY <1>1, <1>2, <1>3, <1>4, <1>5 DEF working, ordinary

\* A failure the code notices stays in the status, or is one of the excused ones.
LEMMA FailureNext ==
  ASSUME RowInv, ActionTypeInv, FailureInv, [Next]_vars
  PROVE  FailureInv'
<1>1. CASE working
  <2>1. pc \in InRow /\ Excused(pc', status', failed')
    BY <1>1, OrdinaryFailures, SwitchFailures, WorkStaysInRow DEF working, ordinary
  <2>2. UNCHANGED <<req, before>> /\ pc # "answer"
    BY <1>1, OrdinaryControl, SwitchControl DEF working, ordinary
  <2>3. pc' # "answer" =>
          \A x \in Names \ {ETH_BHAUL_IF} : Exists(before, x) => Exists(net', x)
    BY <1>1, <2>1, <2>2, WorkKeepsLinks DEF FailureInv
  <2> QED
    BY <2>1, <2>2, <2>3 DEF FailureInv, Excused, Exists, IsGuiPort
<1>2. CASE ovs_action_gateway_config
  BY <1>2 DEF ovs_action_gateway_config, FailureInv, Exists
<1>3. CASE \/ ovs_action_init \/ gwconf_mon_cb \/ update_lost \/ ovsdb_closed
            \/ crash
  <2>1. pc' \notin InRow
    BY <1>3 DEF ovs_action_init, gwconf_mon_cb, update_lost, ovsdb_closed, crash,
         InRow, Idle
  <2> QED
    BY <2>1 DEF FailureInv
<1>4. CASE hostapd
  <2>1. UNCHANGED <<pc, status, failed, req, before>>
    BY <1>4 DEF hostapd
  <2>2. \A x : Exists(net, x) => Exists(net', x)
    BY <1>4, HostapdStep DEF Exists, Kind
  <2> QED
    BY <2>1, <2>2 DEF FailureInv, Exists, IsGuiPort
<1>5. CASE insert_row \/ quiet \/ UNCHANGED vars
  BY <1>5 DEF insert_row, quiet, vars, rowVars, FailureInv, Exists, IsGuiPort
<1> QED
  BY <1>1, <1>2, <1>3, <1>4, <1>5 DEF Next, agent, working

\* This holds in every reachable state.
LEMMA FailureInvariant == Spec => []FailureInv
<1>1. Init => FailureInv
  BY DEF Init, FailureInv, InRow, Idle
<1>2. RowInv /\ ActionTypeInv /\ FailureInv /\ [Next]_vars => FailureInv'
  BY FailureNext
<1> QED
  BY <1>1, <1>2, RowInvariant, ActionTypeInvariant, PTL DEF Spec

\* A row is not answered with SUCCESS after a failure that the code has noticed,
\* for any rows, any number of failures and any initial network: only the listing
\* of a new bridge's ports and the reading of lan0's addresses are overwritten.
THEOREM NoticedCorrect == Spec => []NoticedFailuresReported
<1>1. FailureInv => NoticedFailuresReported
  BY DEF FailureInv, NoticedFailuresReported, InRow, Point, Idle
<1> QED
  BY <1>1, FailureInvariant, PTL

----------------------------------------------------------------------------
(* Other ports *)

\* A step that moves no port but the row's own.
LEMMA PortsStay ==
  ASSUME PortInv, pc \in InRow \ {"answer", "ethCreate", "ethBhaul"},
         UNCHANGED <<req, before>>, failed \subseteq failed', pc' # "ethCreate",
         \A k \in Kind : \A i \in Names \ {req.name} :
             net'.master[k][i] = net.master[k][i]
  PROVE  "command" \notin failed' =>
           \A k \in Kind : \A i \in Names \ {req.name} :
               net'.master[k][i] # before.master[k][i] => Moved(k, i)'
  BY DEF PortInv, Moved, Lifted

\* Whatever has moved since the row was taken is accounted for.
LEMMA PortNext ==
  ASSUME RowInv, ActionTypeInv, PortInv, [Next]_vars
  PROVE  PortInv'
<1> USE DEF PortInv
<1>1. CASE working
  <2>0. /\ UNCHANGED <<req, before>>
        /\ pc' \notin {"delete", "bridge", "vlan", "gre", "other"}
        /\ failed \subseteq failed'
    BY <1>1, OrdinaryControl, SwitchControl, OneFailure DEF working, ordinary, Suffer
  <2>1. CASE ordinary
    <3>1. /\ pc \in InRow \ {"answer", "ethCreate", "ethBhaul"}
          /\ pc' # "ethCreate"
      BY <2>1, OrdinaryControl
    <3>2. \A k \in Kind : \A i \in Names \ {req.name} :
              net'.master[k][i] = net.master[k][i]
      BY <2>1, OrdinaryLocal DEF Local
    <3> QED
      BY <2>0, <3>1, <3>2, PortsStay
  <2>2. CASE delete_interface
    <3>1. net.master = before.master /\ pc = "delete" /\ pc' = "answer"
      BY <2>2, SwitchControl
    <3>2. req.cmd = "delete"
      BY <3>1
    <3>3. \A k \in Kind : \A i \in Names \ {req.name} :
              net'.master[k][i] # before.master[k][i] => Moved(k, i)'
      BY <2>0, <2>2, <3>1, <3>2, DeleteStep DEF Moved
    <3> QED
      BY <2>0, <3>1, <3>3
  <2>3. CASE setupEthSwitch_find
    <3>1. net.master = before.master
      BY <2>3, SwitchControl
    <3>2. pc' \in {"ethCreate", "answer"} /\ (pc' = "answer" => status' = "FAILED")
      BY <2>3, FindStep, SwitchControl
    <3>3. ASSUME pc' = "ethCreate", NEW k \in Kind, NEW i \in Names \ {req.name},
                 net'.master[k][i] # net.master[k][i]
          PROVE  Lifted(k, i)'
      BY <2>0, <2>3, <3>1, <3>3, FindStep DEF Lifted
    <3>4. pc' = "ethCreate" /\ restoreBridge' # NoName =>
              restoreBridge' = before.master["ovs"][Other(req.name)]
      BY <2>3, <3>1, FindStep
    <3> QED
      BY <2>0, <3>1, <3>2, <3>3, <3>4
  <2>4. CASE setupEthSwitch_create
    <3>1. pc = "ethCreate" /\ pc' = "ethBhaul" /\ UNCHANGED <<restoreBridge, req, before>>
      BY <2>4, SwitchControl DEF localVars
    <3>2. ASSUME "command" \notin failed', status' # "FAILED",
                 NEW k \in Kind, NEW i \in Names \ {req.name},
                 net'.master[k][i] # before.master[k][i]
          PROVE  Moved(k, i)'
      <4>1. IF /\ restoreBridge # NoName /\ k = "ovs" /\ i = Other(req.name)
               /\ net.master[k][i] = NoName
            THEN net'.master[k][i] = restoreBridge
            ELSE net'.master[k][i] = net.master[k][i]
        BY <2>4, <3>2, CreateStep
      <4>2. net.master[k][i] # before.master[k][i] => Moved(k, i) \/ Lifted(k, i)
        BY <2>0, <3>1, <3>2 DEF InRow, Point, Idle
      <4>3. CASE Lifted(k, i)
        BY <3>1, <3>2, <4>1, <4>3 DEF Lifted
      <4>4. CASE ~Lifted(k, i) /\ net'.master[k][i] = net.master[k][i]
        BY <3>1, <3>2, <4>2, <4>4 DEF Moved
      <4>5. CASE ~Lifted(k, i) /\ net'.master[k][i] # net.master[k][i]
        BY <3>1, <4>1, <4>5 DEF Lifted
      <4> QED
        BY <4>3, <4>4, <4>5
    <3> QED
      BY <2>0, <3>1, <3>2
  <2>5. CASE setupEthSwitch_bhaul
    <3>1. /\ pc = "ethBhaul" /\ pc' \in {"link", "answer"} /\ status' = status
          /\ status = "FAILED" => pc' = "answer"
      BY <2>5, SwitchControl DEF setupEthSwitch_bhaul
    <3>2. ASSUME "command" \notin failed', status # "FAILED",
                 NEW k \in Kind, NEW i \in Names \ {req.name},
                 net'.master[k][i] # before.master[k][i]
          PROVE  Moved(k, i)'
      <4>1. net.master[k][i] # before.master[k][i] => Moved(k, i)
        BY <2>0, <3>1, <3>2 DEF InRow, Point, Idle, Lifted
      <4>2. CASE net'.master[k][i] = net.master[k][i]
        BY <2>0, <3>2, <4>1, <4>2 DEF Moved
      <4>3. CASE net'.master[k][i] # net.master[k][i]
        BY <2>5, <4>3, BhaulStep DEF Moved
      <4> QED
        BY <4>2, <4>3
    <3> QED
      BY <2>0, <3>1, <3>2
  <2> QED
    BY <1>1, <2>1, <2>2, <2>3, <2>4, <2>5 DEF working, ordinary
<1>2. CASE ovs_action_gateway_config
  <2>1. handled' \in 1 .. Len(rows)
    BY <1>2, RowTaken
  <2>2. req' \in Config
    BY <1>2, <2>1, ElementOfSeq DEF ovs_action_gateway_config, RowInv
  <2>3. /\ pc' \in {"delete", "bridge", "vlan", "gre", "other"}
        /\ pc' = "delete" => req'.cmd = "delete"
    BY <1>2, <2>2 DEF ovs_action_gateway_config, Config
  <2>4. net' = net /\ before' = net
    BY <1>2 DEF ovs_action_gateway_config
  <2> QED
    BY <2>3, <2>4
<1>3. CASE \/ ovs_action_init \/ gwconf_mon_cb \/ update_lost \/ ovsdb_closed
            \/ crash
  <2>1. pc' \in Idle
    BY <1>3 DEF ovs_action_init, gwconf_mon_cb, update_lost, ovsdb_closed, crash,
         Idle, RowInv
  <2> QED
    BY <2>1 DEF InRow, Idle
<1>4. CASE hostapd
  <2>1. UNCHANGED <<pc, status, failed, req, before, restoreBridge>>
    BY <1>4 DEF hostapd, localVars
  <2>2. net'.master = net.master
    BY <1>4, HostapdStep
  <2> QED
    BY <2>1, <2>2 DEF Moved, Lifted
<1>5. CASE insert_row \/ quiet \/ UNCHANGED vars
  BY <1>5 DEF insert_row, quiet, vars, rowVars, localVars, Moved, Lifted
<1> QED
  BY <1>1, <1>2, <1>3, <1>4, <1>5 DEF Next, agent, working

\* This holds in every reachable state.
LEMMA PortInvariant == Spec => []PortInv
<1>1. Init => PortInv
  BY DEF Init, PortInv, InRow, Idle
<1>2. RowInv /\ ActionTypeInv /\ PortInv /\ [Next]_vars => PortInv'
  BY PortNext
<1> QED
  BY <1>1, <1>2, RowInvariant, ActionTypeInvariant, PTL DEF Spec

\* Whatever rows are handled, a row that is carried out leaves the other ports in
\* their bridges: the port that the eth switch takes out of its bridge for a
\* moment is put back, and only a deletion of their own bridge frees ports.
THEOREM UndisturbedCorrect == Spec => []OthersUndisturbed
<1>1. PortInv => OthersUndisturbed
  BY DEF PortInv, OthersUndisturbed, Succeeded, Moved, Lifted, InRow, Point, Idle
<1> QED
  BY <1>1, PortInvariant, PTL

----------------------------------------------------------------------------
(* What the commands do to the row's own bridge and port *)

\* add_bridge adds the bridge if nothing has its name.
LEMMA AddBridgeExact ==
  ASSUME NEW n, Sound(n), NEW k \in Kind, NEW b \in Names
  PROVE  LET m == add_bridge(n, k, b) IN
         \A j \in Kind : m.bridges[j] = IF j = k /\ ~Exists(n, b)
                                        THEN n.bridges[j] \cup {b} ELSE n.bridges[j]
<1> DEFINE m == add_bridge(n, k, b)
           S == n.bridges[k] \cup {b}
<1>1. CASE Exists(n, b)
  BY <1>1 DEF add_bridge
<1>2. CASE ~Exists(n, b)
  <2>1. m = [n EXCEPT !.bridges[k] = S]
    BY <1>2 DEF add_bridge
  <2> HIDE DEF m, S
  <2>2. \A j \in Kind : m.bridges[j] = IF j = k THEN S ELSE n.bridges[j]
    BY <2>1 DEF Sound, Net
  <2> QED
    BY <1>2, <2>2 DEF S, m
<1> QED
  BY <1>1, <1>2

\* del_bridge: the bridge is gone, and Linux bridges are not touched.
LEMMA DelBridgeExact ==
  ASSUME NEW n, Sound(n), NEW b
  PROVE  LET m == del_bridge(n, b) IN
         b \notin m.bridges["ovs"] /\ m.bridges["linux"] = n.bridges["linux"]
<1> DEFINE m == del_bridge(n, b)
           M == [i \in Names |-> IF n.master["ovs"][i] = b THEN NoName
                                 ELSE n.master["ovs"][i]]
           F == {f \in n.flows : f[1] # b}
<1>1. CASE b \notin n.bridges["ovs"]
  BY <1>1 DEF del_bridge
<1>2. CASE b \in n.bridges["ovs"]
  <2>1. m = [n EXCEPT !.bridges["ovs"] = n.bridges["ovs"] \ {b},
                      !.master["ovs"] = M,
                      !.up = n.up \ {b},
                      !.flows = F]
    BY <1>2 DEF del_bridge
  <2> HIDE DEF m, M, F
  <2>2. /\ m.bridges["ovs"] = n.bridges["ovs"] \ {b}
        /\ m.bridges["linux"] = n.bridges["linux"]
    BY <2>1 DEF Sound, Net, Kind
  <2> QED
    BY <2>2 DEF m
<1> QED
  BY <1>1, <1>2

\* link_del: the link is gone.
LEMMA LinkDelExact ==
  ASSUME NEW n, Sound(n), NEW i
  PROVE  i \notin link_del(n, i).present
  BY DEF link_del, Sound, Net

\* Ports and links do not matter to flows, and a port that is free comes into the
\* bridge.
LEMMA AddPortExact ==
  ASSUME NEW n, Sound(n), NEW k \in Kind, NEW b, NEW i
  PROVE  LET m == add_port(n, k, b, i) IN
         /\ m.up = n.up /\ m.flows = n.flows
         /\ /\ i \in Names /\ b \in n.bridges[k] /\ n.master[k][i] = NoName
            /\ i \in n.present /\ (k = "linux" => n.master["ovs"][i] = NoName)
            => m.master[k][i] = b
<1> DEFINE m == add_port(n, k, b, i)
<1>1. CASE m = n
  <2>1. i \in Names /\ b \in n.bridges[k] /\ n.master[k][i] = NoName
        /\ i \in n.present /\ (k = "linux" => n.master["ovs"][i] = NoName)
        => m = [n EXCEPT !.master[k][i] = b]
    BY DEF add_port
  <2>2. ASSUME i \in Names, b \in n.bridges[k], m = [n EXCEPT !.master[k][i] = b]
        PROVE  m.master[k][i] = b
    BY <2>2, SetMaster
  <2> HIDE DEF m
  <2>3. m.up = n.up /\ m.flows = n.flows
    BY <1>1
  <2> QED
    BY <2>1, <2>2, <2>3 DEF m
<1>2. CASE m # n
  <2>1. b \in n.bridges[k] /\ m = [n EXCEPT !.master[k][i] = b]
    BY <1>2 DEF add_port
  <2>2. m.up = n.up /\ m.flows = n.flows
    BY <2>1 DEF Sound, Net
  <2>3. i \in Names => m.master[k][i] = b
    BY <2>1, SetMaster
  <2> QED
    BY <2>2, <2>3
<1> QED
  BY <1>1, <1>2

\* The same of a port that leaves; it is then in no bridge.
LEMMA DelPortExact ==
  ASSUME NEW n, Sound(n), NEW k \in Kind, NEW b, NEW i \in Names
  PROVE  LET m == del_port(n, k, b, i) IN
         /\ m.up = n.up /\ m.flows = n.flows
         /\ m.master[k][i] = IF n.master[k][i] = b THEN NoName ELSE n.master[k][i]
<1> DEFINE m == del_port(n, k, b, i)
<1>1. CASE n.master[k][i] # b
  BY <1>1 DEF del_port
<1>2. CASE n.master[k][i] = b
  <2>1. m = [n EXCEPT !.master[k][i] = NoName]
    BY <1>2 DEF del_port
  <2>2. m.up = n.up /\ m.flows = n.flows /\ m.master[k][i] = NoName
    BY <2>1, SetMaster
  <2> QED
    BY <1>2, <2>2
<1> QED
  BY <1>1, <1>2

\* ifconfig brings up or down what exists.
LEMMA IfconfigExact ==
  ASSUME NEW n, Sound(n), NEW x \in Names, NEW cmd
  PROVE  LET m == ifconfig(n, x, cmd) IN
         /\ m.flows = n.flows
         /\ \A y : y # x => (y \in m.up <=> y \in n.up)
         /\ cmd = "up" /\ Exists(n, x) => x \in m.up
         /\ cmd = "down" => x \notin m.up
<1> DEFINE m == ifconfig(n, x, cmd)
<1>1. ASSUME NEW u, m = [n EXCEPT !.up = u]
      PROVE  m.up = u /\ m.flows = n.flows
  BY <1>1 DEF Sound, Net
<1>2. CASE cmd = "up" /\ Exists(n, x)
  <2>1. m = [n EXCEPT !.up = n.up \cup {x}]
    BY <1>2 DEF ifconfig
  <2> HIDE DEF m
  <2> QED
    BY <1>1, <1>2, <2>1 DEF m
<1>3. CASE cmd = "down"
  <2>1. m = [n EXCEPT !.up = n.up \ {x}]
    BY <1>3 DEF ifconfig
  <2> HIDE DEF m
  <2> QED
    BY <1>1, <1>3, <2>1 DEF m
<1>4. CASE cmd # "down" /\ ~(cmd = "up" /\ Exists(n, x))
  <2>1. m = n
    BY <1>4 DEF ifconfig
  <2> HIDE DEF m
  <2> QED
    BY <1>4, <2>1 DEF m
<1> QED
  BY <1>2, <1>3, <1>4

\* New links are neither up nor have flows.
LEMMA LinkAddExact ==
  ASSUME NEW n, Sound(n), NEW links
  PROVE  LET m == link_add(n, links) IN m.up = n.up /\ m.flows = n.flows
  BY DEF link_add, Sound, Net

\* Flows of the bridge b are added, if the bridge is there, or deleted; the others
\* stay, and nothing is brought up or down.
LEMMA FlowsExact ==
  ASSUME NEW n, Sound(n), NEW b, NEW fs
  PROVE  /\ LET m == add_flows(n, b, fs) IN
            /\ m.up = n.up
            /\ \A x, f : <<x, f>> \in m.flows <=>
                   <<x, f>> \in n.flows \/ (b \in n.bridges["ovs"] /\ x = b /\ f \in fs)
         /\ LET m == del_flows(n, b, fs) IN
            /\ m.up = n.up
            /\ \A x, f : <<x, f>> \in m.flows <=>
                   <<x, f>> \in n.flows /\ ~(x = b /\ f \in fs)
<1> DEFINE P == {b} \X fs
<1>0. \A x, f : <<x, f>> \in P <=> x = b /\ f \in fs
  OBVIOUS
<1>1. ASSUME NEW S, NEW m, m = [n EXCEPT !.flows = S]
      PROVE  m.flows = S /\ m.up = n.up
  BY <1>1 DEF Sound, Net
<1>2. add_flows(n, b, fs) = IF b \in n.bridges["ovs"]
                            THEN [n EXCEPT !.flows = n.flows \cup P] ELSE n
  BY DEF add_flows
<1>3. del_flows(n, b, fs) = [n EXCEPT !.flows = n.flows \ P]
  BY DEF del_flows
<1> HIDE DEF P
<1>4. LET m == add_flows(n, b, fs) IN
      /\ m.up = n.up
      /\ m.flows = IF b \in n.bridges["ovs"] THEN n.flows \cup P ELSE n.flows
  BY <1>1, <1>2
<1>5. LET m == del_flows(n, b, fs) IN m.up = n.up /\ m.flows = n.flows \ P
  BY <1>1, <1>3
<1> QED
  BY <1>0, <1>4, <1>5

\* The wifi flows bring nothing up or down.
LEMMA BridgeFlowsUp ==
  ASSUME NEW n, Sound(n)
  PROVE  setup_bridge_flows(n).up = n.up
<1> DEFINE cleared == del_flows(n, req.parent, WifiFlows)
           set == add_flows(cleared, req.parent, WifiFlows)
<1>1. WifiFlows \in SUBSET Flow
  BY DEF WifiFlows, Flow
<1>2. Sound(cleared) /\ cleared.up = n.up
  BY <1>1, FlowCommands, FlowsExact
<1>3. set.up = n.up
  <2> HIDE DEF cleared
  <2> QED
    BY <1>2, FlowsExact
<1>4. setup_bridge_flows(n) \in {n, cleared, set}
  BY DEF setup_bridge_flows
<1> HIDE DEF cleared, set
<1> QED
  BY <1>2, <1>3, <1>4

----------------------------------------------------------------------------
(* SUCCESS means that the row's own bridge and port are as it asks.  The   *)
(* invariant says, point by point, how far the step has come.              *)

Early       == {"delete", "bridge", "vlan", "gre", "other"}
EthSwitch   == {"ethCreate", "ethBhaul", "link"}
ToConfigure == {"vlan", "gre", "other"} \cup EthSwitch \cup {"remove", "configure"}
AfterPort   == {"bridgeFlows", "portFlows", "msoFlows"}

\* Which rows come to a point.
ShapeAt(p) ==
    /\ p = "delete" => req.cmd = "delete"
    /\ p = "bridge" => req.type = "bridge" /\ req.cmd # "delete"
    /\ p \in ToConfigure \cup AfterPort => req.type # "bridge" /\ req.cmd # "delete"
    /\ p \in {"vlan", "gre"} => req.type # "other"
    /\ p \in {"other", "portFlows", "msoFlows"} \cup EthSwitch => req.type = "other"
    /\ p \in EthSwitch => NeedsEthSwitch
    /\ p \in {"configure", "bridgeFlows"} => req.cmd # "remove"
    /\ p = "msoFlows" => IsGuiPort /\ modelNum \in GuiModels

\* Until the bridge is configured only hostapd has added one, and the only new
\* links are those of the row and of the eth switch.
FrameAt(p, n, found) ==
    /\ n.bridges["linux"] = before.bridges["linux"]
    /\ before.bridges["ovs"] \subseteq n.bridges["ovs"]
    /\ n.bridges["ovs"] \subseteq
         before.bridges["ovs"] \cup IF remade THEN {"br106"} ELSE {}
    /\ n.present \subseteq before.present \cup {req.name, PUMA7_ETH1, PUMA7_ETH2}
    /\ p \in Early => n.present = before.present
    /\ p \in {"ethCreate", "ethBhaul"} /\ found => ETH_BHAUL_IF \in before.present

\* x is up or down as the row asks.
AsAsked(n, x) == (req.cmd = "up" => x \in n.up) /\ (req.cmd = "down" => x \notin n.up)

\* On the way to the bridge the port loses its obstacles ...
OnTheWay(p, n, s) ==
    LET k == KindOf(req.parent)
    IN  /\ n.master[WrongKind][req.name] = NoName
        /\ p \in {"link", "remove", "configure"} \/ (p = "ethBhaul" /\ s = "SUCCESS")
             => req.name \in n.present
        /\ p \in {"remove", "configure"} => AsAsked(n, req.name)
        /\ p = "configure" \/ req.cmd = "down"
             => n.master[k][req.name] \in {NoName, req.parent}

\* ... and then it is there.
Placed(n) ==
    LET k == KindOf(req.parent)
    IN  /\ req.parent \in n.bridges[k] /\ n.master[k][req.name] = req.parent
        /\ AsAsked(n, req.name) /\ AsAsked(n, req.parent)

Gone(n) == n.master[KindOf(req.parent)][req.name] # req.parent

\* What SuccessIsConfigured asks for.
Configured(n) ==
    /\ /\ req.type = "bridge" /\ req.cmd = "delete"
       /\ req.name \notin before.bridges["linux"]
       => \/ \A k \in Kind : req.name \notin n.bridges[k]
          \/ req.name = "br106" /\ remade
    /\ /\ req.type = "bridge" /\ req.cmd \in {"up", "down"}
       /\ req.name \notin before.bridges["linux"] \cup before.present
       => req.name \in n.bridges["ovs"] /\ AsAsked(n, req.name)
    /\ req.type # "bridge" /\ req.cmd = "delete" => req.name \notin n.present
    /\ req.type # "bridge" /\ req.cmd = "remove" /\ req.parent # NoName => Gone(n)
    /\ req.type # "bridge" /\ req.cmd \in {"up", "down"} /\ PortCanMove =>
         /\ AsAsked(n, req.name)
         /\ req.parent # NoName =>
              /\ n.master[KindOf(req.parent)][req.name] = req.parent
              /\ AsAsked(n, req.parent)

\* The work on a row has come to p without a failed command.
GoodAt(p, s, n, found) ==
    /\ ShapeAt(p)
    /\ p \in Early \cup ToConfigure => FrameAt(p, n, found)
    /\ p \in ToConfigure /\ PortCanMove => OnTheWay(p, n, s)
    /\ p \in AfterPort /\ req.cmd # "remove" /\ PortCanMove => Placed(n)
    /\ p \in AfterPort /\ req.cmd = "remove" => Gone(n)
    /\ p = "answer" /\ s = "SUCCESS" => Configured(n)

ConfigInv ==
    pc \in InRow /\ "command" \notin failed => GoodAt(pc, status, net, ethBhaulFound)

\* The property, for the requests there are.
LEMMA ConfiguredMeans ==
  ASSUME ActionTypeInv
  PROVE  SuccessIsConfigured <=> (Succeeded => Configured(net))
<1>0. /\ req.type \in {"bridge", "vlan", "gre", "other"}
      /\ req.cmd \in {"up", "down", "delete", "remove"}
      /\ req.name # NoName
  BY NamesAssumption DEF ActionTypeInv, TypeOK, Config
<1> DEFINE ends == {req.name, req.parent} \ {NoName}
<1>1. /\ ends \subseteq net.up <=>
           req.name \in net.up /\ (req.parent # NoName => req.parent \in net.up)
      /\ ends \cap net.up = {} <=>
           req.name \notin net.up /\ (req.parent # NoName => req.parent \notin net.up)
  BY <1>0
<1> HIDE DEF ends
<1>2. CASE req.type = "bridge"
  <2>1. BridgeAsAsked <=> Configured(net)
    BY <1>0, <1>2 DEF BridgeAsAsked, Configured, AsAsked
  <2> QED
    BY <1>2, <2>1 DEF SuccessIsConfigured
<1>3. CASE req.type # "bridge"
  <2>1. PortAsAsked <=>
          /\ req.cmd = "delete" => req.name \notin net.present
          /\ req.cmd = "remove" /\ req.parent # NoName => Gone(net)
          /\ req.cmd \in {"up", "down"} /\ PortCanMove =>
               /\ req.parent # NoName =>
                    net.master[KindOf(req.parent)][req.name] = req.parent
               /\ IF req.cmd = "up" THEN ends \subseteq net.up
                  ELSE ends \cap net.up = {}
    BY DEF PortAsAsked, Gone, ends
  <2>2. PortAsAsked <=> Configured(net)
    BY <1>0, <1>1, <1>3, <2>1 DEF Configured, AsAsked
  <2> QED
    BY <1>3, <2>2 DEF SuccessIsConfigured
<1> QED
  BY <1>2, <1>3

\* The two kinds of bridges.
LEMMA TwoKinds ==
  /\ Kind = {"ovs", "linux"} /\ KindOf(req.parent) \in Kind /\ WrongKind \in Kind
  /\ WrongKind # KindOf(req.parent)
  /\ KindOf(req.parent) = "linux" => req.parent # "br106" /\ WrongKind = "ovs"
  /\ KindOf(req.parent) = "ovs" => WrongKind = "linux"
  BY DEF Kind, KindOf, WrongKind

\* What a step of the work may use: types, and where it has come so far.
LEMMA WorkTypesHere ==
  ASSUME ActionTypeInv
  PROVE  /\ Sound(net) /\ req \in Config /\ req.name \in Names
         /\ req.type \in {"bridge", "vlan", "gre", "other"}
         /\ req.cmd \in {"up", "down", "delete", "remove"}
         /\ req.parent \in Names \cup {NoName}
         /\ pc \in {"remove", "configure"} \cup AfterPort => req.parent \in Names
         /\ \A x \in Names : Exists(net, x) <=>
              x \in net.present \cup net.bridges["ovs"] \cup net.bridges["linux"]
  BY DEF ActionTypeInv, TypeOK, Sound, Config, AfterPort, Exists

\* A step without a failed command comes from a state without one, and all of
\* its commands run.
LEMMA CleanStep ==
  ASSUME NEW f, Suffer(f), "command" \notin failed'
  PROVE  f # "command" /\ "command" \notin failed /\ \A n : Run(f, n) => net' = n
  BY DEF Suffer, Run

\* A deletion.
LEMMA DeleteGood ==
  ASSUME ActionTypeInv, delete_interface, "command" \notin failed',
         GoodAt(pc, status, net, ethBhaulFound)
  PROVE  GoodAt(pc', status', net', ethBhaulFound')
<1>1. pc = "delete" /\ pc' = "answer"
  BY SwitchControl
<1>2. net' = IF req.type = "bridge" THEN del_bridge(net, req.name)
             ELSE link_del(net, req.name)
  BY CleanStep DEF delete_interface
<1>3. req.cmd = "delete" /\ net.bridges["linux"] = before.bridges["linux"]
  BY <1>1 DEF GoodAt, ShapeAt, FrameAt, Early
<1>4. /\ req.type = "bridge" =>
           /\ req.name \notin net'.bridges["ovs"]
           /\ net'.bridges["linux"] = before.bridges["linux"]
      /\ req.type # "bridge" => req.name \notin net'.present
  BY <1>2, <1>3, WorkTypesHere, DelBridgeExact, LinkDelExact
<1> QED
  BY <1>1, <1>3, <1>4
  DEF GoodAt, ShapeAt, Configured, Kind, Early, ToConfigure, EthSwitch, AfterPort

\* A bridge is created, and up or down, unless something has its name.
LEMMA CreateBridgeGood ==
  ASSUME ActionTypeInv, ovs_createBridge, "command" \notin failed',
         GoodAt(pc, status, net, ethBhaulFound)
  PROVE  GoodAt(pc', status', net', ethBhaulFound')
<1> DEFINE a == add_bridge(net, "ovs", req.name)
           b == ifconfig(a, req.name, req.cmd)
           c == setup_bridge_flows(b)
<1>1. pc = "bridge" /\ pc' = "answer" /\ net' = c
  BY CleanStep DEF ovs_createBridge
<1>2. req.type = "bridge" /\ req.cmd # "delete"
  BY <1>1 DEF GoodAt, ShapeAt
<1>3. FrameAt("bridge", net, ethBhaulFound)
  BY <1>1 DEF GoodAt, Early
<1>4. /\ Sound(a)
      /\ a.bridges["ovs"] = IF ~Exists(net, req.name)
                            THEN net.bridges["ovs"] \cup {req.name}
                            ELSE net.bridges["ovs"]
  BY WorkTypesHere, AddBridge, AddBridgeExact DEF Kind
<1> HIDE DEF a
<1>5. /\ Sound(b) /\ b.bridges = a.bridges
      /\ req.cmd = "up" /\ Exists(a, req.name) => req.name \in b.up
      /\ req.cmd = "down" => req.name \notin b.up
  BY <1>4, WorkTypesHere, LinkCommands, IfconfigExact
<1> HIDE DEF b
<1>6. c.bridges = b.bridges /\ c.up = b.up
  BY <1>5, BridgeFlows, BridgeFlowsUp
<1> HIDE DEF c
<1>7. ASSUME req.name \notin before.bridges["linux"] \cup before.present
      PROVE  req.name \in net'.bridges["ovs"] /\ AsAsked(net', req.name)
  <2>1. req.name \in a.bridges["ovs"]
    BY <1>3, <1>4, <1>7, WorkTypesHere DEF FrameAt, Early
  <2> QED
    BY <1>1, <1>5, <1>6, <2>1 DEF AsAsked, Exists
<1> QED
  BY <1>1, <1>2, <1>7
  DEF GoodAt, ShapeAt, Configured, Early, ToConfigure, EthSwitch, AfterPort

\* Where a row goes whose link is up or down.
LEMMA LinkDone ==
  ASSUME ActionTypeInv, pc' = AfterLink, status' = status,
         req.type # "bridge", req.cmd # "delete",
         FrameAt("remove", net', ethBhaulFound'),
         PortCanMove => OnTheWay("remove", net', status')
  PROVE  GoodAt(pc', status', net', ethBhaulFound')
<1>1. CASE req.parent = NoName
  <2>1. pc' = "answer"
    BY <1>1 DEF AfterLink
  <2>2. PortCanMove => AsAsked(net', req.name)
    BY DEF OnTheWay
  <2>3. Configured(net')
    BY <1>1, <2>2 DEF Configured
  <2> QED
    BY <2>1, <2>3 DEF GoodAt, ShapeAt, Early, ToConfigure, EthSwitch, AfterPort
<1>2. CASE req.parent # NoName
  <2>1. pc' = "remove"
    BY <1>2 DEF AfterLink
  <2> QED
    BY <2>1 DEF GoodAt, ShapeAt, Early, ToConfigure, EthSwitch, AfterPort
<1> QED
  BY <1>1, <1>2

\* A new link is brought up or down.
LEMMA CreateLinkGood ==
  ASSUME ActionTypeInv, ovs_createVlan \/ ovs_createGRE, "command" \notin failed',
         GoodAt(pc, status, net, ethBhaulFound)
  PROVE  GoodAt(pc', status', net', ethBhaulFound')
<1> DEFINE a == IF req.under THEN link_add(net, {req.name}) ELSE net
           b == ifconfig(a, req.name, req.cmd)
<1>1. /\ pc \in {"vlan", "gre"} /\ pc' = AfterLink /\ status' = status /\ net' = b
      /\ ethBhaulFound' = ethBhaulFound
  BY CleanStep DEF ovs_createVlan, ovs_createGRE, create_link, localVars
<1>2. req.type \notin {"bridge", "other"} /\ req.cmd # "delete"
  BY <1>1 DEF GoodAt, ShapeAt, ToConfigure
<1>3. FrameAt(pc, net, ethBhaulFound) /\ (PortCanMove => OnTheWay(pc, net, status))
  BY <1>1 DEF GoodAt, Early, ToConfigure
<1>4. /\ Sound(a) /\ a.bridges = net.bridges /\ a.master = net.master
      /\ a.present = net.present \cup (IF req.under THEN {req.name} ELSE {})
  BY WorkTypesHere, LinkAdd
<1> HIDE DEF a
<1>5. /\ Sound(b) /\ b.bridges = net.bridges /\ b.master = net.master
      /\ b.present = a.present
      /\ req.cmd = "up" /\ Exists(a, req.name) => req.name \in b.up
      /\ req.cmd = "down" => req.name \notin b.up
  BY <1>4, WorkTypesHere, LinkCommands, IfconfigExact
<1> HIDE DEF b
<1>6. FrameAt("remove", net', ethBhaulFound')
  BY <1>1, <1>3, <1>4, <1>5 DEF FrameAt, Early
<1>7. ASSUME PortCanMove
      PROVE  OnTheWay("remove", net', status')
  <2>1. net.present = before.present
    BY <1>1, <1>3 DEF FrameAt, Early
  <2>2. req.name \in a.present
    BY <1>2, <1>4, <1>7, <2>1 DEF PortCanMove
  <2>3. AsAsked(net', req.name)
    BY <1>1, <1>5, <2>2 DEF AsAsked, Exists
  <2> QED
    BY <1>1, <1>3, <1>5, <1>7, <2>2, <2>3 DEF OnTheWay
<1> QED
  BY <1>1, <1>2, <1>6, <1>7, LinkDone

\* An existing link is brought up or down.
LEMMA AddPortGood ==
  ASSUME ActionTypeInv, ovs_addPort, "command" \notin failed',
         GoodAt(pc, status, net, ethBhaulFound)
  PROVE  GoodAt(pc', status', net', ethBhaulFound')
<1> DEFINE b == ifconfig(net, req.name, req.cmd)
<1>1. /\ pc = "link" \/ (pc = "other" /\ ~NeedsEthSwitch)
      /\ pc' = AfterLink /\ status' = status /\ net' = b
      /\ ethBhaulFound' = ethBhaulFound
  BY CleanStep DEF ovs_addPort, localVars
<1>2. req.type = "other" /\ req.cmd # "delete"
  BY <1>1 DEF GoodAt, ShapeAt, ToConfigure, EthSwitch
<1>3. FrameAt(pc, net, ethBhaulFound) /\ (PortCanMove => OnTheWay(pc, net, status))
  BY <1>1 DEF GoodAt, Early, ToConfigure, EthSwitch
<1>5. /\ Sound(b) /\ b.bridges = net.bridges /\ b.master = net.master
      /\ b.present = net.present
      /\ req.cmd = "up" /\ Exists(net, req.name) => req.name \in b.up
      /\ req.cmd = "down" => req.name \notin b.up
  BY WorkTypesHere, LinkCommands, IfconfigExact
<1> HIDE DEF b
<1>6. FrameAt("remove", net', ethBhaulFound')
  BY <1>1, <1>3, <1>5 DEF FrameAt, Early
<1>7. ASSUME PortCanMove
      PROVE  OnTheWay("remove", net', status')
  <2>1. pc = "other" => net.present = before.present
    BY <1>1, <1>3 DEF FrameAt, Early
  <2>2. req.name \in net.present
    BY <1>1, <1>2, <1>3, <1>7, <2>1 DEF PortCanMove, OnTheWay
  <2>3. AsAsked(net', req.name)
    BY <1>1, <1>5, <2>2 DEF AsAsked, Exists
  <2> QED
    BY <1>1, <1>3, <1>5, <1>7, <2>2, <2>3 DEF OnTheWay
<1> QED
  BY <1>1, <1>2, <1>6, <1>7, LinkDone

\* The other port of the eth switch leaves its bridge; the row's own stays.
LEMMA FindGood ==
  ASSUME ActionTypeInv, setupEthSwitch_find, "command" \notin failed',
         GoodAt(pc, status, net, ethBhaulFound)
  PROVE  GoodAt(pc', status', net', ethBhaulFound')
<1>1. /\ pc = "other" /\ NeedsEthSwitch
      /\ pc' \in {"ethCreate", "answer"} /\ (pc' = "answer" => status' = "FAILED")
  BY FindStep, SwitchControl DEF setupEthSwitch_find
<1>2. req.type = "other" /\ req.cmd = "up"
  BY <1>1 DEF GoodAt, ShapeAt, NeedsEthSwitch, ToConfigure
<1>3. FrameAt(pc, net, ethBhaulFound) /\ (PortCanMove => OnTheWay(pc, net, status))
  BY <1>1 DEF GoodAt, Early, ToConfigure
<1>4. /\ net'.bridges = net.bridges /\ net'.present = net.present
      /\ ethBhaulFound' <=> ETH_BHAUL_IF \in net.present
      /\ \A k \in Kind : net'.master[k][req.name] = net.master[k][req.name]
  <2>1. Other(req.name) # req.name
    BY <1>1 DEF NeedsEthSwitch, Other, PUMA7_ETH1, PUMA7_ETH2
  <2> QED
    BY <2>1, FindStep, WorkTypesHere
<1>5. FrameAt("ethCreate", net', ethBhaulFound')
  BY <1>1, <1>3, <1>4 DEF FrameAt, Early
<1>6. PortCanMove => OnTheWay("ethCreate", net', status')
  BY <1>2, <1>3, <1>4, TwoKinds DEF OnTheWay
<1> QED
  BY <1>1, <1>2, <1>5, <1>6
  DEF GoodAt, ShapeAt, Early, ToConfigure, EthSwitch, AfterPort

\* The links of the eth switch are made, unless the driver could not be asked: the
\* row's own is then in no Open vSwitch bridge, or where it was.
LEMMA CreateOwn ==
  ASSUME ActionTypeInv, setupEthSwitch_create, "command" \notin failed'
  PROVE  \/ status' = "FAILED" /\ net' = net
         \/ /\ net'.present \subseteq net.present \cup {PUMA7_ETH1, PUMA7_ETH2}
            /\ req.name \in net'.present
            /\ net'.master["linux"][req.name] = net.master["linux"][req.name]
            /\ net'.master["ovs"][req.name] \in {NoName, net.master["ovs"][req.name]}
<1> DEFINE other == Other(req.name)
           own   == del_port(net, "ovs", net.master["ovs"][req.name], req.name)
           both  == link_add(own, {PUMA7_ETH1, PUMA7_ETH2})
           back  == add_port(both, "ovs", restoreBridge, other)
           alone == link_add(net, {req.name})
           made  == IF restoreBridge = NoName THEN alone ELSE back
<1>0. /\ "ovs" \in Kind /\ "linux" \in Kind
      /\ req.name \in {PUMA7_ETH1, PUMA7_ETH2} /\ other # req.name
  BY DEF ActionTypeInv, Kind, setupEthSwitch_create, Other, PUMA7_ETH1, PUMA7_ETH2
<1>1. PICK lost \in SUBSET ({ETH_BHAUL_IF} \cap net.present) :
        \/ status' = "FAILED" /\ net' = net
        \/ net' = [made EXCEPT !.present = @ \ lost, !.up = @ \ lost]
  BY CleanStep DEF setupEthSwitch_create
<1>2. /\ Sound(made)
      /\ made.present \subseteq net.present \cup {PUMA7_ETH1, PUMA7_ETH2}
      /\ req.name \in made.present
      /\ made.master["linux"][req.name] = net.master["linux"][req.name]
      /\ made.master["ovs"][req.name] \in {NoName, net.master["ovs"][req.name]}
  <2>1. CASE restoreBridge = NoName
    <3>1. /\ Sound(alone) /\ alone.master = net.master
          /\ alone.present = net.present \cup {req.name}
      BY WorkTypesHere, LinkAdd
    <3> HIDE DEF alone
    <3> QED
      BY <1>0, <2>1, <3>1
  <2>2. CASE restoreBridge # NoName
    <3>0. {PUMA7_ETH1, PUMA7_ETH2} \in SUBSET Names
      BY <2>2 DEF ActionTypeInv, setupEthSwitch_create
    <3> HIDE DEF other
    <3>1. /\ Sound(own) /\ own.present = net.present
          /\ own.master["linux"][req.name] = net.master["linux"][req.name]
          /\ own.master["ovs"][req.name] = NoName
      BY <1>0, WorkTypesHere, DelPort
    <3> HIDE DEF own
    <3>2. /\ Sound(both) /\ both.master = own.master
          /\ both.present = own.present \cup {PUMA7_ETH1, PUMA7_ETH2}
      BY <3>0, <3>1, LinkAdd
    <3> HIDE DEF both
    <3>3. /\ Sound(back) /\ back.present = both.present
          /\ \A j \in Kind : \A x \in Names :
                 back.master[j][x] # both.master[j][x] => x = other
      BY <1>0, <3>2, AddPort
    <3> HIDE DEF back
    <3> QED
      BY <1>0, <2>2, <3>1, <3>2, <3>3, WorkTypesHere
  <2> QED
    BY <2>1, <2>2
<1> HIDE DEF made, other
<1>3. \/ status' = "FAILED" /\ net' = net
      \/ net'.master = made.master /\ net'.present = made.present \ lost
  <2>1. ASSUME net' = [made EXCEPT !.present = @ \ lost, !.up = @ \ lost]
        PROVE  net'.master = made.master /\ net'.present = made.present \ lost
    BY <1>2, <2>1, LinkLost
  <2> QED
    BY <1>1, <2>1
<1>4. req.name \notin lost
  BY <1>0 DEF ETH_BHAUL_IF, PUMA7_ETH1, PUMA7_ETH2
<1> QED
  BY <1>2, <1>3, <1>4

\* So it can move to its bridge, unless the switch driver could not be asked.
LEMMA CreateGood ==
  ASSUME ActionTypeInv, setupEthSwitch_create, "command" \notin failed',
         GoodAt(pc, status, net, ethBhaulFound)
  PROVE  GoodAt(pc', status', net', ethBhaulFound')
<1>1. /\ pc = "ethCreate" /\ pc' = "ethBhaul" /\ ethBhaulFound' = ethBhaulFound
  BY SwitchControl DEF setupEthSwitch_create, localVars
<1>2. req.type = "other" /\ NeedsEthSwitch /\ req.cmd = "up"
  BY <1>1 DEF GoodAt, ShapeAt, NeedsEthSwitch, EthSwitch, ToConfigure
<1>3. FrameAt(pc, net, ethBhaulFound) /\ (PortCanMove => OnTheWay(pc, net, status))
  BY <1>1 DEF GoodAt, Early, ToConfigure, EthSwitch
<1>4. CASE status' = "FAILED" /\ net' = net
  <2>1. FrameAt("ethBhaul", net', ethBhaulFound')
    BY <1>1, <1>3, <1>4 DEF FrameAt, Early
  <2>2. PortCanMove => OnTheWay("ethBhaul", net', status')
    BY <1>2, <1>3, <1>4 DEF OnTheWay
  <2> QED
    BY <1>1, <1>2, <2>1, <2>2
    DEF GoodAt, ShapeAt, Early, ToConfigure, EthSwitch, AfterPort
<1>5. CASE ~(status' = "FAILED" /\ net' = net)
  <2>1. net'.bridges = net.bridges
    BY CreateStep
  <2>2. FrameAt("ethBhaul", net', ethBhaulFound')
    BY <1>1, <1>3, <1>5, <2>1, CreateOwn DEF FrameAt, Early
  <2>3. PortCanMove => OnTheWay("ethBhaul", net', status')
    BY <1>2, <1>3, <1>5, CreateOwn, TwoKinds DEF OnTheWay
  <2> QED
    BY <1>1, <1>2, <2>2, <2>3
    DEF GoodAt, ShapeAt, Early, ToConfigure, EthSwitch, AfterPort
<1> QED
  BY <1>4, <1>5

\* The backhaul is another link than the row's.
LEMMA BhaulGood ==
  ASSUME ActionTypeInv, setupEthSwitch_bhaul, "command" \notin failed',
         GoodAt(pc, status, net, ethBhaulFound)
  PROVE  GoodAt(pc', status', net', ethBhaulFound')
<1>1. /\ pc = "ethBhaul" /\ ethBhaulFound' = ethBhaulFound /\ status' = status
      /\ pc' = IF status = "FAILED" THEN "answer" ELSE "link"
  BY DEF setupEthSwitch_bhaul, localVars
<1>2. req.type = "other" /\ NeedsEthSwitch /\ req.cmd = "up"
  BY <1>1 DEF GoodAt, ShapeAt, NeedsEthSwitch, EthSwitch, ToConfigure
<1>3. FrameAt(pc, net, ethBhaulFound) /\ (PortCanMove => OnTheWay(pc, net, status))
  BY <1>1 DEF GoodAt, Early, ToConfigure, EthSwitch
<1>4. /\ net'.bridges = net.bridges /\ net.present \subseteq net'.present
      /\ \A k \in Kind : net'.master[k][req.name] = net.master[k][req.name]
  <2>1. req.name # ETH_BHAUL_IF
    BY <1>2 DEF NeedsEthSwitch, ETH_BHAUL_IF, PUMA7_ETH1, PUMA7_ETH2
  <2> QED
    BY <2>1, BhaulStep, WorkTypesHere
<1>5. net'.present \subseteq before.present \cup {req.name, PUMA7_ETH1, PUMA7_ETH2}
  <2> DEFINE a == link_add(net, {ETH_BHAUL_IF})
             b == ifconfig(a, ETH_BHAUL_IF, "up")
             c == add_port(b, "ovs", ETH_BHAUL_BR, ETH_BHAUL_IF)
  <2>1. net' = IF ~ethBhaulFound THEN net ELSE c
    BY CleanStep DEF setupEthSwitch_bhaul
  <2>2. CASE ~ethBhaulFound
    BY <1>3, <2>1, <2>2 DEF FrameAt
  <2>3. CASE ethBhaulFound
    <3>1. ETH_BHAUL_IF \in Names /\ "ovs" \in Kind
      BY <2>3 DEF ActionTypeInv, Kind
    <3>2. Sound(a) /\ a.present = net.present \cup {ETH_BHAUL_IF}
      BY <3>1, WorkTypesHere, LinkAdd
    <3> HIDE DEF a
    <3>3. Sound(b) /\ b.present = a.present
      BY <3>1, <3>2, LinkCommands
    <3> HIDE DEF b
    <3>4. c.present = b.present
      BY <3>1, <3>3, AddPort
    <3> HIDE DEF c
    <3> QED
      BY <1>1, <1>3, <2>1, <2>3, <3>2, <3>3, <3>4 DEF FrameAt
  <2> QED
    BY <2>2, <2>3
<1>6. FrameAt("link", net', ethBhaulFound')
  BY <1>3, <1>4, <1>5 DEF FrameAt, Early
<1>7. status # "FAILED" => status = "SUCCESS"
  BY DEF ActionTypeInv, TypeOK
<1>8. status # "FAILED" /\ PortCanMove => OnTheWay("link", net', status')
  BY <1>1, <1>2, <1>3, <1>4, <1>7, TwoKinds DEF OnTheWay
<1> QED
  BY <1>1, <1>2, <1>6, <1>8
  DEF GoodAt, ShapeAt, Early, ToConfigure, EthSwitch, AfterPort

\* The port leaves the bridge that it is to leave, or that it is not to be in.
LEMMA RemoveGood ==
  ASSUME ActionTypeInv, removeExistingInterfacePort, "command" \notin failed',
         GoodAt(pc, status, net, ethBhaulFound)
  PROVE  GoodAt(pc', status', net', ethBhaulFound')
<1> DEFINE k == KindOf(req.parent)
           own == net.master[k][req.name]
           d == del_port(net, k, existingBridge, req.name)
<1>1. /\ pc = "remove" /\ ethBhaulFound' = ethBhaulFound
      /\ \/ status' = "FAILED" /\ pc' = "answer" /\ net' = net
         \/ /\ net' = IF existingBridge # NoName /\ RemovePort THEN d ELSE net
            /\ pc' = IF req.cmd = "remove" THEN AfterParent("SUCCESS") ELSE "configure"
            /\ status' = status
  BY CleanStep DEF removeExistingInterfacePort, localVars
<1>2. /\ req.type # "bridge" /\ req.cmd \in {"up", "down", "remove"}
      /\ req.parent # NoName
  BY <1>1, WorkTypesHere DEF GoodAt, ShapeAt, ToConfigure, ActionTypeInv
<1>3. FrameAt(pc, net, ethBhaulFound) /\ (PortCanMove => OnTheWay(pc, net, status))
  BY <1>1 DEF GoodAt, ToConfigure
<1>4. /\ d.bridges = net.bridges /\ d.present = net.present /\ d.up = net.up
      /\ d.master[k][req.name] = NoName
      /\ \A j \in Kind \ {k} : d.master[j][req.name] = net.master[j][req.name]
  <2>1. existingBridge = own /\ k \in Kind
    BY TwoKinds DEF existingBridge
  <2> HIDE DEF k
  <2> QED
    BY <2>1, WorkTypesHere, DelPort, DelPortExact
<1> HIDE DEF d
<1>5. CASE status' = "FAILED" /\ pc' = "answer" /\ net' = net
  BY <1>5 DEF GoodAt, ShapeAt, Early, ToConfigure, EthSwitch, AfterPort
<1>6. CASE /\ net' = IF existingBridge # NoName /\ RemovePort THEN d ELSE net
           /\ pc' = IF req.cmd = "remove" THEN AfterParent("SUCCESS") ELSE "configure"
           /\ status' = status
  <2>1. CASE req.cmd = "remove"
    <3>1. Gone(net')
      BY <1>2, <1>4, <1>6, <2>1 DEF Gone, RemovePort, existingBridge
    <3>2. pc' = IF req.type = "other" THEN "portFlows" ELSE "answer"
      BY <1>6, <2>1 DEF AfterParent
    <3> QED
      BY <1>2, <2>1, <3>1, <3>2
      DEF GoodAt, ShapeAt, Configured, Early, ToConfigure, EthSwitch, AfterPort
  <2>2. CASE req.cmd # "remove"
    <3>1. FrameAt("configure", net', ethBhaulFound')
      BY <1>1, <1>3, <1>4, <1>6 DEF FrameAt, Early
    <3>2. ASSUME PortCanMove
          PROVE  OnTheWay("configure", net', status')
      <4>1. /\ net.master[WrongKind][req.name] = NoName /\ req.name \in net.present
            /\ AsAsked(net, req.name)
            /\ req.cmd = "down" => own \in {NoName, req.parent}
        BY <1>1, <1>3, <3>2 DEF OnTheWay
      <4>2. net'.master[WrongKind][req.name] = NoName
        BY <1>4, <1>6, <4>1, TwoKinds
      <4>3. net'.master[k][req.name] \in {NoName, req.parent}
        BY <1>2, <1>4, <1>6, <2>2, <4>1 DEF RemovePort, existingBridge
      <4>4. req.name \in net'.present /\ AsAsked(net', req.name)
        BY <1>4, <1>6, <4>1 DEF AsAsked
      <4> QED
        BY <4>2, <4>3, <4>4 DEF OnTheWay
    <3> QED
      BY <1>2, <1>6, <2>2, <3>1, <3>2
      DEF GoodAt, ShapeAt, Early, ToConfigure, EthSwitch, AfterPort
  <2> QED
    BY <2>1, <2>2
<1> QED
  BY <1>1, <1>5, <1>6

\* Nothing but the bridge asked for has its name: it is created or it is there.
LEMMA ParentIsFree ==
  ASSUME ActionTypeInv, pc = "configure", PortCanMove,
         FrameAt(pc, net, ethBhaulFound)
  PROVE  /\ req.parent \notin net.present /\ req.parent \notin net.bridges[WrongKind]
         /\ req.parent # req.name
         /\ Exists(net, req.parent) <=> req.parent \in net.bridges[KindOf(req.parent)]
         /\ Exists(before, req.parent)
              <=> req.parent \in before.bridges[KindOf(req.parent)]
<1>1. /\ req.parent \notin before.bridges[WrongKind]
      /\ req.parent \notin before.present
      /\ req.parent \notin {req.name, PUMA7_ETH1, PUMA7_ETH2}
  BY DEF PortCanMove
<1>2. req.parent \notin net.present
  BY <1>1 DEF FrameAt
<1>3. req.parent \notin net.bridges[WrongKind]
  BY <1>1, TwoKinds DEF FrameAt
<1> QED
  BY <1>1, <1>2, <1>3, TwoKinds DEF Exists

\* The port comes into its bridge.
LEMMA ConfigureGood ==
  ASSUME ActionTypeInv, configureParentBridge, "command" \notin failed',
         GoodAt(pc, status, net, ethBhaulFound)
  PROVE  GoodAt(pc', status', net', ethBhaulFound')
<1> DEFINE k == KindOf(req.parent)
           a == add_bridge(net, k, req.parent)
           b == ifconfig(a, req.parent, req.cmd)
           c == add_port(b, k, req.parent, req.name)
<1>1. /\ pc = "configure" /\ ethBhaulFound' = ethBhaulFound /\ net' = c
      /\ pc' = IF Exists(net, req.parent) THEN AfterParent(status') ELSE "bridgeFlows"
  BY CleanStep DEF configureParentBridge, localVars
<1>2. /\ req.type # "bridge" /\ req.cmd \in {"up", "down"}
      /\ req.parent \in Names /\ k \in Kind
  BY <1>1, WorkTypesHere, TwoKinds DEF GoodAt, ShapeAt, ToConfigure
<1>3. FrameAt(pc, net, ethBhaulFound) /\ (PortCanMove => OnTheWay(pc, net, status))
  BY <1>1 DEF GoodAt, ToConfigure
<1>4. ASSUME PortCanMove
      PROVE  Placed(net')
  <2>1. /\ req.parent \notin net.bridges[WrongKind]
        /\ req.parent # req.name
        /\ Exists(net, req.parent) <=> req.parent \in net.bridges[k]
    BY <1>1, <1>3, <1>4, ParentIsFree
  <2>2. /\ net.master[WrongKind][req.name] = NoName /\ req.name \in net.present
        /\ AsAsked(net, req.name)
        /\ net.master[k][req.name] \in {NoName, req.parent}
    BY <1>1, <1>3, <1>4 DEF OnTheWay
  <2>3. k = "linux" => WrongKind = "ovs"
    BY TwoKinds
  <2> HIDE DEF k
  <2>4. /\ Sound(a) /\ a.master = net.master /\ a.present = net.present /\ a.up = net.up
        /\ req.parent \in a.bridges[k]
    <3>1. Sound(net)
      BY WorkTypesHere
    <3>2. /\ Sound(a) /\ a.master = net.master /\ a.present = net.present
          /\ a.up = net.up
      BY <1>2, <3>1, AddBridge
    <3>3. a.bridges[k] = IF ~Exists(net, req.parent)
                         THEN net.bridges[k] \cup {req.parent} ELSE net.bridges[k]
      BY <1>2, <3>1, AddBridgeExact
    <3> HIDE DEF a
    <3> QED
      BY <2>1, <3>2, <3>3
  <2> HIDE DEF a
  <2>5. Exists(a, req.parent)
    BY <1>2, <2>4, TwoKinds DEF Exists
  <2>6. /\ Sound(b) /\ b.bridges = a.bridges /\ b.master = a.master
        /\ b.present = a.present
        /\ AsAsked(b, req.parent) /\ AsAsked(b, req.name)
    BY <1>2, <2>1, <2>2, <2>4, <2>5, LinkCommands, IfconfigExact DEF AsAsked
  <2> HIDE DEF b
  <2>7. /\ c.bridges = b.bridges /\ c.up = b.up
        /\ c.master[k][req.name] # b.master[k][req.name] =>
             c.master[k][req.name] = req.parent
        /\ b.master[k][req.name] = NoName => c.master[k][req.name] = req.parent
    <3>1. k = "linux" => b.master["ovs"][req.name] = NoName
      BY <2>2, <2>3, <2>4, <2>6
    <3> QED
      BY <1>2, <2>2, <2>4, <2>6, <3>1, WorkTypesHere, AddPort, AddPortExact
  <2> HIDE DEF c
  <2>8. req.parent \in c.bridges[k] /\ c.master[k][req.name] = req.parent
    BY <2>2, <2>4, <2>6, <2>7
  <2> QED
    BY <1>1, <2>6, <2>7, <2>8 DEF Placed, AsAsked, k
<1>5. pc' \in {"bridgeFlows", "answer"} \/ (pc' = "portFlows" /\ req.type = "other")
  BY <1>1 DEF AfterParent
<1> QED
  BY <1>2, <1>4, <1>5
  DEF GoodAt, ShapeAt, Configured, Placed, Early, ToConfigure, EthSwitch, AfterPort

\* Once the port is where it belongs, the steps that follow only set up flows.
LEMMA FlowStep ==
  ASSUME ActionTypeInv, Sound(net),
         \/ modifyParentBridge_flows \/ ovs_setup_port_flows
         \/ ovs_setup_admin_gui_access \/ ovs_block_mso_ui_access
  PROVE  net'.bridges = net.bridges /\ net'.master = net.master /\ net'.up = net.up
<1> DEFINE Same(n) == n.bridges = net.bridges /\ n.master = net.master /\ n.up = net.up
<1>1. ASSUME NEW fs \in SUBSET Flow
      PROVE  LET cleared == del_flows(net, req.parent, fs)
                 set     == add_flows(cleared, req.parent, fs)
             IN  Same(cleared) /\ Same(set)
  <2> DEFINE cleared == del_flows(net, req.parent, fs)
             set     == add_flows(cleared, req.parent, fs)
  <2>1. Sound(cleared) /\ Same(cleared)
    BY <1>1, FlowCommands, FlowsExact
  <2> HIDE DEF cleared
  <2>2. Same(set)
    BY <1>1, <2>1, FlowCommands, FlowsExact
  <2> QED
    BY <2>1, <2>2 DEF cleared
<1>2. /\ WifiFlows \in SUBSET Flow /\ {"arp", "ip"} \in SUBSET Flow
      /\ {"ipv6"} \in SUBSET Flow
  BY DEF WifiFlows, Flow
<1>3. PICK fs \in {WifiFlows, {"arp", "ip"}, {"ipv6"}} :
        net' \in {net, del_flows(net, req.parent, fs),
                  add_flows(del_flows(net, req.parent, fs), req.parent, fs)}
  <2>1. CASE modifyParentBridge_flows \/ ovs_setup_port_flows
    <3>1. net' \in {net, setup_bridge_flows(net)}
      BY <2>1 DEF modifyParentBridge_flows, ovs_setup_port_flows, Run
    <3>2. setup_bridge_flows(net) \in
            {net, del_flows(net, req.parent, WifiFlows),
             add_flows(del_flows(net, req.parent, WifiFlows), req.parent, WifiFlows)}
      BY DEF setup_bridge_flows
    <3> QED
      BY <3>1, <3>2
  <2>2. CASE ovs_setup_admin_gui_access
    BY <2>2 DEF ovs_setup_admin_gui_access, Run
  <2>3. CASE ovs_block_mso_ui_access
    BY <2>3 DEF ovs_block_mso_ui_access, Run
  <2> QED
    BY <2>1, <2>2, <2>3
<1> QED
  BY <1>1, <1>2, <1>3

\* So the port stays where it is, and its link and bridge up or down.
LEMMA FlowStepGood ==
  ASSUME ActionTypeInv, "command" \notin failed',
         \/ modifyParentBridge_flows \/ ovs_setup_port_flows
         \/ ovs_setup_admin_gui_access \/ ovs_block_mso_ui_access,
         GoodAt(pc, status, net, ethBhaulFound)
  PROVE  GoodAt(pc', status', net', ethBhaulFound')
<1>1. /\ pc \in AfterPort
      /\ \/ pc' = "answer"
         \/ pc' = "portFlows" /\ req.type = "other"
         \/ pc' = "msoFlows" /\ pc = "portFlows" /\ IsGuiPort /\ modelNum \in GuiModels
  BY DEF modifyParentBridge_flows, ovs_setup_port_flows, ovs_setup_admin_gui_access,
         ovs_block_mso_ui_access, AfterPort, AfterParent
<1>2. /\ req.type # "bridge" /\ req.cmd \in {"up", "down", "remove"}
      /\ pc = "portFlows" => req.type = "other"
      /\ req.cmd # "remove" /\ PortCanMove => Placed(net)
      /\ req.cmd = "remove" => Gone(net)
  BY <1>1, WorkTypesHere DEF GoodAt, ShapeAt
<1>3. net'.bridges = net.bridges /\ net'.master = net.master /\ net'.up = net.up
  BY FlowStep, WorkTypesHere
<1>4. /\ req.cmd # "remove" /\ PortCanMove => Placed(net')
      /\ req.cmd = "remove" => Gone(net')
  BY <1>2, <1>3 DEF Placed, Gone, AsAsked
<1> QED
  BY <1>1, <1>2, <1>4
  DEF GoodAt, ShapeAt, Configured, Placed, Early, ToConfigure, EthSwitch, AfterPort

\* When a row is taken, nothing has been done.
LEMMA TakenGood ==
  ASSUME RowInv, ovs_action_gateway_config
  PROVE  GoodAt(pc, status, net, ethBhaulFound)'
<1>1. handled' \in 1 .. Len(rows)
  BY RowTaken
<1>2. req' \in Config
  BY <1>1, ElementOfSeq DEF ovs_action_gateway_config, RowInv
<1>3. /\ pc' \in Early
      /\ pc' = "delete" => req'.cmd = "delete"
      /\ pc' # "delete" => req'.cmd # "delete" /\ pc' = req'.type
  BY <1>2 DEF ovs_action_gateway_config, Config, Early
<1>4. net' = before'
  BY DEF ovs_action_gateway_config
<1>5. ShapeAt(pc)'
  BY <1>3 DEF ShapeAt, Early, ToConfigure, EthSwitch, AfterPort
<1>6. FrameAt(pc, net, ethBhaulFound)'
  BY <1>3, <1>4 DEF FrameAt, Early
<1>7. PortCanMove' => OnTheWay(pc, net, status)'
  BY <1>3, <1>4 DEF PortCanMove, OnTheWay, Early
<1> QED
  BY <1>3, <1>5, <1>6, <1>7 DEF GoodAt, Early, ToConfigure, EthSwitch, AfterPort

\* The row, what was there when it was taken, and the device do not change while
\* it is in work.
LEMMA RowStays ==
  ASSUME UNCHANGED <<req, before, envVars>>, remade => remade'
  PROVE  /\ GoodAt(pc', status', net', ethBhaulFound')
              => GoodAt(pc, status, net, ethBhaulFound)'
         /\ PortCanMove' <=> PortCanMove
<1>1. req' = req /\ before' = before /\ modelNum' = modelNum
  BY DEF envVars
<1>2. PortCanMove' <=> PortCanMove
  BY <1>1 DEF PortCanMove, WrongKind, NeedsEthSwitch
<1>3. ShapeAt(pc') => ShapeAt(pc)'
  BY <1>1 DEF ShapeAt, NeedsEthSwitch, IsGuiPort
<1>4. FrameAt(pc', net', ethBhaulFound') => FrameAt(pc, net, ethBhaulFound)'
  BY <1>1 DEF FrameAt
<1>5. OnTheWay(pc', net', status') => OnTheWay(pc, net, status)'
  BY <1>1 DEF OnTheWay, AsAsked, WrongKind
<1>6. (Placed(net') => Placed(net)') /\ (Gone(net') => Gone(net)')
  BY <1>1 DEF Placed, Gone, AsAsked
<1>7. Configured(net') => Configured(net)'
  BY <1>1, <1>2 DEF Configured, Gone, AsAsked
<1> QED
  BY <1>1, <1>2, <1>3, <1>4, <1>5, <1>6, <1>7 DEF GoodAt

\* hostapd adds br106, which stands in no row's way.
LEMMA HostapdGood ==
  ASSUME ActionTypeInv, hostapd, GoodAt(pc, status, net, ethBhaulFound)
  PROVE  GoodAt(pc, status, net, ethBhaulFound)'
<1>0. UNCHANGED <<pc, status, req, before, ethBhaulFound, envVars>> /\ remade' = TRUE
  BY DEF hostapd, localVars
<1>1. /\ net'.master = net.master /\ net'.present = net.present /\ net'.up = net.up
      /\ net'.bridges["linux"] = net.bridges["linux"]
      /\ net'.bridges["ovs"] = net.bridges["ovs"] \cup {"br106"}
  BY WorkTypesHere, HostapdAssumption, AddBridge, AddBridgeExact DEF hostapd, Kind
<1>2. \A k \in Kind : net.bridges[k] \subseteq net'.bridges[k]
  BY <1>1 DEF Kind
<1>3. FrameAt(pc, net, ethBhaulFound) => FrameAt(pc, net, ethBhaulFound)'
  BY <1>0, <1>1 DEF FrameAt
<1>4. OnTheWay(pc, net, status) => OnTheWay(pc, net, status)'
  BY <1>0, <1>1 DEF OnTheWay, AsAsked, WrongKind
<1>5. (Placed(net) => Placed(net)') /\ (Gone(net) => Gone(net)')
  BY <1>0, <1>1, <1>2, TwoKinds DEF Placed, Gone, AsAsked
<1>6. PortCanMove' <=> PortCanMove
  BY <1>0, RowStays
<1>7. Configured(net) => Configured(net)'
  BY <1>0, <1>1, <1>6 DEF Configured, Gone, AsAsked, Kind
<1>8. ShapeAt(pc) => ShapeAt(pc)'
  BY <1>0 DEF ShapeAt, NeedsEthSwitch, IsGuiPort, envVars
<1> QED
  BY <1>0, <1>3, <1>4, <1>5, <1>6, <1>7, <1>8 DEF GoodAt

\* Every step of the work keeps what has been reached.
LEMMA WorkGood ==
  ASSUME ActionTypeInv, ConfigInv, working, pc \in InRow, "command" \notin failed'
  PROVE  GoodAt(pc', status', net', ethBhaulFound')
<1>1. GoodAt(pc, status, net, ethBhaulFound)
  <2>1. PICK f \in Fault \cup {"none"} : Suffer(f)
    BY OneFailure
  <2> QED
    BY <2>1, CleanStep DEF ConfigInv
<1> QED
  BY <1>1, DeleteGood, CreateBridgeGood, CreateLinkGood, AddPortGood, FindGood,
     CreateGood, BhaulGood, RemoveGood, ConfigureGood, FlowStepGood DEF working

\* So does every other step.
LEMMA ConfigNext ==
  ASSUME RowInv, ActionTypeInv, ConfigInv, [Next]_vars
  PROVE  ConfigInv'
<1>1. CASE working
  <2>1. pc \in InRow
    BY <1>1, WorkStaysInRow
  <2>2. UNCHANGED <<req, before, remade, envVars>>
    BY <1>1, OrdinaryControl, SwitchControl DEF working, ordinary
  <2> QED
    BY <1>1, <2>1, <2>2, WorkGood, RowStays DEF ConfigInv
<1>2. CASE ovs_action_gateway_config
  BY <1>2, TakenGood DEF ConfigInv
<1>3. CASE \/ ovs_action_init \/ gwconf_mon_cb \/ update_lost \/ ovsdb_closed
            \/ crash
  <2>1. pc' \notin InRow
    BY <1>3 DEF ovs_action_init, gwconf_mon_cb, update_lost, ovsdb_closed, crash,
         InRow, Idle
  <2> QED
    BY <2>1 DEF ConfigInv
<1>4. CASE hostapd
  BY <1>4, HostapdGood DEF hostapd, ConfigInv
<1>5. CASE insert_row \/ quiet \/ UNCHANGED vars
  <2>1. UNCHANGED <<pc, status, failed, req, before, remade, net, ethBhaulFound,
                    envVars>>
    BY <1>5 DEF insert_row, quiet, vars, rowVars, localVars
  <2> QED
    BY <2>1, RowStays DEF ConfigInv
<1> QED
  BY <1>1, <1>2, <1>3, <1>4, <1>5 DEF Next, agent, working

\* This holds in every reachable state.
LEMMA ConfigInvariant == Spec => []ConfigInv
<1>1. Init => ConfigInv
  BY DEF Init, ConfigInv, InRow, Idle
<1>2. RowInv /\ ActionTypeInv /\ ConfigInv /\ [Next]_vars => ConfigInv'
  BY ConfigNext
<1> QED
  BY <1>1, <1>2, RowInvariant, ActionTypeInvariant, PTL DEF Spec

\* For every row, every network the agent finds and every model: when a row is
\* carried out without a failed command, a deleted bridge or link is gone, a bridge
\* brought up or down is there, and a port is in the bridge it was asked into, or
\* has left it, with both up or down as asked.  The exceptions are those of
\* SuccessIsConfigured: names already taken, a Linux bridge to be deleted, br106
\* made again by hostapd, a port the code does not look for where it is, and a
\* bridge row with "remove".
THEOREM ConfiguredCorrect == Spec => []SuccessIsConfigured
<1>1. ActionTypeInv /\ ConfigInv => SuccessIsConfigured
  BY ConfiguredMeans DEF ConfigInv, GoodAt, Succeeded, InRow, Point, Idle
<1> QED
  BY <1>1, ActionTypeInvariant, ConfigInvariant, PTL

----------------------------------------------------------------------------
(* The flows follow: what has been set up at each point.                   *)

\* The flows of the row's bridge are there, or gone, as the row asks.
Follow(n, fs) ==
    IF req.cmd = "remove" THEN \A f \in fs : <<req.parent, f>> \notin n.flows
    ELSE \A f \in fs : <<req.parent, f>> \in n.flows

\* A bridge that the row creates, on a model with wifi flows.
NewBridge ==
    /\ modelNum \in BrcmModels /\ KindOf(req.parent) = "ovs" /\ req.parent # NoName
    /\ req.cmd # "remove" /\ ~Exists(before, req.parent)
    /\ req.parent = "br106" => ~remade

LnfBridge ==
    /\ req.type = "other" /\ IsLnfPort
    /\ modelNum \in BrcmModels /\ req.cmd # "remove"

Gui(n) ==
    /\ req.type = "other" /\ IsGuiPort
    /\ modelNum \in GuiModels /\ "brlan0" \in n.bridges["ovs"]

\* What SuccessHasFlows asks for.
Flowing(n, fs) ==
    /\ Gui(n) => Follow(n, {"ipv6"})
    /\ Gui(n) /\ fs \cap {"address", "mac"} = {} => Follow(n, {"arp", "ip"})
    /\ NewBridge \/ LnfBridge => Follow(n, WifiFlows)

\* At p, with the failures fs.
FlowsAt(p, s, n, fs) ==
    req.type # "bridge" /\ req.cmd # "delete" /\ PortCanMove =>
      /\ p \in {"portFlows", "msoFlows"} /\ NewBridge => Follow(n, WifiFlows)
      /\ p = "msoFlows" /\ Gui(n) /\ fs \cap {"address", "mac"} = {}
           => Follow(n, {"arp", "ip"})
      /\ p = "answer" /\ s = "SUCCESS" => Flowing(n, fs)

FlowInv == pc \in InRow /\ "command" \notin failed => FlowsAt(pc, status, net, failed)

\* The property, flow by flow.
LEMMA FlowingMeans ==
  SuccessHasFlows <=>
    (Succeeded /\ req.type # "bridge" /\ req.cmd # "delete" /\ PortCanMove =>
       Flowing(net, failed))
<1> DEFINE Flows(fs)   == {req.parent} \X fs
           FollowS(fs) == IF req.cmd = "remove" THEN Flows(fs) \cap net.flows = {}
                          ELSE Flows(fs) \subseteq net.flows
           wifi == /\ modelNum \in BrcmModels /\ KindOf(req.parent) = "ovs"
                   /\ req.parent # NoName /\ req.cmd # "remove"
                   /\ \/ req.type = "other" /\ IsLnfPort
                      \/ /\ ~Exists(before, req.parent)
                         /\ req.parent = "br106" => ~remade
<1>1. ASSUME NEW fs PROVE FollowS(fs) <=> Follow(net, fs)
  <2>1. \A x : x \in Flows(fs) <=> \E f \in fs : x = <<req.parent, f>>
    OBVIOUS
  <2> HIDE DEF Flows
  <2>2. Flows(fs) \cap net.flows = {} <=> \A f \in fs : <<req.parent, f>> \notin net.flows
    BY <2>1
  <2>3. Flows(fs) \subseteq net.flows <=> \A f \in fs : <<req.parent, f>> \in net.flows
    BY <2>1
  <2> QED
    BY <2>2, <2>3 DEF Follow
<1>2. wifi <=> NewBridge \/ LnfBridge
  <2>1. IsLnfPort => KindOf(req.parent) = "ovs" /\ req.parent # NoName
    BY DEF IsLnfPort, KindOf, NoName
  <2> QED
    BY <2>1 DEF NewBridge, LnfBridge
<1>3. SuccessHasFlows <=>
        (Succeeded /\ req.type # "bridge" /\ req.cmd # "delete" /\ PortCanMove =>
           /\ Gui(net) => FollowS({"ipv6"})
           /\ Gui(net) /\ failed \cap {"address", "mac"} = {} => FollowS({"arp", "ip"})
           /\ wifi => FollowS(WifiFlows))
  BY DEF SuccessHasFlows, Gui
<1> HIDE DEF FollowS, wifi
<1>4. /\ FollowS({"ipv6"}) <=> Follow(net, {"ipv6"})
      /\ FollowS({"arp", "ip"}) <=> Follow(net, {"arp", "ip"})
      /\ FollowS(WifiFlows) <=> Follow(net, WifiFlows)
  BY <1>1
<1> QED
  BY <1>2, <1>3, <1>4 DEF Flowing

\* Flows of an Open vSwitch bridge are deleted or set up, and the others stay.
LEMMA FlowsSet ==
  ASSUME NEW n, Sound(n), NEW fs \in SUBSET Flow,
         req.cmd # "remove" => req.parent \in n.bridges["ovs"]
  PROVE  LET cleared == del_flows(n, req.parent, fs)
             set     == IF req.cmd = "remove" THEN cleared
                        ELSE add_flows(cleared, req.parent, fs)
         IN  /\ Follow(set, fs)
             /\ \A gs : gs \cap fs = {} => (Follow(n, gs) => Follow(set, gs))
             /\ \A gs : gs \cap fs = {} => (Follow(n, gs) => Follow(cleared, gs))
             /\ set.bridges = n.bridges /\ cleared.bridges = n.bridges
<1> DEFINE cleared == del_flows(n, req.parent, fs)
           full    == add_flows(cleared, req.parent, fs)
<1>1. /\ Sound(cleared) /\ cleared.bridges = n.bridges
      /\ \A x, f : <<x, f>> \in cleared.flows <=>
             <<x, f>> \in n.flows /\ ~(x = req.parent /\ f \in fs)
  BY FlowCommands, FlowsExact
<1> HIDE DEF cleared
<1>2. /\ full.bridges = cleared.bridges
      /\ \A x, f : <<x, f>> \in full.flows <=>
             \/ <<x, f>> \in cleared.flows
             \/ req.parent \in cleared.bridges["ovs"] /\ x = req.parent /\ f \in fs
  BY <1>1, FlowCommands, FlowsExact
<1> HIDE DEF full
<1>3. CASE req.cmd = "remove"
  BY <1>1, <1>3 DEF Follow, cleared
<1>4. CASE req.cmd # "remove"
  BY <1>1, <1>2, <1>4 DEF Follow, cleared, full
<1> QED
  BY <1>3, <1>4

\* The bridge of a port that has been placed is there.
LEMMA PlacedBridge ==
  ASSUME Placed(net)
  PROVE  req.parent \in net.bridges[KindOf(req.parent)]
  BY DEF Placed

\* The flows of a new bridge, which is why modifyParentBridge_flows comes first.
LEMMA BridgeFlowsSet ==
  ASSUME ActionTypeInv, modelNum \in BrcmModels, req.parent # NoName,
         req.cmd # "remove", req.parent \in net.bridges["ovs"]
  PROVE  Follow(setup_bridge_flows(net), WifiFlows)
<1>1. WifiFlows \in SUBSET Flow
  BY DEF WifiFlows, Flow
<1> DEFINE full == add_flows(del_flows(net, req.parent, WifiFlows), req.parent, WifiFlows)
<1>2. setup_bridge_flows(net) = full
  BY DEF setup_bridge_flows
<1>3. Follow(full, WifiFlows)
  BY <1>1, WorkTypesHere, FlowsSet
<1> HIDE DEF full
<1> QED
  BY <1>2, <1>3

\* The steps before the flows: none of them ends a row with SUCCESS, unless it
\* names no bridge, or is not of type "other" and has no new bridge.
LEMMA BeforeFlows ==
  ASSUME ActionTypeInv, GoodAt(pc, status, net, ethBhaulFound),
         "command" \notin failed', working, pc \notin AfterPort
  PROVE  FlowsAt(pc', status', net', failed')
<1> SUFFICES ASSUME req.type # "bridge", req.cmd # "delete", PortCanMove
             PROVE  /\ pc' \in {"portFlows", "msoFlows"} => ~NewBridge
                    /\ pc' # "msoFlows"
                    /\ pc' = "answer" /\ status' = "SUCCESS" => Flowing(net', failed')
  BY DEF FlowsAt
<1>0. /\ ~delete_interface /\ ~ovs_createBridge
      /\ pc \in {"remove", "configure"} => req.parent # NoName
  BY DEF GoodAt, ShapeAt, delete_interface, ovs_createBridge, ActionTypeInv
<1>1. ASSUME req.parent = NoName PROVE Flowing(net', failed')
  BY <1>1 DEF Flowing, Gui, IsGuiPort, NewBridge, LnfBridge, IsLnfPort, NoName
<1>2. CASE ovs_createVlan \/ ovs_createGRE \/ ovs_addPort
  BY <1>1, <1>2 DEF ovs_createVlan, ovs_createGRE, create_link, ovs_addPort, AfterLink
<1>3. CASE setupEthSwitch_find \/ setupEthSwitch_create \/ setupEthSwitch_bhaul
  <2>1. /\ pc' \in {"ethCreate", "ethBhaul", "link", "answer"}
        /\ pc' = "answer" => status' = "FAILED"
    BY <1>3 DEF setupEthSwitch_find, setupEthSwitch_create, setupEthSwitch_bhaul
  <2> QED
    BY <2>1
<1>4. CASE removeExistingInterfacePort
  <2>1. \/ pc' = "answer" /\ status' = "FAILED"
        \/ req.cmd # "remove" /\ pc' = "configure"
        \/ req.cmd = "remove" /\ req.type = "other" /\ pc' = "portFlows"
        \/ req.cmd = "remove" /\ req.type # "other" /\ pc' = "answer"
    BY <1>4 DEF removeExistingInterfacePort, AfterParent
  <2> QED
    BY <2>1 DEF NewBridge, LnfBridge, Gui, Flowing
<1>5. CASE configureParentBridge
  <2>1. /\ pc = "configure"
        /\ pc' = IF Exists(net, req.parent) THEN AfterParent(status')
                 ELSE "bridgeFlows"
    BY <1>5 DEF configureParentBridge
  <2>2. FrameAt(pc, net, ethBhaulFound)
    BY <2>1 DEF GoodAt, ToConfigure
  <2>3. NewBridge => ~Exists(net, req.parent)
    <3>1. /\ Exists(net, req.parent) <=> req.parent \in net.bridges[KindOf(req.parent)]
          /\ Exists(before, req.parent)
               <=> req.parent \in before.bridges[KindOf(req.parent)]
      BY <2>1, <2>2, ParentIsFree
    <3> QED
      BY <2>2, <3>1 DEF NewBridge, FrameAt
  <2>4. /\ pc' # "msoFlows"
        /\ pc' = "portFlows" => Exists(net, req.parent)
        /\ pc' = "answer" /\ status' = "SUCCESS" =>
             Exists(net, req.parent) /\ req.type # "other"
    BY <2>1 DEF AfterParent
  <2> QED
    BY <2>3, <2>4 DEF Flowing, Gui, LnfBridge
<1> QED
  BY <1>0, <1>2, <1>3, <1>4, <1>5
  DEF working, AfterPort, modifyParentBridge_flows, ovs_setup_port_flows,
      ovs_setup_admin_gui_access, ovs_block_mso_ui_access

\* The steps that set up flows.
LEMMA SettingFlows ==
  ASSUME ActionTypeInv, GoodAt(pc, status, net, ethBhaulFound),
         FlowsAt(pc, status, net, failed),
         "command" \notin failed', working, pc \in AfterPort
  PROVE  FlowsAt(pc', status', net', failed')
<1> SUFFICES ASSUME req.type # "bridge", req.cmd # "delete", PortCanMove
             PROVE  /\ pc' \in {"portFlows", "msoFlows"} /\ NewBridge
                         => Follow(net', WifiFlows)
                    /\ pc' = "msoFlows" /\ Gui(net')
                         /\ failed' \cap {"address", "mac"} = {}
                         => Follow(net', {"arp", "ip"})
                    /\ pc' = "answer" /\ status' = "SUCCESS" => Flowing(net', failed')
  BY DEF FlowsAt
<1>0. /\ pc \in {"portFlows", "msoFlows"} /\ NewBridge => Follow(net, WifiFlows)
      /\ pc = "msoFlows" /\ Gui(net) /\ failed \cap {"address", "mac"} = {}
           => Follow(net, {"arp", "ip"})
      /\ req.cmd # "remove" => req.parent \in net.bridges[KindOf(req.parent)]
      /\ Sound(net)
  BY WorkTypesHere, PlacedBridge DEF FlowsAt, GoodAt
<1>1. WifiFlows \in SUBSET {"brcm", "airiq", "dot1x"} /\ WifiFlows \in SUBSET Flow
  BY DEF WifiFlows, Flow
<1>2. CASE modifyParentBridge_flows
  <2>1. /\ pc = "bridgeFlows" /\ net' = setup_bridge_flows(net)
        /\ pc' = IF req.type = "other" /\ status' = "SUCCESS" THEN "portFlows"
                 ELSE "answer"
    BY <1>2, CleanStep DEF modifyParentBridge_flows, AfterParent
  <2>2. NewBridge => Follow(net', WifiFlows)
    BY <1>0, <2>1, BridgeFlowsSet DEF NewBridge
  <2> QED
    BY <2>1, <2>2 DEF Flowing, Gui, LnfBridge
<1>3. CASE ovs_setup_port_flows
  <2>1. /\ pc = "portFlows" /\ pc' = "answer"
        /\ ~(IsGuiPort /\ modelNum \in GuiModels)
        /\ net' = IF IsLnfPort THEN setup_bridge_flows(net) ELSE net
    BY <1>3, CleanStep DEF ovs_setup_port_flows
  <2>2. CASE IsLnfPort
    <3>1. req.parent = "br106" /\ req.parent # NoName /\ KindOf(req.parent) = "ovs"
      BY <2>2 DEF IsLnfPort, KindOf, NoName
    <3>2. NewBridge \/ LnfBridge => Follow(net', WifiFlows)
      BY <1>0, <2>1, <2>2, <3>1, BridgeFlowsSet DEF NewBridge, LnfBridge
    <3> QED
      BY <2>1, <3>2 DEF Flowing, Gui
  <2>3. CASE ~IsLnfPort
    BY <1>0, <2>1, <2>3 DEF Flowing, Gui, LnfBridge
  <2> QED
    BY <2>2, <2>3
<1>4. CASE ovs_setup_admin_gui_access
  <2> DEFINE cleared == del_flows(net, req.parent, {"arp", "ip"})
             set == IF req.cmd = "remove" THEN cleared
                    ELSE add_flows(cleared, req.parent, {"arp", "ip"})
  <2>1. /\ pc = "portFlows" /\ pc' = "msoFlows" /\ IsGuiPort
        /\ \/ net' \in {net, cleared} /\ failed' \cap {"address", "mac"} # {}
           \/ net' = set
    BY <1>4, CleanStep DEF ovs_setup_admin_gui_access, Suffer
  <2>2. req.cmd # "remove" => req.parent \in net.bridges["ovs"]
    BY <1>0, <2>1 DEF IsGuiPort, KindOf
  <2>3. /\ Follow(set, {"arp", "ip"})
        /\ Follow(net, WifiFlows) => Follow(set, WifiFlows) /\ Follow(cleared, WifiFlows)
    <3>1. {"arp", "ip"} \in SUBSET Flow /\ WifiFlows \cap {"arp", "ip"} = {}
      BY <1>1 DEF Flow
    <3> QED
      BY <1>0, <2>2, <3>1, FlowsSet
  <2> HIDE DEF cleared, set
  <2> QED
    BY <1>0, <2>1, <2>3
<1>5. CASE ovs_block_mso_ui_access
  <2> DEFINE cleared == del_flows(net, req.parent, {"ipv6"})
             set == IF req.cmd = "remove" THEN cleared
                    ELSE add_flows(cleared, req.parent, {"ipv6"})
  <2>1. /\ pc = "msoFlows" /\ pc' = "answer"
        /\ status' = "FAILED" \/ (net' = set /\ failed' = failed)
    BY <1>5, CleanStep DEF ovs_block_mso_ui_access, Suffer, MayFail
  <2>2. IsGuiPort
    BY <2>1 DEF GoodAt, ShapeAt
  <2>3. req.cmd # "remove" => req.parent \in net.bridges["ovs"]
    BY <1>0, <2>2 DEF IsGuiPort, KindOf
  <2>4. /\ Follow(set, {"ipv6"}) /\ set.bridges = net.bridges
        /\ Follow(net, WifiFlows) => Follow(set, WifiFlows)
        /\ Follow(net, {"arp", "ip"}) => Follow(set, {"arp", "ip"})
    <3>1. /\ {"ipv6"} \in SUBSET Flow /\ WifiFlows \cap {"ipv6"} = {}
          /\ {"arp", "ip"} \cap {"ipv6"} = {}
      BY <1>1 DEF Flow
    <3> QED
      BY <1>0, <2>3, <3>1, FlowsSet
  <2> HIDE DEF set
  <2>5. ~LnfBridge
    BY <2>2 DEF IsGuiPort, LnfBridge, IsLnfPort
  <2> QED
    BY <1>0, <2>1, <2>4, <2>5 DEF Flowing, Gui
<1> QED
  BY <1>2, <1>3, <1>4, <1>5
  DEF working, AfterPort, delete_interface, ovs_createBridge, ovs_createVlan,
      ovs_createGRE, ovs_addPort, setupEthSwitch_find, setupEthSwitch_create,
      setupEthSwitch_bhaul, removeExistingInterfacePort, configureParentBridge

\* The row, its bridge and the device are the same after a step of the work.
LEMMA FlowsStay ==
  ASSUME UNCHANGED <<req, before, envVars>>, remade => remade'
  PROVE  FlowsAt(pc', status', net', failed') => FlowsAt(pc, status, net, failed)'
<1>1. /\ req' = req /\ before' = before /\ modelNum' = modelNum
      /\ oneWifiEnabled' = oneWifiEnabled
  BY DEF envVars
<1>2. PortCanMove' <=> PortCanMove
  BY RowStays
<1>3. /\ NewBridge' => NewBridge
      /\ LnfBridge' <=> LnfBridge
      /\ Gui(net)' <=> Gui(net')
      /\ WifiFlows' = WifiFlows
  BY <1>1 DEF NewBridge, LnfBridge, Gui, IsLnfPort, IsGuiPort, WifiFlows, Exists
<1>4. \A fs : Follow(net', fs) <=> Follow(net, fs)'
  BY <1>1 DEF Follow
<1> QED
  BY <1>1, <1>2, <1>3, <1>4 DEF FlowsAt, Flowing

\* Every step keeps the flows that have been set up.
LEMMA FlowNext ==
  ASSUME RowInv, ActionTypeInv, ConfigInv, FlowInv, [Next]_vars
  PROVE  FlowInv'
<1>1. CASE working
  <2>1. pc \in InRow
    BY <1>1, WorkStaysInRow
  <2>2. UNCHANGED <<req, before, remade, envVars>>
    BY <1>1, OrdinaryControl, SwitchControl DEF working, ordinary
  <2>3. ASSUME "command" \notin failed'
        PROVE  FlowsAt(pc', status', net', failed')
    <3>1. PICK f \in Fault \cup {"none"} : Suffer(f)
      BY <1>1, OneFailure
    <3>2. "command" \notin failed
      BY <2>3, <3>1, CleanStep
    <3>3. GoodAt(pc, status, net, ethBhaulFound) /\ FlowsAt(pc, status, net, failed)
      BY <2>1, <3>2 DEF ConfigInv, FlowInv
    <3> QED
      BY <1>1, <2>3, <3>3, BeforeFlows, SettingFlows
  <2> QED
    BY <2>2, <2>3, FlowsStay DEF FlowInv
<1>2. CASE ovs_action_gateway_config
  <2>1. pc' \in Early
    <3>1. handled' \in 1 .. Len(rows)
      BY <1>2, RowTaken
    <3>2. req' \in Config
      BY <1>2, <3>1, ElementOfSeq DEF ovs_action_gateway_config, RowInv
    <3> QED
      BY <1>2, <3>2 DEF ovs_action_gateway_config, Config, Early
  <2> QED
    BY <2>1 DEF FlowInv, FlowsAt, Early
<1>3. CASE \/ ovs_action_init \/ gwconf_mon_cb \/ update_lost \/ ovsdb_closed
            \/ crash
  <2>1. pc' \notin InRow
    BY <1>3 DEF ovs_action_init, gwconf_mon_cb, update_lost, ovsdb_closed, crash,
         InRow, Idle
  <2> QED
    BY <2>1 DEF FlowInv
<1>4. CASE hostapd
  <2>1. UNCHANGED <<pc, status, failed, req, before, envVars>> /\ remade'
    BY <1>4 DEF hostapd
  <2>2. /\ net'.flows = net.flows
        /\ "brlan0" \in net'.bridges["ovs"] => "brlan0" \in net.bridges["ovs"]
    <3>1. /\ Sound(net) /\ net' = add_bridge(net, "ovs", "br106")
          /\ "br106" \in Names /\ "ovs" \in Kind
      BY <1>4, WorkTypesHere, HostapdAssumption DEF hostapd, Kind
    <3>2. net'.flows = net.flows
      BY <3>1, AddBridge
    <3>3. net'.bridges["ovs"] \subseteq net.bridges["ovs"] \cup {"br106"}
      BY <3>1, AddBridgeExact
    <3> QED
      BY <3>2, <3>3
  <2>3. \A fs : Follow(net, fs) => Follow(net', fs)
    BY <2>2 DEF Follow
  <2>4. Gui(net') => Gui(net)
    BY <2>2 DEF Gui
  <2>5. FlowsAt(pc, status, net, failed) => FlowsAt(pc, status, net', failed)
    BY <2>3, <2>4 DEF FlowsAt, Flowing
  <2> QED
    BY <2>1, <2>5, FlowsStay DEF FlowInv
<1>5. CASE insert_row \/ quiet \/ UNCHANGED vars
  <2>1. UNCHANGED <<pc, status, failed, req, before, remade, net, envVars>>
    BY <1>5 DEF insert_row, quiet, vars, rowVars, localVars
  <2> QED
    BY <2>1, FlowsStay DEF FlowInv
<1> QED
  BY <1>1, <1>2, <1>3, <1>4, <1>5 DEF Next, agent, working

\* This holds in every reachable state.
LEMMA FlowInvariant == Spec => []FlowInv
<1>1. Init => FlowInv
  BY DEF Init, FlowInv, InRow, Idle
<1>2. RowInv /\ ActionTypeInv /\ ConfigInv /\ FlowInv /\ [Next]_vars => FlowInv'
  BY FlowNext
<1> QED
  BY <1>1, <1>2, RowInvariant, ActionTypeInvariant, ConfigInvariant, PTL DEF Spec

\* For every port row, of any type, every network and model: when it is carried
\* out without a failed command, llan0 has its flows in brlan0, or they are gone
\* with it, and its parent has the wifi flows if the row has created it, as far as
\* hostapd has not made br106 anew, or if the row put wl0.3 into br106.
THEOREM FlowsCorrect == Spec => []SuccessHasFlows
<1>1. FlowInv => SuccessHasFlows
  BY FlowingMeans DEF FlowInv, FlowsAt, Succeeded, InRow, Point, Idle
<1> QED
  BY <1>1, FlowInvariant, PTL
=============================================================================
