------------------------------ MODULE OvsAction -----------------------------
(***************************************************************************)
(* The OvsAgent at work: gwconf_mon_cb takes the rows of Gateway_Config    *)
(* one by one, ovs_action_gateway_config changes bridges, ports and flows, *)
(* and the status becomes a Feedback row.  A step is a group of commands   *)
(* between two decisions of the code, so that the daemon can crash in the  *)
(* middle of a row.  IP addresses, netmasks and MTU are left out; the      *)
(* dummy bridges of the eth switch exist within a step only.               *)
(***************************************************************************)
EXTENDS NetworkState, Naturals, Sequences, FiniteSets

CONSTANTS
    Configs,        \* rows that may be inserted
    InitialNets,    \* what an agent may find at its first start
    Models,         \* MODEL_NUM of the device
    FaultKinds,     \* failures that may happen
    MaxRows, MaxFaults  \* bounds

\* under: parent_ifname (and for GRE both addresses) are given.
Config == [type: {"bridge", "vlan", "gre", "other"},
           cmd: {"up", "down", "delete", "remove"},
           name: Names, parent: Names \cup {NoName}, under: BOOLEAN]

\* "lookup" and "list" are failures of popen, "address", "mac" and "param" of a
\* value the flows need; "command" is a command whose result the code ignores;
\* "update" is an update of the monitor that does not become a row to handle.
Fault == {"syscfg", "lookup", "list", "address", "mac", "param", "command",
          "update", "write", "closed", "crash"}

ASSUME ConfigsAssumption == Configs \subseteq Config /\ Configs # {}
ASSUME NetsAssumption    == InitialNets \subseteq {n \in Net : PortsInBridges(n)}
ASSUME FaultsAssumption  == FaultKinds \subseteq Fault
ASSUME BoundsAssumption  == MaxRows \in Nat /\ MaxFaults \in Nat
ASSUME HostapdAssumption == "br106" \in Names

VARIABLES
    modelNum, oneWifiEnabled,   \* g_ovsActionConfig, the same at every start
    net,            \* kernel and Open vSwitch
    pc,             \* where the agent is
    req, status,    \* the row in work and its status so far
    restoreBridge, ethBhaulFound,   \* locals of ovs_setupEthSwitch
    rows,           \* every row inserted, in order
    handled,        \* rows the monitor has delivered or skipped
    feedback,       \* every Feedback: [row, status]
    faults,         \* number of failures and crashes
    before, failed, \* history: net when req was taken, what failed since,
    remade          \*   and whether hostapd has created br106 since

rowVars   == <<req, before, handled, rows, remade>>
localVars == <<restoreBridge, ethBhaulFound>>
envVars   == <<modelNum, oneWifiEnabled>>
vars == <<rowVars, localVars, envVars, net, pc, status, feedback, faults, failed>>

NoRow == CHOOSE c \in Configs : TRUE

Point == {"off", "listen", "deaf", "delete", "bridge", "vlan", "gre", "other",
          "ethCreate", "ethBhaul", "link", "remove", "configure",
          "bridgeFlows", "portFlows", "msoFlows", "answer"}

TypeOK ==
    /\ modelNum \in Models /\ oneWifiEnabled \in BOOLEAN
    /\ net \in Net /\ before \in Net
    /\ pc \in Point
    /\ req \in Config
    /\ status \in {"SUCCESS", "FAILED"}
    /\ restoreBridge \in Names \cup {NoName} /\ ethBhaulFound \in BOOLEAN
    /\ rows \in Seq(Config)
    /\ handled \in 0 .. Len(rows)
    /\ feedback \in Seq([row: Nat, status: {"SUCCESS", "FAILED"}])
    /\ faults \in Nat
    /\ failed \subseteq Fault
    /\ remade \in BOOLEAN

Init ==
    /\ modelNum \in Models /\ oneWifiEnabled \in BOOLEAN
    /\ net \in InitialNets /\ before = net
    /\ pc = "off" /\ status = "SUCCESS"
    /\ req = NoRow
    /\ restoreBridge = NoName /\ ethBhaulFound = FALSE
    /\ rows = <<>> /\ handled = 0 /\ feedback = <<>>
    /\ faults = 0 /\ failed = {} /\ remade = FALSE

----------------------------------------------------------------------------
(* What the code decides by *)

BrcmModels == {"CGM4331COM", "CGM4981COM", "SR203"}
GuiModels  == {"CGM4140COM", "TG3482G", "CGM4331COM", "CGM4981COM", "TG4482A"}
KnownModels == BrcmModels \cup GuiModels
                   \cup {"SR300", "SE501", "WNXL11BWL", "SR213"}

PUMA7_ETH1 == "nsgmii1.100"
PUMA7_ETH2 == "nsgmii1.101"
ETH_BHAUL_IF == "ethsw123"
ETH_BHAUL_BR == "brebhaul"

Other(eth) == IF eth = PUMA7_ETH1 THEN PUMA7_ETH2 ELSE PUMA7_ETH1

\* "Setup Xfinity Wifi bridges using Linux bridge utils and not OVS"
KindOf(b) == IF b \in {"brlan2", "brlan3", "brlan4", "brlan5"} THEN "linux" ELSE "ovs"

NeedsEthSwitch ==
    /\ modelNum = "TG3482G"
    /\ req.name \in {PUMA7_ETH1, PUMA7_ETH2}
    /\ req.cmd = "up"

IsGuiPort  == req.parent = "brlan0" /\ req.name = "llan0"
IsLnfPort  == req.parent = "br106" /\ req.name = "wl0.3"

WifiFlows == {"brcm", "airiq"}
    \cup IF oneWifiEnabled \/ modelNum = "SR203" THEN {} ELSE {"dot1x"}

\* ovs_setup_bridge_flows: the status, and the flows of req.parent.
bridge_flows_status ==
    IF modelNum \in BrcmModels /\ req.parent = NoName THEN "FAILED" ELSE "SUCCESS"

setup_bridge_flows(n) ==
    IF modelNum \notin BrcmModels \/ req.parent = NoName THEN n
    ELSE LET cleared == del_flows(n, req.parent, WifiFlows)
         IN  IF req.cmd = "remove" THEN cleared
             ELSE add_flows(cleared, req.parent, WifiFlows)

\* At most one thing goes wrong in a step.
MayFail(kinds) ==
    {"none"} \cup IF faults < MaxFaults THEN kinds \cap FaultKinds ELSE {}

Count(f) == faults' = IF f = "none" THEN faults ELSE faults + 1

Suffer(f) == Count(f) /\ failed' = failed \cup ({f} \ {"none"})

\* The commands of a step: all of them, or none has an effect.
Run(f, n) == net' = IF f = "command" THEN net ELSE n

AfterLink == IF req.parent = NoName THEN "answer" ELSE "remove"

\* Mutant: the flows are set up whatever became of the bridge.
AfterParent_always(s) == IF req.type = "other" THEN "portFlows" ELSE "answer"

AfterParent(s) ==
    IF req.type = "other" /\ s = "SUCCESS" THEN "portFlows" ELSE "answer"

----------------------------------------------------------------------------
(* Start, crash, and the rows *)

insert_row ==
    /\ Len(rows) < MaxRows
    /\ \E c \in Configs : rows' = Append(rows, c)
    /\ UNCHANGED <<req, before, handled, remade, localVars, envVars, net, pc,
                   status, feedback, faults, failed>>

\* Mutant: rows that were there before the agent are handled at a start.
ovs_action_init_replays ==
    /\ pc = "off" /\ modelNum \in KnownModels
    /\ pc' = "listen" /\ handled' = 0
    /\ UNCHANGED <<req, before, rows, remade, localVars, envVars, net, status,
                   feedback, faults, failed>>

\* Mutant: one row too many is skipped.
ovs_action_init_skips ==
    /\ pc = "off" /\ modelNum \in KnownModels
    /\ pc' = "listen" /\ handled' = Len(rows) + 1
    /\ UNCHANGED <<req, before, rows, remade, localVars, envVars, net, status,
                   feedback, faults, failed>>

\* ovs_action_init, then the monitor of Gateway_Config, whose initial rows are
\* ignored.  An unknown model or a failure of syscfg keeps the agent down.
ovs_action_init ==
    /\ pc = "off"
    /\ modelNum \in KnownModels
    /\ \E f \in MayFail({"syscfg"}) :
        /\ Suffer(f)
        /\ IF f = "none" THEN pc' = "listen" /\ handled' = Len(rows)
           ELSE UNCHANGED <<pc, handled>>
    /\ UNCHANGED <<req, before, rows, remade, localVars, envVars, net, status,
                   feedback>>

\* The handling of a row is over: its variables go out of scope.
Forget ==
    /\ req' = NoRow /\ before' = net /\ remade' = FALSE /\ status' = "SUCCESS"
    /\ restoreBridge' = NoName /\ ethBhaulFound' = FALSE

\* The server closes the connection: the listen thread ends, main sleeps on.
ovsdb_closed ==
    /\ pc = "listen"
    /\ "closed" \in MayFail({"closed"}) /\ Count("closed")
    /\ pc' = "deaf"
    /\ UNCHANGED <<rowVars, localVars, envVars, net, status, feedback, failed>>

\* The daemon dies between two commands; bridges, ports and rows stay.
crash ==
    /\ pc # "off"
    /\ "crash" \in MayFail({"crash"}) /\ Count("crash")
    /\ pc' = "off"
    /\ failed' = {}
    /\ Forget
    /\ UNCHANGED <<handled, rows, envVars, net, feedback>>

\* Rows that come with no call of ovs_action_gateway_config, and get no Feedback:
\* their update is cut and dropped, a row before them in it cannot be parsed, or
\* gwconf_mon_cb is given no row.
update_lost ==
    /\ pc = "listen"
    /\ "update" \in MayFail({"update"}) /\ Count("update")
    /\ failed' = {"update"}
    /\ handled' \in handled + 1 .. Len(rows)
    /\ UNCHANGED <<req, before, rows, remade, localVars, envVars, net, pc, status,
                   feedback>>

\* gwconf_mon_cb up to the switch of ovs_action_gateway_config.
ovs_action_gateway_config ==
    /\ pc = "listen"
    /\ handled < Len(rows)
    /\ handled' = handled + 1
    /\ req' = rows[handled']
    /\ before' = net /\ failed' = {} /\ remade' = FALSE
    /\ status' = "SUCCESS"
    /\ pc' = IF req'.cmd = "delete" THEN "delete" ELSE req'.type
    /\ UNCHANGED <<rows, localVars, envVars, net, feedback, faults>>

\* Mutant: only a success is reported.
gwconf_mon_cb_silent ==
    /\ pc = "answer"
    /\ pc' = "listen"
    /\ failed' = {}
    /\ feedback' = IF status = "FAILED" THEN feedback
                   ELSE Append(feedback, [row |-> handled, status |-> status])
    /\ Forget
    /\ UNCHANGED <<handled, rows, envVars, net, faults>>

\* gwconf_mon_cb from there: a Feedback that is not sent is not sent again.
gwconf_mon_cb ==
    /\ pc = "answer"
    /\ pc' = "listen"
    /\ \E f \in MayFail({"write"}) :
        /\ Count(f) /\ failed' = {f} \ {"none"}
        /\ feedback' = IF f = "write" THEN feedback
                       ELSE Append(feedback, [row |-> handled, status |-> status])
    /\ Forget
    /\ UNCHANGED <<handled, rows, envVars, net>>

\* hostapd creates br106 without the agent ("bypasses our OvsAgentApi").
hostapd ==
    /\ ~Exists(net, "br106")
    /\ net' = add_bridge(net, "ovs", "br106")
    /\ remade' = TRUE
    /\ UNCHANGED <<req, before, handled, rows, localVars, envVars, pc, status,
                   feedback, faults, failed>>

----------------------------------------------------------------------------
(* Bridges and links *)

configVars == <<rowVars, envVars, feedback>>

delete_interface ==
    /\ pc = "delete"
    /\ pc' = "answer"
    /\ \E f \in MayFail({"command"}) :
        /\ Suffer(f)
        /\ Run(f, IF req.type = "bridge" THEN del_bridge(net, req.name)
                  ELSE link_del(net, req.name))
    /\ UNCHANGED <<configVars, localVars, status>>

\* Always Open vSwitch, whatever the name; the flows go to req.parent.
ovs_createBridge ==
    /\ pc = "bridge"
    /\ pc' = "answer"
    /\ status' = bridge_flows_status
    /\ \E f \in MayFail({"command"}) :
        /\ Suffer(f)
        /\ Run(f, setup_bridge_flows(
                    ifconfig(add_bridge(net, "ovs", req.name), req.name, req.cmd)))
    /\ UNCHANGED <<configVars, localVars>>

create_link ==
    /\ pc' = AfterLink
    /\ \E f \in MayFail({"command"}) :
        /\ Suffer(f)
        /\ Run(f, LET n == IF req.under THEN link_add(net, {req.name}) ELSE net
                  IN  ifconfig(n, req.name, req.cmd))
    /\ UNCHANGED <<configVars, localVars, status>>

ovs_createVlan == pc = "vlan" /\ create_link
ovs_createGRE  == pc = "gre" /\ create_link

\* ovs_addPort up to modifyParentBridge
ovs_addPort ==
    /\ pc = "link" \/ (pc = "other" /\ ~NeedsEthSwitch)
    /\ pc' = AfterLink
    /\ \E f \in MayFail({"command"}) :
        /\ Suffer(f)
        /\ Run(f, ifconfig(net, req.name, req.cmd))
    /\ UNCHANGED <<configVars, localVars, status>>

\* ovs_setupEthSwitch: the bridge of the other port is looked up and, if there
\* is one, the port leaves it.
setupEthSwitch_find ==
    /\ pc = "other" /\ NeedsEthSwitch
    /\ ethBhaulFound' = (ETH_BHAUL_IF \in net.present)
    /\ \E f \in MayFail({"lookup", "command"}) :
        LET other  == Other(req.name)
            bridge == net.master["ovs"][other]
        IN  /\ Suffer(f)
            /\ IF f = "lookup"
               THEN /\ status' = "FAILED" /\ pc' = "answer"
                    /\ UNCHANGED <<restoreBridge, net>>
               ELSE /\ restoreBridge' = IF other \in net.present THEN bridge
                                        ELSE NoName
                    /\ Run(f, IF restoreBridge' = NoName THEN net
                              ELSE del_port(net, "ovs", bridge, other))
                    /\ pc' = "ethCreate" /\ UNCHANGED status
    /\ UNCHANGED configVars

\* Mutant: the other port is not added back to its bridge.
setupEthSwitch_create_forgets ==
    /\ pc = "ethCreate"
    /\ pc' = "ethBhaul"
    /\ net' = link_add(del_port(net, "ovs", net.master["ovs"][req.name], req.name),
                       {req.name})
    /\ UNCHANGED <<configVars, localVars, status, faults, failed>>

\* setupAndRestoreEthSwitchCmds or setupEthSwitchCmds: the switch driver makes
\* the links anew and may take the backhaul VLAN on top of them away.
setupEthSwitch_create ==
    /\ pc = "ethCreate"
    /\ pc' = "ethBhaul"
    /\ \E f \in MayFail({"command"} \cup
                            IF restoreBridge = NoName THEN {} ELSE {"lookup"}),
          lost \in SUBSET ({ETH_BHAUL_IF} \cap net.present) :
        LET own   == del_port(net, "ovs", net.master["ovs"][req.name], req.name)
            made  == IF restoreBridge = NoName THEN link_add(net, {req.name})
                     ELSE add_port(link_add(own, {PUMA7_ETH1, PUMA7_ETH2}),
                                   "ovs", restoreBridge, Other(req.name))
        IN  /\ Suffer(f)
            /\ IF f = "lookup" THEN status' = "FAILED" /\ net' = net
               ELSE /\ Run(f, [made EXCEPT !.present = @ \ lost, !.up = @ \ lost])
                    /\ UNCHANGED status
    /\ UNCHANGED <<configVars, localVars>>

\* The Ethernet backhaul is put back, even if the port could not be set up.
setupEthSwitch_bhaul ==
    /\ pc = "ethBhaul"
    /\ pc' = IF status = "FAILED" THEN "answer" ELSE "link"
    /\ \E f \in MayFail(IF ethBhaulFound THEN {"command"} ELSE {}) :
        /\ Suffer(f)
        /\ Run(f, IF ~ethBhaulFound THEN net
                  ELSE add_port(ifconfig(link_add(net, {ETH_BHAUL_IF}),
                                         ETH_BHAUL_IF, "up"),
                                "ovs", ETH_BHAUL_BR, ETH_BHAUL_IF))
    /\ UNCHANGED <<configVars, localVars, status>>

----------------------------------------------------------------------------
(* ovs_modifyParentBridge *)

existingBridge == net.master[KindOf(req.parent)][req.name]

RemovePort ==
    \/ existingBridge = req.parent /\ req.cmd = "remove"
    \/ existingBridge # req.parent /\ req.cmd = "up"

\* Mutant: a port that is in another bridge is left there.
removeExistingInterfacePort_keeps ==
    /\ pc = "remove"
    /\ pc' = IF req.cmd = "remove" THEN AfterParent("SUCCESS") ELSE "configure"
    /\ net' = IF req.cmd = "remove"
              THEN del_port(net, KindOf(req.parent), req.parent, req.name) ELSE net
    /\ UNCHANGED <<configVars, localVars, status, faults, failed>>

\* The kind of the bridge asked for decides where the port is looked for.  In
\* sysfs nothing is read unless the port is in a bridge.
removeExistingInterfacePort ==
    /\ pc = "remove"
    /\ \E f \in MayFail({"command"} \cup
                    IF KindOf(req.parent) = "linux" /\ existingBridge = NoName
                    THEN {} ELSE {"lookup"}) :
        /\ Suffer(f)
        /\ IF f = "lookup"
           THEN status' = "FAILED" /\ net' = net /\ pc' = "answer"
           ELSE /\ Run(f, IF existingBridge # NoName /\ RemovePort
                          THEN del_port(net, KindOf(req.parent), existingBridge,
                                        req.name)
                          ELSE net)
                /\ pc' = IF req.cmd = "remove" THEN AfterParent("SUCCESS")
                         ELSE "configure"
                /\ UNCHANGED status
    /\ UNCHANGED <<configVars, localVars>>

\* The bridge is created if need be and the port added; listing the ports
\* afterwards may fail.
configureParentBridge ==
    /\ pc = "configure"
    /\ \E f \in MayFail({"list", "command"}) :
        LET k      == KindOf(req.parent)
            bridge == ifconfig(add_bridge(net, k, req.parent), req.parent, req.cmd)
        IN  /\ Suffer(f)
            /\ Run(f, add_port(bridge, k, req.parent, req.name))
            /\ status' = IF f = "list" THEN "FAILED" ELSE "SUCCESS"
            /\ pc' = IF Exists(net, req.parent) THEN AfterParent(status')
                     ELSE "bridgeFlows"
    /\ UNCHANGED <<configVars, localVars>>

\* For a new bridge only; the status of the listing is overwritten.
modifyParentBridge_flows ==
    /\ pc = "bridgeFlows"
    /\ status' = bridge_flows_status
    /\ pc' = AfterParent(status')
    /\ \E f \in MayFail({"command"}) : Suffer(f) /\ Run(f, setup_bridge_flows(net))
    /\ UNCHANGED <<configVars, localVars>>

----------------------------------------------------------------------------
(* ovs_setup_port_flows *)

\* br106 is created by hostapd, so its bridge flows come with its port wl0.3.
ovs_setup_port_flows ==
    /\ pc = "portFlows"
    /\ ~(IsGuiPort /\ modelNum \in GuiModels)
    /\ pc' = "answer"
    /\ status' = "SUCCESS"
    /\ \E f \in MayFail(IF IsLnfPort THEN {"command"} ELSE {}) :
        /\ Suffer(f)
        /\ Run(f, IF IsLnfPort THEN setup_bridge_flows(net) ELSE net)
    /\ UNCHANGED <<configVars, localVars>>

\* Mutant: the flows are added at a removal too.
ovs_setup_admin_gui_access_always ==
    /\ pc = "portFlows"
    /\ IsGuiPort /\ modelNum \in GuiModels
    /\ pc' = "msoFlows"
    /\ net' = add_flows(net, req.parent, {"arp", "ip"})
    /\ UNCHANGED <<configVars, localVars, status, faults, failed>>

\* The MAC address of lan0 is read after the old flows are gone.  The status is
\* overwritten by the next step.
ovs_setup_admin_gui_access ==
    /\ pc = "portFlows"
    /\ IsGuiPort /\ modelNum \in GuiModels
    /\ pc' = "msoFlows"
    /\ \E f \in MayFail({"address", "command"} \cup
                            IF req.cmd = "remove" THEN {} ELSE {"mac"}) :
        LET cleared == del_flows(net, req.parent, {"arp", "ip"})
        IN  /\ Suffer(f)
            /\ status' = IF f \in {"address", "mac"} THEN "FAILED" ELSE "SUCCESS"
            /\ Run(f, CASE f = "address" -> net
                        [] f = "mac" \/ req.cmd = "remove" -> cleared
                        [] OTHER -> add_flows(cleared, req.parent, {"arp", "ip"}))
    /\ UNCHANGED <<configVars, localVars>>

ovs_block_mso_ui_access ==
    /\ pc = "msoFlows"
    /\ pc' = "answer"
    /\ \E f \in MayFail({"param", "command"}) :
        LET cleared == del_flows(net, req.parent, {"ipv6"})
        IN  /\ Suffer(f)
            /\ status' = IF f = "param" THEN "FAILED" ELSE "SUCCESS"
            /\ Run(f, CASE f = "param" -> net
                        [] req.cmd = "remove" -> cleared
                        [] OTHER -> add_flows(cleared, req.parent, {"ipv6"}))
    /\ UNCHANGED <<configVars, localVars>>

----------------------------------------------------------------------------

agent ==
    \/ ovs_action_init \/ ovs_action_gateway_config \/ gwconf_mon_cb
    \/ delete_interface \/ ovs_createBridge \/ ovs_createVlan \/ ovs_createGRE
    \/ ovs_addPort
    \/ setupEthSwitch_find \/ setupEthSwitch_create \/ setupEthSwitch_bhaul
    \/ removeExistingInterfacePort \/ configureParentBridge
    \/ modifyParentBridge_flows
    \/ ovs_setup_port_flows \/ ovs_setup_admin_gui_access
    \/ ovs_block_mso_ui_access

\* Every row is handled, or the agent cannot start or has lost its connection.
quiet ==
    /\ Len(rows) = MaxRows
    /\ pc \in {"off", "deaf"} \/ (pc = "listen" /\ handled = MaxRows)
    /\ UNCHANGED vars

Next == insert_row \/ agent \/ update_lost \/ ovsdb_closed \/ crash \/ hostapd \/ quiet

Spec == Init /\ [][Next]_vars

\* The listen thread is scheduled and its commands return.
FairSpec == Spec /\ WF_vars(agent)

----------------------------------------------------------------------------
(* Properties *)

Answered == {feedback[i].row : i \in 1 .. Len(feedback)}

\* The agent implements its contract: rows are settled in order, once each.
Contract == INSTANCE AgentContract WITH
    asked    <- Len(rows),
    settled  <- IF pc \in {"off", "listen", "deaf"} THEN handled ELSE handled - 1,
    answered <- Answered

ImplementsAgentContract == Contract!Spec

\* The row in work has been carried out and no command failed on the way.
Succeeded == pc = "answer" /\ status = "SUCCESS" /\ "command" \notin failed

WrongKind == IF KindOf(req.parent) = "ovs" THEN "linux" ELSE "ovs"

\* What a port request needs to find, and the code does not look for: the link,
\* unless the request makes it; the port in no bridge of the other kind, which it
\* would not leave; the bridge's name not taken; a port that is brought down is
\* not moved.
PortCanMove ==
    LET k == KindOf(req.parent)
    IN  /\ \/ req.name \in before.present
           \/ IF req.type = "other" THEN NeedsEthSwitch ELSE req.under
        /\ before.master[WrongKind][req.name] = NoName
        /\ req.parent \notin before.bridges[WrongKind] \cup before.present
                             \cup {req.name, PUMA7_ETH1, PUMA7_ETH2}
        /\ req.cmd = "down" => before.master[k][req.name] \in {NoName, req.parent}

\* A deleted bridge is gone, unless hostapd has created it again: but a Linux
\* bridge is not, ovs-vsctl does not know it.  A bridge that is brought up or down
\* is an Open vSwitch bridge and is up or down, unless its name was taken.
BridgeAsAsked ==
    /\ req.cmd = "delete" /\ req.name \notin before.bridges["linux"] =>
         \/ \A k \in Kind : req.name \notin net.bridges[k]
         \/ req.name = "br106" /\ remade
    /\ /\ req.cmd \in {"up", "down"}
       /\ req.name \notin before.bridges["linux"] \cup before.present
       => /\ req.name \in net.bridges["ovs"]
          /\ req.name \in net.up <=> req.cmd = "up"

\* A deleted link is gone and a removed port has left the bridge; a port that can
\* move is in the bridge it was asked into, and both are up or down.
PortAsAsked ==
    LET k    == KindOf(req.parent)
        ends == {req.name, req.parent} \ {NoName}
    IN  /\ req.cmd = "delete" => req.name \notin net.present
        /\ req.cmd = "remove" /\ req.parent # NoName =>
             net.master[k][req.name] # req.parent
        /\ req.cmd \in {"up", "down"} /\ PortCanMove =>
             /\ req.parent # NoName => net.master[k][req.name] = req.parent
             /\ IF req.cmd = "up" THEN ends \subseteq net.up
                ELSE ends \cap net.up = {}

\* SUCCESS means that the bridge or the port is as the row asks.  Nothing is said
\* of a bridge row with "remove", for which the code creates the bridge although
\* gateway_config.h calls it the removal command.
SuccessIsConfigured ==
    Succeeded => IF req.type = "bridge" THEN BridgeAsAsked ELSE PortAsAsked

\* The flows follow: the GUI flows and the MSO block are there for llan0 in
\* brlan0 and gone after its removal; a bridge that a port row of any type has
\* created has the wifi flows, and so has br106, whoever created it, with the port
\* wl0.3.  ARP and IP flows may be missing after SUCCESS only if the address or
\* the MAC of lan0 could not be read.
SuccessHasFlows ==
    Succeeded /\ req.type # "bridge" /\ req.cmd # "delete" /\ PortCanMove =>
      LET Flows(fs)  == {req.parent} \X fs
          Follow(fs) == IF req.cmd = "remove" THEN Flows(fs) \cap net.flows = {}
                        ELSE Flows(fs) \subseteq net.flows
          gui  == /\ req.type = "other" /\ IsGuiPort /\ modelNum \in GuiModels
                  /\ "brlan0" \in net.bridges["ovs"]
          wifi == /\ modelNum \in BrcmModels /\ KindOf(req.parent) = "ovs"
                  /\ req.parent # NoName /\ req.cmd # "remove"
                  /\ \/ req.type = "other" /\ IsLnfPort
                     \/ /\ ~Exists(before, req.parent)
                        /\ req.parent = "br106" => ~remade
      IN  /\ gui => Follow({"ipv6"})
          /\ gui /\ failed \cap {"address", "mac"} = {} => Follow({"arp", "ip"})
          /\ wifi => Follow(WifiFlows)

\* Handling a row leaves the ports it is not about where they were, the other
\* port of the eth switch and the backhaul included, unless their bridge is
\* deleted.
OthersUndisturbed ==
    Succeeded =>
        \A k \in Kind : \A i \in Names \ {req.name} :
            net.master[k][i] # before.master[k][i] =>
                \/ req.cmd = "delete" /\ before.master[k][i] = req.name
                \/ i = ETH_BHAUL_IF /\ net.master[k][i] = ETH_BHAUL_BR

\* A failure the code notices makes the status FAILED, but for three that a later
\* step overwrites: listing the ports of a new bridge, and lan0's addresses.  (The
\* name of the backhaul link, as a bridge, counts as new when the switch driver
\* has taken the link away.)
NoticedFailuresReported ==
    pc = "answer" /\ status = "SUCCESS" =>
        /\ failed \subseteq {"command", "list", "address", "mac"}
        /\ "list" \in failed => \/ ~Exists(before, req.parent)
                                \/ req.parent = ETH_BHAUL_IF
        /\ failed \cap {"address", "mac"} # {} => IsGuiPort

\* A row inserted while the agent runs is answered, unless the agent crashes, its
\* connection is closed, the update that brings the row does not reach
\* gwconf_mon_cb, or the Feedback cannot be written.
RowsAnswered ==
    \A r \in 1 .. MaxRows :
        (pc \notin {"off", "deaf"} /\ handled < r /\ r <= Len(rows))
            ~> \/ r \in Answered \/ pc \in {"off", "deaf"}
               \/ handled >= r /\ "update" \in failed
               \/ handled = r /\ "write" \in failed
=============================================================================
