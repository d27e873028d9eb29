---------------------------- MODULE NetworkState ----------------------------
(***************************************************************************)
(* The kernel and Open vSwitch as OvsAction/ovs_action.c uses them: what   *)
(* the shell commands it runs do to bridges, ports, links and flows.  A    *)
(* command that cannot be carried out changes nothing.                     *)
(***************************************************************************)
CONSTANT Names      \* names of bridges and interfaces

NoName == ""        \* an empty column, or no bridge

ASSUME NamesAssumption == NoName \notin Names

Kind == {"ovs", "linux"}

\* arp, ip: admin GUI; ipv6: MSO UI; the others are the ether types of
\* Broadcom's wifi drivers.
Flow == {"arp", "ip", "ipv6", "brcm", "airiq", "dot1x"}

\* master: the bridge an interface is a port of, by the database of Open vSwitch
\* and by /sys/class/net of the kernel.
Net == [bridges : [Kind -> SUBSET Names],
        master  : [Kind -> [Names -> Names \cup {NoName}]],
        present : SUBSET Names,
        up      : SUBSET Names,
        flows   : SUBSET (Names \X Flow)]

\* A port is a port of a bridge that is there.
PortsInBridges(n) ==
    \A k \in Kind : \A i \in Names : n.master[k][i] \in n.bridges[k] \cup {NoName}

\* access() on /sys/class/net/<x>
Exists(n, x) == x \in n.present \cup n.bridges["ovs"] \cup n.bridges["linux"]

\* ovs-vsctl add-br, brctl addbr
add_bridge(n, k, b) ==
    IF Exists(n, b) THEN n ELSE [n EXCEPT !.bridges[k] = @ \cup {b}]

\* ovs-vsctl del-br: the ports and flows of the bridge go with it.
del_bridge(n, b) ==
    IF b \notin n.bridges["ovs"] THEN n
    ELSE [n EXCEPT !.bridges["ovs"] = @ \ {b},
                   !.master["ovs"] = [i \in Names |->
                        IF n.master["ovs"][i] = b THEN NoName
                        ELSE n.master["ovs"][i]],
                   !.up = @ \ {b},
                   !.flows = {f \in n.flows : f[1] # b}]

\* ovs-vsctl add-port records the port whether or not there is such a device;
\* brctl addif needs a device that no bridge has.
add_port(n, k, b, i) ==
    IF /\ b \in n.bridges[k]
       /\ n.master[k][i] = NoName
       /\ k = "linux" => i \in n.present /\ n.master["ovs"][i] = NoName
    THEN [n EXCEPT !.master[k][i] = b] ELSE n

\* ovs-vsctl del-port, brctl delif
del_port(n, k, b, i) ==
    IF n.master[k][i] = b THEN [n EXCEPT !.master[k][i] = NoName] ELSE n

\* ifconfig <x> up or down
ifconfig(n, x, cmd) ==
    CASE cmd = "up" /\ Exists(n, x) -> [n EXCEPT !.up = @ \cup {x}]
      [] cmd = "down"               -> [n EXCEPT !.up = @ \ {x}]
      [] OTHER                      -> n

\* ip link add, vconfig add, vlan_util add_interface
link_add(n, links) == [n EXCEPT !.present = @ \cup links]

\* ip link del: a Linux bridge loses the port, Open vSwitch keeps its record.
link_del(n, i) ==
    [n EXCEPT !.present = @ \ {i}, !.up = @ \ {i}, !.master["linux"][i] = NoName]

\* ovs-ofctl add-flow, del-flows
add_flows(n, b, fs) ==
    IF b \in n.bridges["ovs"] THEN [n EXCEPT !.flows = @ \cup ({b} \X fs)] ELSE n

del_flows(n, b, fs) == [n EXCEPT !.flows = @ \ ({b} \X fs)]
=============================================================================
