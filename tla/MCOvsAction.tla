---------------------------- MODULE MCOvsAction -----------------------------
(***************************************************************************)
(* Constants of OvsAction for TLC.                                         *)
(***************************************************************************)
EXTENDS OvsAction

MCNames == {"brlan0", "brlan2", "br106", "brebhaul", "llan0", "wl0.3",
            "nsgmii1.100", "nsgmii1.101", "ethsw123", "gre0"}

Row(type, cmd, name, parent) ==
    [type |-> type, cmd |-> cmd, name |-> name, parent |-> parent,
     under |-> type \in {"vlan", "gre"} /\ cmd # "remove"]

\* Rows as bridge utilities and tests write them: bridges have no parent.
MCConfigs ==
    {Row("bridge", c, "brlan0", NoName) : c \in {"up", "delete"}}
    \cup {Row("bridge", "delete", b, NoName) : b \in {"br106", "brlan2"}}
    \cup {Row("other", c, "llan0", "brlan0") : c \in {"up", "down", "remove"}}
    \cup {Row("other", c, "wl0.3", "br106") : c \in {"up", "delete"}}
    \cup {Row("other", "up", "nsgmii1.100", "brlan0"),
          Row("other", "up", "nsgmii1.101", "brlan0"),
          Row("vlan", "up", "gre0", "brlan0"),
          Row("gre", "up", "gre0", "brlan2"), Row("gre", "up", "gre0", "br106")}

Master(ports) == [i \in Names |-> IF i \in DOMAIN ports THEN ports[i] ELSE NoName]

Device(bridges, ports, links) ==
    [bridges |-> [ovs |-> bridges, linux |-> {}],
     master |-> [ovs |-> Master(ports), linux |-> Master(<<>>)],
     present |-> links, up |-> {}, flows |-> {}]

\* A gateway with bare links; one with a backhaul and a port in another bridge.
MCNets ==
    {Device({}, <<>>, {"llan0", "wl0.3"}),
     Device({"brlan0", "brebhaul"},
            [p \in {"nsgmii1.101", "llan0", "ethsw123"} |->
                IF p = "nsgmii1.101" THEN "brlan0" ELSE "brebhaul"],
            {"llan0", "wl0.3", "nsgmii1.100", "nsgmii1.101", "ethsw123"})}

MCModels == {"TG3482G", "CGM4331COM", "UNKNOWN"}
=============================================================================
