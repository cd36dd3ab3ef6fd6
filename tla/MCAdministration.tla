--------------------------- MODULE MCAdministration ---------------------------
(***************************************************************************)
(* Accounts, Configuration and Delivery share no state: a behaviour of     *)
(* this module is a behaviour of one of them, the one "part" names, with   *)
(* the others at an initial state.                                         *)
(***************************************************************************)
EXTENDS Accounts, Configuration, Delivery

VARIABLE part

all == <<part, avars, cvars, dvars>>

(* Two addresses for the database of this deployment; loopback as IPv6     *)
(* writes it, the last block of fe80::/10 and the first address beyond     *)
(* 172.16.0.0/12.                                                          *)
DbA == <<172, 18, 0, 3>>
DbB == <<172, 18, 0, 2>>
Loopback  == Zeros(10) \o <<255, 255, 127, 8, 0, 1>>
LinkLocal == <<254, 191>> \o Zeros(14)
Beyond    == <<172, 32, 0, 1>>
(* A server on the operator's LAN has the address the database may get.    *)
MCNames == {"lan", "mixed", "db"}
MCAnswers == [n \in MCNames |->
  CASE n = "lan" -> {DbB} [] n = "mixed" -> {Beyond, Loopback, LinkLocal} [] OTHER -> {}]
MCSelfNames == {"db", "proxy"}
MCPlaces == {DbA, DbB}
(* As shipped, which is how a behaviour starts; and a firewall with a hole *)
(* that both addresses are in, which a reboot may bring.                   *)
MCConfigs == {[deny |-> {}, allow |-> {}],
              [deny |-> {[bytes |-> <<172, 16, 0, 0>>, prefix |-> 12]},
               allow |-> {[bytes |-> DbA, prefix |-> 31]}]}

AdministrationInit ==
  /\ part \in {"accounts", "configuration", "delivery"}
  /\ Init /\ ConfigurationInit /\ DeliveryInit
  /\ part # "accounts" => ~fromEnv
  /\ part # "configuration" => refused = {}
  /\ own = [n \in MCSelfNames |-> IF n = "db" THEN {DbA} ELSE {}]
  /\ egress.deny = {}

InAccounts(A)      == part = "accounts" /\ A /\ UNCHANGED <<part, cvars, dvars>>
InConfiguration(A) == part = "configuration" /\ A /\ UNCHANGED <<part, avars, dvars>>
InDelivery(A)      == part = "delivery" /\ A /\ UNCHANGED <<part, avars, cvars>>

AdministrationSpec ==
  /\ AdministrationInit
  /\ [][\/ InAccounts(Next) \/ InConfiguration(ConfigurationNext)
        \/ InDelivery(DeliveryNext)]_all
  /\ WF_all(InAccounts(Start)) /\ WF_all(InAccounts(CreateAdmin(Boot)))
===============================================================================
