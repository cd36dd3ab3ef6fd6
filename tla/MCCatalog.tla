------------------------------ MODULE MCCatalog ------------------------------
(* Small instances of Catalog for TLC: a day is one backup, a week two and *)
(* a year three of them, so weeks straddle the years.                      *)
EXTENDS Catalog

MCTimes == 1..4
MCRules == {"week", "year"}
MCCalendar == [week |-> [t \in MCTimes |-> t \div 2], year |-> [t \in MCTimes |-> (t + 1) \div 3]]

Setting(last, weekly, yearly, minAge) ==
  [last |-> last, every |-> [week |-> weekly, year |-> yearly], minAge |-> minAge]
MCPolicies == {Setting(1, 0, 2, 0), Setting(0, 2, 0, 2), Setting(0, 0, 0, 3)}

MCAllowed == [k \in Kinds |-> 1]
=============================================================================
