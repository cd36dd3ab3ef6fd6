----------------------------- MODULE MCExecutors -----------------------------
(***************************************************************************)
(* Engines, RestoreJob and ContainerRun share no state: a behaviour of this*)
(* module is a behaviour of one of them, the one "part" names, with the    *)
(* others at an initial state.                                             *)
(***************************************************************************)
EXTENDS Engines, RestoreJob, ContainerRun

VARIABLE part

all == <<part, evars, rvars, nvars>>

Pinned ==
  /\ engine = "postgres" /\ selection = <<>> /\ ~narrows /\ ~secure /\ ~ca /\ sees = Names
  /\ \A d \in Databases : data[d] = Missing

ExecutorsInit ==
  /\ EnginesInit /\ RestoreInit /\ ContainerInit
  /\ \/ part = "engines" /\ ~service
     \/ part = "restore" /\ ~service /\ Pinned
     \/ part = "container" /\ Pinned

InEngines(A)   == part = "engines" /\ A /\ UNCHANGED <<part, rvars, nvars>>
InRestore(A)   == part = "restore" /\ A /\ UNCHANGED <<part, evars, nvars>>
InContainer(A) == part = "container" /\ A /\ UNCHANGED <<part, evars, rvars>>

ExecutorsSpec ==
  /\ ExecutorsInit
  /\ [][InEngines(EnginesNext) \/ InRestore(RestoreNext) \/ InContainer(ContainerNext)]_all
  /\ WF_all(InContainer(Call))
=============================================================================
