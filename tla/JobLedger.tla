------------------------------ MODULE JobLedger ------------------------------
(***************************************************************************)
(* What the job table promises the rest of the product, with no locks, no  *)
(* loops, no containers and no boot sequence: rows are queued, taken       *)
(* oldest first by one worker each, reported on by that worker only, and   *)
(* written off as FAILED only when nobody reachable has them in hand.      *)
(* Worker implements it (Worker!ImplementsLedger).                         *)
(***************************************************************************)
EXTENDS Integers

CONSTANTS Workers, Rows, NoRow

Reports == {"RUNNING", "SUCCEEDED", "FAILED", "INCONCLUSIVE"}

VARIABLES
  state,      \* of every row; "ABSENT" before it is queued
  hand,       \* the row each worker has in hand
  reachable   \* workers that are alive and in session

vars == <<state, hand, reachable>>

Init ==
  /\ state = [j \in Rows |-> "ABSENT"]
  /\ hand = [w \in Workers |-> NoRow]
  /\ reachable = {}

Queue(j) ==
  /\ state[j] = "ABSENT" /\ \A i \in Rows : i < j => state[i] # "ABSENT"
  /\ state' = [state EXCEPT ![j] = "PENDING"]
  /\ UNCHANGED <<hand, reachable>>

(* Taken by w, or by a worker whose answer was lost on the way.            *)
TakeOldest(j) ==
  /\ state[j] = "PENDING" /\ \A i \in Rows : state[i] = "PENDING" => j <= i
  /\ state' = [state EXCEPT ![j] = "RUNNING"]
  /\ \/ UNCHANGED hand
     \/ \E w \in Workers : hand[w] = NoRow /\ hand' = [hand EXCEPT ![w] = j]
  /\ UNCHANGED reachable

(* w writes the state of the row it has, and may let go of it.             *)
Report(w) ==
  /\ hand[w] # NoRow
  /\ \E s \in Reports : state' = [state EXCEPT ![hand[w]] = s]
  /\ hand' \in {hand, [hand EXCEPT ![w] = NoRow]}
  /\ UNCHANGED reachable

(* w lets go, and may come and go as a process.                            *)
LetGo(w) ==
  /\ hand' \in {hand, [hand EXCEPT ![w] = NoRow]}
  /\ reachable' \in {reachable, reachable \ {w}, reachable \cup {w}}
  /\ UNCHANGED state

WriteOff ==
  /\ \A w \in reachable : hand[w] # NoRow => state[hand[w]] # "RUNNING"
  /\ state' = [j \in Rows |-> IF state[j] = "RUNNING" THEN "FAILED" ELSE state[j]]
  /\ UNCHANGED <<hand, reachable>>

Next ==
  \/ \E j \in Rows : Queue(j) \/ TakeOldest(j)
  \/ \E w \in Workers : Report(w) \/ LetGo(w)
  \/ WriteOff

Spec == Init /\ [][Next]_vars
=============================================================================
