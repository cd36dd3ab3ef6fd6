---------------------------- MODULE AdvisoryLock ----------------------------
(***************************************************************************)
(* One PostgreSQL session-level advisory lock, as                          *)
(* scheduler/advisory-lock.ts uses it: pg_try_advisory_lock never blocks   *)
(* and pg_advisory_unlock gives one acquisition back.                      *)
(*                                                                         *)
(* Every process keeps ONE dedicated connection for its locks, so a        *)
(* process is a session.  The lock belongs to the session, not to the task *)
(* that asked for it: a second tryLock of the session that already holds   *)
(* it succeeds, and the server counts the acquisitions.                    *)
(***************************************************************************)
EXTENDS Naturals

CONSTANTS
  Nobody,     \* no session holds the lock
  Stale       \* a session whose client died and that the server still keeps

Free == [holder |-> Nobody, depth |-> 0]

(* pg_try_advisory_lock answers TRUE: free, or already this session's.     *)
CanTake(l, s) == l.holder \in {Nobody, s}

Take(l, s) == [holder |-> s, depth |-> l.depth + 1]

(* pg_advisory_unlock: a warning and no effect when the session does not   *)
(* hold the lock.                                                          *)
Release(l, s) ==
  IF l.holder # s THEN l
  ELSE IF l.depth = 1 THEN Free
  ELSE [holder |-> l.holder, depth |-> l.depth - 1]

(* The connection is closed, or lost and noticed: everything it held goes. *)
EndSession(l, s) == IF l.holder = s THEN Free ELSE l

(* The client died; the server has not noticed yet.                        *)
Abandon(l, s) == IF l.holder = s THEN [holder |-> Stale, depth |-> 1] ELSE l

Locks(Sessions) == [holder : Sessions \cup {Nobody, Stale}, depth : Nat]
=============================================================================
