----------------------------- MODULE ContainerRun -----------------------------
(***************************************************************************)
(* One container on the Docker host, from the request to its removal:      *)
(* DockerRunner.run and withEphemeralService of packages/runner/src/       *)
(* docker.ts, the engine calls below them, and the consumer that reads the *)
(* container's output (the upload of a backup).                            *)
(*                                                                         *)
(* The daemon answers, fails, or keeps silent; the container exits or runs *)
(* on; the output stream ends, breaks or stays open, in any order.  The    *)
(* caller may abort at any moment and the timeout may fire.                *)
(***************************************************************************)
EXTENDS Integers, FiniteSets

CONSTANT MaxDaemonFaults  \* bound on daemon calls that fail or never return

ASSUME DaemonBounds == MaxDaemonFaults \in Nat

Outcomes == {"none", "exit0", "exit1", "served", "aborted", "timeout", "notReady", "failed"}

VARIABLES
  service,    \* withEphemeralService, not run
  cpc,        \* where the call is
  container,  \* "absent", "created", "running", "exited"
  status,     \* the exit status the container will give, once it exited
  output,     \* its output stream: "open", "ended", "broken"
  whole,      \* the whole output has reached the sink
  waited,     \* container.wait() has resolved
  wired,      \* the sink is fed from the stream
  sink,       \* opts.stdout: "open", "ended"
  upload,     \* the consumer of the sink: "reading", "done", "gone"
  signal,     \* opts.signal.aborted
  outcome,    \* what the call returns, "none" while it runs
  reaped,     \* the removal of the container: "due", "done", "failed", "hung"
  daemonFaults

daemon == <<container, status, output, whole, waited>>
io     == <<wired, sink, upload>>
nvars  == <<service, cpc, daemon, io, signal, outcome, reaped, daemonFaults>>

RunPcs == {"entry", "image", "network", "start", "wire", "race", "finally", "removing", "settled",
           "poll", "use"}

ContainerInit ==
  /\ service \in BOOLEAN /\ cpc = "entry" /\ container = "absent" /\ status = 0
  /\ output = "open" /\ whole = FALSE /\ waited = FALSE
  /\ wired = FALSE /\ sink = "open" /\ upload = "reading"
  /\ signal = FALSE /\ outcome = "none" /\ reaped = "due" /\ daemonFaults = 0

Step(from, to) == cpc = from /\ cpc' = to
DaemonFault == daemonFaults < MaxDaemonFaults /\ daemonFaults' = daemonFaults + 1
(* A failure before there is a container ends the sink and throws.         *)
EndStdout == sink' = "ended"
Throw(from, why) ==
  Step(from, "settled") /\ outcome' = why /\ EndStdout /\ UNCHANGED <<service, wired, upload, signal, reaped>>

-----------------------------------------------------------------------------
(* Before the container.                                                   *)

(* run: the signal, the image, the network; withEphemeralService: the      *)
(* network, the signal, the image.                                         *)
Enter == Step("entry", IF service THEN "network" ELSE "image") /\ (signal => service)
         /\ UNCHANGED <<service, daemon, io, signal, outcome, reaped, daemonFaults>>
EnterAborted == ~service /\ signal /\ Throw("entry", "aborted") /\ UNCHANGED <<daemon, daemonFaults>>
PullImage == Step("image", IF service THEN "start" ELSE "network")
             /\ UNCHANGED <<service, daemon, io, signal, outcome, reaped, daemonFaults>>
PullFails == DaemonFault /\ Throw("image", "failed") /\ UNCHANGED daemon
FindNetwork == Step("network", IF service THEN "image" ELSE "start") /\ (service => ~signal)
               /\ UNCHANGED <<service, daemon, io, signal, outcome, reaped, daemonFaults>>
NetworkMissing == Throw("network", "failed") /\ UNCHANGED <<daemon, daemonFaults>>
ServiceAborted == service /\ signal /\ Throw("network", "aborted") /\ UNCHANGED <<daemon, daemonFaults>>

(* createContainer, attach, start; inspect for a service.  A container that*)
(* was created and does not start is removed at once.                      *)
Started(to) == Step("start", to) /\ container' = "running"
               /\ UNCHANGED <<service, status, output, whole, waited, io, signal, outcome, reaped, daemonFaults>>
StartContainer == ~service /\ Started("wire")
StartService   == service /\ Started("poll")
(* Mutant: it is left where it is.                                         *)
StartFailsUnreaped ==
  /\ DaemonFault /\ Throw("start", "failed") /\ container' \in {"absent", "created"}
  /\ UNCHANGED <<status, output, whole, waited>>
StartFails == DaemonFault /\ Throw("start", "failed") /\ UNCHANGED daemon
ReapFails ==
  /\ daemonFaults + 2 <= MaxDaemonFaults /\ daemonFaults' = daemonFaults + 2
  /\ Step("start", "settled") /\ outcome' = "failed" /\ EndStdout
  /\ container' = "created" /\ reaped' = "failed"
  /\ UNCHANGED <<service, status, output, whole, waited, wired, upload, signal>>

-----------------------------------------------------------------------------
(* run: the race.                                                          *)

(* Mutant: a signal that came before the listener is not looked at.        *)
WireBlind ==
  /\ Step("wire", "race") /\ wired' = TRUE
  /\ UNCHANGED <<service, daemon, sink, upload, signal, outcome, reaped, daemonFaults>>
(* The listener comes after the await: a signal of before is looked at.    *)
Wire ==
  /\ cpc = "wire" /\ wired' = TRUE
  /\ IF signal THEN cpc' = "finally" /\ outcome' = "aborted" ELSE cpc' = "race" /\ UNCHANGED outcome
  /\ UNCHANGED <<service, daemon, sink, upload, signal, reaped, daemonFaults>>

(* Success is decided by the status code, once the output is complete.     *)
ExecutionSettles ==
  /\ Step("race", "finally") /\ waited /\ whole
  /\ outcome' = IF status = 0 THEN "exit0" ELSE "exit1"
  /\ UNCHANGED <<service, daemon, io, signal, reaped, daemonFaults>>
(* The stream broke, the sink was destroyed, or wait() was refused.        *)
ExecutionRejects ==
  /\ Step("race", "finally") /\ (output = "broken" \/ upload = "gone") /\ outcome' = "failed"
  /\ UNCHANGED <<service, daemon, io, signal, reaped, daemonFaults>>
WaitRejects ==
  /\ Step("race", "finally") /\ ~waited /\ DaemonFault /\ outcome' = "failed"
  /\ UNCHANGED <<service, daemon, io, signal, reaped>>
Timeout ==
  /\ Step("race", "finally") /\ outcome' = "timeout"
  /\ UNCHANGED <<service, daemon, io, signal, reaped, daemonFaults>>

(* finally: the sink before the removal, which may fail or hang.           *)
(* Mutant: the sink is left to the container's stream.                     *)
FinallyLeavesSink ==
  /\ Step("finally", "removing") /\ UNCHANGED <<service, daemon, io, signal, outcome, reaped, daemonFaults>>
Finally ==
  /\ Step("finally", "removing") /\ (IF service THEN UNCHANGED sink ELSE EndStdout)
  /\ UNCHANGED <<service, daemon, wired, upload, signal, outcome, reaped, daemonFaults>>
RemoveContainer ==
  /\ Step("removing", "settled") /\ container' = "absent" /\ reaped' = "done"
  /\ UNCHANGED <<service, status, output, whole, waited, io, signal, outcome, daemonFaults>>
RemoveFails ==
  /\ DaemonFault /\ UNCHANGED <<service, daemon, io, signal, outcome>>
  /\ \/ Step("removing", "settled") /\ reaped' = "failed"
     \/ reaped # "hung" /\ Step("removing", "removing") /\ reaped' = "hung"

-----------------------------------------------------------------------------
(* withEphemeralService: readiness, then its user.                         *)

(* A signal during the last probe is left to the user's own runs.          *)
Ready == /\ Step("poll", "use") /\ container = "running"
         /\ UNCHANGED <<service, daemon, io, signal, outcome, reaped, daemonFaults>>
PollEnds == /\ Step("poll", "finally")
            /\ outcome' \in (IF signal THEN {"aborted"} ELSE {"notReady", "failed"})
            /\ UNCHANGED <<service, daemon, io, signal, reaped, daemonFaults>>
UseEnds == /\ Step("use", "finally") /\ outcome' \in {"served", "failed"}
           /\ UNCHANGED <<service, daemon, io, signal, reaped, daemonFaults>>

-----------------------------------------------------------------------------
(* The world around the call.                                              *)

Exits == /\ container = "running" /\ container' = "exited" /\ status' \in {0, 1}
         /\ UNCHANGED <<service, cpc, output, whole, waited, io, signal, outcome, reaped, daemonFaults>>
WaitResolves == /\ cpc = "race" /\ container = "exited" /\ ~waited /\ waited' = TRUE
                /\ UNCHANGED <<service, cpc, container, status, output, whole, io, signal, outcome, reaped, daemonFaults>>
(* The daemon ends the attach stream, with the container or before it.     *)
StreamEnds == /\ container \in {"running", "exited"} /\ output = "open" /\ output' = "ended"
              /\ UNCHANGED <<service, cpc, container, status, whole, waited, io, signal, outcome, reaped, daemonFaults>>
StreamBreaks == /\ container \in {"running", "exited"} /\ output = "open" /\ DaemonFault /\ output' = "broken"
                /\ UNCHANGED <<service, cpc, container, status, whole, waited, io, signal, outcome, reaped>>
(* The pipeline hands the last byte over and ends the sink.                *)
Drained == /\ wired /\ output = "ended" /\ ~whole /\ sink = "open" /\ upload = "reading"
           /\ whole' = TRUE /\ EndStdout
           /\ UNCHANGED <<service, cpc, container, status, output, waited, wired, upload, signal, outcome, reaped, daemonFaults>>
(* The consumer sees the end of the sink; or fails, and destroys it.       *)
UploadEnds == /\ upload = "reading" /\ sink = "ended" /\ upload' = "done"
              /\ UNCHANGED <<service, cpc, daemon, wired, sink, signal, outcome, reaped, daemonFaults>>
UploadFails == /\ upload = "reading" /\ sink = "open" /\ DaemonFault /\ upload' = "gone"
               /\ UNCHANGED <<service, cpc, daemon, wired, sink, signal, outcome, reaped>>
(* The signal is dispatched to the listener at once, if there is one.      *)
Abort ==
  /\ ~signal /\ signal' = TRUE
  /\ IF cpc = "race" THEN cpc' = "finally" /\ outcome' = "aborted" ELSE UNCHANGED <<cpc, outcome>>
  /\ UNCHANGED <<service, daemon, io, reaped, daemonFaults>>

Call ==
  \/ Enter \/ EnterAborted \/ PullImage \/ FindNetwork \/ ServiceAborted \/ StartContainer \/ StartService
  \/ Wire \/ ExecutionSettles \/ ExecutionRejects \/ Finally \/ UploadEnds \/ Timeout
(* A readiness probe has no timeout, and the user of a service its own.    *)
World ==
  \/ PollEnds \/ UseEnds
  \/ PullFails \/ NetworkMissing \/ StartFails \/ ReapFails \/ WaitRejects \/ RemoveContainer \/ RemoveFails \/ Ready
  \/ Exits \/ WaitResolves \/ StreamEnds \/ StreamBreaks \/ Drained \/ UploadFails \/ Abort
ContainerNext == Call \/ World
ContainerSpec == ContainerInit /\ [][ContainerNext]_nvars /\ WF_nvars(Call)

-----------------------------------------------------------------------------
(* Properties.                                                             *)

ContainerTypeOK ==
  /\ {service, whole, waited, wired, signal} \subseteq BOOLEAN /\ cpc \in RunPcs
  /\ container \in {"absent", "created", "running", "exited"} /\ status \in {0, 1}
  /\ output \in {"open", "ended", "broken"} /\ sink \in {"open", "ended"}
  /\ upload \in {"reading", "done", "gone"} /\ outcome \in Outcomes
  /\ reaped \in {"due", "done", "failed", "hung"} /\ daemonFaults \in 0..MaxDaemonFaults

(* What run reports as an exit code is the container's, and its output is  *)
(* with the consumer by then: the end of the stream alone decides nothing. *)
(* And a shutdown is not waited out: no run lasts until its timeout after  *)
(* the signal, whenever the signal came.                                   *)
VerdictIsTheStatus ==
  outcome' \in {"exit0", "exit1"} =>
    container = "exited" /\ whole /\ outcome' = IF status = 0 THEN "exit0" ELSE "exit1"
AbortBeatsTheTimeout == outcome' = "timeout" => ~signal
OutcomeIsEarned == [][outcome = "none" => VerdictIsTheStatus /\ AbortBeatsTheTimeout]_nvars

(* However the run ended, and though the daemon never remove the container,*)
(* the consumer of its output gets to the end of it.                       *)
UploadUnblocks == ~service /\ outcome # "none" ~> upload # "reading"

(* A call that is over leaves no container, but one the daemon refused to  *)
(* remove: that one has the label the sweep looks for.                     *)
NothingIsLeftRunning == cpc = "settled" => container = "absent" \/ reaped = "failed"
=============================================================================
