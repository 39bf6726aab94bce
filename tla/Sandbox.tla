------------------------------- MODULE Sandbox -------------------------------
(***************************************************************************)
(* One sandboxed oracle program and its supervisor:                        *)
(*   erofs-lab/src/oracle.rs, run_sandboxed and capture_log.               *)
(*                                                                         *)
(* Four things run concurrently: the program, which writes to two pipes    *)
(* and exits when it likes or never; one capture thread per pipe; and the  *)
(* supervisor, which polls for the exit, for cancellation and for the      *)
(* deadline, in this order, and then joins the two threads.                *)
(***************************************************************************)
EXTENDS Naturals

CONSTANTS
  PipeSize,   \* what a pipe holds, in chunks
  Limit,      \* output_bytes: what is retained of each stream, in chunks
  MaxOutput   \* bound on what the program writes to a stream

Stream == {"stdout", "stderr"}

ASSUME SandboxAssumption ==
  /\ PipeSize \in Nat \ {0}
  /\ Limit \in Nat
  /\ MaxOutput \in Nat

VARIABLES
  pc,        \* the supervisor
  child,     \* the program, "none" before it is spawned
  written,   \* chunks it has written to each stream
  pipe,      \* chunks in each pipe
  captured,  \* chunks retained of each stream
  truncated, \* chunks were dropped
  eof,       \* the capture thread has ended
  timedOut, cancelled, \* how the supervisor stopped the program
  request,   \* CampaignControl: the campaign is cancelled
  expired    \* the deadline has passed

threadVars == <<pipe, captured, truncated, eof>>
outcome == <<timedOut, cancelled>>
envVars == <<request, expired>>
vars == <<pc, child, written, threadVars, outcome, envVars>>

TypeOK ==
  /\ pc \in {"spawn", "poll", "control", "deadline", "join", "done"}
  /\ child \in {"none", "running", "exited", "killed"}
  /\ written \in [Stream -> 0..MaxOutput]
  /\ pipe \in [Stream -> 0..PipeSize]
  /\ captured \in [Stream -> 0..Limit]
  /\ truncated \in [Stream -> BOOLEAN]
  /\ eof \in [Stream -> BOOLEAN]
  /\ timedOut \in BOOLEAN /\ cancelled \in BOOLEAN
  /\ request \in BOOLEAN /\ expired \in BOOLEAN

Init ==
  /\ pc = "spawn"
  /\ child = "none"
  /\ written = [s \in Stream |-> 0]
  /\ pipe = [s \in Stream |-> 0]
  /\ captured = [s \in Stream |-> 0]
  /\ truncated = [s \in Stream |-> FALSE]
  /\ eof = [s \in Stream |-> FALSE]
  /\ timedOut = FALSE /\ cancelled = FALSE
  /\ request \in BOOLEAN /\ expired = FALSE

-----------------------------------------------------------------------------
(* The supervisor.                                                         *)

(* A missing binary or a failed spawn yields harness_output, no threads.   *)
SpawnFails ==
  /\ pc = "spawn"
  /\ pc' = "done"
  /\ UNCHANGED <<child, written, threadVars, outcome, envVars>>

Spawn ==
  /\ pc = "spawn"
  /\ pc' = "poll"
  /\ child' = "running"
  /\ UNCHANGED <<written, threadVars, outcome, envVars>>

(* try_wait comes first: an exit that was there wins over everything else. *)
Poll ==
  /\ pc = "poll"
  /\ pc' = IF child = "running" THEN "control" ELSE "join"
  /\ UNCHANGED <<child, written, threadVars, outcome, envVars>>

(* kill and wait: --kill-child takes the whole pid namespace down, so both *)
(* pipes close.  A program that exited in the meantime keeps its status.   *)
Kill == child' = IF child = "running" THEN "killed" ELSE child

CheckControl ==
  /\ pc = "control"
  /\ IF request
     THEN /\ Kill
          /\ cancelled' = TRUE
          /\ pc' = "join"
     ELSE /\ pc' = "deadline"
          /\ UNCHANGED <<child, cancelled>>
  /\ UNCHANGED <<written, threadVars, timedOut, envVars>>

(* Mutant: the kill at the deadline is not recorded.                       *)
CheckDeadlineUnrecorded ==
  /\ pc = "deadline"
  /\ IF expired
     THEN /\ Kill
          /\ pc' = "join"
     ELSE /\ pc' = "poll"
          /\ UNCHANGED child
  /\ UNCHANGED <<written, threadVars, outcome, envVars>>

(* Without a deadline the supervisor sleeps and polls again.               *)
CheckDeadline ==
  /\ pc = "deadline"
  /\ IF expired
     THEN /\ Kill
          /\ timedOut' = TRUE
          /\ pc' = "join"
     ELSE /\ pc' = "poll"
          /\ UNCHANGED <<child, timedOut>>
  /\ UNCHANGED <<written, threadVars, cancelled, envVars>>

(* Mutant: what the threads have so far is taken without joining them.     *)
JoinEarly ==
  /\ pc = "join"
  /\ pc' = "done"
  /\ UNCHANGED <<child, written, threadVars, outcome, envVars>>

Join ==
  /\ pc = "join"
  /\ \A s \in Stream : eof[s]
  /\ pc' = "done"
  /\ UNCHANGED <<child, written, threadVars, outcome, envVars>>

Supervisor == SpawnFails \/ Spawn \/ Poll \/ CheckControl \/ CheckDeadline \/ Join

-----------------------------------------------------------------------------
(* The capture threads.                                                    *)

Smaller(a, b) == IF a <= b THEN a ELSE b

(* Mutant: standard error is read once standard output has ended.          *)
CaptureInOrder(s) ==
  /\ s = "stderr" => eof["stdout"]
  /\ \E read \in 1..pipe[s] :
       LET retained == Smaller(read, Limit - captured[s])
       IN  /\ pipe' = [pipe EXCEPT ![s] = @ - read]
           /\ captured' = [captured EXCEPT ![s] = @ + retained]
           /\ truncated' = [truncated EXCEPT ![s] = @ \/ retained # read]
  /\ UNCHANGED <<pc, child, written, eof, outcome, envVars>>

(* One read: past the limit it still drains the pipe, and drops.           *)
Capture(s) ==
  /\ \E read \in 1..pipe[s] :
       LET retained == Smaller(read, Limit - captured[s])
       IN  /\ pipe' = [pipe EXCEPT ![s] = @ - read]
           /\ captured' = [captured EXCEPT ![s] = @ + retained]
           /\ truncated' = [truncated EXCEPT ![s] = @ \/ retained # read]
  /\ UNCHANGED <<pc, child, written, eof, outcome, envVars>>

EndOfFile(s) ==
  /\ child \in {"exited", "killed"}
  /\ pipe[s] = 0
  /\ ~eof[s]
  /\ eof' = [eof EXCEPT ![s] = TRUE]
  /\ UNCHANGED <<pc, child, written, pipe, captured, truncated, outcome, envVars>>

-----------------------------------------------------------------------------
(* The program and the environment.                                        *)

(* A write blocks while the pipe is full.                                  *)
Write(s) ==
  /\ child = "running"
  /\ written[s] < MaxOutput
  /\ pipe[s] < PipeSize
  /\ written' = [written EXCEPT ![s] = @ + 1]
  /\ pipe' = [pipe EXCEPT ![s] = @ + 1]
  /\ UNCHANGED <<pc, child, captured, truncated, eof, outcome, envVars>>

Exit ==
  /\ child = "running"
  /\ child' = "exited"
  /\ UNCHANGED <<pc, written, threadVars, outcome, envVars>>

Cancel ==
  /\ ~request
  /\ request' = TRUE
  /\ UNCHANGED <<pc, child, written, threadVars, outcome, expired>>

Expire ==
  /\ pc # "spawn" /\ ~expired
  /\ expired' = TRUE
  /\ UNCHANGED <<pc, child, written, threadVars, outcome, request>>

Terminated == pc = "done" /\ UNCHANGED vars

Next ==
  \/ Supervisor
  \/ \E s \in Stream : Capture(s) \/ EndOfFile(s) \/ Write(s)
  \/ Exit \/ Cancel \/ Expire
  \/ Terminated

Spec == Init /\ [][Next]_vars

-----------------------------------------------------------------------------
(* Properties.                                                             *)

Spawned == child # "none"

(* The log of a finished run is exactly the first Limit chunks of what the *)
(* program wrote before it ended, and it is marked truncated exactly when  *)
(* something is missing: nothing written just before the exit is lost.     *)
LogIsExact ==
  pc = "done" /\ Spawned => \A s \in Stream :
    /\ captured[s] = Smaller(written[s], Limit)
    /\ truncated[s] <=> written[s] > Limit

(* Every program the supervisor killed is accounted for by one cause, the  *)
(* cause is real, and an end that is not accounted for is the program's    *)
(* own: a kill is never taken for a crash of the oracle.                   *)
EveryKillHasItsCause ==
  pc = "done" /\ Spawned =>
    /\ ~(timedOut /\ cancelled)
    /\ timedOut => expired
    /\ cancelled => request
    /\ child = "killed" => timedOut \/ cancelled

(* Every run whose program exits, whose deadline passes or which is        *)
(* cancelled ends, also if the program hangs or floods both pipes; and     *)
(* before the deadline a program is never stuck on a full pipe, whatever   *)
(* it writes where: its output cannot make it miss the deadline.           *)
RunEnds ==
  /\ pc # "spawn" /\ (child = "exited" \/ expired \/ request) ~> pc = "done"
  /\ []~expired => \A s \in Stream : pipe[s] = PipeSize ~> pipe[s] < PipeSize
=============================================================================
