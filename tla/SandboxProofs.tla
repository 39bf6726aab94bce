----------------------------- MODULE SandboxProofs -----------------------------
(***************************************************************************)
(* Logs are exact and kills are accounted for (module Sandbox), for any    *)
(* pipes, any retention limit and any output of the program; a session of  *)
(* the dashboard (module Dashboard) is made of runs of the sandbox, hands  *)
(* its terminal back and shows its summary, whatever keys are pressed.     *)
(***************************************************************************)
EXTENDS Dashboard, FiniteSetTheorems, TLAPS

-----------------------------------------------------------------------------
(* The inductive invariant.                                                *)

(* What a capture thread has read is what was written and is no longer in  *)
(* the pipe; it retained the first Limit chunks of it.                     *)
Drained ==
  \A s \in Stream :
    /\ pipe[s] <= written[s]
    /\ captured[s] = Smaller(written[s] - pipe[s], Limit)
    /\ truncated[s] <=> written[s] - pipe[s] > Limit

(* A thread ends once nothing more can come; a run ends once both threads  *)
(* have, if there are any.                                                 *)
Closed ==
  /\ \A s \in Stream : eof[s] => pipe[s] = 0 /\ child \in {"exited", "killed"}
  /\ (pc = "done" /\ Spawned) => \A s \in Stream : eof[s]

(* A recorded cause is real, was recorded alone, and ended the polling.    *)
Caused ==
  /\ child = "none" => pc \in {"spawn", "done"}
  /\ pc = "spawn" => child = "none"
  /\ timedOut \/ cancelled => pc \in {"join", "done"}
  /\ ~(timedOut /\ cancelled)
  /\ timedOut => expired
  /\ cancelled => request
  /\ child = "killed" => timedOut \/ cancelled

Inv == TypeOK /\ Drained /\ Closed /\ Caused

LEMMA InvInit == Init => Inv
<1> SUFFICES ASSUME Init
             PROVE  Inv
  OBVIOUS
<1>1. TypeOK
  <2>1. 0 \in 0..MaxOutput /\ 0 \in 0..PipeSize /\ 0 \in 0..Limit
    BY SandboxAssumption DEF SandboxAssumption
  <2>2. /\ written \in [Stream -> 0..MaxOutput]
        /\ pipe \in [Stream -> 0..PipeSize]
        /\ captured \in [Stream -> 0..Limit]
    BY <2>1 DEF Init
  <2> QED
    BY <2>2, Zenon DEF Init, TypeOK
<1>2. Drained
  BY SandboxAssumption DEF SandboxAssumption, Init, Drained, Smaller
<1>3. Closed /\ Caused
  BY DEF Init, Closed, Caused, Spawned
<1> QED
  BY <1>1, <1>2, <1>3 DEF Inv

(* The supervisor touches no pipe; it sets a flag when it kills.           *)
LEMMA SupervisorKeeps == Inv /\ Supervisor => Inv'
<1> SUFFICES ASSUME Inv, Supervisor
             PROVE  Inv'
  OBVIOUS
<1> USE DEF Inv, TypeOK, threadVars, outcome, envVars
<1>1. UNCHANGED <<written, threadVars, envVars>>
  BY DEF Supervisor, SpawnFails, Spawn, Poll, CheckControl, CheckDeadline, Join
<1>2. Drained'
  BY <1>1 DEF Drained
<1>3. CASE SpawnFails
  BY <1>1, <1>2, <1>3 DEF SpawnFails, Closed, Caused, Spawned
<1>4. CASE Spawn
  BY <1>1, <1>2, <1>4 DEF Spawn, Closed, Caused, Spawned
<1>5. CASE Poll
  BY <1>1, <1>2, <1>5 DEF Poll, Closed, Caused, Spawned
<1>6. CASE CheckControl
  <2>1. child # "none" /\ ~timedOut /\ ~cancelled /\ child # "killed"
    BY <1>6 DEF CheckControl, Caused
  <2>2. TypeOK'
    BY <1>1, <1>6, <2>1 DEF CheckControl, Kill
  <2>3. Closed'
    BY <1>1, <1>6, <2>1 DEF CheckControl, Kill, Closed, Spawned
  <2>4. Caused'
    BY <1>1, <1>6, <2>1 DEF CheckControl, Kill, Caused
  <2> QED
    BY <1>2, <2>2, <2>3, <2>4
<1>7. CASE CheckDeadline
  <2>1. child # "none" /\ ~timedOut /\ ~cancelled /\ child # "killed"
    BY <1>7 DEF CheckDeadline, Caused
  <2>2. TypeOK'
    BY <1>1, <1>7, <2>1 DEF CheckDeadline, Kill
  <2>3. Closed'
    BY <1>1, <1>7, <2>1 DEF CheckDeadline, Kill, Closed, Spawned
  <2>4. Caused'
    BY <1>1, <1>7, <2>1 DEF CheckDeadline, Kill, Caused
  <2> QED
    BY <1>2, <2>2, <2>3, <2>4
<1>8. CASE Join
  BY <1>1, <1>2, <1>8 DEF Join, Closed, Caused, Spawned
<1> QED
  BY <1>3, <1>4, <1>5, <1>6, <1>7, <1>8 DEF Supervisor

(* A read of some chunks retains what still fits and marks what does not.  *)
LEMMA CaptureKeeps ==
  ASSUME NEW s \in Stream, Inv, Capture(s)
  PROVE  Inv'
<1> USE SandboxAssumption DEF SandboxAssumption
<1>1. PICK taken \in 1..pipe[s] :
        LET retained == Smaller(taken, Limit - captured[s])
        IN  /\ pipe' = [pipe EXCEPT ![s] = @ - taken]
            /\ captured' = [captured EXCEPT ![s] = @ + retained]
            /\ truncated' = [truncated EXCEPT ![s] = @ \/ retained # taken]
  BY DEF Capture
<1>2. UNCHANGED <<pc, child, written, eof, outcome, envVars>>
  BY DEF Capture
<1>3. /\ pipe[s] \in 0..PipeSize /\ captured[s] \in 0..Limit /\ written[s] \in 0..MaxOutput
      /\ taken \in Nat /\ 1 <= taken /\ taken <= pipe[s]
  BY DEF Inv, TypeOK
<1>4. /\ pipe'[s] = pipe[s] - taken
      /\ captured'[s] = captured[s] + Smaller(taken, Limit - captured[s])
      /\ truncated'[s] <=> (truncated[s] \/ Smaller(taken, Limit - captured[s]) # taken)
  BY <1>1 DEF Inv, TypeOK
<1>5. \A t \in Stream \ {s} :
        pipe'[t] = pipe[t] /\ captured'[t] = captured[t] /\ truncated'[t] = truncated[t]
  BY <1>1 DEF Inv, TypeOK
<1>6. TypeOK'
  BY <1>1, <1>2, <1>3, <1>4, <1>5 DEF Inv, TypeOK, Smaller, outcome, envVars
<1>7. Drained'
  <2>1. /\ pipe'[s] <= written[s]
        /\ captured'[s] = Smaller(written[s] - pipe'[s], Limit)
        /\ truncated'[s] <=> written[s] - pipe'[s] > Limit
    BY <1>3, <1>4 DEF Inv, Drained, Smaller
  <2> QED
    BY <1>2, <1>5, <2>1 DEF Inv, Drained
<1>8. Closed' /\ Caused'
  BY <1>2, <1>3, <1>4, <1>5 DEF Inv, Closed, Caused, Spawned, outcome, envVars
<1> QED
  BY <1>6, <1>7, <1>8 DEF Inv

LEMMA EndOfFileKeeps ==
  ASSUME NEW s \in Stream, Inv, EndOfFile(s)
  PROVE  Inv'
  BY DEF EndOfFile, Inv, TypeOK, Drained, Closed, Caused, Spawned, outcome, envVars

(* The program writes into a pipe that is not full.                        *)
LEMMA WriteKeeps ==
  ASSUME NEW s \in Stream, Inv, Write(s)
  PROVE  Inv'
<1> USE SandboxAssumption DEF SandboxAssumption
<1>1. pipe[s] \in 0..PipeSize /\ written[s] \in 0..MaxOutput
  BY DEF Inv, TypeOK
<1>2. /\ pipe'[s] = pipe[s] + 1 /\ written'[s] = written[s] + 1
      /\ \A t \in Stream \ {s} : pipe'[t] = pipe[t] /\ written'[t] = written[t]
  BY DEF Write, Inv, TypeOK
<1>3. TypeOK'
  BY <1>1, <1>2 DEF Write, Inv, TypeOK, outcome, envVars
<1>4. Drained'
  <2>1. written'[s] - pipe'[s] = written[s] - pipe[s]
    BY <1>1, <1>2
  <2> QED
    BY <1>1, <1>2, <2>1 DEF Write, Inv, Drained
<1>5. Closed' /\ Caused'
  BY <1>2 DEF Write, Inv, Closed, Caused, Spawned, outcome, envVars
<1> QED
  BY <1>3, <1>4, <1>5 DEF Inv

LEMMA EnvironmentKeeps == Inv /\ (Exit \/ Cancel \/ Expire) => Inv'
<1> SUFFICES ASSUME Inv, Exit \/ Cancel \/ Expire
             PROVE  Inv'
  OBVIOUS
<1> USE DEF Exit, Cancel, Expire, Inv, threadVars, outcome, envVars
<1>1. TypeOK'
  BY DEF TypeOK
<1>2. Drained'
  BY DEF Drained
<1>3. Closed'
  BY DEF Closed, Spawned
<1>4. Caused'
  BY DEF Caused
<1> QED
  BY <1>1, <1>2, <1>3, <1>4

LEMMA InvInductive == Inv /\ [Next]_vars => Inv'
<1> SUFFICES ASSUME Inv, [Next]_vars
             PROVE  Inv'
  OBVIOUS
<1>1. CASE Supervisor
  BY <1>1, SupervisorKeeps
<1>2. CASE \E s \in Stream : Capture(s) \/ EndOfFile(s) \/ Write(s)
  BY <1>2, CaptureKeeps, EndOfFileKeeps, WriteKeeps
<1>3. CASE Exit \/ Cancel \/ Expire
  BY <1>3, EnvironmentKeeps
<1>4. CASE UNCHANGED vars
  BY <1>4 DEF Inv, TypeOK, Drained, Closed, Caused, Spawned, vars, threadVars, outcome,
              envVars
<1> QED
  BY <1>1, <1>2, <1>3, <1>4 DEF Next, Terminated

LEMMA SpecInv == Spec => []Inv
  BY InvInit, InvInductive, PTL DEF Spec

-----------------------------------------------------------------------------
(* Theorems.                                                               *)

(* Every variable of run_sandboxed keeps its type; no log exceeds Limit.   *)
THEOREM TypesHold == Spec => []TypeOK
<1>1. Inv => TypeOK
  BY DEF Inv
<1> QED
  BY <1>1, SpecInv, PTL

(* run_sandboxed returns, of each stream, the first Limit chunks of what   *)
(* the program wrote, marked truncated exactly when there was more.        *)
THEOREM LogsAreExact == Spec => []LogIsExact
<1>1. Inv => LogIsExact
  <2> SUFFICES ASSUME Inv, pc = "done", Spawned, NEW s \in Stream
               PROVE  /\ captured[s] = Smaller(written[s], Limit)
                      /\ truncated[s] <=> written[s] > Limit
    BY DEF LogIsExact
  <2>1. pipe[s] = 0 /\ written[s] \in Nat
    BY DEF Inv, Closed, TypeOK
  <2> QED
    BY <2>1 DEF Inv, Drained
<1> QED
  BY <1>1, SpecInv, PTL

(* run_sandboxed reports every kill of its own under its one, real cause.  *)
THEOREM KillsAreCaused == Spec => []EveryKillHasItsCause
<1>1. Inv => EveryKillHasItsCause
  BY DEF Inv, Caused, EveryKillHasItsCause
<1> QED
  BY <1>1, SpecInv, PTL

-----------------------------------------------------------------------------
(* A session of the dashboard takes steps of the sandbox, or none of its.  *)

LEMMA MainThreadLeavesTheRun == MainThread => UNCHANGED vars
  BY DEF MainThread, OpenScreen, SpawnListener, LockMain, Draw, Unlocks, BeginCase, CampaignEnds,
         SessionFails, CaseWithoutOracle, RunOracle, CaseWithOracle, Completed, Update,
         ShowSummary, Wait, LeaveSummary, StopListener, JoinListener, Restore, mainOnly

LEMMA ListenerCancelsTheRun == Listener => [Next]_vars
<1>1. CheckStop \/ NoKey \/ ReadKey \/ LockListener \/ HandleKey => UNCHANGED vars
  BY DEF CheckStop, NoKey, ReadKey, LockListener, HandleKey
<1>2. ReadInterrupt => Cancel \/ UNCHANGED vars
  BY DEF ReadInterrupt
<1> QED
  BY <1>1, <1>2 DEF Listener, Next

LEMMA SessionRunsTheSandbox == [DashboardNext]_<<vars, uiVars>> => [Next]_vars
<1>1. OracleSupervisor \/ OracleProgram \/ (\E s \in Stream : OracleThread(s)) => Next
  BY DEF OracleSupervisor, OracleProgram, OracleThread, Next
<1>2. (\E k \in Pressable : Press(k)) \/ Over => UNCHANGED vars
  BY DEF Press, Over
<1> QED
  BY <1>1, <1>2, MainThreadLeavesTheRun, ListenerCancelsTheRun DEF DashboardNext

(* The run of an oracle under the dashboard is a run of the sandbox.       *)
THEOREM SessionImplementsSandbox == DashboardSpec => Spec
<1>1. DashboardInit => Init
  BY DEF DashboardInit
<1> QED
  BY <1>1, SessionRunsTheSandbox, PTL DEF DashboardSpec, Spec

(* Ctrl-C or not, the logs of the oracle are exact.                        *)
THEOREM SessionLogsAreExact == DashboardSpec => []LogIsExact
  BY SessionImplementsSandbox, LogsAreExact, PTL

(* A kill that Ctrl-C caused is reported as a cancellation.                *)
THEOREM SessionKillsAreCaused == DashboardSpec => []EveryKillHasItsCause
  BY SessionImplementsSandbox, KillsAreCaused, PTL

-----------------------------------------------------------------------------
(* The inductive invariant of a session.                                   *)

Opening == {"start", "raw", "screen"}
Running == {"first", "status", "campaign", "planning", "case", "oracle", "report", "finish",
            "await", "stop", "join"}

(* The screen is open from the first moment the listener can draw on it to *)
(* the last, and closed only after it has ended.                           *)
ScreenInv ==
  /\ main \in Opening \cup Running \cup {"restore", "shell", "abandoned"}
  /\ main \in {"start", "shell"} => terminal = Cooked
  /\ main \in Running \cup {"screen", "restore", "abandoned"} => terminal = FullScreen
  /\ main \in Opening \cup {"abandoned"} => listener = "none"
  /\ main \in {"restore", "shell"} => listener \in {"none", "ended"}

(* Who holds the lock is where the lock is held.                           *)
LockInv ==
  /\ mutex = "main" => main \in Locking
  /\ listener = "handle" => mutex = "listener"

(* The summary is set once, at the end, and left when it is dismissed or   *)
(* its time is over.                                                       *)
Ending == {"await", "stop", "join", "restore", "shell"}
SummaryInv ==
  /\ "completion" \in DOMAIN board
  /\ board.completion \/ summary => main \in Ending
  /\ main = "await" => summary
  /\ summary /\ main \in Ending \ {"await"} => acknowledged \/ waited

(* The listener is done with the keys in their order, but for the one it   *)
(* read last and holds; the flag is set by a closing key among those it    *)
(* was done with after the summary was set.                                *)
KeysInv ==
  /\ typed \in Seq(Key)
  /\ read \in 0..Len(typed)
  /\ listener \in {"lock", "handle"} => read > 0 /\ key = typed[read]
  /\ before \in Nat /\ before <= Handled
  /\ acknowledged <=>
       board.completion /\ \E i \in (before + 1)..Handled : typed[i] = "close"

SessionInv == ScreenInv /\ LockInv /\ SummaryInv

LEMMA SessionInit == DashboardInit => SessionInv
  BY DEF DashboardInit, SessionInv, ScreenInv, LockInv, SummaryInv, EmptyBoard, Opening, Running,
         Ending

LEMMA ScreenOpens ==
  SessionInv /\ (OpenScreen \/ SpawnListener) => SessionInv'
<1> USE DEF SessionInv, ScreenInv, LockInv, SummaryInv, Opening, Running, Ending, MainGoes, Locking,
            shown
<1>1. SessionInv /\ OpenScreen => SessionInv'
  <2> SUFFICES ASSUME SessionInv, OpenScreen
               PROVE  SessionInv'
    OBVIOUS
  <2>1. ~board.completion /\ UNCHANGED <<board, summary, acknowledged, waited>>
        /\ main' # "await" /\ ~summary
    BY DEF OpenScreen
  <2> QED
    BY <2>1 DEF OpenScreen, Cooked, FullScreen
<1>2. SessionInv /\ SpawnListener => SessionInv'
  BY DEF SpawnListener
<1> QED
  BY <1>1, <1>2

(* Whoever releases the lock held it.                                      *)
LEMMA LockIsReleased ==
  SessionInv /\ (LockMain \/ Draw \/ Update \/ ShowSummary \/ Restore) => SessionInv'
<1> USE DEF SessionInv, ScreenInv, LockInv, Opening, Running, Ending, MainGoes, Locking, Unlocks
<1>1. SessionInv /\ LockMain => SessionInv'
  BY DEF LockMain, SummaryInv, shown
<1>2. SessionInv /\ Draw => SessionInv'
  BY DEF Draw, SummaryInv
<1>3. SessionInv /\ Update => SessionInv'
  <2> SUFFICES ASSUME SessionInv, Update
               PROVE  SessionInv'
    OBVIOUS
  <2>1. "completion" \in DOMAIN board' /\ board'.completion = board.completion
    BY DEF Update, SummaryInv
  <2>2. SummaryInv'
    BY <2>1 DEF Update, SummaryInv
  <2> QED
    BY <2>2 DEF Update
<1>4. SessionInv /\ ShowSummary => SessionInv'
  <2> SUFFICES ASSUME SessionInv, ShowSummary
               PROVE  SessionInv'
    OBVIOUS
  <2>1. "completion" \in DOMAIN board'
    BY DEF ShowSummary, SummaryInv
  <2>2. SummaryInv'
    BY <2>1 DEF ShowSummary, SummaryInv
  <2> QED
    BY <2>2 DEF ShowSummary
<1>5. SessionInv /\ Restore => SessionInv'
  BY DEF Restore, SummaryInv
<1> QED
  BY <1>1, <1>2, <1>3, <1>4, <1>5

LEMMA CampaignGoesOn ==
  /\ SessionInv
  /\ \/ BeginCase \/ CampaignEnds \/ SessionFails \/ CaseWithoutOracle \/ RunOracle
     \/ CaseWithOracle
  => SessionInv'
<1> USE DEF SessionInv, ScreenInv, LockInv, SummaryInv, Opening, Running, Ending, MainGoes, Locking,
            mainOnly
<1>1. SessionInv /\ (BeginCase \/ CampaignEnds \/ SessionFails \/ RunOracle) => SessionInv'
  BY DEF BeginCase, CampaignEnds, SessionFails, RunOracle
<1>2. CaseWithoutOracle \/ CaseWithOracle =>
        main \in {"case", "oracle"} /\ main' = "report" /\ UNCHANGED mainOnly
  BY DEF CaseWithoutOracle, CaseWithOracle, Completed
<1>3. SessionInv /\ (CaseWithoutOracle \/ CaseWithOracle) => SessionInv'
  BY <1>2
<1> QED
  BY <1>1, <1>3

(* The terminal is restored after the listener was waited for.             *)
LEMMA SessionLeaves ==
  SessionInv /\ (Wait \/ LeaveSummary \/ StopListener \/ JoinListener) => SessionInv'
<1> USE DEF SessionInv, ScreenInv, LockInv, SummaryInv, Opening, Running, Ending, MainGoes, Locking,
            mainOnly, shown
<1>1. SessionInv /\ (Wait \/ LeaveSummary \/ StopListener) => SessionInv'
  BY DEF Wait, LeaveSummary, StopListener
<1>2. SessionInv /\ JoinListener => SessionInv'
  BY DEF JoinListener
<1> QED
  BY <1>1, <1>2

(* The listener switches no mode and takes no flag back.                   *)
LEMMA ListenerKeeps == SessionInv /\ Listener => SessionInv'
<1> SUFFICES ASSUME SessionInv, Listener
             PROVE  SessionInv'
  OBVIOUS
<1> USE DEF SessionInv, ListenerGoes
<1>1. /\ UNCHANGED <<main, terminal, board, summary>>
      /\ listener # "none" /\ listener # "ended"
  BY DEF Listener, CheckStop, NoKey, ReadInterrupt, ReadKey, LockListener, HandleKey, shown
<1>2. ScreenInv'
  BY <1>1 DEF ScreenInv
<1>3. LockInv'
  BY <1>1 DEF Listener, CheckStop, NoKey, ReadInterrupt, ReadKey, LockListener, HandleKey, LockInv
<1>4. HandleKey => (acknowledged => acknowledged')
  BY Zenon DEF HandleKey
<1>5. ~HandleKey => acknowledged' = acknowledged
  BY DEF Listener, CheckStop, NoKey, ReadInterrupt, ReadKey, LockListener
<1>6. acknowledged => acknowledged'
  BY <1>4, <1>5
<1>7. SummaryInv'
  <2>1. waited' = waited
    BY DEF Listener, CheckStop, NoKey, ReadInterrupt, ReadKey, LockListener, HandleKey
  <2> QED
    BY <1>1, <1>6, <2>1 DEF SummaryInv
<1> QED
  BY <1>2, <1>3, <1>7

LEMMA SessionInductive == SessionInv /\ [DashboardNext]_<<vars, uiVars>> => SessionInv'
<1> SUFFICES ASSUME SessionInv, [DashboardNext]_<<vars, uiVars>>
             PROVE  SessionInv'
  OBVIOUS
<1>1. CASE MainThread
  BY <1>1, ScreenOpens, LockIsReleased, CampaignGoesOn, SessionLeaves DEF MainThread
<1>2. CASE Listener
  BY <1>2, ListenerKeeps
<1>3. CASE UNCHANGED <<threads, shown>>
  BY <1>3 DEF threads, shown, SessionInv, ScreenInv, LockInv, SummaryInv
<1>4. ~MainThread /\ ~Listener => UNCHANGED <<threads, shown>>
  BY DEF DashboardNext, Press, OracleSupervisor, OracleThread, OracleProgram, Over, uiVars
<1> QED
  BY <1>1, <1>2, <1>3, <1>4

LEMMA SessionSafe == DashboardSpec => []SessionInv
  BY SessionInit, SessionInductive, PTL DEF DashboardSpec

-----------------------------------------------------------------------------
(* The keys.                                                               *)

LEMMA KeysInit == DashboardInit => KeysInv
  BY DEF DashboardInit, KeysInv, EmptyBoard, Handled

(* The main thread: only ShowSummary matters, and finds no key handled     *)
(* after itself.                                                           *)
LEMMA KeysOfMain == SessionInv /\ KeysInv /\ MainThread => KeysInv'
<1> SUFFICES ASSUME SessionInv, KeysInv, MainThread
             PROVE  KeysInv'
  OBVIOUS
<1>1. Handled \in Nat /\ Handled <= Len(typed)
  BY DEF KeysInv, Handled
<1>2. UNCHANGED <<key, typed, read, acknowledged>> /\ Handled' = Handled
  <2>1. UNCHANGED <<key, typed, read, acknowledged>>
    BY DEF MainThread, OpenScreen, SpawnListener, LockMain, Draw, Unlocks, BeginCase, CampaignEnds,
           SessionFails, CaseWithoutOracle, CaseWithOracle, Completed, RunOracle, Update,
           ShowSummary, Wait, LeaveSummary, StopListener, JoinListener, Restore, mainOnly, keyboard
  <2>2. listener' = listener \/ (listener = "none" /\ listener' = "check")
    BY DEF MainThread, OpenScreen, SpawnListener, LockMain, Draw, Unlocks, BeginCase, CampaignEnds,
           SessionFails, CaseWithoutOracle, CaseWithOracle, Completed, RunOracle, Update,
           ShowSummary, Wait, LeaveSummary, StopListener, JoinListener, Restore, mainOnly,
           SessionInv, ScreenInv, MainGoes, Opening
  <2> QED
    BY <2>1, <2>2 DEF Handled
<1>3. listener' \in {"lock", "handle"} => listener' = listener
  BY DEF MainThread, OpenScreen, SpawnListener, LockMain, Draw, Unlocks, BeginCase, CampaignEnds,
         SessionFails, CaseWithoutOracle, CaseWithOracle, Completed, RunOracle, Update,
         ShowSummary, Wait, LeaveSummary, StopListener, JoinListener, Restore, mainOnly
<1>4. CASE ShowSummary
  <2>1. before' = Handled
    BY <1>4 DEF ShowSummary
  <2>2. ~board.completion
    BY <1>4 DEF ShowSummary, Unlocks, MainGoes, SessionInv, SummaryInv, Ending
  <2>3. ~acknowledged /\ ~acknowledged'
    BY <1>2, <2>2 DEF KeysInv
  <2>4. ~ \E i \in (before' + 1)..Handled' : typed'[i] = "close"
    BY <1>1, <1>2, <2>1
  <2> QED
    BY <1>1, <1>2, <1>3, <2>1, <2>3, <2>4 DEF KeysInv
<1>5. CASE ~ShowSummary
  <2>1. before' = before /\ board'.completion = board.completion
    <3>1. CASE Update
      BY <3>1 DEF Update, SessionInv, SummaryInv
    <3>2. CASE ~Update
      BY <1>5, <3>2 DEF MainThread, OpenScreen, SpawnListener, LockMain, Draw, Unlocks, BeginCase,
         CampaignEnds, SessionFails, CaseWithoutOracle, CaseWithOracle, Completed, RunOracle,
         Wait, LeaveSummary, StopListener, JoinListener, Restore, mainOnly, shown
    <3> QED
      BY <3>1, <3>2
  <2> QED
    BY <1>2, <1>3, <2>1 DEF KeysInv
<1> QED
  BY <1>4, <1>5

(* The listener is done with a key in the order it was typed.              *)
LEMMA KeysOfListener == KeysInv /\ Listener => KeysInv'
<1> SUFFICES ASSUME KeysInv, Listener
             PROVE  KeysInv'
  OBVIOUS
<1>1. UNCHANGED <<typed, board, before>>
  BY DEF Listener, CheckStop, NoKey, ReadInterrupt, ReadKey, LockListener, HandleKey, ListenerGoes,
         shown
<1>2. CASE CheckStop \/ NoKey \/ LockListener
  <2>1. UNCHANGED <<key, read, acknowledged>> /\ Handled' = Handled
        /\ (listener' \in {"lock", "handle"} => listener \in {"lock", "handle"})
    BY <1>2 DEF CheckStop, NoKey, LockListener, ListenerGoes, Handled
  <2> QED
    BY <1>1, <2>1 DEF KeysInv
<1>3. CASE ReadKey
  <2>1. /\ read < Len(typed) /\ read' = read + 1 /\ key' = typed[read + 1]
        /\ acknowledged' = acknowledged /\ listener = "poll" /\ listener' = "lock"
    BY <1>3 DEF ReadKey, ListenerGoes, Pending, Key, NoneRead
  <2>2. read \in Nat /\ read' \in 0..Len(typed) /\ Handled' = Handled
    BY <2>1 DEF KeysInv, Handled
  <2> QED
    BY <1>1, <2>1, <2>2 DEF KeysInv
<1>4. CASE ReadInterrupt
  <2>1. /\ read < Len(typed) /\ read' = read + 1 /\ typed[read + 1] = "interrupt"
        /\ acknowledged' = acknowledged /\ listener = "poll" /\ listener' = "check"
    BY <1>4 DEF ReadInterrupt, ListenerGoes, Pending, Key, NoneRead
  <2>2. read \in Nat /\ read' \in 0..Len(typed) /\ Handled = read /\ Handled' = read + 1
    BY <2>1 DEF KeysInv, Handled
  <2>3. \A i \in (before + 1)..(read + 1) : typed[i] = "close" => i \in (before + 1)..read
    BY <2>1, <2>2 DEF KeysInv
  <2>4. before \in Nat /\ before <= read
    BY <2>2 DEF KeysInv
  <2>5. (\E i \in (before + 1)..read : typed[i] = "close") <=>
          \E i \in (before + 1)..(read + 1) : typed[i] = "close"
    BY <2>2, <2>3, <2>4
  <2> QED
    BY <1>1, <2>1, <2>2, <2>4, <2>5 DEF KeysInv
<1>5. CASE HandleKey
  <2>1. /\ listener = "handle" /\ listener' = "check" /\ read' = read
        /\ (acknowledged' <=> acknowledged \/ (board.completion /\ key = "close"))
    <3>1. acknowledged' = (acknowledged \/ (board.completion /\ key = "close"))
      BY <1>5 DEF HandleKey
    <3>2. acknowledged' <=> acknowledged \/ (board.completion /\ key = "close")
      BY <3>1, Zenon
    <3> QED
      BY <1>5, <3>2 DEF HandleKey, ListenerGoes
  <2>2. /\ read \in Nat /\ read > 0 /\ key = typed[read] /\ Handled = read - 1 /\ Handled' = read
        /\ before \in Nat /\ before <= read - 1
    BY <2>1 DEF KeysInv, Handled
  <2>3. (\E i \in (before + 1)..read : typed[i] = "close") <=>
          (\E i \in (before + 1)..(read - 1) : typed[i] = "close") \/ key = "close"
    <3>1. \A i : i \in (before + 1)..read <=> i \in (before + 1)..(read - 1) \/ i = read
      BY <2>2
    <3> QED
      BY <2>2, <3>1
  <2>4. acknowledged <=>
          board.completion /\ \E i \in (before + 1)..(read - 1) : typed[i] = "close"
    BY <2>2 DEF KeysInv
  <2>5. acknowledged' <=> board.completion /\ \E i \in (before + 1)..read : typed[i] = "close"
    BY <2>1, <2>3, <2>4
  <2> QED
    BY <1>1, <2>1, <2>2, <2>5 DEF KeysInv
<1> QED
  BY <1>2, <1>3, <1>4, <1>5 DEF Listener

LEMMA KeysInductive ==
  SessionInv /\ KeysInv /\ [DashboardNext]_<<vars, uiVars>> => KeysInv'
<1> SUFFICES ASSUME SessionInv, KeysInv, [DashboardNext]_<<vars, uiVars>>
             PROVE  KeysInv'
  OBVIOUS
<1>1. CASE MainThread
  BY <1>1, KeysOfMain
<1>2. CASE Listener
  BY <1>2, KeysOfListener
<1>3. ASSUME NEW k \in Pressable, Press(k)
      PROVE  KeysInv'
  <2>1. /\ typed' = Append(typed, k) /\ UNCHANGED <<threads, read, shown>> /\ k \in Key
        /\ typed \in Seq(Key)
    BY <1>3, DashboardAssumption DEF Press, DashboardAssumption, KeysInv
  <2>2. /\ typed' \in Seq(Key) /\ Len(typed') = Len(typed) + 1
        /\ \A i \in 1..Len(typed) : typed'[i] = typed[i]
    BY <2>1
  <2>3. /\ Handled' = Handled /\ Handled \in Nat /\ Handled <= Len(typed)
        /\ UNCHANGED <<listener, key, acknowledged, board, before>>
    BY <2>1 DEF threads, shown, Handled, KeysInv
  <2>4. \A i \in (before + 1)..Handled : typed'[i] = typed[i]
    BY <2>2, <2>3 DEF KeysInv
  <2>5. read \in 0..Len(typed') /\ (listener \in {"lock", "handle"} => typed'[read] = typed[read])
    BY <2>2 DEF KeysInv
  <2> QED
    BY <2>1, <2>2, <2>3, <2>4, <2>5 DEF KeysInv
<1>4. CASE UNCHANGED <<threads, keyboard, shown>>
  <2>1. Handled' = Handled
    BY <1>4 DEF threads, keyboard, Handled
  <2> QED
    BY <1>4, <2>1 DEF threads, keyboard, shown, KeysInv
<1>5. \/ MainThread \/ Listener \/ \E k \in Pressable : Press(k)
      \/ UNCHANGED <<threads, keyboard, shown>>
  BY DEF DashboardNext, OracleSupervisor, OracleThread, OracleProgram, Over, uiVars
<1> QED
  BY <1>1, <1>2, <1>3, <1>4, <1>5

LEMMA KeysSafe == DashboardSpec => []KeysInv
  BY KeysInit, KeysInductive, SessionSafe, PTL DEF DashboardSpec

(* Drop hands back the terminal with no thread left that draws on it, and  *)
(* nothing was drawn on a screen that was not the dashboard's.             *)
THEOREM TerminalHandedBack == DashboardSpec => []TerminalIsHandedBack
<1>1. SessionInv => TerminalIsHandedBack
  BY DEF SessionInv, ScreenInv, LockInv, TerminalIsHandedBack, Opening, Running, Locking
<1> QED
  BY <1>1, SessionSafe, PTL

(* The summary is dismissed exactly by a closing key that was handled      *)
(* after it was set, whenever it was typed, and is left for no other       *)
(* reason than that and its 30 s, whatever the interleaving.               *)
THEOREM SummarySeen == DashboardSpec => []SummaryIsSeen
<1>1. SessionInv /\ KeysInv => SummaryIsSeen
  BY DEF SessionInv, SummaryInv, KeysInv, SummaryIsSeen, Ending
<1> QED
  BY <1>1, SessionSafe, KeysSafe, PTL

-----------------------------------------------------------------------------
(* What the board counts.                                                  *)

Report ==
  [planning : BOOLEAN, duplicate : BOOLEAN, results : Seq(OracleStatus),
   expectation : SeedExpectation, mismatch : BOOLEAN]
Tones == {"error", "warning", "muted", "normal"}
Board ==
  [tally : [Column -> Nat], planning : Nat, duplicates : Nat, interesting : Nat,
   expectedAccepted : Nat, expectedRejected : Nat, mismatches : Nat,
   recent : Seq(Tones), completion : BOOLEAN]

(* The board was told all reports but the one that is being told.          *)
Told == IF main = "report" THEN Len(reports) - 1 ELSE Len(reports)

(* The results in `statuses' of the first n reports, each as the place of  *)
(* the report and its own place there.                                     *)
HitsOf(i, results, statuses) == {<<i, j>> : j \in {k \in DOMAIN results : results[k] \in statuses}}
Hits(s, n, statuses) == UNION {HitsOf(i, s[i].results, statuses) : i \in 1..n}

(* The reports of planning errors, of duplicates, with an expectation and  *)
(* contradicting it, and how many of a set there are among the first n.    *)
Planned(s) == {i \in DOMAIN s : s[i].planning}
Repeated(s) == {i \in DOMAIN s : s[i].duplicate}
Expected(s, e) == {i \in DOMAIN s : s[i].expectation = e}
Mismatched(s) == {i \in DOMAIN s : s[i].mismatch}
Among(n, S) == Cardinality((1..n) \cap S)

StatusesOf(c) == {s \in OracleStatus : ColumnOf(s) = c}
Findings == OracleStatus \ {"accepted", "rejected"}

CaseRuns == {"planning", "case", "oracle"}

ReportsInv ==
  /\ reports \in Seq(Report)
  /\ \A i \in DOMAIN reports :
       reports[i].mismatch <=> Mismatch(reports[i].expectation, reports[i].results)
  /\ main = "report" => reports # <<>>
  /\ main \in CaseRuns => Len(reports) < TotalCases
  /\ board \in Board
  /\ \A T \in SUBSET OracleStatus : IsFiniteSet(Hits(reports, Told, T))

CountsInv ==
  /\ board.tally = [c \in Column |-> Cardinality(Hits(reports, Told, StatusesOf(c)))]
  /\ board.planning = Among(Told, Planned(reports))
  /\ board.duplicates = Among(Told, Repeated(reports))
  /\ board.interesting = Cardinality(Hits(reports, Told, Findings))
  /\ board.expectedAccepted = Among(Told, Expected(reports, "accepted"))
  /\ board.expectedRejected = Among(Told, Expected(reports, "rejected"))
  /\ board.mismatches = Among(Told, Mismatched(reports))

RecentInv ==
  /\ Len(board.recent) = Smaller(Told, RecentLimit)
  /\ \A i \in 1..Len(board.recent) :
       board.recent[i] = Tone(reports[Told - Len(board.recent) + i])

BoardInv == ReportsInv /\ CountsInv /\ RecentInv

(* One more counts or does not.                                            *)
LEMMA OneMore ==
  ASSUME NEW S, NEW n \in Nat
  PROVE  /\ IsFiniteSet((1..n) \cap S) /\ Among(n, S) \in Nat
         /\ Among(n + 1, S) = Among(n, S) + One(n + 1 \in S)
<1> DEFINE A == (1..n) \cap S
<1>1. IsFiniteSet(1..n)
  BY FS_Interval
<1>2. IsFiniteSet(A)
  BY <1>1, FS_Subset
<1>3. Cardinality(A) \in Nat
  BY <1>2, FS_CardinalityType
<1>4. n + 1 \notin A
  OBVIOUS
<1>5. CASE n + 1 \in S
  <2>1. (1..(n + 1)) \cap S = A \cup {n + 1}
    BY <1>5
  <2> HIDE DEF A
  <2>2. Cardinality(A \cup {n + 1}) = Cardinality(A) + 1
    BY <1>2, <1>4, FS_AddElement
  <2>3. Among(n + 1, S) = Among(n, S) + 1
    BY <2>1, <2>2 DEF Among, A
  <2> QED
    BY <1>2, <1>3, <1>5, <2>3 DEF Among, A, One
<1>6. CASE n + 1 \notin S
  <2>1. (1..(n + 1)) \cap S = A
    BY <1>6
  <2>2. Among(n + 1, S) = Among(n, S)
    BY <2>1 DEF Among
  <2> QED
    BY <1>2, <1>3, <1>6, <2>2 DEF Among, One
<1> QED
  BY <1>5, <1>6

(* The results of one report are found as often as they are counted.       *)
LEMMA HitsOfOne ==
  ASSUME NEW i, NEW results \in Seq(OracleStatus), NEW T
  PROVE  /\ IsFiniteSet(HitsOf(i, results, T))
         /\ Cardinality(HitsOf(i, results, T)) = Count(results, T)
         /\ Count(results, T) \in Nat
<1> DEFINE A == {k \in DOMAIN results : results[k] \in T}
           R == HitsOf(i, results, T)
           f == [k \in A |-> <<i, k>>]
<1>1. IsFiniteSet(A)
  <2>1. DOMAIN results = 1..Len(results) /\ Len(results) \in Nat
    OBVIOUS
  <2>2. IsFiniteSet(1..Len(results))
    BY <2>1, FS_Interval
  <2> QED
    BY <2>1, <2>2, FS_Subset
<1>2. f \in Bijection(A, R)
  <2>1. f \in [A -> R]
    BY DEF HitsOf
  <2>2. \A j, k \in A : f[j] = f[k] => j = k
    OBVIOUS
  <2>3. \A p \in R : \E k \in A : f[k] = p
    BY DEF HitsOf
  <2> HIDE DEF f, A, R
  <2> QED
    BY <2>1, <2>2, <2>3, Zenon DEF Bijection, Injection, Surjection, IsInjective
<1> HIDE DEF f, A, R
<1>3. ExistsBijection(A, R)
  BY <1>2 DEF ExistsBijection
<1>4. IsFiniteSet(R) /\ Cardinality(R) = Cardinality(A)
  BY <1>1, <1>3, FS_Bijection
<1>5. Cardinality(A) \in Nat
  BY <1>1, FS_CardinalityType
<1> QED
  BY <1>4, <1>5 DEF A, R, Count

(* One report more, and the results it has.                                *)
LEMMA MoreHits ==
  ASSUME NEW s \in Seq(Report), NEW n \in Nat, n + 1 <= Len(s), NEW T,
         IsFiniteSet(Hits(s, n, T))
  PROVE  /\ IsFiniteSet(Hits(s, n + 1, T))
         /\ Cardinality(Hits(s, n + 1, T)) = Cardinality(Hits(s, n, T)) + Count(s[n + 1].results, T)
         /\ Cardinality(Hits(s, n + 1, T)) \in Nat
<1> DEFINE old == Hits(s, n, T)
           new == HitsOf(n + 1, s[n + 1].results, T)
<1>1. s[n + 1].results \in Seq(OracleStatus)
  <2>1. n + 1 \in 1..Len(s) /\ s[n + 1] \in Report
    OBVIOUS
  <2> QED
    BY <2>1 DEF Report
<1>2. /\ IsFiniteSet(new) /\ Cardinality(new) = Count(s[n + 1].results, T)
      /\ Cardinality(new) \in Nat
  BY <1>1, HitsOfOne
<1>3. Hits(s, n + 1, T) = old \cup new
  <2>1. \A i : i \in 1..(n + 1) <=> i \in 1..n \/ i = n + 1
    OBVIOUS
  <2> QED
    BY <2>1, Zenon DEF Hits
<1>4. old \cap new = {}
  <2>1. ASSUME NEW p \in old, p \in new
        PROVE  FALSE
    <3>1. PICK i \in 1..n : p \in HitsOf(i, s[i].results, T)
      BY <2>1 DEF Hits
    <3>2. \E j : p = <<i, j>>
      BY <3>1 DEF HitsOf
    <3>3. \E j : p = <<n + 1, j>>
      BY <2>1 DEF HitsOf
    <3>4. i = n + 1
      BY <3>2, <3>3
    <3> QED
      BY <3>1, <3>4
  <2> QED
    BY <2>1
<1>5. IsFiniteSet(old) /\ Cardinality(old) \in Nat
  BY FS_CardinalityType
<1> HIDE DEF new, old
<1>6. Cardinality(old \cap new) = 0
  BY <1>4, FS_EmptySet
<1>7. /\ IsFiniteSet(old \cup new)
      /\ Cardinality(old \cup new) = Cardinality(old) + Cardinality(new) - Cardinality(old \cap new)
  BY <1>2, <1>5, FS_Union
<1>8. /\ IsFiniteSet(Hits(s, n + 1, T))
      /\ Cardinality(Hits(s, n + 1, T)) = Cardinality(old) + Count(s[n + 1].results, T)
      /\ Cardinality(Hits(s, n + 1, T)) \in Nat
  <2>1. Cardinality(old \cup new) = Cardinality(old) + Cardinality(new)
    BY <1>2, <1>5, <1>6, <1>7
  <2>2. Cardinality(old) + Cardinality(new) \in Nat
    BY <1>2, <1>5
  <2>3. Cardinality(old \cup new) = Cardinality(old) + Count(s[n + 1].results, T)
    BY <1>2, <2>1, Zenon
  <2> QED
    BY <1>3, <1>7, <2>1, <2>2, <2>3, Zenon
<1> QED
  BY <1>8 DEF old

(* What the model counts in the reports is what is found in all of them.   *)
LEMMA HitsAreResults ==
  ASSUME reports \in Seq(Report), NEW T
  PROVE  Reported(T) = Cardinality(Hits(reports, Len(reports), T))
<1>1. DOMAIN reports = 1..Len(reports)
  OBVIOUS
<1>2. Results(T) = Hits(reports, Len(reports), T)
  BY <1>1, Zenon DEF Results, Hits, HitsOf
<1> QED
  BY <1>2 DEF Reported

(* A step that reports nothing and does not tell the board.                *)
LEMMA BoardStays ==
  ASSUME BoardInv, reports' = reports, main = "report" <=> main' = "report",
         main' \in CaseRuns => main \in CaseRuns \/ Len(reports) < TotalCases,
         board' = board \/ (board' = [board EXCEPT !.completion = TRUE])
  PROVE  BoardInv'
<1>1. /\ board' \in Board
      /\ board'.tally = board.tally /\ board'.planning = board.planning
      /\ board'.duplicates = board.duplicates /\ board'.interesting = board.interesting
      /\ board'.expectedAccepted = board.expectedAccepted
      /\ board'.expectedRejected = board.expectedRejected
      /\ board'.mismatches = board.mismatches /\ board'.recent = board.recent
  BY DEF BoardInv, ReportsInv, Board
<1>2. Told' = Told
  BY DEF Told
<1>3. ReportsInv'
  BY <1>1, <1>2 DEF BoardInv, ReportsInv
<1>4. CountsInv'
  BY <1>1, <1>2 DEF BoardInv, CountsInv
<1>5. RecentInv'
  BY <1>1, <1>2 DEF BoardInv, RecentInv
<1> QED
  BY <1>3, <1>4, <1>5 DEF BoardInv

(* A report is added, and not told yet.                                    *)
LEMMA BoardWaits ==
  ASSUME BoardInv, main # "report", main' = "report", board' = board,
         NEW r \in Report, r.mismatch <=> Mismatch(r.expectation, r.results),
         reports' = Append(reports, r)
  PROVE  BoardInv'
<1> DEFINE len == Len(reports)
<1>1. /\ reports \in Seq(Report) /\ reports' \in Seq(Report) /\ len \in Nat
      /\ Len(reports') = len + 1 /\ reports' # <<>>
      /\ DOMAIN reports = 1..len /\ DOMAIN reports' = 1..(len + 1)
      /\ \A i \in 1..len : reports'[i] = reports[i]
  BY DEF BoardInv, ReportsInv
<1>2. Told = len /\ Told' = len
  BY <1>1 DEF Told
<1>3. ASSUME NEW T PROVE Hits(reports', len, T) = Hits(reports, len, T)
  BY <1>1 DEF Hits
<1>4. ReportsInv'
  <2>1. \A T \in SUBSET OracleStatus : IsFiniteSet(Hits(reports', Told', T))
    BY <1>2, <1>3 DEF BoardInv, ReportsInv
  <2>2. \A i \in 1..(len + 1) : i = len + 1 \/ i \in 1..len
    BY <1>1
  <2>3. reports'[len + 1] = r
    BY <1>1
  <2>4. \A i \in DOMAIN reports' :
          reports'[i].mismatch <=> Mismatch(reports'[i].expectation, reports'[i].results)
    BY <1>1, <2>2, <2>3 DEF BoardInv, ReportsInv
  <2> QED
    BY <1>1, <2>1, <2>4 DEF BoardInv, ReportsInv, CaseRuns
<1>5. /\ (1..len) \cap Planned(reports') = (1..len) \cap Planned(reports)
      /\ (1..len) \cap Repeated(reports') = (1..len) \cap Repeated(reports)
      /\ (1..len) \cap Mismatched(reports') = (1..len) \cap Mismatched(reports)
      /\ \A e : (1..len) \cap Expected(reports', e) = (1..len) \cap Expected(reports, e)
  BY <1>1 DEF Planned, Repeated, Expected, Mismatched
<1>6. CountsInv'
  BY <1>2, <1>3, <1>5 DEF BoardInv, CountsInv, Among
<1>7. RecentInv'
  <2>1. Len(board.recent) \in Nat /\ Len(board.recent) <= len
    BY <1>1, <1>2, DashboardAssumption DEF DashboardAssumption, BoardInv, RecentInv, Smaller
  <2>2. \A i \in 1..Len(board.recent) : len - Len(board.recent) + i \in 1..len
    BY <1>1, <2>1
  <2> QED
    BY <1>1, <1>2, <2>2 DEF BoardInv, RecentInv
<1> QED
  BY <1>4, <1>6, <1>7 DEF BoardInv

(* The last report is told: the tallies and the flags it counts for, and   *)
(* its tone.                                                               *)
LEMMA BoardIsTold ==
  ASSUME BoardInv, Update
  PROVE  BoardInv'
<1> USE DashboardAssumption DEF DashboardAssumption
<1> DEFINE len == Len(reports)
           told == len - 1
           r == reports[len]
<1>1. /\ main = "report" /\ main' = "campaign" /\ reports' = reports
      /\ board' =
           [board EXCEPT
              !.tally = [c \in Column |-> board.tally[c] + Count(r.results, StatusesOf(c))],
              !.planning = @ + One(r.planning),
              !.duplicates = @ + One(r.duplicate),
              !.interesting = @ + Interesting(r),
              !.expectedAccepted = @ + One(r.expectation = "accepted"),
              !.expectedRejected = @ + One(r.expectation = "rejected"),
              !.mismatches = @ + One(r.mismatch),
              !.recent = IF Len(@) < RecentLimit THEN Append(@, Tone(r))
                         ELSE Append(Tail(@), Tone(r))]
  BY Zenon DEF Update, Unlocks, MainGoes, StatusesOf
<1>2. /\ reports \in Seq(Report) /\ len \in Nat /\ told \in Nat /\ told + 1 = len
      /\ DOMAIN reports = 1..len /\ r \in Report /\ board \in Board
  BY <1>1 DEF BoardInv, ReportsInv
<1>3. Told = told /\ Told' = len
  BY <1>1, <1>2 DEF Told
<1>4. /\ board'.tally = [c \in Column |-> board.tally[c] + Count(r.results, StatusesOf(c))]
      /\ board'.planning = board.planning + One(r.planning)
      /\ board'.duplicates = board.duplicates + One(r.duplicate)
      /\ board'.interesting = board.interesting + Interesting(r)
      /\ board'.expectedAccepted = board.expectedAccepted + One(r.expectation = "accepted")
      /\ board'.expectedRejected = board.expectedRejected + One(r.expectation = "rejected")
      /\ board'.mismatches = board.mismatches + One(r.mismatch)
      /\ board'.recent = IF Len(board.recent) < RecentLimit THEN Append(board.recent, Tone(r))
                         ELSE Append(Tail(board.recent), Tone(r))
  BY <1>1, <1>2 DEF Board
<1>5. ASSUME NEW T \in SUBSET OracleStatus
      PROVE  /\ IsFiniteSet(Hits(reports, len, T))
             /\ Cardinality(Hits(reports, len, T)) =
                  Cardinality(Hits(reports, told, T)) + Count(r.results, T)
             /\ Cardinality(Hits(reports, len, T)) \in Nat
  <2>1. IsFiniteSet(Hits(reports, told, T))
    BY <1>3 DEF BoardInv, ReportsInv
  <2> QED
    BY <1>2, <2>1, MoreHits
<1>6. ASSUME NEW S
      PROVE  /\ Among(len, S) = Among(told, S) + One(len \in S)
             /\ Among(len, S) \in Nat
  <2>1. /\ Among(told, S) \in Nat
        /\ Among(told + 1, S) = Among(told, S) + One(told + 1 \in S)
    BY <1>2, OneMore
  <2> QED
    BY <1>2, <2>1 DEF One
<1>7. CountsInv'
  <2>1. ASSUME NEW c \in Column
        PROVE  board.tally[c] + Count(r.results, StatusesOf(c)) =
                 Cardinality(Hits(reports, len, StatusesOf(c)))
    BY <1>3, <1>5 DEF BoardInv, CountsInv, StatusesOf
  <2>2. board'.tally = [c \in Column |-> Cardinality(Hits(reports', Told', StatusesOf(c)))]
    BY <1>1, <1>3, <1>4, <2>1
  <2>3. board'.interesting = Cardinality(Hits(reports', Told', Findings))
    <3>1. Interesting(r) = Count(r.results, Findings)
      BY DEF Interesting, Findings
    <3>2. Findings \in SUBSET OracleStatus
      BY DEF Findings
    <3> QED
      BY <1>1, <1>3, <1>4, <1>5, <3>1, <3>2 DEF BoardInv, CountsInv
  <2>4. /\ len \in Planned(reports) <=> r.planning
        /\ len \in Repeated(reports) <=> r.duplicate
        /\ len \in Mismatched(reports) <=> r.mismatch
        /\ \A e : len \in Expected(reports, e) <=> r.expectation = e
    BY <1>2 DEF Planned, Repeated, Mismatched, Expected
  <2>5. /\ board'.planning = Among(Told', Planned(reports'))
        /\ board'.duplicates = Among(Told', Repeated(reports'))
        /\ board'.mismatches = Among(Told', Mismatched(reports'))
    BY <1>1, <1>3, <1>4, <1>6, <2>4 DEF BoardInv, CountsInv, One
  <2>6. /\ board'.expectedAccepted = Among(Told', Expected(reports', "accepted"))
        /\ board'.expectedRejected = Among(Told', Expected(reports', "rejected"))
    BY <1>1, <1>3, <1>4, <1>6, <2>4 DEF BoardInv, CountsInv, One
  <2> QED
    BY <2>2, <2>3, <2>5, <2>6 DEF CountsInv
<1>8. Tone(r) \in Tones
  BY DEF Tone, Tones
<1>9. board'.recent \in Seq(Tones) /\ RecentInv'
  <2> DEFINE recent == board.recent
             tone == Tone(r)
  <2>0. told \in Nat /\ len = told + 1 /\ RecentLimit \in Nat /\ RecentLimit > 0
    BY <1>2
  <2>1. /\ recent \in Seq(Tones) /\ Len(recent) = Smaller(told, RecentLimit)
        /\ \A i \in 1..Len(recent) : recent[i] = Tone(reports[told - Len(recent) + i])
    BY <1>2, <1>3 DEF BoardInv, RecentInv, Board
  <2>2. CASE Len(recent) < RecentLimit
    <3>1. Len(recent) = told
      <4>1. Len(recent) = Smaller(told, RecentLimit)
        BY <2>1
      <4> HIDE DEF recent, told, len
      <4> QED
        BY <2>0, <2>2, <4>1 DEF Smaller
    <3>2. board'.recent = Append(recent, tone)
      BY <1>4, <2>2
    <3> HIDE DEF recent, tone, told, len
    <3>3. board'.recent \in Seq(Tones) /\ Len(board'.recent) = len
      BY <1>8, <2>0, <2>1, <3>1, <3>2 DEF tone
    <3>4. ASSUME NEW i \in 1..len
          PROVE  board'.recent[i] = Tone(reports[i])
      <4>1. CASE i = len
        BY <2>0, <2>1, <3>1, <3>2, <4>1 DEF tone, len
      <4>2. CASE i # len
        <5>1. i \in 1..Len(recent) /\ told - Len(recent) + i = i
          BY <2>0, <3>1, <4>2
        <5>2. board'.recent[i] = recent[i]
          BY <2>1, <3>2, <5>1
        <5> QED
          BY <2>1, <5>1, <5>2
      <4> QED
        BY <4>1, <4>2
    <3>5. Len(board'.recent) = Smaller(len, RecentLimit)
      BY <2>0, <2>2, <3>1, <3>3 DEF Smaller
    <3>6. \A i \in 1..Len(board'.recent) : len - Len(board'.recent) + i = i
      BY <2>0, <3>3
    <3> QED
      BY <1>1, <1>3, <3>3, <3>4, <3>5, <3>6 DEF RecentInv, len
  <2>3. CASE ~(Len(recent) < RecentLimit)
    <3>1. Len(recent) = RecentLimit /\ RecentLimit <= told
      <4>1. Len(recent) = Smaller(told, RecentLimit)
        BY <2>1
      <4> HIDE DEF recent, told, len
      <4> QED
        BY <2>0, <2>3, <4>1 DEF Smaller
    <3>2. board'.recent = Append(Tail(recent), tone)
      BY <1>4, <2>3
    <3> HIDE DEF recent, tone, told, len
    <3>3. /\ Tail(recent) \in Seq(Tones) /\ Len(Tail(recent)) = RecentLimit - 1
          /\ \A i \in 1..(RecentLimit - 1) : Tail(recent)[i] = recent[i + 1]
      BY <2>0, <2>1, <3>1
    <3>4. board'.recent \in Seq(Tones) /\ Len(board'.recent) = RecentLimit
      BY <1>8, <2>0, <3>2, <3>3 DEF tone
    <3>5. ASSUME NEW i \in 1..RecentLimit
          PROVE  board'.recent[i] = Tone(reports[len - RecentLimit + i])
      <4>1. CASE i = RecentLimit
        <5>1. len - RecentLimit + i = len
          BY <2>0, <4>1
        <5>2. board'.recent[i] = tone
          BY <2>0, <3>2, <3>3, <4>1
        <5> QED
          BY <5>1, <5>2 DEF tone, len
      <4>2. CASE i # RecentLimit
        <5>1. i \in 1..(RecentLimit - 1) /\ i + 1 \in 1..Len(recent)
          BY <2>0, <3>1, <4>2
        <5>2. board'.recent[i] = recent[i + 1]
          BY <2>0, <3>2, <3>3, <5>1
        <5>3. recent[i + 1] = Tone(reports[told - RecentLimit + (i + 1)])
          BY <2>1, <3>1, <5>1
        <5>4. told - RecentLimit + (i + 1) = len - RecentLimit + i
          BY <2>0, <5>1
        <5> QED
          BY <5>2, <5>3, <5>4
      <4> QED
        BY <4>1, <4>2
    <3>6. Smaller(len, RecentLimit) = RecentLimit
      BY <2>0, <3>1 DEF Smaller
    <3> QED
      BY <1>1, <1>3, <3>4, <3>5, <3>6 DEF RecentInv, len
  <2> QED
    BY <2>2, <2>3
<1>10. ReportsInv'
  <2>1. \A c \in Column : StatusesOf(c) \in SUBSET OracleStatus
    BY DEF StatusesOf
  <2>2. Findings \in SUBSET OracleStatus
    BY DEF Findings
  <2>3. board'.tally \in [Column -> Nat]
    BY <1>1, <1>3, <1>5, <1>7, <2>1 DEF CountsInv
  <2>4. board'.planning \in Nat /\ board'.duplicates \in Nat /\ board'.mismatches \in Nat
    BY <1>1, <1>3, <1>6, <1>7 DEF CountsInv
  <2>5. /\ board'.expectedAccepted \in Nat /\ board'.expectedRejected \in Nat
        /\ board'.interesting \in Nat
    BY <1>1, <1>3, <1>5, <1>6, <1>7, <2>2 DEF CountsInv
  <2>7. board' \in Board
    BY <1>1, <1>2, <1>9, <2>3, <2>4, <2>5 DEF Board
  <2>8. \A T \in SUBSET OracleStatus : IsFiniteSet(Hits(reports', Told', T))
    BY <1>1, <1>3, <1>5
  <2> QED
    BY <1>1, <1>2, <2>7, <2>8 DEF BoardInv, ReportsInv, CaseRuns
<1> QED
  BY <1>7, <1>9, <1>10 DEF BoardInv

LEMMA BoardInit == DashboardInit => BoardInv
<1> SUFFICES ASSUME DashboardInit
             PROVE  BoardInv
  OBVIOUS
<1>1. main = "start" /\ reports = <<>> /\ board = EmptyBoard
  BY DEF DashboardInit
<1>2. ASSUME NEW T
      PROVE  /\ IsFiniteSet(Hits(reports, 0, T))
             /\ Cardinality(Hits(reports, 0, T)) = 0
  <2>1. Hits(reports, 0, T) = {}
    BY DEF Hits
  <2> QED
    BY <2>1, FS_EmptySet
<1>3. Told = 0
  BY <1>1 DEF Told
<1>7. ReportsInv
  <2>1. board \in Board
    BY <1>1 DEF EmptyBoard, Board
  <2> QED
    BY <1>1, <1>2, <1>3, <2>1 DEF ReportsInv, CaseRuns
<1>4. \A S : Among(0, S) = 0
  <2>1. \A S : (1..0) \cap S = {}
    OBVIOUS
  <2> QED
    BY <2>1, FS_EmptySet DEF Among
<1>5. CountsInv
  BY <1>1, <1>2, <1>3, <1>4 DEF CountsInv, EmptyBoard
<1>6. RecentInv
  BY <1>1, <1>3, DashboardAssumption DEF DashboardAssumption, RecentInv, EmptyBoard, Smaller
<1> QED
  BY <1>5, <1>6, <1>7 DEF BoardInv

(* A case that is completed leaves a report, whatever its results.         *)
LEMMA CaseIsReported ==
  ASSUME BoardInv, CaseWithoutOracle \/ CaseWithOracle
  PROVE  /\ main # "report" /\ main' = "report" /\ board' = board
         /\ \E r \in Report : /\ r.mismatch <=> Mismatch(r.expectation, r.results)
                              /\ reports' = Append(reports, r)
<1>0. Len(reports) + 1 \in 1..TotalCases
  <2>1. main \in CaseRuns
    BY DEF CaseWithoutOracle, CaseWithOracle, CaseRuns
  <2>2. Len(reports) \in Nat /\ Len(reports) < TotalCases
    BY <2>1 DEF BoardInv, ReportsInv
  <2> QED
    BY <2>2, DashboardAssumption DEF DashboardAssumption
<1>1. ASSUME NEW planning \in BOOLEAN, NEW duplicate \in BOOLEAN, NEW results \in Seq(OracleStatus),
             Completed(planning, duplicate, results)
      PROVE  /\ main' = "report" /\ board' = board
             /\ \E r \in Report : /\ r.mismatch <=> Mismatch(r.expectation, r.results)
                                  /\ reports' = Append(reports, r)
  <2> DEFINE e == Expectation[Len(reports) + 1]
             r == [planning |-> planning, duplicate |-> duplicate, results |-> results,
                   expectation |-> e, mismatch |-> Mismatch(e, results)]
  <2>1. reports' = Append(reports, r) /\ main' = "report" /\ board' = board
    BY <1>1 DEF Completed, mainOnly
  <2>2. e \in SeedExpectation
    BY <1>0, DashboardAssumption DEF DashboardAssumption
  <2>3. r \in Report
    BY <2>2 DEF Report, Mismatch
  <2> QED
    BY <2>1, <2>3
<1>2. OracleVerdict \subseteq Seq(OracleStatus)
  <2>1. \A v \in Verdicts : v \in OracleStatus
    BY DashboardAssumption DEF DashboardAssumption
  <2>2. \A v \in OracleStatus : <<v>> \in Seq(OracleStatus)
    OBVIOUS
  <2>3. "timed_out" \in OracleStatus /\ "harness_error" \in OracleStatus
    BY DEF OracleStatus
  <2>4. /\ <<>> \in Seq(OracleStatus) /\ <<"timed_out">> \in Seq(OracleStatus)
        /\ <<"harness_error">> \in Seq(OracleStatus)
    BY <2>2, <2>3
  <2>5. {<<v>> : v \in Verdicts} \subseteq Seq(OracleStatus)
    BY <2>1, <2>2
  <2> QED
    BY <2>4, <2>5, Zenon DEF OracleVerdict
<1>3. CASE CaseWithoutOracle
  <2>1. main # "report"
    BY <1>3 DEF CaseWithoutOracle
  <2>2. <<>> \in Seq(OracleStatus) /\ OtherResults \subseteq Seq(OracleStatus)
    BY DashboardAssumption DEF DashboardAssumption
  <2>3. PICK planning \in BOOLEAN, duplicate \in BOOLEAN, results \in Seq(OracleStatus) :
          Completed(planning, duplicate, results)
    BY <1>3, <2>2 DEF CaseWithoutOracle
  <2> QED
    BY <1>1, <2>1, <2>3
<1>4. CASE CaseWithOracle
  <2>1. main # "report"
    BY <1>4 DEF CaseWithOracle
  <2>2. PICK results \in OtherResults, own \in OracleVerdict :
          Completed(FALSE, FALSE, results \o own)
    BY <1>4 DEF CaseWithOracle
  <2>3. results \o own \in Seq(OracleStatus)
    BY <1>2, DashboardAssumption DEF DashboardAssumption
  <2> QED
    BY <1>1, <2>1, <2>2, <2>3
<1> QED
  BY <1>3, <1>4

LEMMA BoardInductive == BoardInv /\ [DashboardNext]_<<vars, uiVars>> => BoardInv'
<1> SUFFICES ASSUME BoardInv, [DashboardNext]_<<vars, uiVars>>
             PROVE  BoardInv'
  OBVIOUS
<1> DEFINE Stays == /\ reports' = reports /\ (main = "report" <=> main' = "report")
                    /\ (main' \in CaseRuns => main \in CaseRuns \/ Len(reports) < TotalCases)
                    /\ board' = board \/ (board' = [board EXCEPT !.completion = TRUE])
<1>1. CASE Update
  BY <1>1, BoardIsTold
<1>2. CASE CaseWithoutOracle \/ CaseWithOracle
  BY <1>2, CaseIsReported, BoardWaits
<1>3. OpenScreen \/ SpawnListener \/ LockMain \/ Draw \/ BeginCase \/ CampaignEnds
      \/ SessionFails \/ RunOracle \/ ShowSummary \/ Wait \/ LeaveSummary
      \/ StopListener \/ JoinListener \/ Restore => Stays
  BY DEF OpenScreen, SpawnListener, LockMain, Draw, Unlocks, BeginCase, CampaignEnds,
         SessionFails, RunOracle, ShowSummary, Wait, LeaveSummary, StopListener, JoinListener,
         Restore, mainOnly, MainGoes, shown, keyboard, Locking, CaseRuns
<1>4. Listener \/ (\E k \in Pressable : Press(k)) \/ OracleSupervisor
      \/ (\E s \in Stream : OracleThread(s)) \/ OracleProgram \/ Over
      \/ UNCHANGED <<vars, uiVars>> => UNCHANGED <<main, reports, board>>
  BY DEF Listener, CheckStop, NoKey, ReadInterrupt, ReadKey, LockListener, HandleKey, ListenerGoes,
         Press, OracleSupervisor, OracleThread, OracleProgram, Over, uiVars, threads, shown
<1>5. Stays => BoardInv'
  BY BoardStays
<1> QED
  BY <1>1, <1>2, <1>3, <1>4, <1>5 DEF DashboardNext, MainThread

LEMMA BoardSafe == DashboardSpec => []BoardInv
  BY BoardInit, BoardInductive, PTL DEF DashboardSpec

(* At every case and under the summary, the board shows what the report    *)
(* counts, and the tones of the last cases, however many cases there were. *)
THEOREM BoardCorrect == DashboardSpec => []BoardMatchesReport
<1>1. ASSUME BoardInv, main \in {"campaign", "await"}
      PROVE  BoardMatchesReport
  <2>1. /\ reports \in Seq(Report) /\ Told = Len(reports) /\ DOMAIN reports = 1..Len(reports)
        /\ Len(reports) \in Nat
    BY <1>1 DEF BoardInv, ReportsInv, Told
  <2>2. \A T : Reported(T) = Cardinality(Hits(reports, Told, T))
    BY <2>1, HitsAreResults
  <2>3. /\ StatusesOf("accepted") = {"accepted"}
        /\ StatusesOf("rejected") = {"rejected"}
        /\ StatusesOf("crashed") = {"crashed"}
        /\ StatusesOf("timeouts") = {"timed_out"}
        /\ StatusesOf("resource_exhausted") = {"resource_exhausted"}
        /\ StatusesOf("harness_errors") = {"harness_error"}
        /\ Findings = {"crashed", "timed_out", "resource_exhausted", "harness_error", "unsupported"}
    BY DEF StatusesOf, OracleStatus, ColumnOf, Findings
  <2>4. \A c \in Column : board.tally[c] = Reported(StatusesOf(c))
    BY <1>1, <2>2 DEF BoardInv, CountsInv
  <2>5. /\ board.tally.accepted = Reported({"accepted"})
        /\ board.tally.rejected = Reported({"rejected"})
        /\ board.tally.crashed = Reported({"crashed"})
        /\ board.tally.timeouts = Reported({"timed_out"})
        /\ board.tally.resource_exhausted = Reported({"resource_exhausted"})
        /\ board.tally.harness_errors = Reported({"harness_error"})
    BY <2>3, <2>4 DEF Column
  <2>6. /\ (1..Told) \cap Planned(reports) = {i \in DOMAIN reports : reports[i].planning}
        /\ (1..Told) \cap Repeated(reports) = {i \in DOMAIN reports : reports[i].duplicate}
        /\ (1..Told) \cap Mismatched(reports) = {i \in DOMAIN reports : reports[i].mismatch}
        /\ \A e : (1..Told) \cap Expected(reports, e) =
                   {i \in DOMAIN reports : reports[i].expectation = e}
    BY <2>1 DEF Planned, Repeated, Mismatched, Expected
  <2>7. /\ board.planning = Cardinality({i \in DOMAIN reports : reports[i].planning})
        /\ board.duplicates = Cardinality({i \in DOMAIN reports : reports[i].duplicate})
        /\ board.mismatches = Cardinality({i \in DOMAIN reports : reports[i].mismatch})
        /\ board.expectedAccepted =
             Cardinality({i \in DOMAIN reports : reports[i].expectation = "accepted"})
        /\ board.expectedRejected =
             Cardinality({i \in DOMAIN reports : reports[i].expectation = "rejected"})
    BY <1>1, <2>6 DEF BoardInv, CountsInv, Among
  <2>8. board.interesting =
         Reported({"crashed", "timed_out", "resource_exhausted", "harness_error", "unsupported"})
    BY <1>1, <2>2, <2>3 DEF BoardInv, CountsInv
  <2>9. Len(board.recent) = Smaller(Len(reports), RecentLimit)
    BY <1>1, <2>1 DEF BoardInv, RecentInv
  <2> DEFINE ToneIsRight(i, report) ==
           /\ board.recent[i] = "error" <=>
                \/ report.planning
                \/ /\ report.expectation \in {"accepted", "rejected"}
                   /\ \E j \in DOMAIN report.results : report.results[j] # report.expectation
           /\ board.recent[i] \in {"normal", "muted"} =>
                \A j \in DOMAIN report.results : report.results[j] \in {"accepted", "rejected"}
  <2>10. ASSUME NEW i \in 1..Len(board.recent), NEW report,
                report = reports[Len(reports) - Len(board.recent) + i]
         PROVE  ToneIsRight(i, report)
    <3> DEFINE n == Len(reports) - Len(board.recent) + i
    <3>1. n \in 1..Len(reports)
      BY <2>1, <2>9, DashboardAssumption DEF DashboardAssumption, Smaller
    <3>0. report = reports[n]
      BY <2>10
    <3>2. report \in Report
      <4> HIDE DEF n
      <4> QED
        BY <2>1, <3>0, <3>1
    <3>3. report.mismatch <=> Mismatch(report.expectation, report.results)
      <4> HIDE DEF n
      <4> QED
        BY <1>1, <2>1, <3>0, <3>1 DEF BoardInv, ReportsInv
    <3>4. board.recent[i] = Tone(report)
      BY <1>1, <2>1, <2>10 DEF BoardInv, RecentInv
    <3>5. /\ report.planning \in BOOLEAN /\ report.mismatch \in BOOLEAN
          /\ report.expectation \in SeedExpectation /\ report.results \in Seq(OracleStatus)
      BY <3>2 DEF Report
    <3>6. ASSUME Interesting(report) = 0, NEW j \in DOMAIN report.results
          PROVE  report.results[j] \in {"accepted", "rejected"}
      <4> DEFINE found == {k \in DOMAIN report.results : report.results[k] \in Findings}
      <4>1. IsFiniteSet(found)
        <5>1. DOMAIN report.results = 1..Len(report.results) /\ Len(report.results) \in Nat
          BY <3>5
        <5>2. IsFiniteSet(1..Len(report.results))
          BY <5>1, FS_Interval
        <5> QED
          BY <5>1, <5>2, FS_Subset
      <4>2. Cardinality(found) = 0
        BY <3>6 DEF Interesting, Findings, Count
      <4> HIDE DEF found
      <4>3. found = {}
        BY <4>1, <4>2, FS_EmptySet
      <4>4. report.results[j] \notin Findings
        BY <4>3 DEF found
      <4> QED
        BY <3>5, <4>4 DEF Findings
    <3>7. Tone(report) = "error" <=> report.mismatch \/ report.planning
      BY <3>5 DEF Tone
    <3>8. Tone(report) \in {"normal", "muted"} => ~(Interesting(report) > 0)
      BY <3>5 DEF Tone
    <3>9. ~(Interesting(report) > 0) => Interesting(report) = 0
      <4>1. Interesting(report) \in Nat
        BY <3>5, HitsOfOne DEF Interesting
      <4> QED
        BY <4>1
    <3> QED
      BY <3>3, <3>4, <3>5, <3>6, <3>7, <3>8, <3>9 DEF Mismatch, SeedExpectation
  <2> HIDE DEF ToneIsRight
  <2>11. \A i \in 1..Len(board.recent) :
           ToneIsRight(i, reports[Len(reports) - Len(board.recent) + i])
    BY <2>10
  <2> QED
    BY <2>5, <2>7, <2>8, <2>9, <2>11, Zenon DEF BoardMatchesReport, ToneIsRight
<1>2. BoardInv => BoardMatchesReport
  BY <1>1 DEF BoardMatchesReport
<1> QED
  BY <1>2, BoardSafe, PTL
=============================================================================
