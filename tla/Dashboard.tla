------------------------------ MODULE Dashboard ------------------------------
(***************************************************************************)
(* A campaign under the interactive dashboard:                             *)
(*   erofs-cli/src/dashboard.rs, and run in erofs-cli/src/campaign.rs.     *)
(*                                                                         *)
(* The main thread opens the screen, runs the campaign, reports each case  *)
(* to the board, shows the summary and closes the screen, by whichever     *)
(* way it leaves.  The listener thread reads keys.  They share the board   *)
(* and the terminal under a mutex, two atomic flags, and the control that  *)
(* cancels the campaign.  One case of the campaign runs an oracle program  *)
(* in the sandbox of module Sandbox; Ctrl-C is what cancels it.            *)
(***************************************************************************)
EXTENDS Sandbox, Sequences, FiniteSets

CONSTANTS
  TotalCases,   \* cases of the recipe
  RecentLimit,  \* RECENT_CASE_LIMIT
  Pressable,    \* the keys that may be pressed, among Key
  MaxKeys,      \* bound on how many are pressed
  Verdicts,     \* statuses the classifiers give a program that was not killed
  Expectation,  \* what the recipe expects of each case
  OtherResults  \* what the other oracle runs of a case may have recorded

(* A key that scrolls or toggles the help redraws and changes nothing      *)
(* else; Enter, Esc and q close the summary.                               *)
Key == {"interrupt", "close", "view"}
NoneRead == "none"

(* OracleStatus, without `cancelled', which is never a verdict.            *)
OracleStatus == {"accepted", "rejected", "crashed", "timed_out", "resource_exhausted",
                 "unsupported", "harness_error"}

SeedExpectation == {"accepted", "rejected", "exploratory"}

ASSUME DashboardAssumption ==
  /\ TotalCases \in Nat /\ MaxKeys \in Nat
  /\ Pressable \subseteq Key
  /\ RecentLimit \in Nat \ {0}
  /\ Verdicts \subseteq OracleStatus
  /\ Expectation \in [1..TotalCases -> SeedExpectation]
  /\ OtherResults \subseteq Seq(OracleStatus)

VARIABLES
  main,          \* the main thread
  terminal,      \* the modes of the terminal that are switched on
  listener,      \* the listener thread
  key,           \* the key it has read
  mutex,         \* who holds the lock of the shared state
  stopListener, acknowledged,  \* the two flags
  waited,        \* 30 seconds have passed since the summary was shown
  typed,         \* the keys that were pressed
  read,          \* how many of them the listener has read
  reports,       \* the reports of the campaign
  board,         \* SharedState: what the screen is drawn from
  summary,       \* history: the summary was drawn
  before         \* history: how many keys were handled before it was set

threads == <<main, terminal, listener, key, mutex, stopListener, acknowledged, waited>>
keyboard == <<typed, read>>
shown == <<reports, board, summary, before>>
uiVars == <<threads, keyboard, shown>>

Column == {"accepted", "rejected", "crashed", "timeouts", "resource_exhausted",
           "harness_errors", "other"}

EmptyBoard ==
  [tally |-> [c \in Column |-> 0], planning |-> 0, duplicates |-> 0, interesting |-> 0,
   expectedAccepted |-> 0, expectedRejected |-> 0, mismatches |-> 0,
   recent |-> <<>>, completion |-> FALSE]

Cooked == {}
FullScreen == {"raw", "alternate"}

DashboardInit ==
  /\ Init /\ ~request
  /\ main = "start" /\ terminal = Cooked
  /\ listener = "none" /\ key = NoneRead
  /\ mutex = "free"
  /\ stopListener = FALSE /\ acknowledged = FALSE /\ waited = FALSE
  /\ typed = <<>> /\ read = 0
  /\ reports = <<>> /\ board = EmptyBoard /\ summary = FALSE /\ before = 0

-----------------------------------------------------------------------------
(* The main thread opens the screen.  Only a failure of Terminal::new      *)
(* leaves it open: nothing was built yet that closes it.                   *)

MainGoes(from, to) == main = from /\ main' = to

OpenScreen ==
  /\ \/ MainGoes("start", "raw") /\ terminal' = {"raw"}
     \/ MainGoes("start", "shell") /\ UNCHANGED terminal
     \/ MainGoes("raw", "screen") /\ terminal' = FullScreen
     \/ MainGoes("raw", "shell") /\ terminal' = Cooked
     \/ MainGoes("screen", "abandoned") /\ UNCHANGED terminal
  /\ UNCHANGED <<vars, listener, key, mutex, stopListener, acknowledged, waited, keyboard, shown>>

SpawnListener ==
  /\ MainGoes("screen", "first")
  /\ listener' = "check"
  /\ UNCHANGED <<vars, terminal, key, mutex, stopListener, acknowledged, waited, keyboard, shown>>

(* Where the main thread needs the lock: in render, set_status, update,    *)
(* finish and at the end of drop.                                          *)
Locking == {"first", "status", "planning", "report", "finish", "restore"}

LockMain ==
  /\ main \in Locking /\ mutex = "free"
  /\ mutex' = "main"
  /\ UNCHANGED <<vars, main, terminal, listener, key, stopListener, acknowledged, waited>>
  /\ UNCHANGED <<keyboard, shown>>

(* It holds the lock at `from', releases it, and goes on.                  *)
Unlocks(from, to) ==
  /\ mutex = "main" /\ mutex' = "free"
  /\ MainGoes(from, to)
  /\ UNCHANGED <<vars, listener, key, stopListener, acknowledged, waited, keyboard, reports>>

(* Drawing can fail, which ends the session, except during the campaign.   *)
Draw ==
  /\ \/ Unlocks("first", "status") \/ Unlocks("first", "stop")
     \/ Unlocks("status", "campaign") \/ Unlocks("status", "stop")
     \/ Unlocks("planning", "case")
  /\ UNCHANGED <<terminal, board, summary, before>>

-----------------------------------------------------------------------------
(* The campaign (module Campaign has all of it).                           *)

mainOnly == <<vars, terminal, listener, key, mutex, stopListener, acknowledged, waited,
              keyboard, board, summary, before>>

BeginCase ==
  /\ MainGoes("campaign", "planning")
  /\ Len(reports) < TotalCases /\ ~request
  /\ UNCHANGED <<mainOnly, reports>>

(* The recipe is done, or between two cases the campaign stops: it was     *)
(* cancelled, its time is over, or its oracle runs are spent.              *)
CampaignEnds ==
  /\ MainGoes("campaign", "finish")
  /\ UNCHANGED <<mainOnly, reports>>

(* An error of oracle_paths or of the campaign is returned with `?`.       *)
SessionFails ==
  /\ main \in {"status", "campaign", "case"} /\ mutex # "main"
  /\ main' = "stop"
  /\ UNCHANGED <<mainOnly, reports>>

(* expectation_mismatch                                                    *)
Mismatch(expectation, results) ==
  expectation # "exploratory" /\ \E i \in DOMAIN results : results[i] # expectation

Completed(planning, duplicate, results) ==
  /\ \E expectation \in {Expectation[Len(reports) + 1]} : reports' = Append(reports,
       [planning |-> planning, duplicate |-> duplicate, results |-> results,
        expectation |-> expectation, mismatch |-> Mismatch(expectation, results)])
  /\ main' = "report"
  /\ UNCHANGED mainOnly

(* A case that fails, repeats the bytes of an earlier one, or whose oracle *)
(* runs, if it has any, are not followed here.                             *)
CaseWithoutOracle ==
  /\ main = "case"
  /\ \/ Completed(TRUE, FALSE, <<>>) \/ Completed(FALSE, TRUE, <<>>)
     \/ \E results \in OtherResults : Completed(FALSE, FALSE, results)

RunOracle ==
  /\ MainGoes("case", "oracle") /\ pc = "spawn"
  /\ UNCHANGED <<mainOnly, reports>>

(* A cancelled run leaves no result, a timeout and a failed spawn have     *)
(* verdicts of their own.                                                  *)
OracleVerdict ==
  IF cancelled THEN {<<>>}
  ELSE IF timedOut THEN {<<"timed_out">>}
  ELSE IF child = "none" THEN {<<"harness_error">>}
  ELSE {<<v>> : v \in Verdicts}

CaseWithOracle ==
  /\ main = "oracle" /\ pc = "done"
  /\ \E results \in OtherResults, own \in OracleVerdict : Completed(FALSE, FALSE, results \o own)

-----------------------------------------------------------------------------
(* The board.                                                              *)

(* Mutant: the name the verdict has in reports is not known.               *)
ColumnOfTimeout(status) ==
  CASE status \in {"accepted", "rejected", "crashed", "resource_exhausted"} -> status
    [] status = "timeout"       -> "timeouts"
    [] status = "harness_error" -> "harness_errors"
    [] OTHER                    -> "other"

(* OracleTally::add                                                        *)
ColumnOf(status) ==
  CASE status \in {"accepted", "rejected", "crashed", "resource_exhausted"} -> status
    [] status \in {"timed_out", "timeout"} -> "timeouts"
    [] status = "harness_error"            -> "harness_errors"
    [] OTHER                               -> "other"

Count(results, statuses) == Cardinality({i \in DOMAIN results : results[i] \in statuses})
Interesting(report) == Count(report.results, OracleStatus \ {"accepted", "rejected"})

Tone(report) ==
  IF report.mismatch \/ report.planning THEN "error"
  ELSE IF Interesting(report) > 0 THEN "warning"
  ELSE IF report.duplicate THEN "muted" ELSE "normal"

One(condition) == IF condition THEN 1 ELSE 0

(* update, for a completed case.  An error of drawing is dropped.          *)
Update ==
  /\ Unlocks("report", "campaign")
  /\ \E report \in {reports[Len(reports)]} : board' =
       [board EXCEPT
          !.tally = [c \in Column |->
             board.tally[c] + Count(report.results, {s \in OracleStatus : ColumnOf(s) = c})],
          !.planning = @ + One(report.planning),
          !.duplicates = @ + One(report.duplicate),
          !.interesting = @ + Interesting(report),
          !.expectedAccepted = @ + One(report.expectation = "accepted"),
          !.expectedRejected = @ + One(report.expectation = "rejected"),
          !.mismatches = @ + One(report.mismatch),
          !.recent = IF Len(@) < RecentLimit THEN Append(@, Tone(report))
                     ELSE Append(Tail(@), Tone(report))]
  /\ UNCHANGED <<terminal, summary, before>>

-----------------------------------------------------------------------------
(* finish, and Drop.                                                       *)

(* The keys the listener is done with: not the one it read and still waits *)
(* at the lock with.                                                       *)
Handled == IF listener \in {"lock", "handle"} THEN read - 1 ELSE read

ShowSummary ==
  /\ \/ Unlocks("finish", "await") /\ summary' = TRUE
     \/ Unlocks("finish", "stop") /\ UNCHANGED summary
  /\ board' = [board EXCEPT !.completion = TRUE]
  /\ before' = Handled
  /\ UNCHANGED terminal

(* It sleeps for 20 ms at a time until 30 s have passed.                   *)
Wait ==
  /\ main = "await" /\ ~waited
  /\ waited' = TRUE
  /\ UNCHANGED <<vars, main, terminal, listener, key, mutex, stopListener, acknowledged>>
  /\ UNCHANGED <<keyboard, shown>>

LeaveSummary ==
  /\ MainGoes("await", "stop")
  /\ acknowledged \/ waited
  /\ UNCHANGED <<mainOnly, reports>>

StopListener ==
  /\ MainGoes("stop", "join")
  /\ stopListener' = TRUE
  /\ UNCHANGED <<vars, terminal, listener, key, mutex, acknowledged, waited, keyboard, shown>>

(* Mutant: the listener is told to stop and not waited for.                *)
JoinListenerNot ==
  /\ MainGoes("join", "restore")
  /\ UNCHANGED <<mainOnly, reports>>

JoinListener ==
  /\ MainGoes("join", "restore")
  /\ listener = "ended"
  /\ UNCHANGED <<mainOnly, reports>>

Restore ==
  /\ Unlocks("restore", "shell")
  /\ terminal' = Cooked
  /\ UNCHANGED <<board, summary, before>>

MainThread ==
  \/ OpenScreen \/ SpawnListener \/ LockMain \/ Draw
  \/ BeginCase \/ CampaignEnds \/ SessionFails
  \/ CaseWithoutOracle \/ RunOracle \/ CaseWithOracle
  \/ Update \/ ShowSummary \/ Wait \/ LeaveSummary
  \/ StopListener \/ JoinListener \/ Restore

-----------------------------------------------------------------------------
(* The listener thread: the stop flag, a key or 100 ms without one, and    *)
(* the lock for every key but Ctrl-C.                                      *)

(* The next key there is to read.                                          *)
Pending == IF read < Len(typed) THEN typed[read + 1] ELSE NoneRead

ListenerGoes(from, to) ==
  /\ listener = from /\ listener' = to
  /\ UNCHANGED <<main, terminal, stopListener, waited, typed, shown>>

CheckStop ==
  /\ ListenerGoes("check", IF stopListener THEN "ended" ELSE "poll")
  /\ UNCHANGED <<vars, key, mutex, acknowledged, read>>

NoKey ==
  /\ ListenerGoes("poll", "check") /\ read = Len(typed)
  /\ UNCHANGED <<vars, key, mutex, acknowledged, read>>

(* Mutant: Ctrl-C is a key like the others.                                *)
ReadInterruptIgnored ==
  /\ ListenerGoes("poll", "check") /\ Pending = "interrupt"
  /\ read' = read + 1
  /\ UNCHANGED <<vars, key, mutex, acknowledged>>

(* CampaignControl::cancel sets a flag, which may be set already.          *)
ReadInterrupt ==
  /\ ListenerGoes("poll", "check") /\ Pending = "interrupt"
  /\ read' = read + 1
  /\ Cancel \/ (request /\ UNCHANGED vars)
  /\ UNCHANGED <<key, mutex, acknowledged>>

ReadKey ==
  /\ ListenerGoes("poll", "lock") /\ Pending \in Key \ {"interrupt"}
  /\ read' = read + 1 /\ key' = Pending
  /\ UNCHANGED <<vars, mutex, acknowledged>>

LockListener ==
  /\ ListenerGoes("lock", "handle") /\ mutex = "free"
  /\ mutex' = "listener"
  /\ UNCHANGED <<vars, key, acknowledged, read>>

(* Mutant: a key closes a summary that is not there yet.                   *)
HandleKeyAnytime ==
  /\ ListenerGoes("handle", "check")
  /\ mutex' = "free" /\ key' = NoneRead
  /\ acknowledged' = (acknowledged \/ key = "close")
  /\ UNCHANGED <<vars, read>>

HandleKey ==
  /\ ListenerGoes("handle", "check")
  /\ mutex' = "free" /\ key' = NoneRead
  /\ acknowledged' = (acknowledged \/ (board.completion /\ key = "close"))
  /\ UNCHANGED <<vars, read>>

Listener == CheckStop \/ NoKey \/ ReadInterrupt \/ ReadKey \/ LockListener \/ HandleKey

-----------------------------------------------------------------------------
(* The operator and the oracle run.                                        *)

Press(k) ==
  /\ "raw" \in terminal /\ Len(typed) < MaxKeys
  /\ typed' = Append(typed, k)
  /\ UNCHANGED <<vars, threads, read, shown>>

(* run_sandboxed runs on the main thread.                                  *)
OracleSupervisor == main = "oracle" /\ Supervisor /\ UNCHANGED uiVars
OracleThread(s) == (Capture(s) \/ EndOfFile(s)) /\ UNCHANGED uiVars
OracleProgram ==
  /\ main = "oracle"
  /\ (\E s \in Stream : Write(s)) \/ Exit \/ Expire
  /\ UNCHANGED uiVars

SessionOver == main \in {"shell", "abandoned"}

Over == SessionOver /\ UNCHANGED <<vars, uiVars>>

DashboardNext ==
  \/ MainThread \/ Listener
  \/ (\E k \in Pressable : Press(k))
  \/ OracleSupervisor \/ (\E s \in Stream : OracleThread(s)) \/ OracleProgram
  \/ Over

DashboardSpec == DashboardInit /\ [][DashboardNext]_<<vars, uiVars>>

(* Threads run.  Each takes the lock a bounded number of times, so that    *)
(* weak fairness is enough for the other to get it.                        *)
FairDashboard ==
  /\ DashboardSpec
  /\ WF_<<vars, uiVars>>(MainThread \/ OracleSupervisor)
  /\ WF_<<vars, uiVars>>(Listener)
  /\ \A s \in Stream : WF_<<vars, uiVars>>(OracleThread(s))

-----------------------------------------------------------------------------
(* Properties.                                                             *)

DashboardTypeOK ==
  /\ main \in Locking \cup {"start", "raw", "screen", "campaign", "case", "oracle", "await",
                            "stop", "join", "shell", "abandoned"}
  /\ terminal \in {Cooked, {"raw"}, FullScreen}
  /\ listener \in {"none", "check", "poll", "lock", "handle", "ended"}
  /\ key \in Key \cup {NoneRead}
  /\ mutex \in {"free", "main", "listener"}
  /\ stopListener \in BOOLEAN /\ acknowledged \in BOOLEAN /\ waited \in BOOLEAN
  /\ typed \in Seq(Key) /\ read \in 0..Len(typed) /\ before \in Nat
  /\ board.completion \in BOOLEAN /\ summary \in BOOLEAN

(* Whichever way the dashboard was left, the shell gets its terminal back, *)
(* no thread is alive that could draw on it, and none ever draws on a      *)
(* screen that is not the dashboard's.                                     *)
TerminalIsHandedBack ==
  /\ main = "shell" => terminal = Cooked /\ listener \in {"none", "ended"}
  /\ (listener = "handle" \/ mutex = "main") => terminal = FullScreen

(* The summary stays on the screen until it is dismissed or its 30 s are   *)
(* over.  It is dismissed exactly by a closing key that was handled after  *)
(* it was set: one that was handled during the campaign is forgotten, one  *)
(* that was typed ahead and is still waiting, in the terminal's queue or   *)
(* with the listener at the lock, does dismiss it, and none is lost.       *)
SummaryIsSeen ==
  /\ acknowledged <=>
       board.completion /\ \E i \in (before + 1)..Handled : typed[i] = "close"
  /\ main = "await" => summary
  /\ summary /\ main \in {"stop", "join", "restore", "shell"} => acknowledged \/ waited

(* What CampaignSummary::from_report counts in the reports, the board has  *)
(* counted case by case; its findings are all the results that are neither *)
(* accepted nor rejected.  The last cases are shown as errors exactly when *)
(* nothing was planned or the expectation of the recipe was contradicted,  *)
(* and toned down only if none of their results is a finding.              *)
Results(statuses) ==
  UNION {{<<i, j>> : j \in {k \in DOMAIN reports[i].results : reports[i].results[k] \in statuses}} :
           i \in DOMAIN reports}
Reported(statuses) == Cardinality(Results(statuses))

BoardMatchesReport ==
  main \in {"campaign", "await"} =>
    /\ board.tally.accepted = Reported({"accepted"})
    /\ board.tally.rejected = Reported({"rejected"})
    /\ board.tally.crashed = Reported({"crashed"})
    /\ board.tally.timeouts = Reported({"timed_out"})
    /\ board.tally.resource_exhausted = Reported({"resource_exhausted"})
    /\ board.tally.harness_errors = Reported({"harness_error"})
    /\ board.planning = Cardinality({i \in DOMAIN reports : reports[i].planning})
    /\ board.duplicates = Cardinality({i \in DOMAIN reports : reports[i].duplicate})
    /\ board.interesting =
         Reported({"crashed", "timed_out", "resource_exhausted", "harness_error", "unsupported"})
    /\ board.expectedAccepted = Cardinality({i \in DOMAIN reports : reports[i].expectation = "accepted"})
    /\ board.expectedRejected = Cardinality({i \in DOMAIN reports : reports[i].expectation = "rejected"})
    /\ board.mismatches = Cardinality({i \in DOMAIN reports : reports[i].mismatch})
    /\ Len(board.recent) = Smaller(Len(reports), RecentLimit)
    /\ \A i \in 1..Len(board.recent) :
         LET report == reports[Len(reports) - Len(board.recent) + i]
         IN  /\ board.recent[i] = "error" <=>
                  \/ report.planning
                  \/ /\ report.expectation \in {"accepted", "rejected"}
                     /\ \E j \in DOMAIN report.results : report.results[j] # report.expectation
             /\ board.recent[i] \in {"normal", "muted"} =>
                  \A j \in DOMAIN report.results : report.results[j] \in {"accepted", "rejected"}

(* Ctrl-C ends the session however long the oracle program hangs and       *)
(* whatever was typed before, and so does the end of the campaign: closing *)
(* the screen never waits for ever for the listener.                       *)
SessionEnds ==
  (main = "oracle" /\ \E i \in (read + 1)..Len(typed) : typed[i] = "interrupt") \/ main \in {"finish", "stop"}
    ~> SessionOver
=============================================================================
