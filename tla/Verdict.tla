------------------------------- MODULE Verdict -------------------------------
(***************************************************************************)
(* From an oracle run to its verdict:                                      *)
(*   erofs-lab/src/oracle.rs     classify_rust, classify_fsck,             *)
(*                               classify_qemu, rlimit_signal              *)
(*   erofs-lab/src/bin/erofs-reader-oracle.rs                              *)
(*   scripts/rootfs-init.c       the init of the QEMU guest                *)
(*                                                                         *)
(* A program (the Rust reader, fsck.erofs, or QEMU with a guest kernel)    *)
(* writes lines to two streams and ends, or is ended: by a fault, at a     *)
(* limit, or by the supervisor.  The `unshare` wrapper turns its end into  *)
(* an exit status.  The classifier sees the first Limit lines of each      *)
(* stream, the status, and the supervisor's two flags; what really         *)
(* happened is kept in `truth`, which it does not see.                     *)
(***************************************************************************)
EXTENDS Naturals, Sequences

LOCAL INSTANCE SequencesExt

CONSTANTS
  Profile,   \* the profiles considered, among rust, fsck and linux
  Limit,     \* lines retained of each stream (output_bytes)
  MaxLines,  \* bound on what a kernel or fsck prints of its own accord
  MaxErrors  \* bound on the errors the guest meets in one traversal

ASSUME VerdictAssumption ==
  /\ Profile \subseteq {"rust", "fsck", "linux"}
  /\ Limit \in Nat /\ MaxLines \in Nat /\ MaxErrors \in Nat

(* Lines, by what the classifiers tell apart.                              *)
Line == {"noise",
         "event_complete", "event_rejected", "event_resource", "event_panic", \* reader
         "corrupt", "unsupported", "exhausted",                 \* fsck diagnostics
         "allocation_failed", "wrapper_failed",                 \* libc, unshare
         "danger", "mount_accepted", "mount_rejected",          \* guest console
         "rejected", "resource", "complete"}

Truth == {"clean", "refused", "limited", "danger", "panicked", "faulted", "exhausted"}

Death == {"none", "exit0", "exit1", "abort", "fault", "kill"}

Signal == {"SIGSEGV", "SIGABRT", "SIGKILL", "SIGXCPU", "SIGXFSZ"}

OracleStatus == {"accepted", "rejected", "crashed", "timed_out", "resource_exhausted",
                 "unsupported", "harness_error", "cancelled"}

NoVerdict == [status |-> "none", signature |-> "none"]

VARIABLES
  profile,              \* what is being run
  at,                   \* where the program is
  errors,               \* errors the guest has met (stats.failed when > 0)
  out, err,             \* everything written to stdout and stderr
  death,                \* how the program ended
  status,               \* the exit status of the wrapper
  timedOut, cancelled,  \* the supervisor's flags
  truth,                \* history: what really happened
  verdict

vars == <<profile, at, errors, out, err, death, status, timedOut, cancelled, truth, verdict>>

TypeOK ==
  /\ profile \in Profile
  /\ at \in {"begin", "work", "summary", "off", "over"}
  /\ errors \in 0..MaxErrors
  /\ out \in Seq(Line) /\ err \in Seq(Line)
  /\ death \in Death
  /\ status \in {"none", "success", "failure"} \cup Signal
  /\ timedOut \in BOOLEAN /\ cancelled \in BOOLEAN
  /\ truth \subseteq Truth
  /\ verdict.status \in OracleStatus \cup {"none"}

Init ==
  /\ profile \in Profile
  /\ at = "begin"
  /\ errors = 0
  /\ out = <<>> /\ err = <<>>
  /\ death = "none"
  /\ status = "none"
  /\ timedOut = FALSE /\ cancelled = FALSE
  /\ truth = {}
  /\ verdict = NoVerdict

supervisorVars == <<status, timedOut, cancelled, verdict>>

Working(p, place) == profile = p /\ at = place /\ status = "none"

Say(line) == out' = Append(out, line) /\ UNCHANGED err

Complain(line) == err' = Append(err, line) /\ UNCHANGED out

Know(fact) == truth' = truth \cup {fact}

End(how) == death' = how /\ at' = "over"

-----------------------------------------------------------------------------
(* erofs-reader-oracle: an event when it starts, one or two when it ends.  *)

ReaderStarts ==
  /\ Working("rust", "begin")
  /\ at' = "work"
  /\ Say("noise")
  /\ UNCHANGED <<profile, errors, death, truth, supervisorVars>>

ReaderAccepts ==
  /\ Working("rust", "work")
  /\ End("exit0") /\ Know("clean")
  /\ out' = out \o <<"noise", "event_complete">>
  /\ UNCHANGED <<profile, errors, err, supervisorVars>>

(* run returns an error: a rejection, or the byte budget.                  *)
ReaderRefuses ==
  /\ Working("rust", "work")
  /\ End("exit1") /\ Know("refused")
  /\ Say("event_rejected")
  /\ UNCHANGED <<profile, errors, supervisorVars>>

ReaderStopsAtBudget ==
  /\ Working("rust", "work")
  /\ End("exit1") /\ Know("limited")
  /\ Say("event_resource")
  /\ UNCHANGED <<profile, errors, supervisorVars>>

(* The hook prints the event; a debug build then exits with 101, a release *)
(* build aborts.                                                           *)
ReaderPanics ==
  /\ Working("rust", "work")
  /\ \E how \in {"exit1", "abort"} : End(how)
  /\ Know("panicked")
  /\ out' = Append(out, "event_panic")
  /\ err' = Append(err, "noise")
  /\ UNCHANGED <<profile, errors, supervisorVars>>

(* An allocation fails: libstd prints a message and aborts.                *)
ReaderRunsOut ==
  /\ Working("rust", "work")
  /\ End("abort") /\ Know("exhausted")
  /\ Complain("allocation_failed")
  /\ UNCHANGED <<profile, errors, supervisorVars>>

-----------------------------------------------------------------------------
(* fsck.erofs prints diagnostics and exits with 0 or 1.                    *)

FsckPrints ==
  /\ Working("fsck", "begin")
  /\ Len(err) < MaxLines
  /\ \E line \in {"noise", "corrupt", "unsupported", "exhausted"} :
       /\ Complain(line)
       /\ truth' = truth \cup CASE line = "exhausted" -> {"exhausted"}
                                [] line \in {"corrupt", "unsupported"} -> {"refused"}
                                [] OTHER -> {}
  /\ UNCHANGED <<profile, at, errors, death, supervisorVars>>

FsckEnds ==
  /\ Working("fsck", "begin")
  /\ IF truth = {} THEN End("exit0") /\ Know("clean")
                   ELSE End("exit1") /\ UNCHANGED truth
  /\ UNCHANGED <<profile, errors, out, err, supervisorVars>>

-----------------------------------------------------------------------------
(* The QEMU guest.  A kernel message may run into a line of the init, and  *)
(* what then starts a line is no marker.                                   *)

InitPrints(line) ==
  \E seen \in {line, "noise"} : Say(seen)

MountFails ==
  /\ Working("linux", "begin")
  /\ at' = "off" /\ Know("refused")
  /\ InitPrints("mount_rejected")
  /\ UNCHANGED <<profile, errors, death, supervisorVars>>

Mounts ==
  /\ Working("linux", "begin")
  /\ at' = "work"
  /\ InitPrints("mount_accepted")
  /\ UNCHANGED <<profile, errors, death, truth, supervisorVars>>

(* traverse_all: every error is printed and the traversal goes on.         *)
TraverseError ==
  /\ Working("linux", "work")
  /\ errors < MaxErrors
  /\ errors' = errors + 1
  /\ \/ InitPrints("rejected") /\ Know("refused")
     \/ InitPrints("resource") /\ Know("limited")
  /\ UNCHANGED <<profile, at, death, supervisorVars>>

(* The line that sums up the traversal, then the one that accepts.         *)
TraverseEnds ==
  /\ Working("linux", "work")
  /\ at' = "summary"
  /\ InitPrints(IF errors > 0 THEN "rejected" ELSE "noise")
  /\ truth' = IF errors > 0 THEN truth ELSE truth \cup {"clean"}
  /\ UNCHANGED <<profile, errors, death, supervisorVars>>

TraverseAccepted ==
  /\ Working("linux", "summary")
  /\ at' = "off"
  /\ IF errors > 0 THEN UNCHANGED <<out, err>> ELSE InitPrints("complete")
  /\ UNCHANGED <<profile, errors, death, truth, supervisorVars>>

PowerOff ==
  /\ Working("linux", "off")
  /\ End("exit0")
  /\ UNCHANGED <<profile, errors, out, err, truth, supervisorVars>>

(* The kernel reports a problem, and may carry on or panic; panic=-1 and   *)
(* -no-reboot end QEMU.                                                    *)
KernelNoise ==
  /\ profile = "linux" /\ death = "none" /\ status = "none"
  /\ Len(out) < MaxLines
  /\ Say("noise")
  /\ UNCHANGED <<profile, at, errors, death, truth, supervisorVars>>

KernelDanger ==
  /\ profile = "linux" /\ death = "none" /\ status = "none"
  /\ Say("danger")
  /\ "danger" \notin truth /\ Know("danger")
  /\ \/ UNCHANGED <<at, death>>
     \/ End("exit0")
  /\ UNCHANGED <<profile, errors, supervisorVars>>

-----------------------------------------------------------------------------
(* What any of the programs may meet.                                      *)

Faults ==
  /\ death = "none" /\ status = "none"
  /\ End("fault") /\ Know("faulted")
  /\ UNCHANGED <<profile, errors, out, err, supervisorVars>>

(* prlimit sets the soft and the hard CPU limit to the same value, and at  *)
(* the hard limit the kernel kills; so does the OOM killer.                *)
HitsLimit ==
  /\ death = "none" /\ status = "none"
  /\ End("kill") /\ Know("exhausted")
  /\ UNCHANGED <<profile, errors, out, err, supervisorVars>>

(* unshare --fork --pid.  The program is process 1 of its namespace: the   *)
(* SIGABRT of abort() is ignored and the trap that follows it kills with   *)
(* SIGSEGV.  The wrapper dies of the signal of its child, or, for SIGKILL, *)
(* may fail to arrange that and exit with a diagnostic of its own.         *)
WrapperEnds ==
  /\ death # "none" /\ status = "none"
  /\ \/ /\ death # "kill"
        /\ status' = CASE death = "exit0" -> "success"
                       [] death = "exit1" -> "failure"
                       [] death \in {"abort", "fault"} -> "SIGSEGV"
        /\ UNCHANGED err
     \/ /\ death = "kill" /\ status' = "SIGKILL"
        /\ UNCHANGED err
     \/ /\ death = "kill" /\ status' = "failure"
        /\ err' = Append(err, "wrapper_failed")
  /\ UNCHANGED <<profile, at, errors, out, death, timedOut, cancelled, truth, verdict>>

(* The supervisor kills the wrapper, and with it the program.              *)
SupervisorKills ==
  /\ status = "none"
  /\ status' = "SIGKILL"
  /\ \/ timedOut' = TRUE /\ UNCHANGED cancelled
     \/ cancelled' = TRUE /\ UNCHANGED timedOut
  /\ UNCHANGED <<profile, at, errors, out, err, death, truth, verdict>>

-----------------------------------------------------------------------------
(* The classifiers: the first rule that applies gives the verdict.         *)

Rule(when, to, signature) ==
  [when |-> when, verdict |-> [status |-> to, signature |-> signature]]

First(rules) ==
  LET applies == {i \in DOMAIN rules : rules[i].when}
  IN  rules[CHOOSE i \in applies : \A j \in applies : i <= j].verdict

Retained(log) == SubSeq(log, 1, IF Len(log) < Limit THEN Len(log) ELSE Limit)

Shows(log, lines) == \E i \in DOMAIN Retained(log) : log[i] \in lines

AllocationFailure == Shows(err, {"allocation_failed"})

RlimitSignal ==
  \/ status \in {"SIGXCPU", "SIGXFSZ"}
  \/ status = "SIGABRT" /\ AllocationFailure

RustRules == <<
  Rule(cancelled, "cancelled", "rust:cancelled"),
  Rule(timedOut, "timed_out", "rust:timeout"),
  Rule(Shows(out, {"event_panic"}), "crashed", "rust:panic"),
  Rule(status \in Signal /\ RlimitSignal, "resource_exhausted", "rust:rlimit"),
  Rule(status \in Signal, "crashed", "rust:signal"),
  Rule(Shows(out, {"event_complete"}), "accepted", "rust:accepted"),
  Rule(Shows(out, {"event_resource"}), "resource_exhausted", "rust:resource"),
  Rule(Shows(out, {"event_rejected"}), "rejected", "rust:rejected"),
  Rule(status # "success", "harness_error", "rust:unexpected-exit"),
  Rule(TRUE, "harness_error", "rust:missing-marker")>>

(* Mutant: the panic event is looked for after the signal.                 *)
ClassifyRustSignalFirst == First(InsertAt(RemoveAt(RustRules, 3), 5, RustRules[3]))

ClassifyRust == First(RustRules)

(* The diagnostic of the wrapper contains "Invalid argument".              *)
FsckRules == <<
  Rule(cancelled, "cancelled", "fsck:cancelled"),
  Rule(timedOut, "timed_out", "fsck:timeout"),
  Rule(status \in Signal /\ RlimitSignal, "resource_exhausted", "fsck:rlimit"),
  Rule(status \in Signal, "crashed", "fsck:signal"),
  Rule(status = "success", "accepted", "fsck:clean"),
  Rule(Shows(err, {"exhausted"}), "harness_error", "fsck:harness-resource"),
  Rule(Shows(err, {"unsupported"}), "unsupported", "fsck:unsupported"),
  Rule(Shows(err, {"corrupt", "wrapper_failed"}), "rejected", "fsck:corruption"),
  Rule(TRUE, "harness_error", "fsck:unexpected-exit")>>

ClassifyFsck == First(FsckRules)

QemuRules == <<
  Rule(cancelled, "cancelled", "linux:cancelled"),
  Rule(Shows(out, {"danger"}), "crashed", "linux:danger"),
  Rule(Shows(out, {"resource"}), "resource_exhausted", "linux:resource-exhausted"),
  Rule(timedOut, "timed_out", "linux:timeout"),
  Rule(Shows(out, {"mount_rejected"}), "rejected", "linux:mount-rejected"),
  Rule(Shows(out, {"rejected"}), "rejected", "linux:traversal-rejected"),
  Rule(Shows(out, {"complete"}), "accepted", "linux:accepted"),
  Rule(status \in Signal /\ RlimitSignal, "resource_exhausted", "linux:rlimit"),
  Rule(status \in Signal, "crashed", "linux:qemu-signal"),
  Rule(TRUE, "harness_error", "linux:missing-marker")>>

(* Mutant: a mounted image counts as accepted.                             *)
ClassifyQemuMounted ==
  First(ReplaceAt(QemuRules, 7, Rule(Shows(out, {"mount_accepted"}), "accepted", "linux:accepted")))

ClassifyQemu == First(QemuRules)

Classify ==
  /\ status # "none"
  /\ verdict = NoVerdict
  /\ verdict' = CASE profile = "rust"  -> ClassifyRust
                  [] profile = "fsck"  -> ClassifyFsck
                  [] profile = "linux" -> ClassifyQemu
  /\ UNCHANGED <<profile, at, errors, out, err, death, status, timedOut, cancelled, truth>>

Reader ==
  \/ ReaderStarts \/ ReaderAccepts \/ ReaderRefuses \/ ReaderStopsAtBudget
  \/ ReaderPanics \/ ReaderRunsOut

Fsck == FsckPrints \/ FsckEnds

Guest ==
  \/ MountFails \/ Mounts \/ TraverseError \/ TraverseEnds \/ TraverseAccepted \/ PowerOff
  \/ KernelNoise \/ KernelDanger

Terminated == verdict # NoVerdict /\ UNCHANGED vars

Next ==
  \/ Reader \/ Fsck \/ Guest
  \/ Faults \/ HitsLimit \/ WrapperEnds \/ SupervisorKills
  \/ Classify
  \/ Terminated

Spec == Init /\ [][Next]_vars

-----------------------------------------------------------------------------
(* Properties.                                                             *)

Judged == verdict # NoVerdict

Whole(log) == Len(log) <= Limit

(* An image is accepted only if the program went through all of it without *)
(* meeting an error: no truncation, garbled console line, kill or          *)
(* exhausted limit turns anything else into an acceptance.                 *)
AcceptanceIsEarned ==
  verdict.status = "accepted" => "clean" \in truth /\ truth \cap {"refused", "limited"} = {}

(* The reader and the guest are only said to have rejected an image they   *)
(* did not get through.                                                    *)
RejectionIsReal ==
  verdict.status = "rejected" /\ profile # "fsck" => truth \cap {"refused", "limited"} # {}

(* Both ways a verdict about the format comes about.                       *)
VerdictIsEarned == AcceptanceIsEarned /\ RejectionIsReal

(* A panic of the reader whose event was retained is the same crash, under *)
(* the same signature, whether the build unwinds or aborts (oracle.rs      *)
(* "a stable signature regardless of exit code or signal").                *)
PanicIsOneCrash ==
  Judged /\ "panicked" \in truth /\ Whole(out) /\ ~cancelled /\ ~timedOut =>
    verdict = [status |-> "crashed", signature |-> "rust:panic"]

(* A kill by the supervisor is never a crash: after a timeout only a       *)
(* report of the kernel is one, and otherwise the program ended by itself, *)
(* by a panic, a fault, or a limit of its own.  That the last is told as a *)
(* crash, or as a rejection, is what ExhaustionIsNotTheImage is about.     *)
DiedAtLimit == "exhausted" \in truth /\ death \in {"abort", "kill"} /\ ~timedOut

SupervisorKillIsNoCrash ==
  verdict.status = "crashed" =>
    /\ ~cancelled
    /\ timedOut => "danger" \in truth
    /\ truth \cap {"danger", "panicked", "faulted"} # {} \/ DiedAtLimit

(* A program that only ran out of something says nothing about the image.  *)
(* "RLIMIT_CPU enforcement kills with SIGXCPU and RLIMIT_FSIZE with        *)
(* SIGXFSZ; allocation failure aborts with SIGABRT.  These deaths are      *)
(* resource exhaustion, not image-dependent crashes" (oracle.rs, on        *)
(* rlimit_signal); "Resource exhaustion of the harness itself (disk full,  *)
(* OOM killer) is not a format verdict" (oracle.rs, classify_fsck).        *)
ExhaustionIsNotTheImage ==
  truth = {"exhausted"} => verdict.status \notin {"crashed", "rejected"}

(* A kernel report that reached the log is a crash, whatever the guest     *)
(* printed before or after and however the run was ended, unless it was    *)
(* cancelled (oracle.rs, qemu_danger_after_acceptance_wins).               *)
DangerInTheLogWins ==
  Judged /\ "danger" \in truth /\ Whole(out) /\ ~cancelled => verdict.status = "crashed"

(* A panic, a kill by the supervisor and a report of the kernel are told   *)
(* apart by the signs they leave in the log, whoever killed the program    *)
(* last and however its build panics.                                      *)
CrashesAreTold == PanicIsOneCrash /\ SupervisorKillIsNoCrash /\ DangerInTheLogWins
=============================================================================
