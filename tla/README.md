# A TLA+ model of erofs-rs-new

`erofs-rs-new` reads, builds, inspects and fuzzes EROFS images.  What is
concurrent, crash-prone and hard to test is the laboratory (`erofs-lab`):
campaigns that mutate an image many times over, publish every mutant in a
content-addressed corpus, run three oracles on it in sandboxes, share what they
learnt and minimize what they found.  The builder and the reader (`erofs`) are
sequential, but must agree with each other on every offset, the one while its
input changes, the other on images of any make; and the locator and the
inspector find the same structures by arithmetic of their own.  This directory
models all of them, checks them with TLC, and proves with TLAPS the safety of the
laboratory, the layout of the builder, and that what the builder packs the reader
finds, lists and reads back.

Contents: [the system](#the-system), [the plan](#the-plan),
[the modules](#the-modules), [the runs](#the-runs),
[what the violations show](#what-the-violations-show), [the proofs](#the-proofs),
[what is left out](#what-is-left-out), [how to run it](#how-to-run-it).

## The system

| Component | State it keeps | Operations | Hard part | Module |
|---|---|---|---|---|
| Campaign runner, `erofs-lab/src/campaign.rs` `run_campaign_with_progress_control` | in-memory `NoveltyIndex`, counters, case reports, reason for stopping | plan, deduplicate, materialize, escalate rust → fsck → linux, report | budgets read before each of three launches while the clock runs; cancellation and panics anywhere | `Campaign` |
| Novelty index, `load_novelty`, `save_novelty` | `novelty.json`, `novelty.json.lock` | load without a lock; merge and replace under `flock` | lost updates, a crash inside the critical section | `Campaign`, `SharedIndex` |
| Sample store, `erofs-lab/src/lib.rs` `publish`, `verify_existing` | `samples/sha256/<hash>/`, `.stage-<pid>-<hash>/` | stage, fsync, seal, `RENAME_NOREPLACE`, verify | two publishers of the same bytes, kills, reused pids, power loss | `Publish`, `WriteOnceStore` |
| Oracle sandbox, `oracle.rs` `run_sandboxed`, `capture_log` | child, two pipes, two capture threads, deadline | spawn, poll, kill, drain, join | full pipes, exit racing cancellation racing the deadline | `Sandbox` |
| Oracle run records, `run_oracle_inner`, `sweep_stale_stages`, `StageGuard` | `runs/<sample>/<profile>/<nanos>-<pid>/`, staged in `.<nanos>-<pid>.stage` | sweep stages of dead processes, stage, write, rename | sweeping while others stage, death, reused pids | `OracleRuns` |
| Verdicts, `classify_rust`, `classify_fsck`, `classify_qemu` | none | map logs, status and flags to a result | logs cut short, garbled lines, limits that look like crashes | `Verdict` |
| Reader oracle, `bin/erofs-reader-oracle.rs` | counters | traverse an image, print events | every end must be told apart from outside | in `Verdict`, partly |
| Guest init, `scripts/rootfs-init.c` | counters | mount, traverse, print markers, power off | the console is shared with the kernel | in `Verdict`, partly |
| Planner, `erofs-lab/src/lib.rs` `plan`, `add_write`, `collapse_writes`, `apply_integrity`, `apply_plan_bytes` | none | resolve intents to patches, recompute checksums, apply | writes that meet, checksums of a block that the same plan changes | `Planner` |
| Recipe generation, `generate_recipe`, `DeterministicCases`, `CombinationStream` | cursor, generator | skip to the window, enumerate cases | a window that starts inside the random stream, empty draws | `Recipe` |
| Minimizer, `minimize_case`, `shrink_intent`, `preserves_signature` | current candidate, attempts | drop and shrink intents while the signature stays | walking a list that is being shortened, an oracle that wavers | `Minimize` |
| Dashboard, `erofs-cli/src/dashboard.rs`, `run` of `campaign.rs` | terminal, board under a mutex, two flags, key listener thread | open, update per case, summary, close; keys | stopping the thread on every path, keys typed ahead, a program that hangs | `Dashboard` over `Sandbox` |
| Builder, `erofs/src/builder.rs` | nodes, inode and block cursors, image | scan, assign inode numbers, lay out, emit | passes that must agree, files that change in between, directories that fill a block | `Builder`, `Layout` |
| Reader, `erofs/src/**` | file cursor and buffer; stack and set of ancestors of a walk | look up, open, read, list, walk (sync and async) | cycles, shared directories, block boundaries, damage | `Reader`, `Layout`, `RoundTrip` |
| Locator, `erofs-format/src/locator.rs` | none | find inodes, entries, chunks, attributes, extensions, devices, prefixes, algorithm settings, compression metadata | offset arithmetic that must meet the reader's | `Locator`, partly |
| Inspector, `erofs-cli/src/view.rs` | rows built once; selection, focus, folds, highlight | build the model, keys | a selection that survives folds, searches and jumps | `Viewer`, partly |
| Printers, schema tables, command line, `erofs-cli/src/**` | none | print, parse arguments | none | not modelled |

How they interact: the campaign runner calls the planner and `materialize`
(which publishes into the corpus), then `run_oracle_with_control` up to three
times per case; that function sweeps and stages a run record, calls
`run_sandboxed`, classifies the output and renames the record.  Campaigns in
different processes share the corpus directory only: the samples (through
rename), the run records (through rename and sweep) and the novelty index
(through `flock`).  The dashboard's listener thread shares an atomic flag,
`CampaignControl`, with the runner and the sandbox, and the board and the
terminal with the main thread.

The reader oracle, the planner and the printers read images through the
reader and the locator; `mkfs` builds them.  Builder and reader share nothing
but the format of the image.

What makes each correct is listed with the [modules](#the-modules); the
hazards behind the properties are in `PROJECT.json`, each at the line where it
bites.

## The plan

1. *(done)* The laboratory's concurrent core: `Campaign` and `SharedIndex`,
   `Publish` and `WriteOnceStore`, `Sandbox`, `OracleRuns`, `Verdict`.
2. *(done)* `CampaignProofs`: types, lost updates, refinement, budget and
   deduplication of `Campaign`.
3. *(done)* `Recipe` and `Minimize`: the window of an enumeration against the
   whole enumeration; what `minimize_case` returns was confirmed in full, and is
   reduced as far as its single pass can under an oracle that is steady.
4. *(done)* `Planner`: writes collapsed into patches and integrity settled over
   the result, against a reference that overwrites bytes one intent at a time.
5. *(done)* Proofs: the invariants and the refinement of `Publish`, the
   invariants of `Sandbox`, `OracleRuns`, `Verdict` and `Planner`, and what
   `Minimize` confirms.
6. *(done)* `Layout`, `Builder`, `Reader`, `RoundTrip`: the builder's passes,
   composed with the walk, the path lookup and the file cursor of the reader:
   what was built is what is walked, found and read, and the reader ends on
   images that the builder never makes.
7. *(done)* `Dashboard` over `Sandbox`: the session around an oracle run, with
   its listener and its keys; the sandbox shown to be what runs in it.
8. *(done)* `Locator` and `Viewer`, composed with the reader in `RoundTrip`: the
   spans of the locator against the reader's block mapping, the model of the
   inspector against both, and the keys of the inspector.
9. *(done)* Proofs: all safety of `Campaign`; the session of `Dashboard`.
10. *(done)* Proofs over data: the board of `Dashboard`, the checksum of
   `Planner`, the windows of `Recipe`, the reduction of `Minimize`.
11. *(done)* `RoundTripProofs`: the layout of `Builder` for any host tree, what
   `Reader` reads of the files of an image that was built, and `LookupAgrees`.
12. *(done)* `WalkProofs`: `WalkIsExact` of built images, and what `Viewer` shows
   of them.
13. Left: the strict mode of the locator.

Every module to be proved about is free of RECURSIVE operators, has one action
per operation and its constants' assumptions named.

## The modules

### Campaign

A campaign is a process; `pc` is the statement it is at.  `Load` is
`load_novelty`; `case` is the head of the loop.  `StopBeforeCase` and `Exhaust`
end the loop; `PlanFails`, `PlanDuplicate` and `PlanFresh` are the three
outcomes of planning; then `Materialize` (or `MaterializePanics`),
`RustOracle`, `FsckOracle`, `LinuxOracle` with the escalation conditions of the
code, and `FinishCase`, which reports the case and checks the three reasons for
stopping in the code's order.  `AcquireLock`, `MergeIndex`, `ReplaceIndex` and
`ReleaseLock` are `save_novelty`; `WriteReport` is `report.json`.  `Fail` is an
I/O error or a kill at any point after the start (the kernel drops the lock),
`Cancel` and `Expire` are the flag and the clock.

Abstractions: a recipe is a number of cases, and what a case plans is a free choice of a
plan, whose image is the constant `Output` (planning is deterministic in the parent and
the plan); a verdict is a free choice of a status and a signature, or `Cancelled` if the
request is set.  The `expectation` of a case decides nothing of what a campaign does and
is left to `Dashboard`, which shows it; `coverage_sha256` is left out, since nothing
fills it.  Reading a budget and launching are one step: the clock may still pass between
them in the code, which makes the launch one that was allowed.  A reader that ends by
itself after a cancellation is a verdict and may escalate, as in the code.

Properties: `OracleBudgetRespected`, `ReportsMatchSamples`, `StopReasonIsTrue`,
`JudgedAtMostOnce`, `NoCaseIsSkipped` (`OnlyTheLastGoesUnjudged` and
`AbnormalEscalates`), `CancelledLeavesNoVerdict` of one campaign; `PlansComeWithBytes`,
`DiscoveriesSurvive`, `ImplementsSharedIndex`, `EveryCampaignEnds` of several.

`SharedIndex` is what `novelty.json` promises: a set of facts that only grows,
to which each campaign adds its own, at most once, in one step.  `Campaign`
implements it with `facts` the entries of the index, tagged with their kind.

One consequence of the code is worth knowing though no text denies it: the hash
of an image enters the index before the image is judged (campaign.rs:620) and is
saved whatever ends the campaign.  An image whose oracle run was cancelled, or
for which no budget was left, is a duplicate for every later campaign and is
never judged; `OnlyTheLastGoesUnjudged` bounds this to one image per campaign
under a judging funnel.

### Publish

Processes have a pid and a hash to publish; stages are named by both, as in
the code.  One action per system call of `publish`: look up, remove a stale
stage, `mkdir`, write and sync the image, write and sync the manifest, sync the
stage, seal it, rename without replacing, sync `samples/`; `Verify` is
`verify_existing`.  A directory records the state of its two files, whether its
entries and its name are durable, and whether it is sealed.  `Kill` ends a
process anywhere (an I/O error returned with `?` looks the same to the others); a
pid may be used again by a process started later.  `PowerLoss` keeps, of what was not
synced, whatever a file system may keep: torn or missing files,
renames undone.  It is harsher than journaled file systems and assumes one thing:
that `samples/sha256` itself survives (its parents, created by
`create_dir_all`, are never synced).
`privileged` says whether the processes may empty a read-only directory.

Properties: `EntriesLast`: an entry is whole whenever it is there
(`FinalIsWhole`), and durable once the process that renamed it has returned
(`PublishedIsDurable`).  A process that was given the entry of another
(`existing`) gets less: the entry is whole, and is there as long as no power is lost
(`ExistingIsThere`).  `verify_existing` does not sync `samples/sha256`, so that until
somebody has done so a power loss may take back what it has returned.  `StageIsOwn`,
`ImplementsWriteOnceStore`, and `LostRaceIsNotAnError` of the violation.

`WriteOnceStore` is the promise: `Put` fills an absent entry with its first
producer, `Settle` makes every existing entry durable (a sync of the directory
is one for all its entries), `Survive` may lose entries that were not.

### Sandbox

The program (`Write`, `Exit`), one capture thread per pipe (`Capture`,
`EndOfFile`) and the supervisor (`Spawn`, `Poll`, `CheckControl`,
`CheckDeadline`, `Join`) interleave.  Bytes are counted, in chunks.  Killing
the wrapper kills the whole pid namespace (`--kill-child`), so pipes close with
the program.

### Dashboard

It extends `Sandbox`: a session is the main thread (`main` is where it is), the
listener thread (`listener`), and an oracle run in between.  `OpenScreen` and
`SpawnListener` are `CampaignDashboard::start`, with the failure of each of its
steps; `LockMain` is every `lock()` of the main thread and `Draw`, `Update`,
`ShowSummary` and `Restore` what it does with it; `BeginCase`,
`CaseWithoutOracle`, `RunOracle`, `CaseWithOracle`, `CampaignEnds` and
`SessionFails` are the campaign as the dashboard sees it; `StopListener`,
`JoinListener` and `Restore` are `Drop`, on every way out.  The listener checks
the stop flag, polls for a key (`NoKey` is the 100 ms), sets the control
(`ReadInterrupt`, without the lock) or takes the lock for any other key.  While
`main` is `oracle`, the steps of `Sandbox` run, and `Cancel` of `Sandbox` is the
Ctrl-C that the listener reads.

Properties: `TerminalIsHandedBack`; `SummaryIsSeen`: the summary is dismissed exactly by
a closing key that is handled after it was set.  One that was handled during the campaign
is forgotten; one that was typed ahead and still waits, in the queue of the terminal or
with the listener at the lock, does dismiss it, as in the code.  `before` is how many keys
the listener was done with when the summary was set, `Handled` how many it is done with
now.  `BoardMatchesReport`: what is counted case by case is what
`CampaignSummary::from_report` counts at the end, and the tones of the last cases say what
their reports say.  `SessionEnds`; and `LogIsExact`, `EveryKillHasItsCause`, `RunEnds` of
the run inside.

`board` counts as `OracleTally::add` does, once per oracle that ran.  A case records the
results of `OtherResults`, a constant set of lists, and of the oracle run that is followed,
if it has one, a status out of `Verdicts` or what a kill leaves.  `Expectation` is what
the recipe expects of each case; a report says whether a result goes against it
(`Mismatch`), which the board counts, and which `Tone` makes an error.

The calls of `update` for the phases of an oracle change the status line and
redraw; they are represented by the one for planning.  `CaseWithoutOracle` stands for
duplicates, planning errors, and cases whose oracle runs are not followed.

What the code does and no text denies: if `Terminal::new` fails after raw mode and the
alternate screen were switched on (dashboard.rs:175), nothing has been built yet
whose `Drop` would switch them off.  The model has the step (`main` is
`abandoned`), and `TerminalIsHandedBack` speaks of the other ways out.

### OracleRuns

Processes over a small set of pids, each running oracles one after the other
in one corpus: `BeginRun` lists the directory as `sweep_stale_stages` does,
`Examine` and `SweepOne` decide by `/proc` and remove, `CreateStage`,
`WriteLogs`, `WriteRecord`, `PublishRun`, `ReturnRun` are the rest of
`run_oracle_inner`, `RunErrs` an error with the drop of `StageGuard`, `Die` the
death of a process, after which its pid may be spawned again.
Its behaviour is named `RunsSpec` (`RunsInit`, `RunsNext`), apart from that of
`Verdict`, since `OracleProofs` proves about both.

### Verdict

The three programs as event sources: each may print, end well, refuse, meet
its own budget, fault, hit a limit, or be killed by the supervisor; a history
variable `truth` says what happened.  `WrapperEnds` is what
`unshare --fork --pid --kill-child` makes of the end.  `Classify` applies the
rules of the three `classify_*` functions in their order to the first `Limit`
lines.  What the programs outside `src/` do is external: that a process
1 ignores the SIGABRT of `abort` and dies of the SIGSEGV that follows, that
`prlimit --cpu=n` sets the hard limit too so that the kernel sends SIGKILL, and
that `unshare` may then exit with `sigprocmask unblock failed: Invalid argument`.
These three were observed with util-linux 2.38.

What these make of a program that ran out of something contradicts the comments of the
source; `ExhaustionIsNotTheImage` states them, and `verdict_exhausted` shows it violated.
The properties that do hold say what a verdict may be taken for in spite of that:
`SupervisorKillIsNoCrash`, a part of `CrashesAreTold`, names the exception (`DiedAtLimit`).

### Planner

One plan at a time: its arguments are chosen in `Init`, then every intent is
an action (`Patch`, `SetValue`, `ReplaceFixedBytes`, `UpdateBits`,
`TruncateImage`), each with its errors in the order in which the code finds
them; `Write` is `add_write`.  `CheckLength`, `Leave`, `Repair` and `Collapse`
are the rest of `plan`, `ApplyPatch` and `ApplyResize` are `apply_plan_bytes`.
The history variable `asked` is the reference: the parent overwritten by one
intent after the other, without map, signatures or patches.

Abstractions: a byte is the set of its bits, an integer the set of its bit
numbers, and the superblock has shrunk to the cells that the planner and the
locator look at, one cell for a field of several bytes.  The CRC is ideal:
different contents or lengths give different values.  Left out are the strict
check of `feature_incompat` and the overflow of a shift in the block size,
which is one more way to `Bounds`.

What the code does and no text denies: a write that changes nothing is not
recorded, so that whether two intents conflict depends on their order, and a
checksum that an intent sets to the very value of the parent is silently
replaced by a repair; `RepairUndoesNoIntent` is about intents that change it.

### Recipe and Minimize

`Recipe` is `generate_recipe`: `SkipDescriptor` and `TakeDescriptor` advance
`DeterministicCases`, `SkipDraw` and `TakeDraw` the `CombinationStream`, both
under the one budget of draws.  What the generator draws is a free choice and
is kept in the history variable `stream`, and how often it drew in `drawn`;
`Enumeration`, the fields' values and bits (`Upto`, field by field) followed by
the draws that are not empty, is what windows are compared with.  `Draws` are
the combinations that one draw can give: a selection of targets, of which the
numeric ones get a value that their width allows.  A specification is any list
of widths with three numbers (`RecipeAssumption`).  Expectations and digests of
cases are left out.

`Minimize` extends it: `Start` picks a case of the recipe, an oracle and a number of
confirmations, `Try` sets up a row of runs, `RunShows`, `Accept`, `RunFails`
and `PlanFails` are `preserves_signature`; `TryDrop`, `KeepLast` and `EndDrops`
are the first loop of `minimize_case`, `NextShrink` (`shrink_intent`),
`TryShrink` and `Finish` the second.  The recipe is generated again by
`verify_recipe` before a case is taken from it, so cases hold only values and
single bits and only values shrink.  A steady oracle needs some fields to have
some least values (out of the constant `Needs`); a wavering one answers as it likes.

What the code does and no text denies: the shrunk forms of a value are 0, 1 and
a half, all tried in that order, so that an accepted half replaces an accepted
1; an oracle that is not monotone leaves intents that could be dropped;
consecutive windows overlap or lose cases only through draws that are empty;
the attempts of a minimization that errs are not reported.

### Layout, Builder, Reader, Locator, Viewer and RoundTrip

An image is a function from addresses to cells.  The cell is the unit of all
sizes: a slot of the inode table, a dirent, a character of a name, a byte of a
file each take one.  A block has 8, an extended inode 2 and a compact one 1; so
inodes, dirents, names and data share addresses, blocks fill up and overflow,
and all offsets are computed as in the code.  A name is a string of bytes: a number, its
rank in the byte-wise order of names, with a length.  `Lossy` is what
`String::from_utf8_lossy` makes of it; it may make one text of two names.

`Builder` is `build_from_dir` on a host tree.  Its recursive passes are
one step per node: `ScanNode` (or `RefuseNode`), `AssignNid`, then `LayoutDir`,
`PlaceDirent` (one turn of the loop of `encode_dirents`), `LayoutPayload` and
`OutOfBlocks`, then `EmitNode` and `FileChanged`; `todo` holds the nodes still to visit, in
the order of the recursion.  `HostWrite` is another program that replaces the
content of a file, or removes it, while the builder runs; it comes before a node
is scanned and before it is emitted, the passes in between do not look at the host.
What is assumed of a host tree (`HostTree`) is what a file system gives: only
directories have entries, a node is an entry of one directory, the names in a
directory differ and none is a dot.  `sort_by` and the sort of the entries are
`InOrder`: the i-th is the one of rank i; `DirCells` are the blocks of
`write_dir_block` one after the other.

`Reader` is the reader of both front ends, which run the same code on the
image but for `get_inode`: async asks for the 64 bytes of an extended inode.
`FlatBlock` and `ChunkBlock` map a position of a file to a block, `Find` is
the binary search of a directory block (each turn of its loop is `Halved`),
`Lookup` that of a path, name by name.  The two ways of taking a name out of a block are
kept apart: the search compares its bytes up to the first zero (`KeyAt`), the walk trims
the zeros at its end (`NameAt`) and tells it as text (`Told`).  A name that is none, as
one with a zero inside, is `Garbled`.  `seen` holds the entries at the bytes of their
paths, `Yielded` what the walk gives out.  A walk is `StartWalk`,
then one action for each outcome of `next_entry`: `NextBlock`, `PopDir`,
`BadDirent`, `SkipDot`, `RefuseEntry`, `Enter`, `YieldEntry`.  A file is read
by `ReadBuffered`, `ReadAnew` and `ReadEof` with buffers of 3 and of 8.

`Locator` is `Locator::locate`: one operator for each kind of object that it
finds, in cells of four bytes of metadata; `Nowhere` is its error.  It shares no
definition with `Reader` but the layout of a cell.

`Viewer` is the inspector.  `OpenView` builds the model (`ImageModel`): a row
for the superblock and each inode of a walk, its extents, the objects listed of
it (`Dirents`, `Xattrs`, `ChunkObjects`, `ExtentObjects`, `IndexObjects`,
`PackObjects`), and who owns each block.  `Key` is one key of `ViewState`:
moving, folding, `Tab`, cycling through objects and extents, searching, jumping
to an inode or an offset.

`RoundTrip` joins them.  An image is built, or it is given with what it ought to
contain: directories that name themselves or an ancestor, one with two parents,
a block without entries, tails behind inodes, extended attributes, compact
inodes, chunks out of order, damaged offsets, names, types and addresses, missing blocks.

Properties: `NothingOverlaps` of the layout, at every step of every pass; `WalkIsExact`:
what a walk yields, and why it stops short; two entries are told under one path only if
a name there is not UTF-8.  `LookupAgrees`: what the walk finds is looked up at the
bytes of its path, and at the path that the walk told if its names are UTF-8.
`FilesAreExact`: a file is read as it is stored, and stored as it was at one moment, or
as empty if it was empty when it was scanned; `EveryWalkEnds`.  `ViewShowsWhatIsRead`:
the extents of a row are the cells that the reader reads the file from, its entries
those that the reader lists, for images of the builder and of other makes;
`StructuresAreApart`: in an image that is not damaged no two located structures share a
cell; `SelectionIsShown`: after any keys, what is selected exists, is visible and is
what is shown.

Where the inspector and the format differ from what one would expect, without a
text that says so:

* view.rs:776 takes bit 0 of the advise field for "extents follow" in any
  compressed layout; locator.rs:973 says that in compact files this bit is
  `COMPACTED_2B`.  A compact file with packs of 32 bytes is listed with extents
  read from its packs, and never with its packs.
* Extent records of 4 and 8 bytes do not hold where the data lies or what it is
  part of; the inspector shows 0 for what is not there (view.rs, near line 827).
* An inline tail of an inode without blocks (address `u32::MAX`) is read by the
  reader, and shown as unavailable.
* `map_metabox_offset` of the locator takes the last block of an inline metabox
  to be behind the inode even when it is full, which the reader does not.
* A highlight that a jump has set stays when the focus or the field changes.
* In the hex pane `End` sets a scroll row of `u64::MAX`, read as -1 by the next
  move, which lands at the top.
* Tables of chunks and of compressed clusters are not owned by their file in the
  block map.

What the code does and no test covers.  A host file whose name is not UTF-8 is packed
under its bytes (builder.rs:198) and told with replacement characters (dirent.rs:151):
two such files may be told under one path, and a path that was told may lead nowhere.
`build_from_dir` asks `root.is_dir()`, which follows symlinks (builder.rs:120), and
scans with `symlink_metadata` (line 166), which does not: for a symlink to a directory
it returns an image whose root inode is the symlink, which nothing can walk, though the
doc says at line 106 that it packs the directory and at line 115 that it errs if there
is none; one of the host trees is such a link.  An image whose last 32 bytes are a
compact inode can be read by the sync front end and not by the async one (`AtTheEnd` of
`MCRoundTrip`).  The walker tracks ancestors only: a directory with two parents is
walked twice, and the cap on the depth, not the number of inodes, bounds a walk.

## The runs

| Run | Instance | Shows |
|---|---|---|
| `campaign_funnel` | 1 campaign, up to 3 cases, 3 plans over 2 images, 3 verdicts, every funnel, budgets 0, 1 and 5 | what one campaign promises, with cancellation, expiry, panic and failure anywhere |
| `campaign_shared` | 2 campaigns, 1 case each, 2 plans, fairness | no lost update, refinement of `SharedIndex`, every campaign ends |
| `publish` | 3 processes, 2 hashes, 2 pids, 1 power loss, with and without privileges | whole, durable, write-once entries; private stages |
| `publish_race` | 2 processes | *violation*, see below |
| `sandbox` | a session over 2 cases, each with a recorded result, 1 with an oracle run; expectations; pipes of 1 chunk, 1 retained, 2 written per stream; 2 keys; fairness | exact logs, kills accounted for, every run ends; the terminal is handed back, the summary seen, the board right, every session ends |
| `oracle_runs` | 3 processes, 2 pids, 3 runs | sweeping spares the living, a returned run is on record, no litter |
| `verdict_sound` | all profiles, 3 lines retained, up to 4 printed freely, 2 errors | a verdict says what happened |
| `planner` | 5 parents of 10 cells of 2 bits, every plan of up to two of 24 intents and of three of the 11 that may meet, all modes and policies | a plan does what was asked or is refused, checksums fit the published block, every plan applies |
| `minimize` | 73 specifications with fields of 1 to 3 bits and of bytes, windows anywhere, 2 or 3 confirmations, fairness | windows match the enumeration, results are confirmed and reduced, every run ends |
| `verdict_exhausted` | the reader and fsck | *violation*, see below |
| `round_trip` | 14 host trees of up to 5 nodes, with names that are not UTF-8, 2 writes to them; 25 images of another make; both front ends; every start and depth; the inspector under every sequence of keys; fairness | layout, walk, lookup and contents agree, every walk ends; the inspector shows what is read, located structures are apart, the selection is shown |
| `grown_empty_file` | 2 host trees with empty files, 2 writes to them | *violation*, see below |

Why the bounds suffice.  The budget of a campaign matters below, at and above what one
case can use (three runs): 0, 1 and 5 with three cases give a campaign that may not
judge, one that stops inside the funnel, and one that stops inside its second case.
Three cases let a duplicate follow a fresh image and be followed by another fresh one.
Lost updates need two campaigns; a third adds nothing, since each saves once under an
exclusive lock (the theorems cover any number).  A stage can be disturbed by another
process of the same hash or of the same pid: three processes over two pids give both at
once.  A pipe of one chunk is full when a second is written, and two chunks exceed both
pipe and log.  Two keys make a Ctrl-C and one that closes the summary, in both orders,
or either twice; `view` keys, which change nothing, are left to the proofs.  Two cases
give an update before the oracle run or after it, and one case more than the list of
recent cases keeps.  The first is expected to be rejected, which its results contradict;
the second to be accepted, which they may fulfil or not.  A case may have a finding and
a harmless result, a timeout, a failed launch, or nothing but an acceptance.  The reader
prints at most three lines; with three retained, one free console line is enough to push
a marker of the guest past the cap.  In a plan, two intents can meet in a byte and a
third can lie between them or cut both off; the parents are one whose checksum is right,
one that it is not, one without a checksum, one that is no image and one too small for
its own checksum.  Windows start before, at and after the end of the deterministic
cases, and fields of bytes make draws that are empty; three fields are enough for a drop
in the middle of the list that is being walked.

Two of the names are not UTF-8; they are told as one text, which is the name of a third.

For the builder, a block of 8 cells makes a root of four entries need two blocks, the
first filled to the last cell or not; 8 addresses for blocks let the last one be taken,
or be one too many; contents of 1, 8, 9 and 16 are below, at and above the boundaries,
and two writes (of 1 or 9 bytes, or a removal) can meet one file twice. The cap on the
depth of a walk is 3 instead of 256, and host trees and cycles exceed it.  The inspector
is opened on images that no other program wrote to while they were packed, with the sync
front end, which is the one it uses; a jump to an offset highlights two bytes, and 8
stands for `u32::MAX` as a block address.

Fairness.  `campaign_shared` assumes that a started campaign takes its steps (weak
fairness of its case loop and of its save): it is an operating-system process, and each
step is a finite computation, given that oracle runs end, which is `RunEnds`.  Weak
fairness suffices for `flock` because each campaign takes the lock once, so that the
lock, once free, stays free unless another of finitely many takes it.  Nothing is
assumed of cancellation, expiry or failure.  `sandbox` assumes that the main thread (the
supervisor runs on it), the listener and the capture threads run; nothing of the
program, which may hang, of the keys, or of the clock.  `RunEnds` therefore asks for an
exit, a cancellation or the deadline, and the code always sets a deadline; `SessionEnds`
asks for a Ctrl-C or the end of the campaign.  Each thread takes the mutex a bounded
number of times, so that weak fairness is enough for the other to get it.  `minimize`
assumes that the one sequential process takes its next step (weak fairness of
generating, of starting and of minimizing); an error is never due.  `round_trip` has one
thread as well, which takes its next step (weak fairness of `Step`); the other program
may never write.

Deadlock is checked in every run but `planner`, whose behaviours end with the plan
applied or refused; elsewhere `Terminated` is the only stutter, in states where every
process has ended.  The type invariants of `Campaign`, `Publish`, `Sandbox`,
`OracleRuns`, `Verdict` and `Planner` are proved, not checked again.

## What the violations show

* `publish_race` — publishing the same bytes from two unprivileged processes, the loser
  gets EEXIST and must discard its stage.  It has sealed that stage 0555 two lines
  earlier, so `remove_dir_all` fails with EACCES and `?` returns the error (lib.rs:759),
  although the comment at lib.rs:782 calls the existing entry valid.  The sealed stage
  stays, and a later process of the same pid and hash fails on it in turn
  (`CleanDenied`).
* `verdict_exhausted` — a program that has only run out of time or memory is told as a
  crash on the image, or as having rejected it.  `prlimit --cpu=n` sets the hard limit too:
  the kernel sends SIGKILL, which is `rust:signal` and `fsck:signal`, a crash (the trace
  that TLC prints).  A reader whose allocation fails aborts, as process 1 of its namespace
  ignores SIGABRT, and dies of the SIGSEGV that follows, a crash as well.  And if `unshare`
  fails to die of its child's SIGKILL, its diagnostic contains "Invalid", with which an
  fsck has found the image corrupt (oracle.rs:776).  The comment on `rlimit_signal`
  (oracle.rs:576-578) says of these deaths that they "are resource exhaustion, not
  image-dependent crashes", and the one at line 753 that exhaustion "is not a format
  verdict".
* `grown_empty_file` — a file that is empty when it is scanned and has grown before it is
  emitted is packed as an empty file: the re-read, and with it the comparison of sizes, is
  under `if node.size > 0` (builder.rs:429).  The doc (lines 109-111) says: "if a file's
  size changed since the scan, the build fails"; that holds of every other change of size.

Two more observations are no violations of anything written down.  A kernel report after
the first `output_bytes` of the console is not seen, and an acceptance before it stands;
`DangerInTheLogWins` is therefore stated of whole logs.  And
`scripts/kernel-replay-common.sh` looks for more patterns (KFENCE, WARNING, lockdep,
hung tasks, RCU stalls) than the `DANGEROUS` table of oracle.rs, and for rejections
before timeouts: the two classifiers differ.

## The proofs

Each module is proved about for every value of its constants, under the named assumption
that it makes of them, which TLC evaluates in the runs.  The assumptions give types, and
besides: in `Planner` that an image is defined on 0, 1, ... up to its length; in
`Dashboard` that verdicts and other results are statuses of an oracle and that each case
has an expectation; in `Recipe` that specifications are lists of widths and numbers; in
`Layout` that blocks and names are not empty, the two dots differ, and replacing bytes
makes no dot, leaves dots alone and is done when done once; in `Builder` what a file
system guarantees of a host tree, and that a name no longer than MAX_NAME_LEN fits into
a block with its dirent (12 + 255 bytes into 4096); in `RoundTrip` that given images can
be told from a built one, and that no name in a host tree has a slash, which the reader
would take for damage (in `Reader`, that replacing bytes makes no slash and takes none
away).

Besides its component, each of `SandboxProofs` (with the session), `OracleProofs` (run
records and verdicts) and `MinimizeProofs` (with the recipes) proves about a second one;
`WalkProofs` goes on where `RoundTripProofs` ends, from paths to walks, and from walks
to the inspector, whose rows come from one; what its keys do to any rows is still in
`RoundTripProofs`.

Where a proof is by induction over a number (what a recursive function has
computed, how far a search has come), it goes through the least number of a set
(`LeastNumber`, from the library's well-foundedness of `<`): a least
counterexample would have a predecessor.

| Theorem | Establishes | Inductive invariant |
|---|---|---|
| `TypeOKHolds` | `[]TypeOK` | `TypeInv` (`TypeCorrect`) |
| `NoLostUpdate` | `[]DiscoveriesSurvive` | `SaveInv` (`SaveCorrect`) |
| `Refinement` | `ImplementsSharedIndex` | `SaveInv` and types |
| `BudgetHolds` | `[]OracleBudgetRespected` | `BudgetInv` |
| `PlansKeepBytes` | `[]PlansComeWithBytes` | `PlansInv` |
| `JudgedOnce` | `[]JudgedAtMostOnce` | `JudgeInv` |
| `CancelledIsSilent` | `[]CancelledLeavesNoVerdict` | `CleanInv` |
| `ReasonsAreTrue` | `[]StopReasonIsTrue` | `StopInv`, `BudgetInv` |
| `NothingIsSkipped` | `[]NoCaseIsSkipped` | `SkipInv`, `StopInv` |
| `ReportsAgree` | `[]ReportsMatchSamples` | `SampleInv`, `CountInv` |
| `EntriesStay` (`EntriesAreWhole`, `PublishedStays`, `ExistingStays`), `StagesAreOwn` | `[]EntriesLast`, `[]StageIsOwn` | `Inv` of `PublishProofs` |
| `Refinement` (`PublishProofs`) | `ImplementsWriteOnceStore` | the same |
| `LogsAreExact`, `KillsAreCaused` | `[]LogIsExact`, `[]EveryKillHasItsCause` | `Inv` of `SandboxProofs` |
| `SessionImplementsSandbox` | `DashboardSpec => Spec` of `Sandbox` | step by step |
| `TerminalHandedBack`, `SummarySeen` | `[]TerminalIsHandedBack`, `[]SummaryIsSeen` | `SessionInv` |
| `RunsKept` (`SweepingSparesTheLiving`, `ReturnedRunsAreOnRecord`), `LivingLeaveNoLitter` | `[]RunsAreKept`, `[]NoLitterFromTheLiving` | `RunsInv` of `OracleProofs` |
| `VerdictEarned`, `CrashesTold` (`PanicOneCrash`, `KillNoCrash`, `DangerWins`) | the properties of `verdict_sound` | `VerdictInv` |
| `OutputCorrect`, `IntentsStand` (`TruncationSparesIntents`, `RepairSparesIntents`), `PlansApply`, `WritesStand` | `[]OutputIsAsked`, `[]NothingAskedIsUndone`, `[]PlanApplies`, `[]WritesStandForIntents` | `PlannerInv` |
| `ResultConfirmed` | `[]ResultIsConfirmed` | `ConfirmInv` |
| `WindowsMatch` | `[]WindowMatches` | `WindowInv` (in `RecipeRead`) |
| `ResultReduced` | `[]ResultIsReduced` | `ReduceInv`, and `WindowInv` for the types of cases |
| `ChecksumCorrect` | `[]ChecksumIsAsAsked` | `ChecksumInv`, `PlannerInv` |
| `BoardCorrect` | `[]BoardMatchesReport` | `BoardInv` |
| `NothingOverlapsHolds` | `[]NothingOverlaps` | `LayInv` |
| `PackedFilesAreExact` | `[](source = FromHost => FilesAreExact)` | `HostInv`: `LayInv`, `EmitInv`, `WalkInv`, `FileInv` |
| `PackedLookupAgrees` | `[](source = FromHost => LookupAgrees)` | `PackedInv`: `HostInv`, `DirInv` |
| `PackedWalkIsExact` | `[](source = FromHost => WalkIsExact)` | `ToursInv`: `PackedInv`, `TourInv` |
| `PackedViewShowsWhatIsRead`, `PackedStructuresAreApart`, `PackedSelectionIsShown` | the same of `ViewShowsWhatIsRead`, `StructuresAreApart`, `SelectionIsShown` | `ShownInv`: `ToursInv`, `StepsDown`, `ViewInv` |
| `TypesHold` (four modules), `RunTypesHold` | `[]TypeOK`, `[]RunsTypeOK` | the invariants above |

*Lost updates.*  `DiscoveriesSurvive` is not inductive: a campaign that has merged and
not yet replaced would undo a save in between.  `SaveInv` adds `LockIsExclusive`
(whoever is between lock and unlock is the one holder), `MergedIsCurrent` (who is about
to replace has merged the index as it is now) and `SavedIsOver` (a campaign that saved
is past its case loop, so its in-memory index no longer changes).  Only `ReplaceIndex`
changes the index, and by the first two it replaces it by a superset.

*Refinement.*  `Init` maps to `Init`; `ReplaceIndex` maps to `Commit`, because
by `MergedIsCurrent` the new index is the old one together with what the
campaign knows; every other step leaves the index and, by `SavedIsOver`, the
contributions of the saved alone.

*Budget.*  At each of the three oracles a launch must still be allowed:
`BudgetInv` says `oracleRuns < maxOracleRuns` there, which `MayLaunch` gives on
entry.

*Plans and bytes.*  Both digests enter an index together and `Merge` is a
union, so the indexes in memory, about to be written and on disk all keep the pairing.

*Judged once.*  The image in hand is in the in-memory index, was not in the
loaded one, and is in no earlier fresh report; all fresh reports are in the
in-memory index.

*Reports.*  In the loop no reason for stopping has been given, and the cases
begun are those reported and the one in hand (`StopInv`); a killed run means a
request.  A case in hand has, at each place, the results that led there, and
comes to its report unfinished only with a reason to stop (`HandInv`): each of
the three gates either escalates or finds the budget spent.  Hashes are accounted
for (`Accounted`) as published or panicked; the one exception, the image that is
about to be materialized, dies with its campaign (`KnownInv`).
`CleanInv` extends the absence of cancelled verdicts to the case in hand and to
the index about to be written, through which they could spread.

*Publication.*  Why no entry is ever half made: a stage has the shape that its
owner's place in `publish` implies (`StagesAreShaped`: what is written, what is
synced, whether it is sealed), no two live processes have one pid
(`PidsTellApart`), and so a rename moves a stage that its owner has synced
completely.  Both digest and pid name a stage, so a process can only meet the
stages of the dead, which it removes.  *Refinement*: `Rename` of a process maps
to `Put` by it, since an absent entry is empty (`AbsentIsEmpty`); `SyncSamples`
maps to `Settle`, since the entry that was renamed is still there
(`RenamedExists`); `PowerLoss` maps to `Survive`; everything else stutters.

*Sandbox.*  Nothing leaves a pipe but through its capture thread: what was
written is what is in the pipe, what is retained and what was dropped, and
nothing is dropped before the limit (`Drained`).  A capture thread ends only at
the end of a closed, empty pipe (`Closed`), and the supervisor joins both
before it reads the logs.  Every kill is noted under its cause (`Caused`).

*Session.*  Every step of a session is a step of the sandbox or leaves it alone, so what
is proved of the sandbox holds under the dashboard.  That the terminal is handed back
rests on the mutex (`LockInv`) and on the order of `Drop`: the listener has ended when
the main thread takes the lock for the last time, and whoever holds the lock finds the
screen open (`ScreenInv`).  That the summary is dismissed exactly by a key handled after
it was set is counted in keys (`KeysInv`): those handled only grow, the key that the
listener waits with is the last one it read, and it can acknowledge only while it holds
the lock under which `completion` was set.

*Run records.*  A sweep examines a name and removes it later.  What saves the
stage of a living process is that names are never used twice (`NamesArePast`
says every name seen is of the past), that a stage in progress belongs to a live process
(`StagesHaveOwners`), and that what a sweep has doomed belonged to a dead one
(`DoomIsForTheDead`), which cannot come back under that name even if its pid does.

*Verdicts.*  `ReaderSays`, `FsckSays` and `GuestSays` relate what was printed
to what happened, `DeathsAreReal` and `StatusIsReal` how the program ended to what the
wrapper reports.  A lemma about the first rule that applies in a list then
reduces each theorem to the rules that precede the one that fires.

*Planner.*  While intents are resolved, a byte is planned or left alone so that
it is what was asked (`PlanningInv`).  Collapsing needs two facts about runs of
adjacent bytes, that they cover every planned byte (by descent to the least
byte from which no run starts in between) and that no byte is in two; hence
while patches are applied a byte is the parent's as long as its patch is
pending and the planned one afterwards (`ApplyInv`), and no preimage can be
wrong.

*Minimizer.*  `ConfirmInv` counts: while a trial is judged, the runs that
showed the signature and those left make up the confirmations asked for, and
what is kept is what was last accepted.

*Checksum.*  From the moment integrity is settled, the repaired cell holds the
digest of the first block as the byte map has it (`ChecksumInv`).  No write
follows, so the block that is published is the block that was digested, provided
that its size, read from a byte which a plan may change as well, is taken from
the map and not from the parent, as the code does.

*Board.*  The board is told one report at a time, and the last one is told while `main`
is at it (`Told`).  `CountsInv` says that each counter, those of expectations and
mismatches included, is the number of reports among those told that the summary would
count in it, `RecentInv` that the recent cases are the tones of the last ones told; the
sets that are counted over the list and over its beginning then are the same.

*Window.*  What was skipped, passed and drawn always adds up to where the window
is in the enumeration (`Matched`): the i-th case taken is the case
`offset + i` of the enumeration as far as it is known, and the enumeration only
grows at its end.  The cursor stands for the number of deterministic cases passed: what
is ahead of it is what is left of `Deterministic`, by induction over the fields
without cases that it steps over.  `Staged` ties the two budgets to each other, from which
follows that a window which is short has used them up.

*Reduction.*  The claim is about the end, the invariant about the walk: there is
an increasing map from the intents that are left into those of the source
(`Places`) under which each is what it was, or, behind the cursor, a shrunk form
of it, and none behind the cursor can be spared (`Remains`).  Dropping an
intent composes the map with a gap; that what could not be spared once cannot be
spared from less is monotonicity of a steady oracle, and is why a single pass is
enough.

*Layout.*  A pass has visited some nodes and has others in its stack; `Halfway`
says that the root is among them, and that a child of a visited node is visited
or in the stack.  When the stack is empty, the visited nodes are therefore all that can be
reached from the root (`Reached`), for a tree of any size.  What was
numbered lies below one cursor, what was laid out below the other, and what is
handed out next above: `NothingOverlaps` is then kept by each step.  That a size recorded
by one pass is what the next needs (`Scanned`, `LaidOut`, `PackFits`) includes
`encode_dirents`: the blocks of a directory hold its entries in order, each
block with room for its names.

*Packed files.*  `EmitInv`: what was emitted stays, since no two nodes share a
cell, so that at the end each inode and each payload is where the layout has put
it, and whatever else looks like an inode or an entry in the image comes from a
node (`CellsAreGood`: contents are bytes, which are neither).  `WalkInv` and
`FileInv`: every nid that a walk yields or a lookup finds is that of a node, and
a file that is open has read the bytes taken of it up to its offset; the block it
keeps is the one its offset lies in, the point that a stale buffer would break.

*Packed directories.*  `HostInv` knows where the cells of a directory are, not what they
say.  `DirInv` adds it: as `encode_dirents` goes on, the blocks filled so far hold the
first entries of the directory, ascending through all blocks, and what is used of each
is where the names of its entries end (`Arranges`); no block is empty, and the size of
the directory ends where its last name does (`Arranged`); and what is emitted are these
blocks.  A lemma about one block (`BlockReads`) then says that the reader finds in it as
many entries as were put there, each with its name, whether it takes it to the first
zero or without the zeros behind it, though the length of the last name is known only
from the end of the block or of the directory.

*Lookups.*  Each turn of the binary search keeps the entry looked for, if there is one,
between its bounds (`Narrowed`), and the bounds come together, so that in an ascending
block a name is found where it is, and `Missing` where it is not (`Finds`); a directory
whose blocks hold its entries, each once, is searched right (`FindInDir`).  What is at a
path is then a matter of its length: the recursion of `Lookup` and the levels of
`Reachable` both follow the one chain of children that the names lead along (`Leads`),
and no two nodes are led to by one path.

*Walks.*  `WalkIsExact` is about the end of a walk and is not inductive: it does not say
what is left to do.  `Explored` does.  A frame stands in a block of its directory and
has passed some of the entries; a child of that directory has been found exactly if its
entry was passed (`FrameHolds`).  A place that was found, lies above the limit and has
no frame was searched: all its children were found (`Searched`).  The paths of the
frames are prefixes of each other, each one name longer than the one below, so that the
top frame is always the deepest (`FramesHold`) and no two places found share a path
(`Apart`).  Each outcome of `next_entry` keeps this, `Enter` because the new frame has
passed nothing and nothing below it was found (`NearIs`, `WalkEnters`), `PopDir` because
all entries of the top frame were passed (`FrameEnds`).  When no frame is left, the set
found is closed under children down to the limit, hence `Below` the start
(`ExploredIsBelow`). `ancestors` holds nids of frames only, so a cycle that is reported
is one; and every inode, block and entry that the walk reads is one that `HostInv` and
`DirInv` know, so no damage is met.  All this is about places, at the bytes of their
paths; what is told of them is their text (`Yielded`), and two texts that differ nowhere
come from one path if the names of both are their own text (`TextsDiffer`).

*Inspector.*  Its rows are made from what a walk has yielded.  That they are a row
for the superblock and then rows of nodes, each with the extent of its payload and
the dirents that lie in it, is `PackedRows`; the case analysis behind it is that a
packed image has no chunks, attributes or compressed extents, so that everything
else that could be listed is `Nowhere` (`NothingElse`). With that, data is shown as
it is read because both follow from the one address in the inode (`BlockOf`), a
dirent is located where `BlockReads` has the reader find it (`DirentFound`), and
structures are apart because `NothingOverlaps` keeps their nodes apart and each cell
of a directory lies in one block at one place (`EntriesApart`). The keys need one
fact more, which is not about any one row: a row lies at most one level below the
row before it.  Otherwise a key could go to a child or a parent that is no row, or
hide what it selects.  It holds because an entry that a walk yields lies at most one
level below the one before it (`StepsDown`): it lies one below the top frame, and
the top frame is never deeper than the entry that was yielded last. `ViewInv` says
that a view that is open shows such rows of a built image and that its selection is
shown (`Selects`); each key keeps it, and no step of the reader touches the image.
(That it is opened only on images that nobody wrote to meanwhile, a bound of the
run, is used nowhere.)

Only model-checked:

* liveness (`EveryCampaignEnds`, `RunEnds`, `SessionEnds`, `EveryRunEnds`,
  `EveryWalkEnds`), which is beyond the prover under fairness;
* `WalkIsExact`, `LookupAgrees`, `FilesAreExact` and the three properties of the inspector
  of images of another make, with chunks, attributes, compressed extents and
  damage: they depend on what is said to be in each of the images that are given, and only TLC
  can compare that with what is read from its cells.

## What is left out

* Of the dashboard: what is drawn, scrolling, the help page, throughput.
* Of the inspector: drawing, the formats of values, the switch between the two block
  maps, the scroll rows of the hex pane, the status line, and the plain printer.
* Of the locator: the strict mode's reserved bits, the provenance of a field, addresses
  of 48 bits, and inodes inside the metabox.
* A traversal of the reader oracle is one step of `Verdict`; `Reader` says how it goes.
* Of the builder: modes, owners, times and link counts; entries that appear or disappear
  before their directory is listed; and a file that another program rewrites in place
  while `fs::read` reads it, which the size check cannot see if the size stays (a
  content is read, and replaced, in one step).  Of the reader: the checks of the
  superblock (`EroFSCore::new`), arithmetic that overflows a `usize`, chunk formats with
  device tables, and compressed data, which it refuses.
* The parts are composed through their promises, not in one state space: to `Campaign` a
  plan's image is a constant (`Planner` is deterministic), a recipe is a number of cases
  (`Recipe` yields a fixed window), publishing is one step (`WriteOnceStore`) and an
  oracle run is a verdict (`Sandbox`, `Verdict`).
* The other printers of `erofs-cli` (`field.rs`, `inspect.rs`) and the schema tables of
  `erofs-format`: output and data, no behaviour to check.
* Damage to `novelty.json` from outside: `save_novelty` takes an unreadable index for
  empty (campaign.rs:1511).
* `recipe.json`, written in place and never read back by a campaign.
* Disk-full and other I/O errors are ends of the process (`Fail`, `Kill`, `RunErrs`),
  not partial writes, except across a power loss.
* In `Publish`, a directory read by `verify_existing` is hashed in one step: nothing
  writes to an entry after its rename.

## How to run it

    tlc -workers 2 -config CampaignFunnel.cfg MCCampaign
    tlc -workers 2 -config CampaignShared.cfg MCCampaign
    tlc -workers 2 -config Publish.cfg Publish
    tlc -workers 2 -config Dashboard.cfg MCDashboard
    tlc -workers 2 -config OracleRuns.cfg OracleRuns
    tlc -workers 2 -config VerdictSound.cfg Verdict
    tlc -workers 2 -config Planner.cfg MCPlanner
    tlc -workers 2 -config Minimize.cfg MCMinimize
    tlc -workers 2 -config RoundTrip.cfg MCRoundTrip
    tlc -workers 2 -config PublishRace.cfg Publish
    tlc -workers 2 -config VerdictExhausted.cfg Verdict
    tlc -workers 2 -config GrownEmptyFile.cfg MCRoundTrip
    for m in Campaign Planner Minimize Sandbox Oracle Publish RoundTrip Walk
    do tlapm ${m}Proofs.tla; done

Each property of a passing run has a mutant: a definition, next to the one it
changes and marked `Mutant`, that puts a plausible bug into the model and makes
TLC find the property violated.  `PROJECT.json` lists them, with the lines of
the source every definition stands for.
