# Verification of pi-delegate

This directory holds TLA+ specifications of pi-delegate, an extension of the Pi
coding agent with which a parent agent delegates tasks to child `pi --mode rpc`
processes. It contains the models, the TLC configurations that check them on
small instances, and TLAPS proofs about them. File and line references are to
the repository's source. Definitions keep the source's names where TLA+ allows
it; `PROJECT.json` maps every definition to the lines it stands for.

## 1. Inventory

| Component | Source | State it keeps | Operations | Module |
|---|---|---|---|---|
| Runner | `runner.ts`, `rpc-jsonl.ts` | phase of the hand-off negotiation, armed timers, open tools and questions, first cancellation, collected hand-off, outcome, receipt | `run`, record handlers, exit and error events, `cancel`, `steer`, nine timers | `Runner`, `RunContract` |
| Foreground queue | `application.ts` | `activeRun`, `runQueue` | `run`, `startRun`, `startNextQueuedRun`, abort handler, `cancel`, `cancelActiveOnShutdown` | `DelegateQueue` |
| Background manager | `background.ts`, handlers in `index.ts` | `#runs`, `#generation`, `#paused`, `#pendingFlush`, `#branchOwned`, `#branchSnapshot`, `#delivered`; the ledger in the session | `slotError`, `register`, `onTerminal`, `start`, `beforeTree`, `afterTree`, `shutdown`, `reconcile` | `Background` |
| Ask channel | `ask.ts`, `background.ts`, `runner.ts` | the child's counters and poll loop, the answer file, `askOpenIds`, `#pendingAsks` | `execute` of `ask_parent`, `onAsk`, `answer` | `AskChannel` |
| Strict mode | `mode.ts`, `index.ts` | mode entries of the branch, `ModeRuntime`, the host's active tools | replay, gate, repair, `enableStrict`, `disableStrict` | `StrictMode` |
| Run store | `run-store.ts` | the directory of receipts, shared by all pi processes of the user | `openRun`, `updateRunMetadata`, `listRuns`, `markOrphanedRuns`, `enforceRetention` | `RunStore` |
| JSONL parser, transcript | `rpc-jsonl.ts`, `runner.ts` | carry-over of a partial line, protocol failures, raw records in the transcript | `feed`, `close`, `acceptRecord`, flush at the exit | `Stream`; classification in `Runner` |
| Configuration | `config.ts`, setters in `application.ts` | the user's file, a file per project, `liveConfig`, the defaults | load, recover, normalise, clamp, overlay, save, `resolveRunTimeouts` | `Config` |
| Progress reports | `runner.ts`, `background.ts` | last report, count | `maybeEmitProgress`, `onProgress` | in `Background` |
| Hand-off, roles, types | `handoff.ts`, `roles.ts`, `types.ts` | none | validation, rendering | not modelled |
| Commands and adapter | `commands.ts`, `index.ts` | registrations | parsing, wiring | not modelled |
| Inspection and settings | `application.ts` | none of its own | doctor, status, setters | setters and overlay in `Config` |
| Transcript feed | `transcript-feed.ts` | the ring of live events; the tail of a transcript | `push`, `feedEventsFromTranscript` | events in `Stream` |
| User interface | `ui/*` | bounded display buffers | rendering | not modelled |

How they interact:

- A **tool call** of the parent reaches the queue (foreground) or the
  background manager. Both start a **Runner**, which spawns the child, reads its
  JSONL from stdout, writes commands to its stdin and keeps the **receipt** in
  the run store up to date. The runner promises its callers one outcome
  (`RunContract`).
- The **queue** gives the slot to one run at a time and hands it on when the
  run's promise resolves; calls beyond that wait or are refused.
- The **manager** is called back when a run ends, and delivers the result as a
  message into the session, if the branch the user is on owns the run. What was
  not delivered is found again by `reconcile`, from the ledger entries on the
  branch and the receipts, at the next session start or tree navigation, also
  after a crash.
- The **ask channel** crosses two processes: a tool call of the child is seen by
  the runner on stdout, passed to the manager, shown to the parent; the answer
  travels back as a file that the child polls.
- The **run store** is a directory without locks. The owner of a run rewrites its
  receipt; every pi process that starts looks for orphans, and every run that
  ends, in whatever process, removes old receipts.
- The **configuration** lives in a file, in the memory of every process, and in a
  file of the project that is laid over the memory for each run and each drawing
  of the dashboard.
- The child's **output** is cut into records by the parser, which puts them into
  the transcript as they are and gives them to the runner, which tells the live
  feed. The dashboard can read a feed back from the end of the transcript.
- **Strict mode** stands between the parent model and its tools. Its state is
  derived from the branch, so navigation changes it.

What is hard here: everything runs on one event loop, but each handler sees a
state that others left, and the order of the child's output, its exit, the
timers, the user's cancel and the host's session events is arbitrary. Several pi
processes share the run store and the user's settings, and an update of either is
a read and a replacement of a file. A child may hang in any phase; its output is
cut anywhere, and may outlast its exit event. A process may die between the receipt, the ledger entry
and the message. Awaits in the queue and in `enableStrict` let other handlers
in. Calls of the host may fail in the middle of a transition. `PROJECT.json`
lists these hazards at the lines where they bite, with the properties that
cover them.

What makes each component correct:

- Runner: resolves once whatever the child does, never leaves the child behind,
  keeps the first cancellation, succeeds only with a hand-off or an accepted
  text, watches silence with the budget that fits what is open.
- Queue: one live run, no call started out of order, twice, or never.
- Manager: a result is reported on a branch that owns the run, once, and is not
  lost by navigation, restart or a failed message.
- Ask channel: the child is never wedged, the latest question can be answered,
  an answer is not overwritten, watchdogs sleep exactly while a question is open.
- Run store: recovery spares a living child and a written outcome and leaves no
  orphan it found, retention spares what is active or newest.
- Configuration: what a process works with is what the file says or will say, a
  run has the timeouts of its project, and watchdogs fire inside the hard timeout.
- Stream: the transcript is what the child wrote, live feed and replay tell the
  same story, a protocol failure ends the run.
- Strict mode: the gate is closed whenever the branch that was read says so, and
  the user's tools come back.

## 2. Modules

### Runner (`runner.ts`, with the child as an external actor)

One action per callback. `Consume`/`Free` model `onStdout`: a chunk is accepted
as a whole, and its records are handled one after another without anything in
between (`chunk` counts what is left of it), also when one of them finishes the
run, because `handleRecord` does not look at `finalizing`. The timers are a set
of names; a timer that is armed may fire at any time, so every duration is
covered. `Rearm` and `Budget` are `armInactivity`. `Cancel`,
`SettleBeginsHandoff`, `SettleWaitExpires`, `GraceExpires` and `SendSignal` are
the negotiation and escalation after a timeout; `SettleEnforces` and
`EnforceExpires` the enforcement of the hand-off; `Reap*` the reaping of a child
that outlives its run. The child (`Emit`, `ChildReads...`, `Works`, `ChildDies`)
is external: it reads its stdin, works, says anything in any order, and dies or
hangs at any moment. `RunContract` is what a caller may rely on; `Runner`
contains the refinement mapping (`Promise`, property `RunnerRefinement`).

### DelegateQueue (`application.ts:284-401`)

`Run` has the three outcomes of `run()`. `StartRun` is everything up to the
await in `startRun`, with `prepareRun` reduced to whether it returns an error;
`Continue` everything after it, including the start of the next queued run.
`Abort` is the signal of a call, which may fire before the call is made. The
runner of a call is the result side of `RunContract`: live, then done, with the
child possibly alive a little longer.

### Background (`background.ts`)

The variable `log` holds, per branch, the ledger entries and the messages
(results, progress reports) in their order; logs and receipts survive `Crash`, the
manager's memory does not. `Delegate` is the delegate tool's background path, from
the slot check over `RunBackground` to `Register`, which nothing separates.
`MaybeEmitProgress` is the runner's throttle with `OnProgress` and `Enqueue`
behind it; the gaps it demands may be over at any time.
`Reconcile` is `reconcile()` together with the sends it leads to (its appends
are synchronous, its messages go through the delivery tail in order). A failed
write loses the entry, a failed message does not mark the run delivered.
`Leaves(b)` are the branches the host may hand over: as it was, or forked from a
prefix of another one. A child may survive its process (`survivor`), be found
dead (`stale`) and be settled by the orphan recovery of any process. What
the ledger lists is described rather than computed: `InOrder` is the order in
which the branch created some runs, `SendAll` sends messages of which any may
fail, the others in their order.

### AskChannel (`ask.ts`, `runner.ts:644-663`, `background.ts:575-674`)

The child's side is `execute`: `AsksInvalid`, `FilesNote`, `AsksQuestion`, then
the loop of `Poll` (read the file) and `AfterMiss` (look at the deadline), with
`DeadlinePasses` free to come between the two. The parent's side consumes the
pipe record by record (`OnRecord`) and calls the manager. Tool calls of one
child run in parallel, so several questions of a run may block while only the
latest is pending. `Answer(c)` is made by someone who read question `c` but
names only the run: `answer[x] = c` records which question the text was for.

### StrictMode (`mode.ts`, `index.ts:1680-1766`)

`log` holds the mode entries per branch. `Hydrate` is `hydrateFromSession`: the
branch is replayed (`Replayed`) or cannot be, and the runtime stays as it is
(`NotReplayed`); in a strict session `Repair` hides what is active and not
remembered yet, if it can be listed.
`/delegate on` is one step when the parent is idle, and two when it is not
(`EnableStrictWaits`, then `EnableStrictResumes` or `EnableStrictGivesUp`):
navigation, other commands and turns may come in between. `getBranch`,
`getActiveTools`, `setActiveTools` and `appendEntry` may fail, `MaxFaults` times
in all, each in every handler that catches it. Four history variables speak for
the properties: `opened` (whether the branch that is open was replayed),
`userTools` (what the user has outside strict mode), `unlisted` (what was active
when the host could not list it) and `strayed` (the mode was left by navigation,
or enabled while it was on); `opened` also says that there is a session, and
`userTools` what the host activates when one starts.

### RunStore (`run-store.ts`)

The other processes matter here, so `updateRunMetadata` is two steps, `Reads` and
`Write` (`Mark` and `Settle` in orphan recovery), between which anybody may act;
`seen` and `patch` are its local variables. `order` stands for the times of the
last writes, by which `listRuns` sorts. `Start` is the loading of the extension
with the list that `markOrphanedRuns` works off (`Probe`, the decision table),
`Retain` and `Unlink` are `enforceRetention`; `Filter` is `Array.filter` as a
recursive function, so that it can be reasoned about. `pid` is what the operating system
has under the child's number: nothing yet, the child, nobody any more, or another
process. `Open`, `Spawn`, `Accepted`, `Finish` are the writes that `Runner` makes.
Four history variables are for the properties: `early` (recovery looked at the
receipt while it named no pid or was not there), `held` (a success that must stay),
`settled` (recovery wrote the receipt), `due` (orphans a start has listed).

### Config (`config.ts`, `application.ts:149-250, 411-435`)

`Normal` is `normalizeConfig` with `applyKnownField`, `Overlay` and `Overlaid`
are `applyProjectOverlay`, `Resolved` is `resolveRunTimeouts`. Three numbers, one
choice and one nested block stand for the settings; `DelegateConfig` is the set of
settings a process may hold, `File` the set of files, where a key may be absent or
useless (`Given`). Which object a nested block
is belongs to the state: `Shared` means the one inside
`DEFAULT_DELEGATE_CONFIG`, which a process has after a missing or broken file,
and which every overlay writes into. Files are edited by hand (`WriteUser`,
`WriteProject`), by commands and the dashboard (`PatchConfig` and its siblings);
`Look` draws the dashboard of a project, `Prepare` prepares a run.

### Stream (`rpc-jsonl.ts`, `runner.ts`, `transcript-feed.ts`)

The child's bytes are in `pipe`, a record being two tagged bytes and one of three
line ends. `Feed` is the loop of `feed`, which takes byte after byte (`Take`): an LF
ends a record, any other byte is kept. `Data(n)` is `onStdout` with a piece of any
length `n`: `Feed`, the transcript, the failure flags, then the records, each telling
the live feed. `Whole` says which record of the child's a line is, `Story` what a
list of lines tells. `Feed`, `Flat` (one sequence after the other) and `PushAll` (the
ring) are recursive functions, for the proofs.
`Exit` is `finalizeOnExit` with the parser's `close`; it may come before the last
output. What a record does to the run is `Runner`'s business, so `Ends` leaves it
open. `Peek(bytes)` is `feedEventsFromTranscript` on a tail of any size. `Start(k)`
is the place of a line in the file, where every record has an envelope around it
(one byte more) and an LF behind it. `TailLines` are the lines that are read back:
pieces without text go first, and then the first line that is left is dropped,
though it may be whole.

## 3. What is checked

| Run | Specification | Question | Distinct states |
|---|---|---|---|
| `runner` | `Spec` | safety of one run | 2,797,687 |
| `runner_live` | `FairSpec` | the run ends, the child is reaped, `RunContract` is implemented | 95,786 |
| `queue` | `FairSpec` | safety and answers of the foreground queue | 170,875 |
| `background` | `Spec` | delivery of results and reports | 1,890,734 |
| `ask` | `Spec` | safety of questions and answers | 1,721,870 |
| `ask_live` | `FairSpec` | a blocked child comes back | 98,576 |
| `strict_mode` | `Spec` | gate and tools | 2,064,178 |
| `store` | `Spec` | receipts under several processes | 1,554,569 |
| `config` | `Spec` | settings of processes, projects and runs | 540,787 |
| `stream` | `Spec` | transcript and feeds | 280,362 |
| `queue_stall`, `config_base` | | disagreements, section 6 | |

Symmetry (of runs, branches, calls, processes, tools the gate does not know) is
used in the runs of safety properties only. What section 5 proves for all
instances need not be run on one: type invariants and some properties are proved
only. Each run takes two minutes at most on two workers:

    tlc -workers 2 -config MCRunner.cfg MCRunner
    tlapm RunnerProofs.tla

**runner.** `ReceiptAgrees`: after the end, nothing that is still read moves the
receipt, except after a rejected prompt. `WatchdogMatches`: between chunks the
watchdog has the budget of what is open. `SuccessEarned`: success needs a valid
hand-off or a text the code accepts. `CancelWins`: with no enforcement prompt
out, a cancelled run ends as its first cancellation says. `SignalsJustified`:
no signal before the end or the end of the negotiation. `NeverStranded`: a live
run has a timer armed that leads to its end. Instance: one tool, one question,
four kinds of messages, two enforcement prompts, one steer, three records; a
chunk may hold all three.

**runner_live.** `Finishes`, `ChildReaped`, `RunnerRefinement` (safety and
fairness of the contract), with one question, two kinds of messages, one
enforcement prompt and two records.

**queue.** Four calls (the slot, a queue of two, one refused), one of them
rejected by `prepareRun`, one whose signal may fire before it is made.
`NoIdleSlot` (the slot is not left free while calls wait) and
`FirstComeFirstServed` (calls start in the order they were made) hold as long as
no rejected call was made (`AllValid`), and `AnsweredInTheEnd` with that
exception and the one of calls made with an aborted signal. Both exceptions are
defects, section 6.

**background.** Two runs for one slot with one progress report each, three branches,
four moves (starts, navigations, shutdowns, crashes) and one failed write, of any
kind of entry or message. Of a run that was never buffered for a tree switch,
`ResultIsLast`: nothing follows its result on a branch, no second result and no
progress report, and `ReportedToOwner`: the result is on a branch that created the
run, after its finished entry; not so if the created entry could not be written
(`Unrecorded`), as no branch owns the run then, or if the finished entry could not.
`NothingLost`: when the session is open on a branch that owns an ended run, the run
was reported, unless its last message failed or its receipt was settled by another
process since. `SilentWhilePaused`: results and reports go to the branch the session
is on, and not during a switch. `TypeOK` includes the slot limit.

**ask, ask_live.** Three parallel calls of one run (two live), a budget of two
questions (one), one note, two moves. `LatestStaysPending`, `PendingIsOpen`,
`SuspendedWhileBlocked`, `FirstAnswerStands`; `NeverWedged` and `AnswerHeard`.
`TypeOK` includes the budget.

**strict_mode.** Four tools of which two are the strict set, two branches with
and without earlier entries (one malformed), three commands, three moves, two
failures of the host, of any of the four calls. `GateFollowsBranch`: while the
branch says strict, nothing but the delegate tools may run, if the branch could be
replayed when it was opened, or an entry was written there since.
`ToolsAreBack`: outside strict mode the user has all tools back that the host
could list, and all tools while no call failed, unless the mode was left by
navigation or entered twice. What the code does in the excepted cases is in
section 6.

**store.** Two processes, two starts, two runs of which one may grow too old;
`maxRuns` is one and the list of recovery holds two. Owners end their runs
`succeeded` or `failed`. `OutcomeKept`: a success that was written while the child
lived is not overwritten, whatever another process's recovery was in the middle of.
`LiveChildSpared`: what recovery settled has no living child, unless it was `early`.
`ActiveKept`: a run that goes on keeps its receipt. `OrphansSettled`: when a start
is done, the orphans it listed are settled. `NewestKept`: two retentions at once
leave `maxRuns` receipts. Their exceptions (a recovery that looked at a receipt
without a pid, or that retention had just removed; a recovery that rewrote one
between two retentions) are in section 6. `TypeOK` adds that every receipt is listed
once.

**config.** Two processes, one project, four user files and five project files
(missing, broken, out of range, useless values, unknown keys), two edits of any
sort, typed numbers below, inside and above the limits, any number of starts,
stops, looks and runs. `WatchdogsInsideHard` (with the types): whatever is in the
files, the watchdogs of a run fire before its hard timeout. `InStep`: a process
that has seen the last write works with what a restart would find. `SettingsPrivate`:
a process's settings change one at a time and because it wrote them. `RunOfItsProject`:
a run has the values its project sets, and the user's for all else.

**stream.** Three records of seven kinds (among them an empty line, one that is
too large and one that rejects the prompt) with two line ends, cut at every
byte; one malformed record is tolerated; the ring holds two events. `ProtocolFailureEnds`
(with the types): the parser's count is the transcript's, and a failure of what
was read ends the run. `TranscriptFaithful`: the transcript has each record once,
in order and to the byte. `ToldAsRead`: the live feed tells the transcript, and the
ring has its end. `PeekAgrees`: what is read back is what was told, and a shorter
tail loses only the beginning: what it gives are lines it has whole, and of those
all but perhaps the first.

### Bounds, and why they are enough

Every bound is a constant used in a guard. Two of a thing suffice where the code
treats all alike and only compares identities (runs, branches' entries,
questions); a third branch is there because a fork, its origin and an unrelated
leaf differ, a third call because a superseded, a current and an over-budget
question differ. The queue needs the slot, a full queue and one call more. The
runner's records are bounded by what tells the phases apart: a message, a
settle and one that comes too late. The second enforcement prompt and the second
failure are there to separate "first" from "every". In the store the second
process is the one that recovers or retains while the first writes; with two
starts one of them may also crash and come back. Three records with a threshold
of one allow a tolerated record, a fatal one, and one on either side of it; a
ring of two is full and overflows. What the proofs of section 5
cover does not depend on the bounds.

Deadlock is checked in `config` only, where processes may always start and look;
elsewhere runs, calls and sessions come to an end, and the bounded counters are
used up.

### Fairness

- `Runner`: Node runs due timers and delivers the exit and error events, the
  loop over the records of a chunk ends, `run()` reaches its spawn, SIGKILL
  kills. The inactivity timer is left out, since activity re-arms it for ever;
  the child gets no fairness at all.
- `DelegateQueue`: a live runner finishes (that is `Finishes` of `Runner`), the
  await continues, the reaper works. Nobody owes a call, an abort or a cancel.
- `AskChannel`: the child's event loop turns and its clock runs
  (`Poll`, `AfterMiss`, `DeadlinePasses`); the parent owes nothing.

## 4. Each property can fail

For every property of every passing run a variant of a definition, written as a
plausible bug, stands next to it in the module (`... == ` preceded by a comment
"Mutant"), and TLC finds the property violated when the variant is used.

## 5. What is proved

All for every value of the constants. Assumptions are the named `ASSUME`s of the
modules: bounds and limits are naturals (at least one slot, one receipt kept, one
receipt listed), special values are not members of the
sets they are added to, questions are tools, rejected and early aborted calls are
calls, the strict tools are tools, old logs are sequences of entries, runs are
finitely many, the defaults and every file are what `DelegateConfig` and `File` say, and
the smallest timeout is within each limit. TLC evaluates them in every run.

**RunnerProofs.** `Invariance` proves the inductive invariant `IInv`. None of
its main parts is inductive alone: `NeverStranded` needs to know which phase
each timer serves (`TimersInPhase`) and that nothing is armed before the spawn
(`NotStarted`); `WatchdogMatches`, which speaks of the time between chunks,
needs `WatchdogArmed`, which speaks of all times. From it follow `TypeCorrect`,
`NoRunStranded`, `NoChildLeftBehind`, `CancellationWins`,
`SignalsOnlyWhenJustified`, `OnlyTimeoutsNegotiate`, `WatchdogCorrect` and the
action property `OutcomeNeverReplaced`. `ContractKept` is the safety part of the
refinement: initial states of the runner are initial states of `RunContract`,
every step is a step of it or a stutter.

What the outcome rests on is a fact about stdin and the pipe: `OneTurn`. Of the
demands for a turn that are not yet read, the turn the child works on and the
settled record it wrote there is at most one, since the runner demands the next turn
only when it has read the last settled record. `LastWords` and `AbortRead` say the
same of what an abort leaves behind. Hence nothing that could demand a turn or end
the run a second time follows the record that ends it (`ChunkOver`), except after a
rejected prompt (`RejectionFails`), and an enforcement follows a settled record
(`EnforcedAfterSettle`). `OInv` puts these together; it is inductive beside `IInv`
(`OutcomeInvariance`). Proved: `ReceiptKept`, `SuccessIsEarned`; with them every
safety property of the runner.

**DelegateQueueProofs.** The invariant adds `QueueCounted` (slot and queue hold
different calls that were made, which `FanOutFits` rests on), `Traceless` (a call
without a runner left no trace) and `SlotHeld` (the slot's run owes its answer).
Proved: `TypeCorrect`, `OneRunAtATime`, `QueueIsSound`, `NoChildForRefusedCalls`,
`FanOutIsServed`, `AnswersFinal`, `SlotHandedOn`.

`FirstComeServedFirst` rests on the order of the sequence `made`: every call is
in it once (`MadeOnce`), and of two calls in the queue the one in front was made
first (`InOrder`).

**AskChannelProofs.** The properties relate the child's calls to what the parent
has read of them, so the invariant is about the pipe between the two. `PipeOrdered`:
the records of a call are in it once, its start before its end. `Written`: what
stage a call is in tells which of its records are written. `OpenIsRead`: an open
question is one whose start was read and whose end was not. `PendingIsRead` and
`StaleIsLapsed` place the manager's pending question; `BudgetKept` counts the
questions that ever blocked. Proved: `TypeCorrect`, `LatestCanBeAnswered`,
`PendingQuestionsAreOpen`, `WatchdogsSuspended` and the action property
`AnswersStand`: all safety properties of the channel.

**StrictModeProofs.** `Facts` adds four parts to the properties. `ModeFollowsBranch`:
the mode itself, not only what the gate decides, follows the branch that was read.
`OwnTools`: the user has a tool outside the strict set, so that an unhidden list is
never taken for the strict one and a repair that can list it remembers it. `MissingIsUnlisted`
and `ListedUnlessFailed` are the two halves of `ToolsAreBack`: what is missing was
not listed, and what was not listed is there because a call failed. Two lemmas about
replay carry the commands: an appended `on` enables, an appended `off` disables,
whatever the log was; `RepairFacts` carries the three places where drift is repaired.
Proved: `TypeCorrect`, `GateHolds`, `ModeIsFlagged`, `ToolsRemembered`, `ToolsGivenBack`.

**BackgroundProofs.** The three properties about reports are not inductive, even
together. They need that the manager's memory agrees with the receipts (`MemoryOK`:
what is live is live in both, and delivered or snapshot runs are settled), that
everything written or waiting is about a run that was opened, results about one that
has ended (`EntriesBacked`, `PendingBacked`), that a log creates a run once and
finishes it later (`LedgerOK`), that what the manager believes to own is created on
the branch it is on (`OwnedOK`) and a live run there will be reported (`AdoptedOK`),
and that a delivered result is on some branch (`DeliveredOK`). The lemmas of the
ledger say what a beginning of a log, which is what a fork takes over, keeps
(`BeginningKeeps`), and what it takes to append entries (`LastCat`, `OwnerCat`,
`CreatedCat`, `FinishedCat`). `WriteKeeps` carries all writes of all actions.
Proved: `SlotsRespected`, `ResultStaysLast`, `ReportedOnlyToOwner`, `NothingIsLost`
and the action property `SilentUnlessOpen`: every property of the run, for any
number of runs, branches, reports, moves and failed writes.

**RunStoreProofs.** `FilterPicks`: `Filter(s, S)` has the members of `s` that are in
`S`, in their order and as often. The induction is over numbers: a set of naturals
that is not empty has a least element, because `<` is well-founded, so what holds at
0 and is passed on holds up to any length (`InductionUpTo`).

The store has no locks, so the invariant says at every place
where a process may stop what the others may still do. `OwnerActs` and `Stages`:
only the process that opened a run writes for it, and where it is in doing so tells
the run's phase. `Marked`: a recovery that is about to mark or settle a run probed a
dead child, or the run is `early`; since a dead child stays dead, its decision is
not stale when it writes, whatever came between (`SettledDead`). `HeldSafe`: nobody
is between read and write of a success that counts. `TerminalEnded` and
`ActiveKept`: retention, which works off a list, has only ended or settled runs on it.
`DueHandled`: an orphan is settled, gone, or still on the list of the start that
found it. Three lemmas carry the actions: `OwnerReads` (an owner's read),
`Elsewhere` (what others do to a run's receipt) and `WorldKeeps` (what the operating
system does). `NewestKept` speaks of a step and of `MaxRuns` receipts, and rests on
a second invariant, `Spared`, of the time while no recovery interferes: without what
is on the lists of all retentions, `MaxRuns` receipts are left (`RoomLeft`), and
each terminal receipt on a list has `MaxRuns` newer ones that are on none
(`NewerLeft`). The second alone does not do: a receipt that its owner rewrites late
becomes the newest, and is removed all the same. Proved: `TypeCorrect`,
`SuccessIsKept`, `LivingAreSpared`, `ActiveAreKept`, `OrphansAreSettled`,
`NewestAreKept`: every property of the run.

**ConfigProofs.** The invariant is the properties and one fact about the defaults
(`UnsetIsDefault`: a process is without a stuck-tool timeout only if the defaults
are). `InStep` rests on `WrittenReadBack`: what a process writes is normalised to
what it has in memory, also when keys are left out of the file. `NormalComplete` and
`OverlayIsConfig` say that any file, broken or not, gives settings within the
limits. `ResolvedLimits` is the arithmetic of the watchdogs. Proved: `TypeCorrect`,
`WatchdogsFireFirst`, `MemoryIsTheFile` and the action properties
`SettingsArePrivate`, `RunGetsItsProject`: every property of the run, for any
defaults, limits, files and number of processes.

**StreamProofs.** The properties compare what the parser made of pieces with what the
child wrote in records, two views of the same bytes that no one step relates. The
invariant says where the parser is. `Wires`: a sequence of bytes is the lines of the
child's records from the k-th on, the last one perhaps cut short. `Reading`: the
records before the k-th are in the transcript to the byte, and what the parser holds
back, followed by what it has not read, is `Wires` from there on; what was flushed
at the exit counts as held back, since the rest of its line is still to come. It is kept
byte by byte: any byte but an LF only moves from the pipe to the buffer
(`ReadOther`), an LF is the end of the line the parser is in, and with its one CR
stripped that line is the record (`LineEnds`, `ReadLF`), hence a piece of any length
keeps it (`ReadPiece`). What the child writes extends the lines (`ReadingGrows`), the
exit moves the buffer to the transcript (`ReadExit`). To this `IInv` adds that the
parser's count is the number of malformed lines, that a failure has ended the run,
and that feed and ring are the story of the transcript (`Telling`, with `RingIs`: to
push events one by one is to have the last ones). Recursive functions are unfolded
by `Recursion`: there is one function that takes its first value and each of its
steps, so the definition is that function; `SeqInduction` does induction over
sequences as `InductionUpTo` does over numbers.

`PeekAgrees` speaks of the state alone and follows from `IInv`. A shorter tail leaves
out lines at the beginning only, since lines start one behind the other (`StartOrder`),
and those it leaves out are the ones it cuts or does not reach and the first one it
touches (`TouchedIs`, `TailIs`); to leave out the first parts of a list gives an end of it
(`FlatSuffix`). Replay and live feed tell the same of a line, a hand-off and tools
without a name apart (`ReplayIs`), and so of a transcript (`CommonFlat`).

Proved: `StreamInductive`, `StreamTypes`, `ProtocolFailures`, `TranscriptIsFaithful`,
`ToldIsRead`, `PeekIsAgreed`: every property of the run, for any number of records,
any kinds and line ends of those modelled, any threshold and any ring. The size of a
record is part of the abstraction (a body has two bytes, one that is too large has
four, `MaxRecordBytes` is three) and is the same in the proofs.

Proved without a run of their own: `OutcomeStable`, `PartialOnlyOnTimeout`,
`ReaperArmed`; `OneLiveRun`, `QueueSound`, `AnsweredWithoutChild`, `FanOutFits`,
`AnswerOnce`; `UnsavedModeIsFlagged`, `HiddenToolsRemembered`; the type invariants
of `Runner`, `DelegateQueue`, `StrictMode` and `Config`. (`TypeOK` of `Stream` is part
of `ProtocolFailureEnds`.)

**Only model-checked:** liveness under fairness, which is out of the prover's reach:
`Finishes`, `ChildReaped`, `AnsweredInTheEnd`, `NeverWedged`, `AnswerHeard`, and the
fair part of `RunnerRefinement`, whose safety part is `ContractKept`. Every other
property of a passing run is a theorem.

## 6. Disagreements between the code and what it says

Shown by a run:

- `queue_stall`: an error of `prepareRun` skips the `finally` that starts the
  next queued run (`application.ts:337`); the calls behind it wait until some
  later call happens to run. "every call gets a real result" (`index.ts:463`).
- `config_base`: an overlay is built on a shallow copy of the defaults
  (`config.ts:449-450`). In a process that started without a readable user file,
  drawing the dashboard of a project that sets a nested block changes the settings
  of all later runs; "the base is never mutated" (`config.ts:416`).

Seen while modelling, the behaviour is in the models, without a run of its own:

- A run cancelled while an enforcement prompt is out ends `succeeded` when the
  enforce timer fires before the child is gone (`runner.ts:1006`); "the FIRST
  cancellation wins" (`runner.ts:810`; `README.md:295`).
- After a tree switch, `reconcile` sends the result of a run whose message is
  still buffered, and then the buffer is flushed (`background.ts:457-465`; line 182
  of `.planning/async-background-2026-09-09/SPEC.md`, the plan of the
  background runs, says once).
- A question pending when its run ends can still be answered
  (`background.ts:660`); that plan says it is withdrawn (lines 297-298).
- A branch that cannot be replayed when it is opened keeps the mode of the one
  before: normal mode stays normal on a branch whose entries say strict, and its
  gate is open until a command or another navigation (`index.ts:1688-1696`). The
  comments there and in `mode.ts:95-96` say that the stricter state wins and that
  "a replay failure never un-gates"; nothing looks at the stricter one.
- If that happens at the first start of a session, no branch was ever replayed, and
  the gate, which asks for that as well (`mode.ts:90`), stays open after
  `/delegate on`, while the tools are hidden, the entry is written and the user
  reads "Strict delegation mode is ON" (`mode.ts:255`); "Every failure path degrades
  toward restriction, never permissiveness" (`mode.ts:6`). The next session start
  or navigation closes it.
- When `getActiveTools` fails while strict mode is entered, nothing is remembered
  (`mode.ts:216-220`), and `/delegate off` sets no tools at all, with the message
  "normal tool set restored" (`mode.ts:325`), unless a repair found them
  active in between: `unlisted` in `StrictMode`.
- Leaving strict mode by navigation does not bring the hidden tools back
  (`index.ts:1697`; comment in `mode.ts:104-105`).
- A `response` record in the chunk of the record that ended the run with a
  rejected prompt sets the receipt to `running` again: `updateRunMetadata`
  refuses only a change between two terminal states (`run-store.ts:177-182`).
- A call made with an aborted signal while the slot is taken is never answered
  (`application.ts:306-328`): `Forgotten` in `DelegateQueue`.
- The next run's child may be spawned while the last one's is still being
  reaped (`application.ts:386-401`), where `application.ts:285` says "ONE child
  executes at a time".
- A buffered result is flushed into the branch the switch ended on, whether it
  owns the run or not (`background.ts:463`; `README.md:178-179`).
- A nonterminal receipt whose process is dead is reported only once some process
  start has settled it (`background.ts:535`); R12 of that
  plan asks reconcile to.
- A progress report looks at the generation of its run only, so after a navigation
  it reaches a branch that does not own the run (`background.ts:625-626`); one
  that waited for a switch is sent after the result that `reconcile` sent, and
  says that the run is still working.
- A `created` entry that could not be written is not written again, so the run
  loses its owner at the next reconcile (`background.ts:427-430`).
- R13 of that plan starts a new generation at a tree switch; the code starts one at
  `session_start` and at shutdown only, and a switch re-adopts.
- An answer names a run: one meant for a question that timed out or was
  superseded reaches the question that is pending when it comes. Notes over the
  cap and rejected questions are announced to the parent all the same, since the
  runner calls `onAsk` at the start of the tool call.
- `before_agent_start` repairs the tools to `["delegate"]` (`index.ts:1758`),
  the other places to four tools.
- If the entry of `/delegate on` could not be written, navigation away and back
  ends strict mode; a second `/delegate on` that was waiting takes the strict
  set for the user's tools (`strayed`).
- A run that is opened but not yet spawned has no pid, and every process that
  starts just then marks it crashed (`run-store.ts:338`), under its owner's hands:
  the runs `early` in `RunStore`. A recovery that looks at a receipt which retention
  has just removed finds no pid either; if a late write of its owner brings the
  receipt back before the recovery writes, the run is settled `crashed` though its
  child may live (`run-store.ts:349`; the comment at `run-store.ts:331-334` says "must
  never clobber a run that another live pi process is actively running or
  finalizing"). A stale mark can also bring back a receipt that
  retention removed since, and reorders the receipts for a retention that is
  under way (the exception in `NewestKept`).
- Orphan recovery sees the 50 newest receipts only; an orphan behind them stays
  nonterminal for ever (`run-store.ts:346`).
- Every edit writes the whole file from one process's memory, so an edit another
  process made since is undone (`behind` in `Config`). Keys of the user's file
  that the code does not know are dropped by the next save, where
  `config.ts:114-116` says they are preserved.
- A useless value in a project's file gives the default, not the user's value
  (`config.ts:411-415`), and `patchConfig` with a number for a key that is none
  resets it and reports success. If the user's file breaks after it was loaded, the
  next save replaces it without evidence; the rename that keeps the evidence of a
  broken file may fail, and then the next save overwrites it.
- The `progressReports` and `askParent` of a project never reach its own runs:
  background runs read the live settings (`application.ts:411-414, 435`).
- The live feed names a tool's end without its duration, since the start is
  forgotten before it is looked up (`runner.ts:640-642`, `679-682`); the replay has
  it. The live feed takes the first text block of a message, the replay the
  last; the replay names tools without a name, and knows no hand-off.
- A tail that begins exactly at a line, or on the LF before one, drops that line
  though it is whole (`transcript-feed.ts:183-185`): "drop a partial first line".
- A record larger than the tail that is read back hides the whole feed: the one
  line in it is the one its beginning was cut off (`transcript-feed.ts:185`).

## 7. Not modelled

Texts, layout and the user interface; argument parsing and registration; role
catalogues; hand-off validation beyond valid or not; git checkpoints (bounded, best-effort,
their output is only recorded); durations, which are replaced by "any time", and
their parsing and printing; file permissions; two processes appending to one
session file; two instances of the extension in one process; an `unlink` that
fails. In `RunStore` owners do not end their runs `crashed` (the bound `Ends`),
since such an end cannot be told from a recovery's; the proofs allow it. In `Config` a project's file
is read and replaced in one step. In `StrictMode` the
calls that show something (`setStatus`, `notify`) do not fail, and the user's own
tools are never just the strict ones, which a repair would not remember. In `Stream` the
limit of events that a replay returns is left out, and the bytes have no meaning
beyond the record they belong to.

## 8. Plan

Order of work, most important behaviour first; all but 9 are done.

1. `Runner`, `RunContract`, `RunnerProofs`: one run.
2. `DelegateQueue`, `DelegateQueueProofs`: calls and slot.
3. `Background`, `BackgroundProofs`: delivery.
4. `AskChannel`, `AskChannelProofs`: questions.
5. `StrictMode`, `StrictModeProofs`: the gate.
6. `RunStore`, `RunStoreProofs`: receipts shared by several processes.
7. `Config`, `ConfigProofs`: files, memory, overlay, timeouts.
8. `Stream`, `StreamProofs`: bytes, records, transcript, feeds.
9. Compositions: `DelegateQueue` and `Background` each with `RunContract`
   instantiated per run, so that slot and delivery rest on the contract rather
   than on an abstraction of their own.
