----------------------------- MODULE StrictMode -----------------------------
(***************************************************************************)
(* Strict delegation mode: mode.ts and the handlers of index.ts that call  *)
(* it. In strict mode a gate lets the parent run the delegate tools only,  *)
(* and the other tools are hidden from it. The mode belongs to a branch of *)
(* the session: every command writes an entry there, and each session or   *)
(* leaf that is opened replays them, if the host can read them.            *)
(*                                                                         *)
(* `/delegate on` awaits the end of a running turn, so what happens there  *)
(* comes in between; everything else is one synchronous step. Tool lists   *)
(* are sets: their order decides only about rewriting the same list.       *)
(***************************************************************************)
EXTENDS Naturals, Sequences

CONSTANTS
  Tools,             \* the tools of the parent session
  StrictActiveTools, \* STRICT_ACTIVE_TOOLS, which STRICT_ALLOWED_TOOLS repeats
  Delegate,          \* the delegate tool
  Branches,          \* branches of the sessions the user works in
  OldLogs,           \* mode entries a branch may hold from earlier sessions
  MaxCommands,       \* bound: commands, awaiting ones included
  MaxMoves,          \* bound: sessions and leaves opened, processes restarted
  MaxFaults          \* bound: failed getBranch, getActiveTools, setActiveTools, appendEntry

Entries == {"on", "off", "malformed"}

ASSUME ToolsAssumption == StrictActiveTools \subseteq Tools /\ Delegate \in StrictActiveTools
ASSUME LogsAssumption == OldLogs \subseteq Seq(Entries)
ASSUME BoundsAssumption == MaxCommands \in Nat /\ MaxMoves \in Nat /\ MaxFaults \in Nat

VARIABLES
  log,                 \* per branch, its mode entries, oldest first
  active,              \* the branch the session is on
  hydrated,            \* ModeRuntime.hydrated: a branch was replayed
  modeEnabled,         \* ModeRuntime.modeEnabled
  persistenceDegraded, \* ModeRuntime.persistenceDegraded
  restoreTools,        \* ModeRuntime.restoreTools
  tools,               \* the host's active tools
  busy,                \* a turn of the parent is running
  waiting,             \* enableStrict calls awaiting the end of the turn
  opened,              \* history: what is known of the branch: no session, unread or read
  userTools,           \* history: the tools active outside strict mode or seen by a repair
  unlisted,            \* history: active tools that were not listed to be remembered
  strayed,             \* history: strict mode was left, or entered again, sideways
  commands, moves, faults \* the bounded counters

runtime == <<hydrated, modeEnabled, persistenceDegraded, restoreTools>>
session == <<log, active>>
history == <<opened, userTools, unlisted, strayed>>
counters == <<commands, moves, faults>>
vars == <<session, runtime, tools, busy, waiting, history, counters>>

------------------------------------------------------------------------------
(* Replay and gate                                                         *)

\* replayModeEntries: the latest valid entry wins.
Replay(l) ==
  \E i \in 1..Len(l) : l[i] = "on" /\ \A j \in (i + 1)..Len(l) : l[j] = "malformed"

modeRuntimeIsStrict == hydrated /\ modeEnabled

\* gateToolCall: what may be executed now.
MayRun(t) == modeRuntimeIsStrict => t \in StrictActiveTools

\* setActiveTools(to), which may throw and leave "from" active.
SetTools(from, to) == {[tools |-> to, failed |-> 0], [tools |-> from, failed |-> 1]}

Spend(n) == faults + n <= MaxFaults /\ faults' = faults + n

\* syncStrictToolSet with getActiveTools before it: the tools it hides are
\* remembered, unless they cannot be listed or are taken for the strict ones:
\* then nothing is done. "restore" is what is remembered so far, "now" what is
\* active, and "failed" counts what failed before.
Repair(restore, now, to, failed) ==
  \/ /\ \E unseen \in {0, 1} : /\ unseen = 1 \/ now = StrictActiveTools
                             /\ Spend(failed + unseen)
     /\ tools' = now /\ restoreTools' = restore
     /\ unlisted' = unlisted \cup (now \ restore)
     /\ UNCHANGED userTools
  \/ /\ now # StrictActiveTools
     /\ restoreTools' = restore \cup now
     /\ userTools' = userTools \cup now /\ unlisted' = unlisted \ now
     /\ \E set \in SetTools(now, to) : tools' = set.tools /\ Spend(failed + set.failed)

------------------------------------------------------------------------------
(* Sessions                                                                *)

Move == moves < MaxMoves /\ moves' = moves + 1

\* applyReplayToRuntime. When the mode is left, the hidden tools are not brought
\* back; a strict session hides the tools that are not hidden.
Replayed(b, now) ==
  /\ opened' = "read" /\ hydrated' = TRUE /\ modeEnabled' = Replay(log[b])
  /\ strayed' = (strayed \/ (modeEnabled /\ ~Replay(log[b])))
  /\ IF Replay(log[b])
     THEN Repair(restoreTools, now, StrictActiveTools, 0)
     ELSE /\ restoreTools' = (IF modeEnabled THEN restoreTools ELSE {})
          /\ tools' = now /\ Spend(0)
          /\ UNCHANGED <<userTools, unlisted>>

\* The branch cannot be read or replayed: the runtime stays as it is.
NotReplayed(now) ==
  /\ opened' = "unread"
  /\ IF modeRuntimeIsStrict
     THEN Repair(restoreTools, now, StrictActiveTools, 1)
     ELSE tools' = now /\ Spend(1) /\ UNCHANGED <<restoreTools, userTools, unlisted>>
  /\ UNCHANGED <<hydrated, modeEnabled, strayed>>

\* hydrateFromSession on a branch, with "now" the host's active tools.
Hydrate(b, now) ==
  /\ active' = b
  /\ Replayed(b, now) \/ NotReplayed(now)
  /\ UNCHANGED <<log, persistenceDegraded>>

\* session_start: a branch of this or another session. The host may have
\* activated its own tools again or kept those that were active.
SessionStart(b) ==
  /\ Move /\ ~busy
  /\ \E now \in {tools, userTools} : Hydrate(b, now)
  /\ UNCHANGED <<busy, waiting, commands>>

\* session_tree, on a leaf of an open session.
SessionTree(b) ==
  /\ opened # "no" /\ Move /\ ~busy
  /\ Hydrate(b, tools)
  /\ UNCHANGED <<busy, waiting, commands>>

\* A branch not used so far forks from an entry of another one.
Fork(b, c) ==
  /\ log[b] = <<>> /\ b # active
  /\ \E n \in 1..Len(log[c]) : log' = [log EXCEPT ![b] = SubSeq(log[c], 1, n)]
  /\ UNCHANGED <<active, runtime, tools, busy, waiting, history, counters>>

\* The process ends; a new one starts with the host's own tools, no runtime.
Restart ==
  /\ Move
  /\ hydrated' = FALSE /\ modeEnabled' = FALSE /\ persistenceDegraded' = FALSE
  /\ restoreTools' = {} /\ tools' = userTools /\ busy' = FALSE /\ waiting' = 0
  /\ opened' = "no" /\ unlisted' = {} /\ strayed' = FALSE
  /\ UNCHANGED <<session, userTools, commands, faults>>

\* Somebody else (the user, another extension) activates a tool.
ToolActivated(t) ==
  /\ t \notin tools
  /\ tools' = tools \cup {t}
  /\ userTools' = IF modeEnabled THEN userTools ELSE userTools \cup {t}
  /\ UNCHANGED <<session, runtime, busy, waiting, opened, unlisted, strayed, counters>>

\* before_agent_start: drift is repaired, to the delegate tool alone.
TurnStarts ==
  /\ opened # "no" /\ ~busy /\ busy' = TRUE
  /\ IF modeRuntimeIsStrict
     THEN Repair(restoreTools, tools, {Delegate}, 0)
     ELSE UNCHANGED <<restoreTools, userTools, unlisted, tools, faults>>
  /\ UNCHANGED <<session, hydrated, modeEnabled, persistenceDegraded, waiting, opened, strayed,
                 commands, moves>>

\* The turn ends by itself or is aborted.
TurnEnds ==
  /\ busy /\ busy' = FALSE
  /\ UNCHANGED <<session, runtime, tools, waiting, history, counters>>

------------------------------------------------------------------------------
(* Commands                                                                *)

Command == opened # "no" /\ commands < MaxCommands /\ commands' = commands + 1

\* persistModeEntry, on the branch that is active now. An entry of a runtime
\* that was hydrated makes up for a replay that failed.
Persist(e, failed) ==
  IF failed = 1 THEN UNCHANGED <<log, opened>>
  ELSE /\ log' = [log EXCEPT ![active] = Append(@, e)]
       /\ opened' = IF hydrated THEN "read" ELSE opened

\* The list that will be restored: nothing when getActiveTools fails.
Baseline(unseen) ==
  IF unseen = 0
  THEN restoreTools' = tools /\ unlisted' = unlisted \ tools
  ELSE restoreTools' = {} /\ unlisted' = unlisted \cup tools

\* enableStrict from its third step on, after the awaits. Whether the mode was
\* enabled meanwhile is not looked at.
Enable ==
  /\ modeEnabled' = TRUE
  /\ strayed' = (strayed \/ modeEnabled)
  /\ \E unseen, unsaved \in {0, 1} : \E set \in SetTools(tools, StrictActiveTools) :
       /\ Spend(unseen + set.failed + unsaved)
       /\ Baseline(unseen) /\ tools' = set.tools /\ Persist("on", unsaved)
       /\ persistenceDegraded' = (persistenceDegraded \/ unsaved = 1)
  /\ UNCHANGED <<active, hydrated>>

\* /delegate on while the parent is idle.
EnableStrict ==
  /\ Command /\ ~modeEnabled /\ ~busy
  /\ Enable
  /\ UNCHANGED <<busy, waiting, userTools, moves>>

\* /delegate on while it is busy: confirmed, the turn aborted, its end awaited.
EnableStrictWaits ==
  /\ Command /\ ~modeEnabled /\ busy
  /\ waiting' = waiting + 1
  /\ UNCHANGED <<session, runtime, tools, busy, history, moves, faults>>

EnableStrictResumes ==
  /\ waiting > 0 /\ ~busy
  /\ waiting' = waiting - 1
  /\ Enable
  /\ UNCHANGED <<busy, userTools, commands, moves>>

\* The parent did not become idle in time: E_PARENT_BUSY.
EnableStrictGivesUp ==
  /\ waiting > 0 /\ busy
  /\ waiting' = waiting - 1
  /\ UNCHANGED <<session, runtime, tools, busy, history, counters>>

\* disableStrict, E_TOOL_RESTORE: the tools could not be brought back.
DisableCannotRestore ==
  /\ \E set \in SetTools(tools, StrictActiveTools) :
       tools' = set.tools /\ Spend(1 + set.failed)
  /\ UNCHANGED <<log, opened, modeEnabled, persistenceDegraded, restoreTools>>

\* Mutant of DisableCannotPersist: the gate opens although nothing was written.
DisableUnpersisted ==
  /\ Spend(1) /\ tools' = restoreTools
  /\ modeEnabled' = FALSE /\ persistenceDegraded' = TRUE
  /\ UNCHANGED <<log, opened, restoreTools>>

\* disableStrict, E_MODE_PERSIST: strict again, with the tools hidden again.
DisableCannotPersist ==
  /\ \E set \in SetTools(restoreTools, StrictActiveTools) :
       tools' = set.tools /\ Spend(1 + set.failed)
  /\ persistenceDegraded' = TRUE
  /\ UNCHANGED <<log, opened, modeEnabled, restoreTools>>

\* Mutant of DisableSucceeds: the remembered tools are dropped before their use.
DisableForgetsTools ==
  /\ tools' = {} /\ Spend(0) /\ Persist("off", 0)
  /\ modeEnabled' = FALSE /\ persistenceDegraded' = FALSE /\ restoreTools' = {}

DisableSucceeds ==
  /\ tools' = restoreTools /\ Spend(0) /\ Persist("off", 0)
  /\ modeEnabled' = FALSE /\ persistenceDegraded' = FALSE /\ restoreTools' = {}

\* /delegate off, at any time.
DisableStrict ==
  /\ Command /\ modeEnabled
  /\ DisableCannotRestore \/ DisableCannotPersist \/ DisableSucceeds
  /\ UNCHANGED <<active, hydrated, busy, waiting, userTools, unlisted, strayed, moves>>

------------------------------------------------------------------------------
\* The parent has the delegate tools and some of its own.
Init ==
  /\ log \in [Branches -> OldLogs] /\ active \in Branches
  /\ hydrated = FALSE /\ modeEnabled = FALSE /\ persistenceDegraded = FALSE
  /\ restoreTools = {}
  /\ userTools \in {S \in SUBSET Tools : StrictActiveTools \subseteq S /\ S # StrictActiveTools}
  /\ tools = userTools
  /\ busy = FALSE /\ waiting = 0
  /\ opened = "no" /\ unlisted = {} /\ strayed = FALSE
  /\ commands = 0 /\ moves = 0 /\ faults = 0

Next ==
  \/ \E b \in Branches : SessionStart(b) \/ SessionTree(b)
  \/ \E b, c \in Branches : Fork(b, c)
  \/ \E t \in Tools : ToolActivated(t)
  \/ Restart \/ TurnStarts \/ TurnEnds
  \/ EnableStrict \/ EnableStrictWaits \/ EnableStrictResumes \/ EnableStrictGivesUp
  \/ DisableStrict

Spec == Init /\ [][Next]_vars

------------------------------------------------------------------------------
(* Properties                                                              *)

\* Every variable holds a value of its kind.
TypeOK ==
  /\ log \in [Branches -> Seq(Entries)] /\ active \in Branches
  /\ hydrated \in BOOLEAN /\ modeEnabled \in BOOLEAN /\ persistenceDegraded \in BOOLEAN
  /\ restoreTools \subseteq Tools /\ tools \subseteq Tools
  /\ userTools \subseteq Tools /\ unlisted \subseteq Tools
  /\ busy \in BOOLEAN /\ opened \in {"no", "unread", "read"} /\ strayed \in BOOLEAN
  /\ commands \in 0..MaxCommands /\ waiting \in 0..commands
  /\ moves \in 0..MaxMoves /\ faults \in 0..MaxFaults

\* What gateToolCall lets through is the delegate tools alone.
Gated == \A t \in Tools \ StrictActiveTools : ~MayRun(t)

\* POL-003: on a branch whose latest valid entry enables strict mode nothing but
\* the delegate tools may run, whichever tool list or entry the host failed to
\* give, take or write before and whatever was awaited. A branch that could not
\* be replayed when it was opened is the exception, until a command of a runtime
\* that was hydrated earlier writes there: the code keeps the mode it had.
GateFollowsBranch == (opened = "read" /\ Replay(log[active])) => Gated

\* A strict session that reopening its branch would not restore says so, unless
\* the branch could not be replayed.
UnsavedModeIsFlagged ==
  (hydrated /\ modeEnabled) =>
    Replay(log[active]) \/ persistenceDegraded \/ opened = "unread"

\* What strict mode hides it can give back: every tool that was active before, or
\* was found by a repair, is remembered, as long as the mode was neither left by
\* navigation nor entered twice. Tools that could not be listed are forgotten.
HiddenToolsRemembered ==
  (modeEnabled /\ ~strayed) => userTools \subseteq restoreTools \cup unlisted

\* Outside strict mode the user has the tools that were not hidden, with the
\* same exceptions, and all of them while no call of the host failed.
ToolsAreBack ==
  (~modeEnabled /\ ~strayed) =>
    /\ userTools \subseteq tools \cup unlisted
    /\ faults = 0 => userTools \subseteq tools
=============================================================================
