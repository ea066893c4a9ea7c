------------------------------- MODULE Config -------------------------------
(***************************************************************************)
(* The settings of config.ts and application.ts: a file of the user, read  *)
(* once by every pi process that starts and then kept in memory (`live`),  *)
(* and a file per project, read whenever a run is prepared or the          *)
(* dashboard is drawn, and laid over the live settings.                    *)
(*                                                                         *)
(* One nested block stands for two (progressReports, askParent). It        *)
(* matters whether a process has a block of its own or the object inside   *)
(* DEFAULT_DELEGATE_CONFIG itself (Shared): loading a missing or broken    *)
(* file copies the outer object only, and so does an overlay.              *)
(***************************************************************************)
EXTENDS Integers

CONSTANTS
  Procs,         \* pi processes of one user
  Projects,      \* project roots
  Lo,            \* MIN_VALUES of the timeouts, one second for each of them
  Hi,            \* MAX_VALUES, per number
  Default,       \* DEFAULT_DELEGATE_CONFIG when a process starts
  Inputs,        \* bound: the numbers typed into the dashboard, or a command
  UserFiles,     \* bound: what the user writes into the user's file by hand
  ProjectFiles,  \* bound: what somebody writes into a project's file by hand
  MaxEdits,      \* bound: edits, by hand or not
  Missing, Corrupt,            \* no file; one that does not parse
  Absent, Junk, Unset, Shared  \* no such key; a useless value; undefined; see above

Numbers == {"hard", "idle", "stuck"}
Keys == Numbers \cup {"exec", "progress"}
Modes == {"background", "foreground"}

\* DelegateConfigV1, in memory.
DelegateConfig ==
  [hard : Lo..Hi.hard, idle : Lo..Hi.idle, stuck : Lo..Hi.stuck \cup {Unset},
   exec : Modes, progress : BOOLEAN \cup {Shared}]

\* What a file holds: any of the keys, of the right sort or not, and keys that
\* nobody knows.
Given(S) == S \cup {Absent, Junk}
File ==
  [hard : Given(Int), idle : Given(Int), stuck : Given(Int),
   exec : Given(Modes), progress : Given(BOOLEAN), extra : {TRUE, Absent}]
NoFile == {Missing, Corrupt}

ASSUME LimitsAssumption ==
  /\ Lo \in Nat \ {0}
  /\ Hi \in [hard : Nat, idle : Nat, stuck : Nat]
  /\ Lo <= Hi.hard /\ Lo <= Hi.idle /\ Lo <= Hi.stuck
ASSUME DefaultAssumption == Default \in DelegateConfig /\ Default.progress \in BOOLEAN
ASSUME SpecialAssumption ==
  /\ {Absent, Junk, Unset, Shared} \cap (Int \cup Modes \cup BOOLEAN) = {}
  /\ NoFile \cap File = {}
ASSUME InputsAssumption == Inputs \subseteq Nat
ASSUME FilesAssumption == UserFiles \cup ProjectFiles \subseteq File \cup NoFile
ASSUME EditsAssumption == MaxEdits \in Nat

VARIABLES
  user,      \* the user's file
  project,   \* per project, its file
  up,        \* the processes that run
  live,      \* per process, liveConfig
  defaults,  \* per process, the nested block of its DEFAULT_DELEGATE_CONFIG
  run,       \* the run that was prepared last
  edits,     \* the bounded counter
  behind     \* history: processes that have not read the user's last file

files == <<user, project>>
memory == <<up, live, defaults>>
vars == <<files, memory, run, edits, behind>>

NoRun == [source |-> "none"]
Broken(f) == f = Corrupt
Readable(f) == f \notin NoFile

------------------------------------------------------------------------------
(* Pure parts                                                              *)

\* Mutant of Clamp: no upper bound.
ClampBelow(k, v) == IF v < Lo THEN Lo ELSE v

\* Clamping, in applyKnownField, clampConfigField and clampTimeoutMs.
Clamp(k, v) == IF v < Lo THEN Lo ELSE IF v > Hi[k] THEN Hi[k] ELSE v

Accepted(k, v) == IF k \in Numbers THEN Clamp(k, v) ELSE v

\* normalizeConfig: every key that is there, and makes sense, over the defaults.
\* (A null or an empty string counts as the number 0.)
Normal(raw, base) ==
  [k \in Keys |-> IF raw[k] \in {Absent, Junk, Unset} THEN base[k] ELSE Accepted(k, raw[k])]

\* What a process has in its nested block; its settings with that block.
Block(p) == IF live[p].progress = Shared THEN defaults[p] ELSE live[p].progress
Settings(p) == [live[p] EXCEPT !.progress = Block(p)]

\* The defaults, as they are in process p now.
Base(p) == [Default EXCEPT !.progress = defaults[p]]

\* Mutant of Written: a nested block is not written.
WrittenFlat(c) ==
  [k \in Keys \cup {"extra"} |->
     IF k \in {"extra", "progress"} THEN Absent ELSE IF c[k] = Unset THEN Absent ELSE c[k]]

\* What saveConfig writes: JSON has no undefined, and the keys that nobody knows
\* are not among the settings.
Written(c) ==
  [k \in Keys \cup {"extra"} |->
     IF k = "extra" THEN Absent ELSE IF c[k] = Unset THEN Absent ELSE c[k]]

\* Mutant of Overlay: a key that the project does not set has its default.
OverlayBackfilled(base, f) ==
  IF ~Readable(f) THEN base
  ELSE [k \in Keys |-> IF k = "progress" THEN Shared
                       ELSE IF f[k] \in {Absent, Junk} THEN Default[k]
                       ELSE Accepted(k, f[k])]

\* applyProjectOverlay: each key that is there is applied to a copy of the
\* defaults. The copy shares its block with them, and a useless value leaves the
\* default in place.
Overlay(base, f) ==
  IF ~Readable(f) THEN base
  ELSE [k \in Keys |-> IF f[k] = Absent THEN base[k]
                       ELSE IF k = "progress" THEN Shared
                       ELSE IF f[k] = Junk THEN Default[k]
                       ELSE Accepted(k, f[k])]

\* ... and what that writes into the shared block.
Overlaid(block, f) == IF Readable(f) /\ f.progress \in BOOLEAN THEN f.progress ELSE block

Least(a, b) == IF a < b THEN a ELSE b

\* Mutant of IdleLimit: half of the hard timeout, but of the configured one.
IdleLimitConfigured(c, hard) == Least(c.idle, c.hard \div 2)

\* The inactivity watchdog: at most half of the hard timeout, but a second.
IdleLimit(c, hard) == Least(c.idle, IF hard \div 2 < Lo THEN Lo ELSE hard \div 2)

StuckLimit(c, hard) == IF c.stuck = Unset THEN hard ELSE Least(c.stuck, hard)

\* resolveRunTimeouts, for a run of project j that asks for a timeout, or does not
\* (Unset). A value is the project's when it differs from the user's.
Resolved(p, j, c, asked) ==
  LET hard == IF asked = Unset THEN c.hard ELSE Clamp("hard", asked)
  IN  [by |-> p, of |-> j, asked |-> asked,
       hard |-> hard, idle |-> IdleLimit(c, hard), stuck |-> StuckLimit(c, hard),
       source |-> IF asked # Unset THEN "per-run"
                  ELSE IF c.hard # live[p].hard THEN "project" ELSE "user"]

------------------------------------------------------------------------------
(* A process starts: loadConfig                                            *)

\* A broken file is moved away, if that can be done, and the defaults are used.
Recover(p) ==
  /\ Broken(user)
  /\ live' = [live EXCEPT ![p] = [Default EXCEPT !.progress = Shared]]
  /\ user' \in {Missing, user}

Load(p) ==
  /\ ~Broken(user)
  /\ live' = [live EXCEPT ![p] = IF user = Missing THEN [Default EXCEPT !.progress = Shared]
                                 ELSE Normal(user, Default)]
  /\ UNCHANGED user

Start(p) ==
  /\ p \notin up
  /\ up' = up \cup {p}
  /\ defaults' = [defaults EXCEPT ![p] = Default.progress]
  /\ Load(p) \/ Recover(p)
  /\ behind' = behind \ {p}
  /\ UNCHANGED <<project, run, edits>>

Stop(p) ==
  /\ p \in up
  /\ up' = up \ {p}
  /\ live' = [live EXCEPT ![p] = Default]
  /\ defaults' = [defaults EXCEPT ![p] = Default.progress]
  /\ UNCHANGED <<files, run, edits, behind>>

------------------------------------------------------------------------------
(* Edits                                                                   *)

\* The common part of patchConfig and its siblings: the live settings with one
\* more, normalized, are the new file and the new live settings.
Save(p, raw) ==
  /\ p \in up /\ edits < MaxEdits
  /\ LET c == Normal(raw, Base(p))
     IN  /\ live' = [live EXCEPT ![p] = c]
         /\ user' = Written(c)
  /\ edits' = edits + 1
  /\ behind' = up \ {p}
  /\ UNCHANGED <<project, up, defaults, run>>

\* Mutant of PatchConfig: the defaults with the new value, not the live settings.
PatchConfigAlone(p, k, v) == Save(p, [Base(p) EXCEPT ![k] = v])

PatchConfig(p, k, v) == Save(p, [Settings(p) EXCEPT ![k] = v])

\* patchConfig does not look whether the setting is a number: a number for
\* one that is not resets it.
PatchOther(p, k) == Save(p, [Settings(p) EXCEPT ![k] = Junk])

PatchExecution(p, mode) == Save(p, [Settings(p) EXCEPT !.exec = mode])

PatchProgress(p, on) == Save(p, [Settings(p) EXCEPT !.progress = on])

\* saveProjectConfig: only the given key changes.
Merged(f, k, v) ==
  IF Readable(f) THEN [f EXCEPT ![k] = Clamp(k, v)]
  ELSE [n \in Keys \cup {"extra"} |-> IF n = k THEN Clamp(k, v) ELSE Absent]

\* patchProjectConfig. A broken file is moved away first, if that can be done, and
\* the new one has nothing of it. (Reading and replacing it are one step here: two
\* processes would have to be in this code in the same millisecond.)
PatchProject(p, j, k, v) ==
  /\ p \in up /\ edits < MaxEdits
  /\ project' = [project EXCEPT ![j] = Merged(@, k, v)]
  /\ edits' = edits + 1
  /\ UNCHANGED <<user, memory, run, behind>>

\* By hand, with an editor: pi notices nothing.
WriteUser(f) ==
  /\ edits < MaxEdits /\ f # user
  /\ user' = f
  /\ edits' = edits + 1
  /\ behind' = up
  /\ UNCHANGED <<project, memory, run>>

WriteProject(j, f) ==
  /\ edits < MaxEdits /\ f # project[j]
  /\ project' = [project EXCEPT ![j] = f]
  /\ edits' = edits + 1
  /\ UNCHANGED <<user, memory, run, behind>>

------------------------------------------------------------------------------
(* Uses                                                                    *)

\* getStatus with a project root: the dashboard, every second, and the status
\* command.
Look(p, j) ==
  /\ p \in up
  /\ defaults' = [defaults EXCEPT ![p] = Overlaid(@, project[j])]
  /\ UNCHANGED <<files, up, live, run, edits, behind>>

\* prepareRun: the project's file over the live settings, then the timeouts.
Prepare(p, j, asked) ==
  /\ p \in up
  /\ run' = Resolved(p, j, Overlay(live[p], project[j]), asked)
  /\ defaults' = [defaults EXCEPT ![p] = Overlaid(@, project[j])]
  /\ UNCHANGED <<files, up, live, edits, behind>>

------------------------------------------------------------------------------
Init ==
  /\ user \in UserFiles
  /\ project \in [Projects -> ProjectFiles]
  /\ up = {}
  /\ live = [p \in Procs |-> Default]
  /\ defaults = [p \in Procs |-> Default.progress]
  /\ run = NoRun
  /\ edits = 0
  /\ behind = {}

UserEdit(p) ==
  \/ \E k \in Numbers, v \in Inputs : PatchConfig(p, k, v)
  \/ \E k \in Keys \ Numbers : PatchOther(p, k)
  \/ \E mode \in Modes : PatchExecution(p, mode)
  \/ \E on \in BOOLEAN : PatchProgress(p, on)

Process(p) ==
  \/ Start(p) \/ Stop(p) \/ UserEdit(p)
  \/ \E j \in Projects :
       \/ Look(p, j)
       \/ \E asked \in Inputs \cup {Unset} : Prepare(p, j, asked)
       \/ \E k \in Numbers, v \in Inputs : PatchProject(p, j, k, v)

ByHand ==
  \/ \E f \in UserFiles : WriteUser(f)
  \/ \E j \in Projects, f \in ProjectFiles : WriteProject(j, f)

Next == ByHand \/ \E p \in Procs : Process(p)

Spec == Init /\ [][Next]_vars

------------------------------------------------------------------------------
(* Properties                                                              *)

\* Whatever is in the files, every setting in memory is one the code allows.
TypeOK ==
  /\ user \in File \cup NoFile /\ project \in [Projects -> File \cup NoFile]
  /\ up \subseteq Procs /\ behind \subseteq Procs /\ edits \in 0..MaxEdits
  /\ live \in [Procs -> DelegateConfig] /\ defaults \in [Procs -> BOOLEAN]

\* And so are the timeouts of a run, wherever each of them comes from: the
\* watchdogs fire before the hard timeout does (config.ts:295-298), and no timeout
\* is shorter than a second.
WatchdogsInsideHard ==
  /\ TypeOK
  /\ run # NoRun =>
    /\ run.hard \in Lo..Hi["hard"]
    /\ run.stuck \in Lo..run.hard
    /\ run.idle \in Lo..run.hard
    /\ run.idle > Lo => 2 * run.idle <= run.hard

\* What the user's file means to a process that starts.
Loaded == IF Readable(user) THEN Normal(user, Default) ELSE Default

\* A process that has read or written the file after everybody else works with
\* what a restart would find there: no edit is lost on the way to the file, none
\* comes back undone. (The nested block is excepted while it is the defaults'.)
InStep ==
  \A p \in up \ behind, k \in Keys :
    \/ Settings(p)[k] = Loaded[k]
    \/ k = "progress" /\ live[p].progress = Shared

\* The settings a process works with change one at a time, and because this very
\* process has written them to the file: other processes, projects, runs and the
\* dashboard do not reach them. (Again with that exception: in a process without
\* a readable user file, looking at a project changes the settings of all.)
SettingsPrivate ==
  [][\A p \in up \cap up', k \in Keys :
       Settings(p)[k]' # Settings(p)[k] =>
         \/ k = "progress" /\ live[p].progress = Shared
         \/ /\ user' = Written(Settings(p)')
            /\ \A l \in Keys \ {k} : Settings(p)[l]' = Settings(p)[l]]_vars

\* Laying a project's file over the live settings leaves them alone: "Returns a
\* NEW config object; the base is never mutated." (config.ts:416).
BaseNeverMutated ==
  [][\A p \in up \cap up' : user' = user => Settings(p)' = Settings(p)]_vars

\* A run of a project that does not set a timeout has the user's, and one of a
\* project that does has the project's, however the user has edited and whatever
\* project was looked at before ("only keys PRESENT in the project file override
\* (no default backfill)", config.ts:402).
RunOfItsProject ==
  [][LET f == project[run.of]'
         mine == live[run.by]'
         From(k) == IF Readable(f) /\ f[k] # Absent THEN f[k] ELSE mine[k]
     IN  run' # run /\ run.asked' = Unset =>
           /\ From("hard") # Junk => run.hard' = Clamp("hard", From("hard"))
           /\ run.source' = "user" => run.hard' = mine.hard
           /\ run.source' = "project" => Readable(f) /\ f.hard # Absent
           /\ From("idle") \in Nat /\ 2 * From("idle") <= run.hard' =>
                run.idle' = Clamp("idle", From("idle"))]_vars
=============================================================================
