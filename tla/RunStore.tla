------------------------------ MODULE RunStore ------------------------------
(***************************************************************************)
(* The run store of run-store.ts: one directory of receipts, written by    *)
(* every pi process of the user. The process that opened a run writes its  *)
(* receipt while the run lasts; any other process may, when it starts,     *)
(* settle receipts that look orphaned, and, when a run of its own ends,    *)
(* remove old ones. Nothing locks: an update is a read and a replacement   *)
(* of the file, and other processes act between the two.                   *)
(*                                                                         *)
(* A process does one thing at a time (`at`), since all of this code is    *)
(* synchronous. What the run itself does is Runner's business.             *)
(***************************************************************************)
EXTENDS Naturals, Sequences, FiniteSets, SequencesExt

CONSTANTS
  Runs,        \* run identifiers
  Procs,       \* pi processes that share the agent directory
  Nobody,      \* the owner of a run that no living process opened
  MaxRuns,     \* maxRuns of the configuration: terminal receipts to keep
  ListLimit,   \* the receipts orphan recovery looks at: listRuns' limit
  Ends,        \* bound: the terminal states in which owners end their runs
  Aging,       \* bound: the runs that may grow older than maxRunAgeDays
  MaxStarts    \* bound: starts of processes

ASSUME RunsAssumption == IsFiniteSet(Runs)
ASSUME NobodyAssumption == Nobody \notin Procs
ASSUME LimitAssumption == MaxRuns \in Nat \ {0} /\ ListLimit \in Nat \ {0}
ASSUME EndsAssumption == Ends \subseteq {"succeeded", "failed", "crashed"}
ASSUME AgingAssumption == Aging \subseteq Runs
ASSUME StartsAssumption == MaxStarts \in Nat

VARIABLES
  receipt,  \* per run, its receipt: the state, and whether it names a pid
  order,    \* the runs that have a receipt, by the time of its last write
  pid,      \* what the operating system has under the child's pid
  owner,    \* the living process that opened the run
  phase,    \* where the owner's DelegateRunner is
  at,       \* per process, what it is in the middle of
  todo,     \* per process, the runs it still has to deal with, in hand first
  seen,     \* per process, whether the receipt it has read, and will merge, names a pid
  patch,    \* per process, what it is about to merge into that receipt
  aged,     \* runs older than maxRunAgeDays
  starts,   \* the bounded counter
  early,    \* history: runs probed while their receipt named no pid, or was gone
  held,     \* history: other runs whose success was written while the child lived
  settled,  \* history: runs a recovery wrote "crashed" for
  due       \* history: per process, orphans its recovery found when it started

disk == <<receipt, order>>
runners == <<pid, owner, phase>>
procs == <<at, todo, seen, patch>>
history == <<early, held, settled, due>>
vars == <<disk, runners, procs, aged, starts, history>>

Terminal == {"succeeded", "failed", "crashed"}
States == {"created", "starting", "running"} \cup Terminal
Receipt == [state : States \cup {"none"}, pid : BOOLEAN]
NoReceipt == [state |-> "none", pid |-> FALSE]

------------------------------------------------------------------------------
(* Receipts                                                                *)

\* Array.prototype.filter, for a test that is membership in a set: SelectSeq as a
\* recursive function of the position, so that theorems about it can be proved.
Filter(s, S) ==
  LET kept[n \in 0 .. Len(s)] ==
        IF n = 0 THEN <<>>
        ELSE IF s[n] \in S THEN Append(kept[n - 1], s[n])
        ELSE kept[n - 1]
  IN  kept[Len(s)]

OnDisk(r) == receipt[r].state # "none"
IsTerminal(r) == receipt[r].state \in Terminal

\* Mutant of Put: the file does not get the name that the listing looks for.
PutUnlisted(r, state, named) ==
  /\ receipt' = [receipt EXCEPT ![r] = [state |-> state, pid |-> named]]
  /\ UNCHANGED order

\* atomicWriteJson: the receipt is replaced, and becomes the newest. A receipt
\* that was removed since it was read comes back.
Put(r, state, named) ==
  /\ receipt' = [receipt EXCEPT ![r] = [state |-> state, pid |-> named]]
  /\ order' = Append(Filter(order, Runs \ {r}), r)

\* Mutant of Refuses: terminal states are not looked at.
RefusesMissing(current, state) == current.state = "none"

\* updateRunMetadata throws: there is no receipt, or it is terminal already and
\* another terminal state is to replace it.
Refuses(current, state) ==
  \/ current.state = "none"
  \/ current.state \in Terminal /\ state \in Terminal /\ state # current.state

\* listRuns: newest first, at most n of them.
Listed(n) == SubSeq(Reverse(order), 1, IF n < Len(order) THEN n ELSE Len(order))

------------------------------------------------------------------------------
(* The owner                                                               *)

\* openRun: the receipt exists, without a pid, before there is a child.
Open(p, r) ==
  /\ at[p] = "idle" /\ phase[r] = "none"
  /\ Put(r, "created", FALSE)
  /\ owner' = [owner EXCEPT ![r] = p]
  /\ phase' = [phase EXCEPT ![r] = "opened"]
  /\ at' = [at EXCEPT ![p] = "spawn"]
  /\ todo' = [todo EXCEPT ![p] = <<r>>]
  /\ UNCHANGED <<pid, seen, patch, aged, starts, history>>

\* What the owner does next: a record after the rejected prompt ("failed") may
\* still come in the same chunk.
AfterUpdate(r, state) == IF state = "failed" /\ pid[r] # "none" THEN "chunk" ELSE "idle"

\* The read half of an owner's updateRunMetadata(state). When it throws, the
\* owner takes no notice.
Reads(p, r, state, named) ==
  LET refused == Refuses(receipt[r], state) IN
  /\ at' = [at EXCEPT ![p] = IF refused THEN AfterUpdate(r, state) ELSE "write"]
  /\ todo' = [todo EXCEPT ![p] = <<r>>]
  /\ IF refused THEN UNCHANGED <<seen, patch>>
     ELSE /\ seen' = [seen EXCEPT ![p] = receipt[r].pid]
          /\ patch' = [patch EXCEPT ![p] = [state |-> state, pid |-> named]]
  /\ UNCHANGED <<disk, owner, aged, starts, history>>

\* run: the child is spawned; a command that is not there gives a child without
\* a pid, whose error event ends the run.
Spawn(p, named) ==
  /\ at[p] = "spawn"
  /\ LET r == Head(todo[p]) IN
       /\ pid' = [pid EXCEPT ![r] = IF named THEN "child" ELSE "none"]
       /\ phase' = [phase EXCEPT ![r] = "live"]
       /\ Reads(p, r, "starting", named)

\* The spawn throws, or the preflight of the research role fails.
SpawnFails(p) ==
  /\ at[p] = "spawn"
  /\ LET r == Head(todo[p]) IN
       /\ phase' = [phase EXCEPT ![r] = "ended"]
       /\ Reads(p, r, "failed", FALSE)
  /\ UNCHANGED pid

\* handleRecord of an accepted prompt.
Accepted(p, r) ==
  /\ at[p] = "idle" /\ owner[r] = p /\ phase[r] = "live"
  /\ Reads(p, r, "running", FALSE)
  /\ UNCHANGED <<pid, phase>>

\* finish: whatever ended the run, and whether or not the child is still there.
Finish(p, r, state) ==
  /\ at[p] = "idle" /\ owner[r] = p /\ phase[r] = "live"
  /\ phase' = [phase EXCEPT ![r] = "ended"]
  /\ Reads(p, r, state, FALSE)
  /\ UNCHANGED pid

\* The local variables of updateRunMetadata go.
LetGo(p) ==
  /\ seen' = [seen EXCEPT ![p] = FALSE]
  /\ patch' = [patch EXCEPT ![p] = NoReceipt]

\* The write half: what was read, with the patch merged in.
Write(p) ==
  /\ at[p] = "write"
  /\ LET r == Head(todo[p]) IN
       /\ Put(r, patch[p].state, seen[p] \/ patch[p].pid)
       /\ held' = IF patch[p].state = "succeeded" /\ pid[r] = "child" /\ r \notin early
                  THEN held \cup {r} ELSE held
       /\ at' = [at EXCEPT ![p] = AfterUpdate(r, patch[p].state)]
  /\ LetGo(p)
  /\ UNCHANGED <<runners, todo, aged, starts, early, settled, due>>

\* handleRecord does not look at `finalizing`: an accepted prompt in the chunk of
\* the rejected one that ended the run.
AcceptedLate(p) ==
  /\ at[p] = "chunk"
  /\ Reads(p, Head(todo[p]), "running", FALSE)
  /\ UNCHANGED <<pid, phase>>

ChunkEnds(p) ==
  /\ at[p] = "chunk"
  /\ at' = [at EXCEPT ![p] = "idle"]
  /\ UNCHANGED <<disk, runners, todo, seen, patch, aged, starts, history>>

\* Mutant of Removable: receipts are taken whatever their state.
RemovableAll == order

\* enforceRetention's candidates, oldest first.
Removable == Filter(order, {r \in Runs : IsTerminal(r)})

\* Mutant of Surplus: one more goes.
SurplusOneMore == IF Len(Removable) >= MaxRuns THEN Len(Removable) - MaxRuns + 1 ELSE 0

Surplus == IF Len(Removable) > MaxRuns THEN Len(Removable) - MaxRuns ELSE 0

\* The runner's promise is resolved: enforceRetention. By age, and the oldest of
\* what is terminal beyond maxRuns.
Retain(p, r) ==
  /\ at[p] = "idle" /\ owner[r] = p /\ phase[r] = "ended"
  /\ phase' = [phase EXCEPT ![r] = "retained"]
  /\ LET old   == Filter(Removable, aged)
         extra == Filter(SubSeq(Removable, 1, Surplus), Runs \ aged)
     IN  /\ todo' = [todo EXCEPT ![p] = old \o extra]
         /\ at' = [at EXCEPT ![p] = IF old \o extra = <<>> THEN "idle" ELSE "unlink"]
  /\ UNCHANGED <<disk, pid, owner, seen, patch, aged, starts, history>>

\* One of them goes, if it is still there.
Unlink(p) ==
  /\ at[p] = "unlink"
  /\ LET r == Head(todo[p]) IN
       /\ receipt' = [receipt EXCEPT ![r] = NoReceipt]
       /\ order' = Filter(order, Runs \ {r})
  /\ todo' = [todo EXCEPT ![p] = Tail(@)]
  /\ at' = [at EXCEPT ![p] = IF Len(todo[p]) = 1 THEN "idle" ELSE "unlink"]
  /\ UNCHANGED <<runners, seen, patch, aged, starts, history>>

------------------------------------------------------------------------------
(* Orphan recovery                                                         *)

\* The pid cannot belong to a delegate any more.
Gone(r) == pid[r] \in {"none", "gone"}

\* The extension is loaded: markOrphanedRuns, over the newest receipts.
Start(p) ==
  /\ at[p] = "down" /\ starts < MaxStarts
  /\ starts' = starts + 1
  /\ LET orphans == Filter(Listed(ListLimit), {r \in Runs : ~IsTerminal(r)})
     IN  /\ todo' = [todo EXCEPT ![p] = orphans]
         /\ at' = [at EXCEPT ![p] = IF orphans = <<>> THEN "idle" ELSE "probe"]
         /\ due' = [due EXCEPT ![p] =
                      {r \in ToSet(orphans) : owner[r] = Nobody /\ Gone(r)}]
  /\ UNCHANGED <<disk, runners, seen, patch, aged, early, held, settled>>

Step(p) ==
  /\ todo' = [todo EXCEPT ![p] = Tail(@)]
  /\ at' = [at EXCEPT ![p] = IF Len(todo[p]) = 1 THEN "idle" ELSE "probe"]

\* Mutant of MaySpare: a receipt without a pid is left alone.
MaySpareUnstarted(r) == receipt[r].pid => pid[r] \in {"child", "taken"}

\* The pid that the receipt names is alive, and a pi process or unreadable.
MaySpare(r) == receipt[r].pid /\ pid[r] \in {"child", "taken"}

\* Mutant of MayMark: nobody asks whether the process is alive.
MayMarkAlways(r) == TRUE

\* The pid that the receipt names is alive, and readably no pi process; or dead;
\* or there is none.
MayMark(r) == ~(receipt[r].pid /\ pid[r] = "child")

\* The decision of markOrphanedRuns. A recycled pid may be any process.
Probe(p) ==
  /\ at[p] = "probe"
  /\ LET r == Head(todo[p]) IN
       /\ \/ MaySpare(r) /\ Step(p)
          \/ MayMark(r) /\ at' = [at EXCEPT ![p] = "mark"] /\ UNCHANGED todo
       /\ early' = IF ~receipt[r].pid THEN early \cup {r} ELSE early
  /\ UNCHANGED <<disk, runners, seen, patch, aged, starts, held, settled, due>>

\* updateRunMetadata(crashed), the read half.
Mark(p) ==
  /\ at[p] = "mark"
  /\ LET r == Head(todo[p]) IN
       \/ /\ Refuses(receipt[r], "crashed")
          /\ Step(p)
          /\ UNCHANGED seen
       \/ /\ ~Refuses(receipt[r], "crashed")
          /\ seen' = [seen EXCEPT ![p] = receipt[r].pid]
          /\ at' = [at EXCEPT ![p] = "settle"] /\ UNCHANGED todo
  /\ UNCHANGED <<disk, runners, patch, aged, starts, history>>

\* The write half.
Settle(p) ==
  /\ at[p] = "settle"
  /\ Put(Head(todo[p]), "crashed", seen[p])
  /\ settled' = settled \cup {Head(todo[p])}
  /\ Step(p) /\ LetGo(p)
  /\ UNCHANGED <<runners, aged, starts, early, held, due>>

------------------------------------------------------------------------------
(* The world                                                               *)

ChildDies(r) ==
  /\ pid[r] = "child"
  /\ pid' = [pid EXCEPT ![r] = "gone"]
  /\ UNCHANGED <<disk, owner, phase, procs, aged, starts, history>>

\* The operating system gives the pid to another process.
Recycled(r) ==
  /\ pid[r] = "gone"
  /\ pid' = [pid EXCEPT ![r] = "taken"]
  /\ due' = [p \in Procs |-> due[p] \ {r}]
  /\ UNCHANGED <<disk, owner, phase, procs, aged, starts, early, held, settled>>

\* Only retention looks at the age, and only of terminal receipts.
Age(r) ==
  /\ r \in Aging \ aged /\ IsTerminal(r)
  /\ aged' = aged \cup {r}
  /\ UNCHANGED <<disk, runners, procs, starts, history>>

\* A process ends in the middle of anything. Its children may live on.
Crash(p) ==
  /\ at[p] # "down"
  /\ at' = [at EXCEPT ![p] = "down"]
  /\ todo' = [todo EXCEPT ![p] = <<>>]
  /\ owner' = [r \in Runs |-> IF owner[r] = p THEN Nobody ELSE owner[r]]
  /\ due' = [due EXCEPT ![p] = {}]
  /\ LetGo(p)
  /\ UNCHANGED <<disk, pid, phase, aged, starts, early, held, settled>>

------------------------------------------------------------------------------
Init ==
  /\ receipt = [r \in Runs |-> NoReceipt]
  /\ order = <<>>
  /\ pid = [r \in Runs |-> "none"]
  /\ owner = [r \in Runs |-> Nobody]
  /\ phase = [r \in Runs |-> "none"]
  /\ at = [p \in Procs |-> "down"]
  /\ todo = [p \in Procs |-> <<>>]
  /\ seen = [p \in Procs |-> FALSE]
  /\ patch = [p \in Procs |-> NoReceipt]
  /\ aged = {}
  /\ starts = 0
  /\ early = {} /\ held = {} /\ settled = {}
  /\ due = [p \in Procs |-> {}]

Owner(p) ==
  \/ \E r \in Runs : Open(p, r) \/ Accepted(p, r) \/ Retain(p, r)
  \/ \E r \in Runs, s \in Ends : Finish(p, r, s)
  \/ \E named \in BOOLEAN : Spawn(p, named)
  \/ SpawnFails(p) \/ Write(p) \/ AcceptedLate(p) \/ ChunkEnds(p) \/ Unlink(p)

Recovery(p) == Start(p) \/ Probe(p) \/ Mark(p) \/ Settle(p)

World ==
  \/ \E p \in Procs : Crash(p)
  \/ \E r \in Runs : ChildDies(r) \/ Recycled(r) \/ Age(r)

Next == World \/ \E p \in Procs : Owner(p) \/ Recovery(p)

Spec == Init /\ [][Next]_vars

------------------------------------------------------------------------------
(* Properties                                                              *)

TypeOK ==
  /\ receipt \in [Runs -> Receipt]
  /\ order \in Seq(Runs)
  /\ pid \in [Runs -> {"none", "child", "gone", "taken"}]
  /\ owner \in [Runs -> Procs \cup {Nobody}]
  /\ phase \in [Runs -> {"none", "opened", "live", "ended", "retained"}]
  /\ at \in [Procs -> {"down", "idle", "spawn", "write", "chunk", "unlink",
                       "probe", "mark", "settle"}]
  /\ todo \in [Procs -> Seq(Runs)]
  /\ seen \in [Procs -> BOOLEAN] /\ patch \in [Procs -> Receipt]
  /\ aged \subseteq Aging /\ starts \in 0..MaxStarts
  /\ early \subseteq Runs /\ held \subseteq Runs /\ settled \subseteq Runs
  /\ due \in [Procs -> SUBSET Runs]
  \* A process in the middle of something has a run in hand, and every receipt is
  \* listed once.
  /\ \A p \in Procs : at[p] \notin {"down", "idle"} => todo[p] # <<>>
  /\ \A r \in Runs : (r \in ToSet(order)) <=> OnDisk(r)
  /\ \A i, j \in DOMAIN order : order[i] = order[j] => i = j

\* A child that lives until its run has succeeded protects the outcome: once it
\* is written, it stays until retention takes it, whatever recovery another
\* process was in the middle of. The exception is a recovery that looked at the
\* receipt before the pid was in it, or when retention had removed it.
OutcomeKept == \A r \in held : receipt[r].state \in {"none", "succeeded"}

\* A receipt that a recovery settled belongs to a run whose child is dead, unless
\* a recovery looked at it before the pid was in it (markOrphanedRuns' table), or
\* after retention had removed it, with a write on its way that brings it back.
LiveChildSpared == \A r \in settled \ early : pid[r] # "child"

\* Retention never takes the receipt of a run that is still going on, unless a
\* recovery has settled that run under its owner's hands.
ActiveKept ==
  \A r \in Runs \ settled : phase[r] \in {"opened", "live"} => OnDisk(r)

\* When a start's recovery is over, every orphan it found whose pid was not in
\* use is settled or gone (and not left to a start that may never come).
OrphansSettled ==
  \A p \in Procs : at[p] = "idle" => \A r \in due[p] : IsTerminal(r) \/ ~OnDisk(r)

\* While no receipt is too old, taking one leaves maxRuns receipts: two processes
\* that enforce retention at once do not take more than one of them would. Not so
\* when a recovery rewrites a receipt in between and so changes the order.
NewestKept ==
  [][\A r \in Runs :
       aged = {} /\ settled = {} /\ OnDisk(r) /\ ~OnDisk(r)' =>
         Cardinality({q \in Runs : OnDisk(q)'}) >= MaxRuns]_vars
=============================================================================
