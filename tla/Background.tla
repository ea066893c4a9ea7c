----------------------------- MODULE Background -----------------------------
(***************************************************************************)
(* The BackgroundManager of background.ts: runs that outlive the tool call *)
(* that started them, and the delivery of their results into a session     *)
(* that the user meanwhile navigates, replaces, shuts down or loses.       *)
(*                                                                         *)
(* A branch is one root-to-leaf path of a session file; its log keeps the  *)
(* entries the manager writes or reads there: the ledger's "created" and   *)
(* "finished" entries, and the messages delivered to the model, a run's    *)
(* "progress" reports and its "result".                                    *)
(* Logs and receipts survive a crash, the manager's memory does not.       *)
(* The run itself is Runner's business: here it reports progress while it  *)
(* lives and ends, once, at any moment.                                    *)
(***************************************************************************)
EXTENDS Naturals, Sequences, FiniteSets

CONSTANTS
  Runs,               \* run identifiers
  Branches,           \* branches of the sessions the user works in
  MaxBackgroundRuns,  \* the slot limit of the configuration
  MaxReports,         \* progressReports.maxPerRun, 0 when they are off
  FaultyWrites,       \* the kinds of entries whose write may fail
  MaxMoves,           \* bound: navigations, shutdowns, starts and crashes
  MaxFaults           \* bound: failed writes

ASSUME RunsAssumption == IsFiniteSet(Runs)
ASSUME SlotAssumption == MaxBackgroundRuns \in Nat \ {0}
ASSUME ReportAssumption == MaxReports \in Nat
ASSUME FaultAssumption == FaultyWrites \subseteq {"created", "finished", "progress", "result"}
ASSUME BoundAssumption == MaxMoves \in Nat /\ MaxFaults \in Nat

VARIABLES
  log,          \* per branch, its entries, oldest first
  active,       \* the branch the session is on
  session,      \* "open", "tree" (navigating), "closed", "down" or "off"
  paused,       \* #paused: results are buffered, not sent
  managed,      \* #runs: "none", "live" or "done" (the run settled)
  current,      \* runs whose generation is the manager's
  detached,     \* runs whose detached flag is up
  branchOwned,  \* #branchOwned
  snapshot,     \* runs with a result on #branchSnapshot
  delivered,    \* #delivered
  pendingFlush, \* #pendingFlush: messages that wait for the tree switch
  reports,      \* progressState.reportsSent of the run's runner
  receipt,      \* the run's receipt on disk and the process it names
  missed,       \* history: results not reported since the last reconcile
  buffered,     \* history: runs of which something was once in pendingFlush
  moves, faults \* the bounded counters

memory == <<managed, current, detached, branchOwned, snapshot, delivered, pendingFlush>>
history == <<missed, buffered>>
vars == <<log, active, session, paused, memory, reports, receipt, history, moves, faults>>

Message == [kind : {"progress", "result"}, run : Runs]
Entry == [kind : {"created", "finished"}, run : Runs] \cup Message
Receipts == {"none", "live", "survivor", "stale", "terminal", "purged"}

------------------------------------------------------------------------------
(* The ledger                                                              *)

On(l, kind) == {r \in Runs : \E i \in DOMAIN l : l[i] = [kind |-> kind, run |-> r]}

Created(r) == [kind |-> "created", run |-> r]

\* projectBackgroundRuns: one record per created entry, in the order of the log. (A
\* finished entry without its created entry is skipped.) Here: the runs of S among
\* them in that order, of which there is one.
InOrder(l, S) ==
  {q \in [1..Cardinality(S) -> S] :
     \A i, j \in DOMAIN q : i < j =>
       \E k, m \in DOMAIN l : k < m /\ l[k] = Created(q[i]) /\ l[m] = Created(q[j])}

\* An entry of a kind for each of them.
EntriesFor(kind, q) == [i \in DOMAIN q |-> [kind |-> kind, run |-> q[i]]]

Result(r) == [kind |-> "result", run |-> r]
ResultsIn(q) == {r \in Runs : \E i \in DOMAIN q : q[i] = Result(r)}

LiveRuns == {r \in Runs : managed[r] = "live"}

\* Mutant of SlotFree: the comparison of slotError lets one more in.
SlotFreeOffByOne == Cardinality(LiveRuns) <= MaxBackgroundRuns

\* slotError: a slot is free.
SlotFree == Cardinality(LiveRuns) < MaxBackgroundRuns

\* wasDelivered: in memory, or on the branch as the last reconcile saw it.
WasDelivered(r) == r \in delivered \/ r \in snapshot

\* The writes in S, all of one kind, are lost: only of the kinds that may fail.
MayLose(kind, S) == S = {} \/ kind \in FaultyWrites
Spend(n) == faults + n <= MaxFaults /\ faults' = faults + n

------------------------------------------------------------------------------
(* Runs                                                                    *)

\* runBackground: the run is opened and its child spawned, past the foreground
\* queue.
RunBackground(r) ==
  /\ receipt[r] = "none"
  /\ receipt' = [receipt EXCEPT ![r] = "live"]

\* register: the run is the manager's, and the branch's by its created entry.
Register(r) ==
  /\ managed' = [managed EXCEPT ![r] = "live"]
  /\ current' = current \cup {r}
  /\ branchOwned' = branchOwned \cup {r}
  /\ \E lost \in SUBSET {r} :
       /\ MayLose("created", lost) /\ Spend(Cardinality(lost))
       /\ log' = [log EXCEPT ![active] =
                    IF lost = {} THEN Append(@, [kind |-> "created", run |-> r]) ELSE @]

\* The delegate tool with background: nothing comes between its three calls.
Delegate(r) ==
  /\ session = "open" /\ SlotFree
  /\ RunBackground(r)
  /\ Register(r)
  /\ UNCHANGED <<active, session, paused, detached, snapshot, delivered, pendingFlush,
                 reports, history, moves>>

\* shouldEmitProgress: the gap since the last report and the interval of the
\* heartbeat may be over at any time, the number per run is limited.
ShouldEmitProgress(r) == managed[r] = "live" /\ reports[r] < MaxReports

\* enqueueAskMessage: sent, where it may be lost, or buffered for the tree switch.
Enqueue(message) ==
  \/ /\ paused
     /\ pendingFlush' = Append(pendingFlush, message)
     /\ buffered' = buffered \cup {message.run}
     /\ UNCHANGED <<log, faults>>
  \/ /\ ~paused
     /\ \E lost \in SUBSET {message} :
          /\ MayLose(message.kind, lost) /\ Spend(Cardinality(lost))
          /\ log' = [log EXCEPT ![active] = IF lost = {} THEN Append(@, message) ELSE @]
     /\ UNCHANGED <<pendingFlush, buffered>>

\* onProgress: of the manager's generation; whose branch it is plays no role.
OnProgress(r) ==
  \/ r \in current /\ Enqueue([kind |-> "progress", run |-> r])
  \/ r \notin current /\ UNCHANGED <<log, pendingFlush, buffered, faults>>

\* maybeEmitProgress, at the end of a long tool call or at the heartbeat.
MaybeEmitProgress(r) ==
  /\ ShouldEmitProgress(r)
  /\ reports' = [reports EXCEPT ![r] = @ + 1]
  /\ OnProgress(r)
  /\ UNCHANGED <<active, session, paused, managed, current, detached, branchOwned,
                 snapshot, delivered, receipt, missed, moves>>

\* Mutant of MayDeliver: the branch is not looked at, only the generation.
MayDeliverAnywhere(r) == r \in current /\ ~WasDelivered(r)

\* onTerminal's early returns: the session or the branch is no longer the run's.
MayDeliver(r) ==
  r \in current /\ r \in branchOwned /\ r \notin detached /\ ~WasDelivered(r)

\* onTerminal when the run is not to be reported now: the receipt keeps it.
EndQuietly(r) ==
  /\ ~MayDeliver(r)
  /\ UNCHANGED <<log, delivered, pendingFlush, history, faults>>

\* finalizeAndDeliver: the finished entry, then the result, sent or buffered.
EndAndDeliver(r) ==
  /\ MayDeliver(r)
  /\ \E lost \in SUBSET {"finished", "result"} :
       /\ lost \subseteq FaultyWrites /\ Spend(Cardinality(lost))
       /\ paused => "result" \notin lost
       /\ LET fin == IF "finished" \in lost THEN <<>> ELSE <<[kind |-> "finished", run |-> r]>>
              res == IF paused \/ "result" \in lost THEN <<>> ELSE <<Result(r)>>
          IN  log' = [log EXCEPT ![active] = @ \o fin \o res]
       /\ delivered' = IF paused \/ "result" \in lost THEN delivered ELSE delivered \cup {r}
       /\ missed' = IF "result" \in lost THEN missed \cup {r} ELSE missed
  /\ pendingFlush' = IF paused THEN Append(pendingFlush, Result(r)) ELSE pendingFlush
  /\ buffered' = IF paused THEN buffered \cup {r} ELSE buffered

\* The run settles: its receipt is final before onTerminal is called.
RunEnds(r) ==
  /\ managed[r] = "live"
  /\ managed' = [managed EXCEPT ![r] = "done"]
  /\ receipt' = [receipt EXCEPT ![r] = "terminal"]
  /\ EndQuietly(r) \/ EndAndDeliver(r)
  /\ UNCHANGED <<active, session, paused, current, detached, branchOwned, snapshot,
                 reports, moves>>

------------------------------------------------------------------------------
(* The session                                                             *)

Move == moves < MaxMoves /\ moves' = moves + 1

\* What a branch may hold when a session or a leaf is opened on it: what it held,
\* or, for one not used so far, the beginning of another one it forks from.
Leaves(b) ==
  {log[b]} \cup
  (IF log[b] = <<>> /\ b # active
   THEN UNION {{SubSeq(log[c], 1, n) : n \in 1..Len(log[c])} : c \in Branches}
   ELSE {})

\* Mutant of Undelivered: the message on the branch is not looked for.
UndeliveredByMemory(l) ==
  {r \in On(l, "created") :
     managed[r] # "live" /\ receipt[r] = "terminal" /\ r \notin delivered}

\* Mutant of Undelivered: a run with its finished entry counts as reported.
UndeliveredUnfinished(l) ==
  {r \in On(l, "created") \ On(l, "finished") :
     /\ managed[r] # "live" /\ receipt[r] = "terminal"
     /\ r \notin delivered /\ r \notin On(l, "result")}

\* What reconcile reports on a branch: ended runs the branch owns, not yet
\* delivered. Live runs of this process, runs of a live process (survivor),
\* dead ones whose receipt is not final (stale) and purged ones are left alone.
Undelivered(l) ==
  {r \in On(l, "created") :
     /\ managed[r] # "live"
     /\ receipt[r] = "terminal"
     /\ r \notin delivered /\ r \notin On(l, "result")}

\* The places of what succeeds when a sequence is sent, in their order.
Ascending(places) ==
  {f \in [1..Cardinality(places) -> places] : \A i, j \in DOMAIN f : i < j => f[i] < f[j]}

\* The messages are sent one after the other onto the log l of a branch, except those
\* at "lost", whose sends fail.
SendAll(b, l, msgs, lost) ==
  \E f \in Ascending(DOMAIN msgs \ lost) :
    LET sent == [i \in DOMAIN f |-> msgs[f[i]]]
        told == ResultsIn(sent)
    IN  /\ log' = [log EXCEPT ![b] = l \o sent]
        /\ delivered' = delivered \cup told
        /\ missed' = {r \in Runs : \E i \in lost : msgs[i] = Result(r)} \ told

\* reconcile(branch), then the buffered sends in "flush". Its appends are made
\* while it runs, all the messages are sent when it is over, in order; "kept" are
\* the runs that enter it with the manager's generation, "apart" the detached ones.
Reconcile(b, l, kept, apart, flush) ==
  LET owned  == On(l, "created")
      live   == owned \cap LiveRuns
      report == Undelivered(l)
      due    == report \ On(l, "finished")
  IN  \E lostFin \in SUBSET due : \E fin \in InOrder(l, due \ lostFin), res \in InOrder(l, report) :
        LET msgs == EntriesFor("result", res) \o flush
        IN  \E lostMsg \in SUBSET DOMAIN msgs :
              /\ MayLose("finished", lostFin)
              /\ \A i \in lostMsg : msgs[i].kind \in FaultyWrites
              /\ Spend(Cardinality(lostFin) + Cardinality(lostMsg))
              /\ SendAll(b, l \o EntriesFor("finished", fin), msgs, lostMsg)
              /\ active' = b
              /\ session' = "open"
              /\ paused' = FALSE
              /\ branchOwned' = owned
              /\ snapshot' = On(l, "result")
              /\ current' = kept \cup live
              /\ detached' = apart \ live

\* Mutant of BeforeTree: delivery goes on during the switch.
BeforeTreeUnpaused ==
  /\ session = "open" /\ Move
  /\ session' = "tree"
  /\ UNCHANGED <<log, active, paused, memory, reports, receipt, history, faults>>

\* session_before_tree.
BeforeTree ==
  /\ session = "open" /\ Move
  /\ session' = "tree" /\ paused' = TRUE
  /\ UNCHANGED <<log, active, memory, reports, receipt, history, faults>>

\* session_tree: reconcile on the new leaf, then every buffered send as it is.
AfterTree(b, l) ==
  /\ session = "tree" /\ l \in Leaves(b)
  /\ Reconcile(b, l, current, detached, pendingFlush)
  /\ pendingFlush' = <<>>
  /\ UNCHANGED <<managed, reports, receipt, buffered, moves>>

\* session_shutdown: a new generation; the cancelled runs end later, by RunEnds.
Shutdown ==
  /\ session \in {"open", "tree"} /\ Move
  /\ session' = "closed" /\ paused' = TRUE /\ current' = {}
  /\ UNCHANGED <<log, active, managed, detached, branchOwned, snapshot, delivered,
                 pendingFlush, reports, receipt, history, faults>>

\* session_start, in a new process or after a shutdown in the same one: every
\* run is stale until reconcile adopts it. The buffer is neither sent nor emptied.
Start(b, l) ==
  /\ session \in {"closed", "down"} /\ Move /\ l \in Leaves(b)
  /\ Reconcile(b, l, {}, {r \in Runs : managed[r] # "none"}, <<>>)
  /\ UNCHANGED <<managed, pendingFlush, reports, receipt, buffered>>

------------------------------------------------------------------------------
(* Processes                                                               *)

\* The process dies; a child mostly dies with it, and may survive.
Crash ==
  /\ session # "off" /\ Move
  /\ session' = "off" /\ paused' = FALSE
  /\ managed' = [r \in Runs |-> "none"]
  /\ current' = {} /\ detached' = {} /\ branchOwned' = {} /\ snapshot' = {}
  /\ delivered' = {} /\ pendingFlush' = <<>>
  /\ \E alive \in SUBSET LiveRuns :
       receipt' = [r \in Runs |-> IF r \notin LiveRuns THEN receipt[r]
                                  ELSE IF r \in alive THEN "survivor" ELSE "stale"]
  /\ UNCHANGED <<log, active, reports, history, faults>>

\* markOrphanedRuns: every receipt that is not final and names no live process.
Orphaned == [r \in Runs |-> IF receipt[r] = "stale" THEN "terminal" ELSE receipt[r]]

\* The extension is loaded again, before any session starts.
Restart ==
  /\ session = "off"
  /\ session' = "down" /\ receipt' = Orphaned
  /\ UNCHANGED <<log, active, paused, memory, reports, history, moves, faults>>

\* A child that outlived its process ends; nobody finalizes its receipt.
SurvivorEnds(r) ==
  /\ receipt[r] = "survivor"
  /\ receipt' = [receipt EXCEPT ![r] = "stale"]
  /\ UNCHANGED <<log, active, session, paused, memory, reports, history, moves, faults>>

\* Another process loads the extension on the same run store.
OtherProcessStarts ==
  /\ \E r \in Runs : receipt[r] = "stale"
  /\ receipt' = Orphaned
  /\ missed' = missed \cup {r \in Runs : receipt[r] = "stale"}
  /\ UNCHANGED <<log, active, session, paused, memory, reports, buffered, moves, faults>>

\* enforceRetention, called when any run of any session ends.
Purge(r) ==
  /\ receipt[r] = "terminal"
  /\ receipt' = [receipt EXCEPT ![r] = "purged"]
  /\ UNCHANGED <<log, active, session, paused, memory, reports, history, moves, faults>>

------------------------------------------------------------------------------
Init ==
  /\ log = [b \in Branches |-> <<>>]
  /\ active \in Branches
  /\ session = "down" /\ paused = FALSE
  /\ managed = [r \in Runs |-> "none"]
  /\ current = {} /\ detached = {} /\ branchOwned = {} /\ snapshot = {}
  /\ delivered = {} /\ pendingFlush = <<>>
  /\ receipt = [r \in Runs |-> "none"]
  /\ reports = [r \in Runs |-> 0]
  /\ missed = {} /\ buffered = {}
  /\ moves = 0 /\ faults = 0

Next ==
  \/ \E r \in Runs : Delegate(r) \/ MaybeEmitProgress(r) \/ RunEnds(r) \/ SurvivorEnds(r) \/ Purge(r)
  \/ \E b \in Branches : \E l \in Leaves(b) : AfterTree(b, l) \/ Start(b, l)
  \/ BeforeTree \/ Shutdown \/ Crash \/ Restart \/ OtherProcessStarts

Spec == Init /\ [][Next]_vars

------------------------------------------------------------------------------
(* Properties                                                              *)

Count(l, kind, r) == Cardinality({i \in DOMAIN l : l[i] = [kind |-> kind, run |-> r]})
Messages(l) == Cardinality({i \in DOMAIN l : l[i] \in Message})
Reported(r) == \E b \in Branches : Count(log[b], "result", r) > 0

\* Types, and the slots: register never exceeds the configured limit.
TypeOK ==
  /\ log \in [Branches -> Seq(Entry)]
  /\ active \in Branches
  /\ session \in {"open", "tree", "closed", "down", "off"} /\ paused \in BOOLEAN
  /\ managed \in [Runs -> {"none", "live", "done"}]
  /\ current \subseteq Runs /\ detached \subseteq Runs /\ branchOwned \subseteq Runs
  /\ snapshot \subseteq Runs /\ delivered \subseteq Runs /\ pendingFlush \in Seq(Message)
  /\ receipt \in [Runs -> Receipts]
  /\ reports \in [Runs -> 0..MaxReports]
  /\ missed \subseteq Runs /\ buffered \subseteq Runs
  /\ moves \in 0..MaxMoves /\ faults \in 0..MaxFaults
  /\ Cardinality(LiveRuns) <= MaxBackgroundRuns

\* R10, R12, R23: of a run that was never buffered for a tree switch nothing follows
\* the result on a branch, no second result and no progress report, whatever is
\* navigated, restarted or resent in between.
ResultIsLast ==
  \A b \in Branches : \A i, j \in DOMAIN log[b] :
    (i < j /\ log[b][i].kind = "result" /\ log[b][i].run = log[b][j].run)
      => log[b][i].run \in buffered

\* The created entry of a run could not be written: no branch has it.
Unrecorded(r) == \A b \in Branches : r \notin On(log[b], "created")

\* R11, R13: such a run is reported only on a branch that created it, and after
\* its finished entry there, unless one of these could not be written.
ReportedToOwner ==
  \A b \in Branches : \A i \in DOMAIN log[b] :
    (log[b][i].kind = "result" /\ log[b][i].run \notin buffered /\ ~Unrecorded(log[b][i].run)) =>
      \E j \in 1..(i - 1) :
        /\ log[b][j] = [kind |-> "created", run |-> log[b][i].run]
        /\ faults = 0 => \E k \in (j + 1)..(i - 1) :
                            log[b][k] = [kind |-> "finished", run |-> log[b][i].run]

\* R12: when the session is open on a branch that owns an ended run, the run was
\* reported, except when its last message could not be sent or its receipt was
\* settled by another process since the last reconcile.
NothingLost ==
  session = "open" =>
    \A r \in On(log[active], "created") \ missed :
      receipt[r] = "terminal" => Reported(r)

\* R13, R23: results and progress reports reach only the branch the session is on,
\* never while a tree switch is in flight or after the shutdown.
SilentWhilePaused ==
  [][\A b \in Branches :
       (log[b] # <<>> /\ log'[b] # log[b]
          /\ Messages(log'[b]) > Messages(log[b]))
         => b = active' /\ ~paused' /\ session' = "open"]_vars
=============================================================================
