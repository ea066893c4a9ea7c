---------------------------- MODULE BackgroundProofs ----------------------------
(***************************************************************************)
(* Theorems about Background, for every set of runs and branches and all   *)
(* bounds.                                                                 *)
(***************************************************************************)
EXTENDS Background, Integers, FiniteSetTheorems, TLAPS

Settled == {"terminal", "purged"}

\* The manager's memory agrees with the receipts and with the state of the session.
MemoryOK ==
  /\ paused <=> session \in {"tree", "closed"}
  /\ session \in {"down", "off"} => \A r \in Runs : managed[r] # "live"
  /\ \A r \in Runs : managed[r] = "live" <=> receipt[r] = "live"
  /\ \A r \in Runs : receipt[r] = "none" => managed[r] = "none"
  /\ \A r \in detached : managed[r] # "none"
  /\ \A r \in delivered \cup snapshot : receipt[r] \in Settled

\* What is written about a run, or waits to be, is about a run that was opened, and a
\* result is written when the receipt is final.
Backed(e) == receipt[e.run] # "none" /\ (e.kind = "result" => receipt[e.run] \in Settled)
EntriesBacked == \A b \in Branches : \A i \in DOMAIN log[b] : Backed(log[b][i])
PendingBacked ==
  \A i \in DOMAIN pendingFlush : Backed(pendingFlush[i]) /\ pendingFlush[i].run \in buffered

\* A log has one created entry of a run, and a finished entry comes after it.
CreatedOnce(l) ==
  \A i, j \in DOMAIN l : l[i].kind = "created" /\ l[j] = l[i] => i = j
FinishedAfter(l) ==
  \A i \in DOMAIN l : l[i].kind = "finished" /\ ~Unrecorded(l[i].run) =>
    \E j \in 1 .. (i - 1) : l[j] = [kind |-> "created", run |-> l[i].run]
LedgerOK == \A b \in Branches : CreatedOnce(log[b]) /\ FinishedAfter(log[b])

\* The manager's runs are those of the branch it is on, and a live run of that
\* branch will be reported.
OwnedOK ==
  \A r \in branchOwned :
    receipt[r] # "none" /\ (r \in On(log[active], "created") \/ Unrecorded(r))
AdoptedOK ==
  session = "open" => \A r \in On(log[active], "created") :
    managed[r] = "live" => r \in current /\ r \in branchOwned /\ r \notin detached

\* A result that counts as delivered is on a branch.
DeliveredOK == \A r \in delivered : \E b \in Branches : r \in On(log[b], "result")

IInv == TypeOK /\ MemoryOK /\ EntriesBacked /\ PendingBacked /\ LedgerOK /\ OwnedOK
          /\ AdoptedOK /\ DeliveredOK /\ ResultIsLast /\ ReportedToOwner /\ NothingLost

------------------------------------------------------------------------------
(* The operators of the ledger                                             *)

Kinds == {"created", "finished", "progress", "result"}

LEMMA EntryIs ==
  ASSUME NEW e \in Entry
  PROVE  e.run \in Runs /\ e.kind \in Kinds /\ e = [kind |-> e.kind, run |-> e.run]
BY DEF Entry, Message, Kinds

LEMMA FunctionIsSeq ==
  ASSUME NEW T, NEW n \in Nat, NEW f \in [1 .. n -> T]
  PROVE  f \in Seq(T) /\ Len(f) = n
OBVIOUS

LEMMA SeqIs ==
  ASSUME NEW S, NEW s \in Seq(S)
  PROVE  Len(s) \in Nat /\ DOMAIN s = 1 .. Len(s) /\ \A i \in DOMAIN s : s[i] \in S
OBVIOUS

LEMMA CatOf ==
  ASSUME NEW S, NEW s \in Seq(S), NEW t \in Seq(S)
  PROVE  /\ s \o t \in Seq(S)
         /\ \A i \in DOMAIN s : i \in DOMAIN (s \o t) /\ (s \o t)[i] = s[i]
         /\ \A i \in DOMAIN (s \o t) :
              (i \in DOMAIN s /\ (s \o t)[i] = s[i])
              \/ (i - Len(s) \in DOMAIN t /\ (s \o t)[i] = t[i - Len(s)])
OBVIOUS

\* A function on as many numbers as a set has elements reaches each of them, when it
\* reaches none twice.
LEMMA ReachesAll ==
  ASSUME NEW S, IsFiniteSet(S), NEW q \in [1 .. Cardinality(S) -> S],
         \A i, j \in DOMAIN q : q[i] = q[j] => i = j
  PROVE  Cardinality(S) \in Nat /\ \A x \in S : \E i \in DOMAIN q : q[i] = x
<1>1. Cardinality(S) \in Nat
  BY FS_CardinalityType
<1>2. q \in Injection(1 .. Cardinality(S), S)
  BY DEF Injection, IsInjective
<1>3. Cardinality(1 .. Cardinality(S)) = Cardinality(S)
  BY <1>1, FS_Interval
<1>4. q \in Surjection(1 .. Cardinality(S), S)
  BY <1>2, <1>3, FS_Injection
<1> QED BY <1>1, <1>4 DEF Surjection

\* The runs of S in the order of the log: each of them once.
LEMMA InOrderIs ==
  ASSUME NEW l \in Seq(Entry), CreatedOnce(l), NEW S \in SUBSET Runs, NEW q \in InOrder(l, S)
  PROVE  /\ Cardinality(S) \in Nat /\ q \in [1 .. Cardinality(S) -> S]
         /\ \A i, j \in DOMAIN q : q[i] = q[j] => i = j
         /\ \A r \in S : \E i \in DOMAIN q : q[i] = r
<1>1. IsFiniteSet(S)
  BY RunsAssumption, FS_Subset
<1>2. Cardinality(S) \in Nat /\ q \in [1 .. Cardinality(S) -> S]
  BY <1>1, FS_CardinalityType DEF InOrder
<1>3. ASSUME NEW i \in DOMAIN q, NEW j \in DOMAIN q, i < j, q[i] = q[j] PROVE FALSE
  <2>1. PICK k \in DOMAIN l, m \in DOMAIN l :
          k < m /\ l[k] = Created(q[i]) /\ l[m] = Created(q[j])
    BY <1>3 DEF InOrder
  <2>2. l[m] = l[k] /\ l[k].kind = "created" /\ k # m
    BY <1>3, <2>1 DEF Created
  <2> QED BY <2>2 DEF CreatedOnce
<1>4. \A i, j \in DOMAIN q : q[i] = q[j] => i = j
  <2>1. DOMAIN q \subseteq Int
    BY <1>2
  <2>2. \A i, j \in DOMAIN q : i < j \/ j < i \/ i = j
    BY <2>1
  <2> QED BY <1>3, <2>2
<1> QED BY <1>1, <1>2, <1>4, ReachesAll

\* One entry of the kind for each run of S, and no other.
LEMMA EntriesForIs ==
  ASSUME NEW l \in Seq(Entry), CreatedOnce(l), NEW kind \in Kinds, NEW S \in SUBSET Runs,
         NEW q \in InOrder(l, S)
  PROVE  /\ EntriesFor(kind, q) \in Seq(Entry)
         /\ kind \in {"progress", "result"} => EntriesFor(kind, q) \in Seq(Message)
         /\ \A i \in DOMAIN EntriesFor(kind, q) :
              EntriesFor(kind, q)[i].kind = kind /\ EntriesFor(kind, q)[i].run \in S
         /\ \A r \in S : \E i \in DOMAIN EntriesFor(kind, q) :
              EntriesFor(kind, q)[i] = [kind |-> kind, run |-> r]
         /\ \A i, j \in DOMAIN EntriesFor(kind, q) :
              EntriesFor(kind, q)[i].run = EntriesFor(kind, q)[j].run => i = j
<1> DEFINE E == EntriesFor(kind, q)
           N == Cardinality(S)
<1>1. /\ N \in Nat /\ q \in [1 .. N -> S]
      /\ \A i, j \in DOMAIN q : q[i] = q[j] => i = j
      /\ \A r \in S : \E i \in DOMAIN q : q[i] = r
  BY InOrderIs
<1>2. E = [i \in 1 .. N |-> [kind |-> kind, run |-> q[i]]] /\ DOMAIN q = 1 .. N
  BY <1>1 DEF EntriesFor
<1> HIDE DEF E, N
<1>3. ASSUME NEW i \in 1 .. N
      PROVE  /\ E[i] = [kind |-> kind, run |-> q[i]] /\ E[i].kind = kind /\ E[i].run = q[i]
             /\ q[i] \in S /\ E[i] \in Entry
             /\ (kind \in {"progress", "result"} => E[i] \in Message)
  <2>1. E[i] = [kind |-> kind, run |-> q[i]] /\ q[i] \in S
    BY <1>1, <1>2
  <2>2. E[i].kind = kind /\ E[i].run = q[i]
    BY <2>1
  <2> QED BY <2>1, <2>2 DEF Entry, Message, Kinds
<1>4. E \in [1 .. N -> Entry] /\ (kind \in {"progress", "result"} => E \in [1 .. N -> Message])
  BY <1>2, <1>3
<1>5. /\ E \in Seq(Entry) /\ DOMAIN E = 1 .. N
      /\ kind \in {"progress", "result"} => E \in Seq(Message)
  BY <1>1, <1>4, FunctionIsSeq
<1>6. \A i \in DOMAIN E : E[i].kind = kind /\ E[i].run \in S
  BY <1>3, <1>5
<1>7. \A r \in S : \E i \in DOMAIN E : E[i] = [kind |-> kind, run |-> r]
  BY <1>1, <1>2, <1>3, <1>5
<1>8. \A i, j \in DOMAIN E : E[i].run = E[j].run => i = j
  BY <1>1, <1>2, <1>3, <1>5
<1> QED BY <1>5, <1>6, <1>7, <1>8 DEF E

\* The messages that are sent: f says where each comes from.
SentIn(f, msgs) == [i \in DOMAIN f |-> msgs[f[i]]]
SentFrom(f, q, msgs, kept) ==
  /\ f \in [1 .. Len(q) -> kept]
  /\ \A i, j \in 1 .. Len(q) : i < j => f[i] < f[j]
  /\ \A i \in 1 .. Len(q) : q[i] = msgs[f[i]]
  /\ \A k \in kept : \E i \in 1 .. Len(q) : f[i] = k

LEMMA SentIs ==
  ASSUME NEW msgs \in Seq(Message), NEW kept \in SUBSET (DOMAIN msgs), NEW f \in Ascending(kept)
  PROVE  SentIn(f, msgs) \in Seq(Message) /\ SentFrom(f, SentIn(f, msgs), msgs, kept)
<1> DEFINE N == Cardinality(kept)
           Z == SentIn(f, msgs)
<1>1. DOMAIN msgs = 1 .. Len(msgs) /\ Len(msgs) \in Nat /\ \A i \in DOMAIN msgs : msgs[i] \in Message
  BY SeqIs
<1>2. IsFiniteSet(kept) /\ kept \subseteq Int
  <2>1. IsFiniteSet(DOMAIN msgs)
    BY <1>1, FS_Interval
  <2>2. IsFiniteSet(kept)
    BY <2>1, FS_Subset
  <2> QED BY <1>1, <2>2
<1>3. /\ N \in Nat /\ f \in [1 .. N -> kept]
      /\ \A i, j \in 1 .. N : i < j => f[i] < f[j]
  BY <1>2, FS_CardinalityType DEF Ascending
<1>4. \A i, j \in DOMAIN f : f[i] = f[j] => i = j
  <2> SUFFICES ASSUME NEW i \in 1 .. N, NEW j \in 1 .. N, f[i] = f[j] PROVE i = j
    BY <1>3
  <2>1. f[i] \in Int /\ f[j] \in Int
    BY <1>2, <1>3
  <2>2. i < j \/ j < i \/ i = j
    BY <1>3
  <2> QED BY <1>3, <2>1, <2>2
<1>5. \A k \in kept : \E i \in 1 .. N : f[i] = k
  BY <1>2, <1>3, <1>4, ReachesAll
<1>6. Z = [i \in 1 .. N |-> msgs[f[i]]]
  BY <1>3 DEF SentIn
<1> HIDE DEF Z, N
<1>7. Z \in [1 .. N -> Message]
  BY <1>1, <1>3, <1>6
<1>8. Z \in Seq(Message) /\ Len(Z) = N
  BY <1>3, <1>7, FunctionIsSeq
<1>9. SentFrom(f, Z, msgs, kept)
  BY <1>3, <1>5, <1>6, <1>8 DEF SentFrom
<1> QED BY <1>8, <1>9 DEF Z

\* What a branch may hold when it is opened begins like some branch, and what the
\* branch held stays.
Within(k, l) == Len(k) <= Len(l) /\ \A i \in 1 .. Len(k) : l[i] = k[i]

LEMMA LeavesAre ==
  ASSUME NEW b \in Branches, log \in [Branches -> Seq(Entry)], NEW l \in Leaves(b)
  PROVE  /\ l \in Seq(Entry) /\ Within(log[b], l)
         /\ \E c \in Branches : Within(l, log[c])
<1>1. log[b] \in Seq(Entry)
  OBVIOUS
<1>2. CASE l = log[b]
  BY <1>1, <1>2 DEF Within
<1>3. CASE l # log[b]
  <2>1. PICK c \in Branches : \E n \in 1 .. Len(log[c]) : log[b] = <<>> /\ l = SubSeq(log[c], 1, n)
    BY <1>3 DEF Leaves
  <2>1a. PICK n \in 1 .. Len(log[c]) : log[b] = <<>> /\ l = SubSeq(log[c], 1, n)
    BY <2>1
  <2>2. log[c] \in Seq(Entry) /\ Len(log[c]) \in Nat
    OBVIOUS
  <2>3. l \in Seq(Entry) /\ Len(l) = n /\ \A i \in 1 .. n : l[i] = log[c][i]
    BY <2>1a, <2>2
  <2> QED BY <2>1a, <2>2, <2>3 DEF Within
<1> QED BY <1>2, <1>3

------------------------------------------------------------------------------
(* Logs: what is known of a log stays known when entries are appended to   *)
(* it, or to a beginning of it on another branch                           *)

\* After the result of a run not in B nothing of it follows.
LastIn(l, B) ==
  \A i, j \in DOMAIN l :
    (i < j /\ l[i].kind = "result" /\ l[i].run = l[j].run) => l[i].run \in B

\* A result of a run not in B comes after its created entry and, when "both",
\* after its finished entry, too.
CreatedBefore(l, i, r) == \E j \in 1 .. (i - 1) : l[j] = [kind |-> "created", run |-> r]
ReportOrder(l, i, r, both) ==
  \E j \in 1 .. (i - 1) :
    /\ l[j] = [kind |-> "created", run |-> r]
    /\ both => \E k \in (j + 1) .. (i - 1) : l[k] = [kind |-> "finished", run |-> r]
OwnerIn(l, B, both) ==
  \A i \in DOMAIN l :
    (l[i].kind = "result" /\ l[i].run \notin B) => ReportOrder(l, i, l[i].run, both)
FinishedIn(l, B) ==
  \A i \in DOMAIN l :
    (l[i].kind = "finished" /\ l[i].run \notin B) => CreatedBefore(l, i, l[i].run)

UnrecordedRuns == {r \in Runs : Unrecorded(r)}

LEMMA LogFacts ==
  ASSUME log \in [Branches -> Seq(Entry)]
  PROVE  /\ ResultIsLast <=> \A b \in Branches : LastIn(log[b], buffered)
         /\ ReportedToOwner <=>
              \A b \in Branches : OwnerIn(log[b], buffered \cup UnrecordedRuns, faults = 0)
         /\ LedgerOK <=>
              \A b \in Branches : CreatedOnce(log[b]) /\ FinishedIn(log[b], UnrecordedRuns)
<1>1. \A b \in Branches : \A i \in DOMAIN log[b] : log[b][i].run \in Runs
  BY DEF Entry, Message
<1>2. ResultIsLast <=> \A b \in Branches : LastIn(log[b], buffered)
  BY DEF ResultIsLast, LastIn
<1>3. ReportedToOwner <=>
        \A b \in Branches : OwnerIn(log[b], buffered \cup UnrecordedRuns, faults = 0)
  BY <1>1 DEF ReportedToOwner, OwnerIn, UnrecordedRuns, ReportOrder
<1>4. LedgerOK <=>
        \A b \in Branches : CreatedOnce(log[b]) /\ FinishedIn(log[b], UnrecordedRuns)
  BY <1>1 DEF LedgerOK, FinishedAfter, FinishedIn, UnrecordedRuns, CreatedBefore
<1> QED BY <1>2, <1>3, <1>4

\* A beginning of a log.
LEMMA BeginningKeeps ==
  ASSUME NEW l \in Seq(Entry), NEW k \in Seq(Entry), Within(l, k),
         NEW B, NEW D, NEW both
  PROVE  /\ LastIn(k, B) => LastIn(l, B)
         /\ OwnerIn(k, D, both) => OwnerIn(l, D, both)
         /\ CreatedOnce(k) => CreatedOnce(l)
         /\ FinishedIn(k, D) => FinishedIn(l, D)
<1>1. /\ Len(l) \in Nat /\ Len(k) \in Nat /\ Len(l) <= Len(k)
      /\ DOMAIN l = 1 .. Len(l) /\ DOMAIN k = 1 .. Len(k)
      /\ \A i \in 1 .. Len(l) : i \in 1 .. Len(k) /\ l[i] = k[i]
  BY DEF Within
<1>2. LastIn(k, B) => LastIn(l, B)
  BY <1>1 DEF LastIn
<1>3. ASSUME NEW i \in 1 .. Len(l), NEW r PROVE ReportOrder(k, i, r, both) => ReportOrder(l, i, r, both)
  <2>1. \A j \in 1 .. (i - 1) : j \in 1 .. Len(l)
    BY <1>1
  <2>2. \A j \in 1 .. (i - 1) : \A m \in (j + 1) .. (i - 1) : m \in 1 .. Len(l)
    BY <1>1
  <2> QED BY <1>1, <2>1, <2>2 DEF ReportOrder
<1>4. OwnerIn(k, D, both) => OwnerIn(l, D, both)
  BY <1>1, <1>3 DEF OwnerIn
<1>5. CreatedOnce(k) => CreatedOnce(l)
  BY <1>1 DEF CreatedOnce
<1>6. ASSUME NEW i \in 1 .. Len(l), NEW r PROVE CreatedBefore(k, i, r) => CreatedBefore(l, i, r)
  <2>1. \A j \in 1 .. (i - 1) : j \in 1 .. Len(l)
    BY <1>1
  <2> QED BY <1>1, <2>1 DEF CreatedBefore
<1>7. FinishedIn(k, D) => FinishedIn(l, D)
  BY <1>1, <1>6 DEF FinishedIn
<1> QED BY <1>2, <1>4, <1>5, <1>7

\* Entries of l and of n in their concatenation.
LEMMA CatIs ==
  ASSUME NEW l \in Seq(Entry), NEW n \in Seq(Entry)
  PROVE  /\ l \o n \in Seq(Entry) /\ Len(l \o n) = Len(l) + Len(n)
         /\ Len(l) \in Nat /\ Len(n) \in Nat
         /\ DOMAIN l = 1 .. Len(l) /\ DOMAIN n = 1 .. Len(n)
         /\ DOMAIN (l \o n) = 1 .. Len(l) + Len(n)
         /\ \A i \in 1 .. Len(l) : (l \o n)[i] = l[i]
         /\ \A i \in 1 .. Len(n) : (l \o n)[Len(l) + i] = n[i]
         /\ \A i \in DOMAIN (l \o n) :
              i \in DOMAIN l \/ (i - Len(l) \in DOMAIN n /\ (l \o n)[i] = n[i - Len(l)])
OBVIOUS

\* What the entries n must be like, for each part of the invariant.
NothingAfterResult(l, n, B) ==
  \A j \in DOMAIN n : n[j].run \in B \/
    /\ \A i \in DOMAIN l : ~ (l[i].kind = "result" /\ l[i].run = n[j].run)
    /\ \A i \in DOMAIN n : i < j => ~ (n[i].kind = "result" /\ n[i].run = n[j].run)

LEMMA LastCat ==
  ASSUME NEW l \in Seq(Entry), NEW n \in Seq(Entry), NEW A, NEW B, LastIn(l, A),
         A \subseteq B, NothingAfterResult(l, n, B)
  PROVE  LastIn(l \o n, B)
<1> DEFINE c == l \o n
<1> SUFFICES ASSUME NEW i \in DOMAIN c, NEW j \in DOMAIN c, i < j, c[i].kind = "result",
                    c[i].run = c[j].run
             PROVE  c[i].run \in B
  BY DEF LastIn
<1>1. /\ Len(l) \in Nat /\ i \in Int /\ j \in Int
      /\ i \in DOMAIN l \/ (i - Len(l) \in DOMAIN n /\ c[i] = n[i - Len(l)])
      /\ j \in DOMAIN l \/ (j - Len(l) \in DOMAIN n /\ c[j] = n[j - Len(l)])
      /\ \A k \in DOMAIN l : c[k] = l[k] /\ k \in 1 .. Len(l)
  BY CatIs
<1>n. \A k \in DOMAIN n : k \in 1 .. Len(n)
  BY CatIs
<1> HIDE DEF c
<1>2. CASE i \in DOMAIN l /\ j \in DOMAIN l
  BY <1>1, <1>2 DEF LastIn
<1>3. CASE i \in DOMAIN l /\ j - Len(l) \in DOMAIN n /\ c[j] = n[j - Len(l)]
  BY <1>1, <1>3 DEF NothingAfterResult
<1>4. CASE /\ i - Len(l) \in DOMAIN n /\ c[i] = n[i - Len(l)]
           /\ j - Len(l) \in DOMAIN n /\ c[j] = n[j - Len(l)]
  <2>1. i - Len(l) < j - Len(l)
    BY <1>1
  <2> QED BY <1>4, <2>1 DEF NothingAfterResult
<1>5. CASE /\ i - Len(l) \in DOMAIN n /\ c[i] = n[i - Len(l)] /\ j \in DOMAIN l
  <2>1. i - Len(l) >= 1 /\ j <= Len(l)
    BY <1>1, <1>n, <1>5
  <2> QED BY <1>1, <2>1
<1> QED BY <1>1, <1>2, <1>3, <1>4, <1>5

ReportsInOrder(l, n, D, both) ==
  \A j \in DOMAIN n : (n[j].kind = "result" /\ n[j].run \notin D) =>
    ReportOrder(l \o n, Len(l) + j, n[j].run, both)

LEMMA OwnerCat ==
  ASSUME NEW l \in Seq(Entry), NEW n \in Seq(Entry), NEW C, NEW D,
         NEW both \in BOOLEAN, NEW after \in BOOLEAN, OwnerIn(l, C, both), after => both,
         \A i \in DOMAIN l : l[i].run \in C => l[i].run \in D,
         ReportsInOrder(l, n, D, after)
  PROVE  OwnerIn(l \o n, D, after)
<1> DEFINE c == l \o n
<1> SUFFICES ASSUME NEW i \in DOMAIN c, c[i].kind = "result", c[i].run \notin D
             PROVE  ReportOrder(c, i, c[i].run, after)
  BY DEF OwnerIn
<1>1. /\ Len(l) \in Nat /\ i \in Int
      /\ i \in DOMAIN l \/ (i - Len(l) \in DOMAIN n /\ c[i] = n[i - Len(l)])
      /\ \A k \in 1 .. Len(l) : c[k] = l[k]
      /\ DOMAIN l = 1 .. Len(l)
  BY CatIs
<1>2. CASE i \in DOMAIN l
  <2> HIDE DEF c
  <2>1. ReportOrder(l, i, c[i].run, both)
    BY <1>1, <1>2 DEF OwnerIn
  <2>2. PICK j \in 1 .. (i - 1) :
          /\ l[j] = [kind |-> "created", run |-> c[i].run]
          /\ both => \E k \in (j + 1) .. (i - 1) : l[k] = [kind |-> "finished", run |-> c[i].run]
    BY <2>1 DEF ReportOrder
  <2>3. j \in 1 .. Len(l) /\ \A k \in (j + 1) .. (i - 1) : k \in 1 .. Len(l)
    BY <1>1, <1>2
  <2>4. c[j] = [kind |-> "created", run |-> c[i].run]
    BY <1>1, <2>2, <2>3
  <2>5. after => \E k \in (j + 1) .. (i - 1) : c[k] = [kind |-> "finished", run |-> c[i].run]
    BY <1>1, <2>2, <2>3
  <2> QED BY <2>4, <2>5 DEF ReportOrder
<1>3. CASE i - Len(l) \in DOMAIN n /\ c[i] = n[i - Len(l)]
  <2>1. Len(l) + (i - Len(l)) = i
    BY <1>1
  <2> QED BY <1>3, <2>1 DEF ReportsInOrder
<1> QED BY <1>1, <1>2, <1>3

\* A created entry is of a run of which nothing was written, and comes alone.
CreatesNew(l, n) ==
  /\ \A j \in DOMAIN n : n[j].kind = "created" =>
       Len(n) = 1 /\ \A i \in DOMAIN l : l[i].run # n[j].run

LEMMA CreatedCat ==
  ASSUME NEW l \in Seq(Entry), NEW n \in Seq(Entry), CreatedOnce(l), CreatesNew(l, n)
  PROVE  CreatedOnce(l \o n)
<1> DEFINE c == l \o n
<1> SUFFICES ASSUME NEW i \in DOMAIN c, NEW j \in DOMAIN c, c[i].kind = "created", c[j] = c[i]
             PROVE  i = j
  BY DEF CreatedOnce
<1>1. /\ Len(l) \in Nat /\ i \in Int /\ j \in Int
      /\ i \in DOMAIN l \/ (i - Len(l) \in DOMAIN n /\ c[i] = n[i - Len(l)])
      /\ j \in DOMAIN l \/ (j - Len(l) \in DOMAIN n /\ c[j] = n[j - Len(l)])
      /\ \A k \in DOMAIN l : c[k] = l[k]
      /\ DOMAIN n = 1 .. Len(n)
  BY CatIs
<1> HIDE DEF c
<1>2. CASE i \in DOMAIN l /\ j \in DOMAIN l
  BY <1>1, <1>2 DEF CreatedOnce
<1>3. CASE i \in DOMAIN l /\ j - Len(l) \in DOMAIN n /\ c[j] = n[j - Len(l)]
  BY <1>1, <1>3 DEF CreatesNew
<1>4. CASE /\ i - Len(l) \in DOMAIN n /\ c[i] = n[i - Len(l)]
           /\ j - Len(l) \in DOMAIN n /\ c[j] = n[j - Len(l)]
  <2>1. Len(n) = 1
    BY <1>4 DEF CreatesNew
  <2> QED BY <1>1, <1>4, <2>1
<1>5. CASE /\ i - Len(l) \in DOMAIN n /\ c[i] = n[i - Len(l)] /\ j \in DOMAIN l
  BY <1>1, <1>5 DEF CreatesNew
<1> QED BY <1>1, <1>2, <1>3, <1>4, <1>5

\* A finished entry is of a run that l has created, or of one of D.
FinishesOwned(l, n, D) ==
  \A j \in DOMAIN n : n[j].kind = "finished" =>
    n[j].run \in D \/ \E i \in DOMAIN l : l[i] = [kind |-> "created", run |-> n[j].run]

LEMMA FinishedCat ==
  ASSUME NEW l \in Seq(Entry), NEW n \in Seq(Entry), NEW C, NEW D, FinishedIn(l, C),
         \A i \in DOMAIN l : l[i].run \in C => l[i].run \in D,
         FinishesOwned(l, n, D)
  PROVE  FinishedIn(l \o n, D)
<1> DEFINE c == l \o n
<1> SUFFICES ASSUME NEW i \in DOMAIN c, c[i].kind = "finished", c[i].run \notin D
             PROVE  \E j \in 1 .. (i - 1) : c[j] = [kind |-> "created", run |-> c[i].run]
  BY DEF FinishedIn, CreatedBefore
<1>1. /\ Len(l) \in Nat /\ i \in Int
      /\ i \in DOMAIN l \/ (i - Len(l) \in DOMAIN n /\ c[i] = n[i - Len(l)])
      /\ \A k \in 1 .. Len(l) : c[k] = l[k]
      /\ DOMAIN l = 1 .. Len(l) /\ DOMAIN n = 1 .. Len(n)
  BY CatIs
<1> HIDE DEF c
<1>2. CASE i \in DOMAIN l
  <2>1. c[i] = l[i] /\ l[i].run \notin C
    BY <1>1, <1>2
  <2>2. PICK j \in 1 .. (i - 1) : l[j] = [kind |-> "created", run |-> c[i].run]
    BY <1>1, <1>2, <2>1 DEF FinishedIn, CreatedBefore
  <2>3. j \in 1 .. Len(l)
    BY <1>1, <1>2
  <2> QED BY <1>1, <2>2, <2>3
<1>3. CASE i - Len(l) \in DOMAIN n /\ c[i] = n[i - Len(l)]
  <2>1. PICK j \in DOMAIN l : l[j] = [kind |-> "created", run |-> c[i].run]
    BY <1>3 DEF FinishesOwned
  <2>2. j \in 1 .. (i - 1)
    BY <1>1, <1>3
  <2> QED BY <1>1, <2>1, <2>2
<1> QED BY <1>1, <1>2, <1>3

------------------------------------------------------------------------------
(* Steps: entries n are appended to l, on branch b                         *)

Wrote(b, l, n) ==
  /\ l \in Leaves(b) /\ n \in Seq(Entry)
  /\ log' = [log EXCEPT ![b] = l \o n]

\* What no step undoes.
Steady ==
  /\ \A r \in Runs : receipt[r] # "none" => receipt'[r] # "none"
  /\ \A r \in Runs : receipt[r] \in Settled => receipt'[r] \in Settled
  /\ buffered \subseteq buffered'
  /\ faults' = 0 => faults = 0

\* Runs that were opened and whose created entry could not be written: for good.
NeverRecorded == {r \in UnrecordedRuns : receipt[r] # "none"}

CreatesOpened(n) ==
  \A j \in DOMAIN n : n[j].kind = "created" => Len(n) = 1 /\ receipt[n[j].run] = "none"

\* A leaf: the facts about its entries.
LEMMA LeafFacts ==
  ASSUME IInv, NEW b \in Branches, NEW l \in Leaves(b)
  PROVE  /\ l \in Seq(Entry) /\ Within(log[b], l)
         /\ \A i \in DOMAIN l : Backed(l[i]) /\ l[i].run \in Runs
         /\ LastIn(l, buffered)
         /\ OwnerIn(l, buffered \cup UnrecordedRuns, faults = 0)
         /\ CreatedOnce(l) /\ FinishedIn(l, UnrecordedRuns)
         /\ \A r \in On(l, "created") : ~ Unrecorded(r)
<1>1. log \in [Branches -> Seq(Entry)]
  BY DEF IInv, TypeOK
<1>2. l \in Seq(Entry) /\ Within(log[b], l)
  BY <1>1, LeavesAre
<1>3. PICK c \in Branches : Within(l, log[c])
  BY <1>1, LeavesAre
<1>4. log[c] \in Seq(Entry)
  BY <1>1
<1>5. /\ LastIn(log[c], buffered)
      /\ OwnerIn(log[c], buffered \cup UnrecordedRuns, faults = 0)
      /\ CreatedOnce(log[c]) /\ FinishedIn(log[c], UnrecordedRuns)
  BY <1>1, LogFacts DEF IInv
<1>6. /\ LastIn(l, buffered)
      /\ OwnerIn(l, buffered \cup UnrecordedRuns, faults = 0)
      /\ CreatedOnce(l) /\ FinishedIn(l, UnrecordedRuns)
  BY <1>2, <1>3, <1>4, <1>5, BeginningKeeps
<1>7. \A i \in DOMAIN l : i \in DOMAIN log[c] /\ l[i] = log[c][i] /\ l[i] \in Entry
  BY <1>2, <1>3, <1>4 DEF Within
<1>8. \A i \in DOMAIN l : Backed(l[i]) /\ l[i].run \in Runs
  BY <1>7, EntryIs DEF IInv, EntriesBacked
<1>9. \A r \in On(l, "created") : ~ Unrecorded(r)
  BY <1>7 DEF On, Unrecorded
<1> QED BY <1>2, <1>6, <1>8, <1>9

\* The log of every branch grows.
LEMMA WriteGrows ==
  ASSUME IInv, NEW b \in Branches, NEW l, NEW n, Wrote(b, l, n)
  PROVE  /\ log' \in [Branches -> Seq(Entry)] /\ log'[b] = l \o n
         /\ \A c \in Branches : c # b => log'[c] = log[c]
         /\ \A c \in Branches : \A i \in DOMAIN log[c] : i \in DOMAIN log'[c] /\ log'[c][i] = log[c][i]
<1>1. log \in [Branches -> Seq(Entry)]
  BY DEF IInv, TypeOK
<1>2. l \in Seq(Entry) /\ n \in Seq(Entry) /\ Within(log[b], l)
  BY LeafFacts DEF Wrote
<1>3. l \o n \in Seq(Entry)
  BY <1>2, CatIs
<1>4. /\ log' \in [Branches -> Seq(Entry)] /\ log'[b] = l \o n
      /\ \A c \in Branches : c # b => log'[c] = log[c]
  BY <1>1, <1>3 DEF Wrote
<1>5. \A i \in DOMAIN log[b] : i \in DOMAIN (l \o n) /\ (l \o n)[i] = log[b][i]
  <2>1. log[b] \in Seq(Entry)
    BY <1>1
  <2>2. \A i \in DOMAIN log[b] : i \in 1 .. Len(l) /\ l[i] = log[b][i]
    BY <1>2, <2>1 DEF Within
  <2>3. /\ Len(l) \in Nat /\ Len(n) \in Nat
        /\ DOMAIN (l \o n) = 1 .. Len(l) + Len(n)
        /\ \A i \in 1 .. Len(l) : (l \o n)[i] = l[i]
    BY <1>2, CatIs
  <2> QED BY <2>2, <2>3
<1>6. ASSUME NEW c \in Branches, NEW i \in DOMAIN log[c]
      PROVE  i \in DOMAIN log'[c] /\ log'[c][i] = log[c][i]
  <2>1. CASE c = b
    BY <1>4, <1>5, <2>1
  <2>2. CASE c # b
    BY <1>4, <2>2
  <2> QED BY <2>1, <2>2
<1> QED BY <1>4, <1>6

\* A run whose created entry could not be written stays without one.
LEMMA StaysUnrecorded ==
  ASSUME IInv, NEW b \in Branches, NEW l, NEW n, Wrote(b, l, n), CreatesOpened(n)
  PROVE  \A r \in NeverRecorded : Unrecorded(r)'
<1> SUFFICES ASSUME NEW r \in NeverRecorded, NEW c \in Branches, NEW i \in DOMAIN log'[c],
                    log'[c][i] = [kind |-> "created", run |-> r]
             PROVE  FALSE
  BY DEF Unrecorded, On
<1>1. r \in Runs /\ Unrecorded(r) /\ receipt[r] # "none"
  BY DEF NeverRecorded, UnrecordedRuns
<1>2. CASE c # b
  BY <1>1, <1>2, WriteGrows DEF Unrecorded, On
<1>3. CASE c = b
  <2>1. l \in Seq(Entry) /\ n \in Seq(Entry) /\ \A s \in On(l, "created") : ~ Unrecorded(s)
    BY LeafFacts DEF Wrote
  <2>2. log'[c] = l \o n
    BY <1>3, WriteGrows
  <2>3. /\ i \in DOMAIN l => (l \o n)[i] = l[i]
        /\ i \in DOMAIN l \/ (i - Len(l) \in DOMAIN n /\ (l \o n)[i] = n[i - Len(l)])
    BY <2>1, <2>2, CatIs
  <2>4. CASE i \in DOMAIN l
    <3>1. l[i] = [kind |-> "created", run |-> r]
      BY <2>2, <2>3, <2>4
    <3>2. r \in On(l, "created")
      BY <1>1, <2>4, <3>1 DEF On
    <3> QED BY <1>1, <2>1, <3>2
  <2>5. CASE i - Len(l) \in DOMAIN n /\ (l \o n)[i] = n[i - Len(l)]
    BY <1>1, <2>2, <2>5 DEF CreatesOpened
  <2> QED BY <2>3, <2>4, <2>5
<1> QED BY <1>2, <1>3

LogOK == log \in [Branches -> Seq(Entry)] /\ EntriesBacked /\ LedgerOK /\ ResultIsLast /\ ReportedToOwner

\* The parts of the invariant that speak of the logs.
LEMMA WriteKeeps ==
  ASSUME IInv, NEW b \in Branches, NEW l, NEW n, Wrote(b, l, n), Steady,
         \A j \in DOMAIN n : /\ receipt'[n[j].run] # "none"
                             /\ n[j].kind = "result" => receipt'[n[j].run] \in Settled,
         CreatesOpened(n), FinishesOwned(l, n, NeverRecorded),
         NothingAfterResult(l, n, buffered'),
         ReportsInOrder(l, n, buffered' \cup NeverRecorded, faults' = 0)
  PROVE  LogOK'
<1> DEFINE Before(c) == IF c = b THEN l ELSE log[c]
<1>1. log' \in [Branches -> Seq(Entry)] /\ log'[b] = l \o n
      /\ \A c \in Branches : c # b => log'[c] = log[c]
  BY WriteGrows
<1>2. \A r \in NeverRecorded : Unrecorded(r)'
  BY StaysUnrecorded
<1>3. /\ l \in Seq(Entry) /\ n \in Seq(Entry)
      /\ \A i \in DOMAIN l : Backed(l[i]) /\ l[i].run \in Runs
      /\ LastIn(l, buffered)
      /\ OwnerIn(l, buffered \cup UnrecordedRuns, faults = 0)
      /\ CreatedOnce(l) /\ FinishedIn(l, UnrecordedRuns)
  BY LeafFacts DEF Wrote
<1>4. log \in [Branches -> Seq(Entry)]
  BY DEF IInv, TypeOK
<1>5. NeverRecorded \subseteq UnrecordedRuns'
  BY <1>2 DEF NeverRecorded, UnrecordedRuns
<1>6. EntriesBacked'
  <2>1. ASSUME NEW c \in Branches, NEW i \in DOMAIN log'[c]
        PROVE  /\ receipt'[log'[c][i].run] # "none"
               /\ log'[c][i].kind = "result" => receipt'[log'[c][i].run] \in Settled
    <3>1. CASE c # b
      <4>1. log'[c] = log[c] /\ i \in DOMAIN log[c]
        BY <1>1, <3>1
      <4>2. Backed(log[c][i]) /\ log[c][i] \in Entry
        BY <1>4, <4>1 DEF IInv, EntriesBacked
      <4>3. log[c][i].run \in Runs
        BY <4>2, EntryIs
      <4> QED BY <4>1, <4>2, <4>3 DEF Backed, Steady
    <3>2. CASE c = b
      <4>1. /\ \A k \in DOMAIN l : (l \o n)[k] = l[k]
            /\ i \in DOMAIN l \/ (i - Len(l) \in DOMAIN n /\ (l \o n)[i] = n[i - Len(l)])
        BY <1>1, <1>3, <3>2, CatIs
      <4>2. CASE i \in DOMAIN l
        <5>1. log'[c][i] = l[i] /\ Backed(l[i]) /\ l[i].run \in Runs
          BY <1>1, <1>3, <3>2, <4>1, <4>2
        <5> QED BY <5>1 DEF Backed, Steady
      <4>3. CASE i - Len(l) \in DOMAIN n /\ (l \o n)[i] = n[i - Len(l)]
        BY <1>1, <3>2, <4>3
      <4> QED BY <4>1, <4>2, <4>3
    <3> QED BY <3>1, <3>2
  <2> QED BY <2>1 DEF EntriesBacked, Backed
<1>7. ASSUME NEW c \in Branches PROVE LastIn(log'[c], buffered')
  <2>1. CASE c = b
    <3>1. LastIn(l \o n, buffered')
      BY <1>3, LastCat DEF Steady
    <3> QED BY <1>1, <2>1, <3>1
  <2>2. CASE c # b
    <3>1. LastIn(log[c], buffered)
      BY <1>4, LogFacts DEF IInv
    <3>2. LastIn(log[c], buffered')
      BY <3>1 DEF LastIn, Steady
    <3> QED BY <1>1, <2>2, <3>2
  <2> QED BY <2>1, <2>2
<1>8. \A c \in Branches : \A i \in DOMAIN log[c] :
         /\ log[c][i].run \in Runs
         /\ log[c][i].run \in UnrecordedRuns => log[c][i].run \in NeverRecorded
  <2>1. \A c \in Branches : \A i \in DOMAIN log[c] : log[c][i] \in Entry /\ Backed(log[c][i])
    BY <1>4 DEF IInv, EntriesBacked
  <2> QED BY <2>1, EntryIs DEF Backed, NeverRecorded
<1>9. \A i \in DOMAIN l : l[i].run \in UnrecordedRuns => l[i].run \in NeverRecorded
  BY <1>3 DEF Backed, NeverRecorded
<1>10. ASSUME NEW c \in Branches
       PROVE  OwnerIn(log'[c], buffered' \cup UnrecordedRuns', faults' = 0)
  <2>1. CASE c = b
    <3>1. \A i \in DOMAIN l : l[i].run \in buffered \cup UnrecordedRuns =>
                                l[i].run \in buffered' \cup UnrecordedRuns'
      BY <1>5, <1>9 DEF Steady
    <3>2. ReportsInOrder(l, n, buffered' \cup UnrecordedRuns', faults' = 0)
      BY <1>5 DEF ReportsInOrder
    <3>3. (faults' = 0) \in BOOLEAN /\ (faults = 0) \in BOOLEAN /\ (faults' = 0 => faults = 0)
      BY DEF Steady
    <3>4. OwnerIn(l \o n, buffered' \cup UnrecordedRuns', faults' = 0)
      BY <1>3, <3>1, <3>2, <3>3, OwnerCat
    <3> QED BY <1>1, <2>1, <3>4
  <2>2. CASE c # b
    <3>1. OwnerIn(log[c], buffered \cup UnrecordedRuns, faults = 0)
      BY <1>4, LogFacts DEF IInv
    <3>2. \A i \in DOMAIN log[c] : log[c][i].run \in buffered \cup UnrecordedRuns =>
                                     log[c][i].run \in buffered' \cup UnrecordedRuns'
      BY <1>5, <1>8 DEF Steady
    <3>3. \A i, r : ReportOrder(log[c], i, r, faults = 0) => ReportOrder(log[c], i, r, faults' = 0)
      BY DEF ReportOrder, Steady
    <3>4. OwnerIn(log[c], buffered' \cup UnrecordedRuns', faults' = 0)
      BY <3>1, <3>2, <3>3 DEF OwnerIn
    <3> QED BY <1>1, <2>2, <3>4
  <2> QED BY <2>1, <2>2
<1>11. ASSUME NEW c \in Branches
       PROVE  CreatedOnce(log'[c]) /\ FinishedIn(log'[c], UnrecordedRuns')
  <2>1. CASE c = b
    <3>1. CreatesNew(l, n)
      BY <1>3 DEF CreatesNew, CreatesOpened, Backed
    <3>2. \A i \in DOMAIN l : l[i].run \in UnrecordedRuns => l[i].run \in UnrecordedRuns'
      BY <1>5, <1>9
    <3>3. FinishesOwned(l, n, UnrecordedRuns')
      BY <1>5 DEF FinishesOwned
    <3>4. CreatedOnce(l \o n)
      BY <1>3, <3>1, CreatedCat
    <3>5. FinishedIn(l \o n, UnrecordedRuns')
      BY <1>3, <3>2, <3>3, FinishedCat
    <3> QED BY <1>1, <2>1, <3>4, <3>5
  <2>2. CASE c # b
    <3>1. CreatedOnce(log[c]) /\ FinishedIn(log[c], UnrecordedRuns)
      BY <1>4, LogFacts DEF IInv
    <3>2. \A i \in DOMAIN log[c] : log[c][i].run \in UnrecordedRuns => log[c][i].run \in UnrecordedRuns'
      BY <1>5, <1>8
    <3>3. FinishedIn(log[c], UnrecordedRuns')
      BY <3>1, <3>2 DEF FinishedIn
    <3> QED BY <1>1, <2>2, <3>1, <3>3
  <2> QED BY <2>1, <2>2
<1>12. ResultIsLast' /\ ReportedToOwner' /\ LedgerOK'
  <2>1. /\ ResultIsLast' <=> \A c \in Branches : LastIn(log'[c], buffered')
        /\ ReportedToOwner' <=>
             \A c \in Branches : OwnerIn(log'[c], buffered' \cup UnrecordedRuns', faults' = 0)
        /\ LedgerOK' <=>
             \A c \in Branches : CreatedOnce(log'[c]) /\ FinishedIn(log'[c], UnrecordedRuns')
    <3>1. \A c \in Branches : \A i \in DOMAIN log'[c] : log'[c][i].run \in Runs
      BY <1>1 DEF Entry, Message
    <3>2. ResultIsLast' <=> \A c \in Branches : LastIn(log'[c], buffered')
      BY DEF ResultIsLast, LastIn
    <3>3. ReportedToOwner' <=>
            \A c \in Branches : OwnerIn(log'[c], buffered' \cup UnrecordedRuns', faults' = 0)
      BY <3>1 DEF ReportedToOwner, OwnerIn, UnrecordedRuns, ReportOrder
    <3>4. LedgerOK' <=>
            \A c \in Branches : CreatedOnce(log'[c]) /\ FinishedIn(log'[c], UnrecordedRuns')
      BY <3>1 DEF LedgerOK, FinishedAfter, FinishedIn, UnrecordedRuns, CreatedBefore
    <3> QED BY <3>2, <3>3, <3>4
  <2> QED BY <1>7, <1>10, <1>11, <2>1
<1> QED BY <1>1, <1>6, <1>12 DEF LogOK

------------------------------------------------------------------------------
(* Steps that write nothing                                                *)

\* Count and On agree.
LEMMA CountIs ==
  ASSUME NEW l \in Seq(Entry), NEW kind, NEW r \in Runs
  PROVE  Count(l, kind, r) > 0 <=> r \in On(l, kind)
<1> DEFINE T == {i \in DOMAIN l : l[i] = [kind |-> kind, run |-> r]}
<1>1. IsFiniteSet(T)
  <2>1. DOMAIN l = 1 .. Len(l) /\ Len(l) \in Nat
    OBVIOUS
  <2>2. IsFiniteSet(1 .. Len(l))
    BY <2>1, FS_Interval
  <2> QED BY <2>1, <2>2, FS_Subset
<1>2. Cardinality(T) \in Nat /\ (Cardinality(T) = 0 <=> T = {})
  BY <1>1, FS_CardinalityType, FS_EmptySet
<1>3. Count(l, kind, r) = Cardinality(T)
  BY DEF Count
<1>4. T = {} <=> r \notin On(l, kind)
  BY DEF On
<1> HIDE DEF T
<1> QED BY <1>2, <1>3, <1>4

LEMMA QuietLogs ==
  ASSUME IInv, log' = log, Steady
  PROVE  /\ LogOK'
         /\ \A r \in Runs : (Unrecorded(r)' <=> Unrecorded(r)) /\ (Reported(r)' <=> Reported(r))
<1>1. active \in Branches /\ log \in [Branches -> Seq(Entry)]
  BY DEF IInv, TypeOK
<1> DEFINE n == <<>>
<1>2. Wrote(active, log[active], n) /\ DOMAIN n = {}
  BY <1>1 DEF Wrote, Leaves
<1> HIDE DEF n
<1>3. LogOK'
  <2>1. /\ CreatesOpened(n) /\ FinishesOwned(log[active], n, NeverRecorded)
        /\ NothingAfterResult(log[active], n, buffered')
        /\ ReportsInOrder(log[active], n, buffered' \cup NeverRecorded, faults' = 0)
    BY <1>2 DEF CreatesOpened, FinishesOwned, NothingAfterResult, ReportsInOrder
  <2> QED BY <1>1, <1>2, <2>1, WriteKeeps
<1>4. \A r \in Runs : (Unrecorded(r)' <=> Unrecorded(r)) /\ (Reported(r)' <=> Reported(r))
  BY DEF Unrecorded, Reported
<1> QED BY <1>3, <1>4

LEMMA SurvivorEndsKeeps ==
  ASSUME IInv, NEW r \in Runs, SurvivorEnds(r)
  PROVE  IInv'
<1> USE DEF IInv
<1>1. /\ receipt[r] = "survivor" /\ receipt' = [receipt EXCEPT ![r] = "stale"]
      /\ UNCHANGED <<log, active, session, paused, managed, current, detached, branchOwned, snapshot,
                     delivered, pendingFlush, reports, missed, buffered, moves, faults>>
  BY DEF SurvivorEnds, memory, history
<1>2. /\ receipt \in [Runs -> Receipts] /\ receipt'[r] = "stale"
      /\ \A s \in Runs : s # r => receipt'[s] = receipt[s]
  BY <1>1 DEF TypeOK
<1>3. Steady
  BY <1>1, <1>2 DEF Steady, Settled
<1>4. LogOK' /\ \A s \in Runs : (Unrecorded(s)' <=> Unrecorded(s)) /\ (Reported(s)' <=> Reported(s))
  BY <1>1, <1>3, QuietLogs
<1>5. TypeOK'
  BY <1>1 DEF TypeOK, Receipts, LiveRuns
<1>6. MemoryOK'
  BY <1>1, <1>2 DEF MemoryOK, Settled, TypeOK
<1>7. PendingBacked'
  BY <1>1, <1>2 DEF PendingBacked, Backed, Settled, TypeOK, Message
<1>8. OwnedOK' /\ AdoptedOK' /\ DeliveredOK'
  BY <1>1, <1>2, <1>4 DEF OwnedOK, AdoptedOK, DeliveredOK, TypeOK
<1>9. NothingLost'
  BY <1>1, <1>2, <1>4 DEF NothingLost, On
<1> QED BY <1>4, <1>5, <1>6, <1>7, <1>8, <1>9 DEF LogOK

LEMMA PurgeKeeps ==
  ASSUME IInv, NEW r \in Runs, Purge(r)
  PROVE  IInv'
<1> USE DEF IInv
<1>1. /\ receipt[r] = "terminal" /\ receipt' = [receipt EXCEPT ![r] = "purged"]
      /\ UNCHANGED <<log, active, session, paused, managed, current, detached, branchOwned, snapshot,
                     delivered, pendingFlush, reports, missed, buffered, moves, faults>>
  BY DEF Purge, memory, history
<1>2. /\ receipt \in [Runs -> Receipts] /\ receipt'[r] = "purged"
      /\ \A s \in Runs : s # r => receipt'[s] = receipt[s]
  BY <1>1 DEF TypeOK
<1>3. Steady
  BY <1>1, <1>2 DEF Steady, Settled
<1>4. LogOK' /\ \A s \in Runs : (Unrecorded(s)' <=> Unrecorded(s)) /\ (Reported(s)' <=> Reported(s))
  BY <1>1, <1>3, QuietLogs
<1>5. TypeOK'
  BY <1>1 DEF TypeOK, Receipts, LiveRuns
<1>6. MemoryOK'
  BY <1>1, <1>2 DEF MemoryOK, Settled, TypeOK
<1>7. PendingBacked'
  BY <1>1, <1>2 DEF PendingBacked, Backed, Settled, TypeOK, Message
<1>8. OwnedOK' /\ AdoptedOK' /\ DeliveredOK'
  BY <1>1, <1>2, <1>4 DEF OwnedOK, AdoptedOK, DeliveredOK, TypeOK
<1>9. NothingLost'
  BY <1>1, <1>2, <1>4 DEF NothingLost, On
<1> QED BY <1>4, <1>5, <1>6, <1>7, <1>8, <1>9 DEF LogOK

\* The receipts after markOrphanedRuns.
LEMMA OrphanedIs ==
  ASSUME receipt \in [Runs -> Receipts]
  PROVE  /\ Orphaned \in [Runs -> Receipts]
         /\ \A r \in Runs : /\ receipt[r] = "stale" => Orphaned[r] = "terminal"
                            /\ receipt[r] # "stale" => Orphaned[r] = receipt[r]
BY DEF Orphaned, Receipts

LEMMA OrphanKeeps ==
  ASSUME IInv, Restart \/ OtherProcessStarts
  PROVE  IInv'
<1> USE DEF IInv
<1>1. /\ receipt' = Orphaned
      /\ UNCHANGED <<log, active, paused, managed, current, detached, branchOwned, snapshot,
                     delivered, pendingFlush, reports, buffered, moves, faults>>
      /\ (session = "off" /\ session' = "down" /\ missed' = missed) \/
         (session' = session /\ missed' = missed \cup {r \in Runs : receipt[r] = "stale"})
  BY DEF Restart, OtherProcessStarts, memory, history
<1>2. /\ receipt \in [Runs -> Receipts] /\ receipt' \in [Runs -> Receipts]
      /\ \A r \in Runs : /\ receipt[r] = "stale" => receipt'[r] = "terminal"
                         /\ receipt[r] # "stale" => receipt'[r] = receipt[r]
  BY <1>1, OrphanedIs DEF TypeOK
<1>3. Steady
  BY <1>1, <1>2 DEF Steady, Settled
<1>4. LogOK' /\ \A s \in Runs : (Unrecorded(s)' <=> Unrecorded(s)) /\ (Reported(s)' <=> Reported(s))
  BY <1>1, <1>3, QuietLogs
<1>5. TypeOK'
  BY <1>1, <1>2 DEF TypeOK, LiveRuns
<1>6. MemoryOK'
  BY <1>1, <1>2 DEF MemoryOK, Settled, TypeOK
<1>7. PendingBacked'
  BY <1>1, <1>2 DEF PendingBacked, Backed, Settled, TypeOK, Message
<1>8. OwnedOK' /\ AdoptedOK' /\ DeliveredOK'
  BY <1>1, <1>2, <1>4 DEF OwnedOK, AdoptedOK, DeliveredOK, TypeOK
<1>9. NothingLost'
  BY <1>1, <1>2, <1>4 DEF NothingLost, On
<1> QED BY <1>4, <1>5, <1>6, <1>7, <1>8, <1>9 DEF LogOK

LEMMA PauseKeeps ==
  ASSUME IInv, BeforeTree \/ Shutdown
  PROVE  IInv'
<1> USE DEF IInv
<1>1. /\ session' \in {"tree", "closed"} /\ paused' = TRUE
      /\ current' = current \/ current' = {}
      /\ moves < MaxMoves /\ moves' = moves + 1
      /\ UNCHANGED <<log, active, managed, detached, branchOwned, snapshot,
                     delivered, pendingFlush, reports, receipt, missed, buffered, faults>>
  BY DEF BeforeTree, Shutdown, Move, memory, history
<1>3. Steady
  BY <1>1 DEF Steady
<1>4. LogOK' /\ \A s \in Runs : (Unrecorded(s)' <=> Unrecorded(s)) /\ (Reported(s)' <=> Reported(s))
  BY <1>1, <1>3, QuietLogs
<1>5. TypeOK'
  BY <1>1, BoundAssumption DEF TypeOK, LiveRuns
<1>6. MemoryOK'
  BY <1>1 DEF MemoryOK, TypeOK
<1>7. PendingBacked'
  BY <1>1 DEF PendingBacked, Backed
<1>8. OwnedOK' /\ AdoptedOK' /\ DeliveredOK'
  BY <1>1, <1>4 DEF OwnedOK, AdoptedOK, DeliveredOK, TypeOK
<1>9. NothingLost'
  BY <1>1 DEF NothingLost
<1> QED BY <1>4, <1>5, <1>6, <1>7, <1>8, <1>9 DEF LogOK

LEMMA CrashKeeps ==
  ASSUME IInv, Crash
  PROVE  IInv'
<1> USE DEF IInv
<1>1. /\ session' = "off" /\ paused' = FALSE /\ managed' = [r \in Runs |-> "none"]
      /\ current' = {} /\ detached' = {} /\ branchOwned' = {} /\ snapshot' = {}
      /\ delivered' = {} /\ pendingFlush' = <<>>
      /\ moves < MaxMoves /\ moves' = moves + 1
      /\ UNCHANGED <<log, active, reports, missed, buffered, faults>>
  BY DEF Crash, Move, history
<1>2. /\ receipt \in [Runs -> Receipts] /\ receipt' \in [Runs -> Receipts]
      /\ \A r \in Runs : /\ receipt'[r] # "live"
                         /\ receipt[r] # "live" => receipt'[r] = receipt[r]
                         /\ receipt[r] = "live" => receipt'[r] \in {"survivor", "stale"}
  <2>1. receipt \in [Runs -> Receipts]
    BY DEF TypeOK
  <2>2. PICK alive \in SUBSET LiveRuns :
          receipt' = [r \in Runs |-> IF r \notin LiveRuns THEN receipt[r]
                                     ELSE IF r \in alive THEN "survivor" ELSE "stale"]
    BY DEF Crash
  <2>3. \A r \in Runs : r \in LiveRuns <=> receipt[r] = "live"
    BY DEF MemoryOK, LiveRuns
  <2> QED BY <2>1, <2>2, <2>3 DEF Receipts
<1>3. Steady
  BY <1>1, <1>2 DEF Steady, Settled
<1>4. LogOK' /\ \A s \in Runs : (Unrecorded(s)' <=> Unrecorded(s)) /\ (Reported(s)' <=> Reported(s))
  BY <1>1, <1>3, QuietLogs
<1>5. TypeOK'
  <2>1. LiveRuns' = {}
    BY <1>1 DEF LiveRuns
  <2>2. Cardinality(LiveRuns') <= MaxBackgroundRuns
    BY <2>1, FS_EmptySet, SlotAssumption
  <2>3. managed' \in [Runs -> {"none", "live", "done"}] /\ pendingFlush' \in Seq(Message)
    BY <1>1
  <2>4. moves' \in 0 .. MaxMoves
    BY <1>1, BoundAssumption DEF TypeOK
  <2> QED BY <1>1, <1>2, <2>2, <2>3, <2>4 DEF TypeOK
<1>6. MemoryOK'
  BY <1>1, <1>2 DEF MemoryOK
<1>7. PendingBacked'
  BY <1>1 DEF PendingBacked
<1>8. OwnedOK' /\ AdoptedOK' /\ DeliveredOK'
  BY <1>1 DEF OwnedOK, AdoptedOK, DeliveredOK
<1>9. NothingLost'
  BY <1>1 DEF NothingLost
<1> QED BY <1>4, <1>5, <1>6, <1>7, <1>8, <1>9 DEF LogOK

LEMMA StutterKeeps ==
  ASSUME IInv, UNCHANGED vars
  PROVE  IInv'
<1> USE DEF IInv
<1>1. UNCHANGED <<log, active, session, paused, managed, current, detached, branchOwned, snapshot,
                  delivered, pendingFlush, reports, receipt, missed, buffered, moves, faults>>
  BY DEF vars, memory, history
<1>3. Steady
  BY <1>1 DEF Steady
<1>4. LogOK' /\ \A s \in Runs : (Unrecorded(s)' <=> Unrecorded(s)) /\ (Reported(s)' <=> Reported(s))
  BY <1>1, <1>3, QuietLogs
<1>5. TypeOK'
  BY <1>1 DEF TypeOK, LiveRuns
<1>6. MemoryOK' /\ PendingBacked'
  BY <1>1 DEF MemoryOK, PendingBacked, Backed
<1>8. OwnedOK' /\ AdoptedOK' /\ DeliveredOK'
  BY <1>1, <1>4 DEF OwnedOK, AdoptedOK, DeliveredOK, TypeOK
<1>9. NothingLost'
  BY <1>1, <1>4 DEF NothingLost, On
<1> QED BY <1>4, <1>5, <1>6, <1>8, <1>9 DEF LogOK

------------------------------------------------------------------------------
(* Steps of a run                                                          *)

LEMMA OnCat ==
  ASSUME NEW l \in Seq(Entry), NEW n \in Seq(Entry), NEW kind, NEW r
  PROVE  r \in On(l \o n, kind) <=> r \in On(l, kind) \/ r \in On(n, kind)
<1> DEFINE c == l \o n
<1>1. /\ Len(l) \in Nat /\ Len(n) \in Nat
      /\ DOMAIN l = 1 .. Len(l) /\ DOMAIN n = 1 .. Len(n)
      /\ DOMAIN c = 1 .. Len(l) + Len(n)
      /\ \A i \in 1 .. Len(l) : c[i] = l[i]
      /\ \A i \in 1 .. Len(n) : c[Len(l) + i] = n[i]
      /\ \A i \in DOMAIN c :
           i \in DOMAIN l \/ (i - Len(l) \in DOMAIN n /\ c[i] = n[i - Len(l)])
  BY CatIs
<1> HIDE DEF c
<1>2. ASSUME r \in On(l, kind) PROVE r \in On(c, kind)
  BY <1>1, <1>2 DEF On
<1>3. ASSUME r \in On(n, kind) PROVE r \in On(c, kind)
  <2>1. PICK i \in DOMAIN n : n[i] = [kind |-> kind, run |-> r]
    BY <1>3 DEF On
  <2>2. Len(l) + i \in DOMAIN c /\ c[Len(l) + i] = n[i]
    BY <1>1
  <2> QED BY <1>3, <2>1, <2>2 DEF On
<1>4. ASSUME r \in On(c, kind) PROVE r \in On(l, kind) \/ r \in On(n, kind)
  <2>1. PICK i \in DOMAIN c : c[i] = [kind |-> kind, run |-> r]
    BY <1>4 DEF On
  <2>2. CASE i \in DOMAIN l
    BY <1>1, <1>4, <2>1, <2>2 DEF On
  <2>3. CASE i - Len(l) \in DOMAIN n /\ c[i] = n[i - Len(l)]
    BY <1>4, <2>1, <2>3 DEF On
  <2> QED BY <1>1, <2>2, <2>3
<1> QED BY <1>2, <1>3, <1>4 DEF c

\* A log of no entry or of one.
LEMMA OneIs ==
  ASSUME NEW e \in Entry, NEW l \in Seq(Entry)
  PROVE  /\ <<e>> \in Seq(Entry) /\ Len(<<e>>) = 1 /\ DOMAIN <<e>> = {1} /\ <<e>>[1] = e
         /\ Append(l, e) = l \o <<e>>
         /\ l \o <<>> = l /\ <<>> \in Seq(Entry) /\ DOMAIN <<>> = {}
OBVIOUS

LEMMA ReportedIs ==
  ASSUME NEW g \in [Branches -> Seq(Entry)], NEW r \in Runs
  PROVE  (\E b \in Branches : Count(g[b], "result", r) > 0)
           <=> \E b \in Branches : r \in On(g[b], "result")
<1>1. \A b \in Branches : g[b] \in Seq(Entry)
  OBVIOUS
<1> QED BY <1>1, CountIs

LEMMA SpendIs ==
  ASSUME faults \in 0 .. MaxFaults, NEW T, IsFiniteSet(T), Spend(Cardinality(T))
  PROVE  faults' \in 0 .. MaxFaults /\ (faults' = 0 => faults = 0 /\ T = {})
<1>1. Cardinality(T) \in Nat /\ (Cardinality(T) = 0 <=> T = {})
  BY FS_CardinalityType, FS_EmptySet
<1> QED BY <1>1, BoundAssumption DEF Spend

\* What was reported, or is on a branch, stays.
LEMMA WriteOn ==
  ASSUME IInv, NEW b \in Branches, NEW l, NEW n, Wrote(b, l, n)
  PROVE  /\ \A c \in Branches : \A kind : On(log[c], kind) \subseteq On(log'[c], kind)
         /\ \A r \in Runs : Reported(r)' <=> \E c \in Branches : r \in On(log'[c], "result")
         /\ \A r \in Runs : Reported(r) <=> \E c \in Branches : r \in On(log[c], "result")
<1>1. log \in [Branches -> Seq(Entry)] /\ log' \in [Branches -> Seq(Entry)]
  BY WriteGrows DEF IInv, TypeOK
<1>2. \A c \in Branches : \A kind : On(log[c], kind) \subseteq On(log'[c], kind)
  BY WriteGrows DEF On
<1>3. \A r \in Runs : Reported(r)' <=> \E c \in Branches : r \in On(log'[c], "result")
  BY <1>1, ReportedIs DEF Reported
<1>4. \A r \in Runs : Reported(r) <=> \E c \in Branches : r \in On(log[c], "result")
  BY <1>1, ReportedIs DEF Reported
<1> QED BY <1>2, <1>3, <1>4

LEMMA DelegateKeeps ==
  ASSUME IInv, NEW r \in Runs, Delegate(r)
  PROVE  IInv'
<1> DEFINE e == [kind |-> "created", run |-> r]
           l == log[active]
<1>1. PICK lost \in SUBSET {r} :
        /\ Spend(Cardinality(lost))
        /\ log' = [log EXCEPT ![active] = IF lost = {} THEN Append(@, e) ELSE @]
  BY DEF Delegate, Register
<1>2. /\ session = "open" /\ SlotFree
      /\ receipt[r] = "none" /\ receipt' = [receipt EXCEPT ![r] = "live"]
      /\ managed' = [managed EXCEPT ![r] = "live"]
      /\ current' = current \cup {r} /\ branchOwned' = branchOwned \cup {r}
      /\ UNCHANGED <<active, session, paused, detached, snapshot, delivered, pendingFlush,
                     reports, missed, buffered, moves>>
  BY DEF Delegate, RunBackground, Register, history
<1>3. /\ log \in [Branches -> Seq(Entry)] /\ active \in Branches /\ l \in Seq(Entry)
      /\ receipt \in [Runs -> Receipts] /\ managed \in [Runs -> {"none", "live", "done"}]
      /\ faults \in 0 .. MaxFaults
  BY DEF IInv, TypeOK
<1>4. faults' \in 0 .. MaxFaults /\ (faults' = 0 => faults = 0)
  <2>1. IsFiniteSet(lost)
    BY FS_Singleton, FS_Subset
  <2> QED BY <1>1, <1>3, <2>1, SpendIs
<1>5. /\ receipt'[r] = "live" /\ managed'[r] = "live" /\ managed[r] = "none"
      /\ \A s \in Runs : s # r => receipt'[s] = receipt[s] /\ managed'[s] = managed[s]
  BY <1>2, <1>3 DEF IInv, MemoryOK
<1>6. Steady
  BY <1>2, <1>4, <1>5 DEF Steady, Settled
<1> DEFINE n == IF lost = {} THEN <<e>> ELSE <<>>
<1>7. e \in Entry /\ e.kind = "created" /\ e.run = r
  BY DEF Entry
<1>8. /\ n \in Seq(Entry) /\ Wrote(active, l, n)
      /\ \A j \in DOMAIN n : j = 1 /\ Len(n) = 1 /\ n[j] = e
      /\ lost = {} => n = <<e>>
  <2>1. n \in Seq(Entry) /\ log'= [log EXCEPT ![active] = l \o n]
    BY <1>1, <1>3, <1>7, OneIs
  <2>2. \A j \in DOMAIN n : j = 1 /\ Len(n) = 1 /\ n[j] = e
    BY <1>3, <1>7, OneIs
  <2> QED BY <2>1, <2>2 DEF Wrote, Leaves
<1> HIDE DEF n
<1>9. \A b \in Branches : \A i \in DOMAIN log[b] : log[b][i].run # r
  BY <1>2 DEF IInv, EntriesBacked, Backed
<1> HIDE DEF e, l
<1>10. LogOK'
  <2>1. \A j \in DOMAIN n : /\ receipt'[n[j].run] # "none"
                            /\ n[j].kind = "result" => receipt'[n[j].run] \in Settled
    BY <1>5, <1>7, <1>8
  <2>2. CreatesOpened(n)
    BY <1>2, <1>7, <1>8 DEF CreatesOpened
  <2>3. FinishesOwned(l, n, NeverRecorded)
    BY <1>7, <1>8 DEF FinishesOwned
  <2>4. NothingAfterResult(l, n, buffered')
    <3>1. \A i \in DOMAIN l : l[i].run # r
      BY <1>3, <1>9 DEF l
    <3> QED BY <1>7, <1>8, <3>1 DEF NothingAfterResult
  <2>5. ReportsInOrder(l, n, buffered' \cup NeverRecorded, faults' = 0)
    BY <1>7, <1>8 DEF ReportsInOrder
  <2> QED BY <1>3, <1>6, <1>8, <2>1, <2>2, <2>3, <2>4, <2>5, WriteKeeps
<1>11. /\ log'[active] = l \o n
       /\ \A c \in Branches : \A kind : On(log[c], kind) \subseteq On(log'[c], kind)
       /\ \A s \in Runs : Reported(s) => Reported(s)'
  BY <1>3, <1>8, WriteGrows, WriteOn
<1>12. \A s \in On(log'[active], "created") : s = r \/ s \in On(log[active], "created")
  <2>1. \A s \in On(n, "created") : s = r
    BY <1>7, <1>8 DEF On
  <2> QED BY <1>3, <1>8, <1>11, <2>1, OnCat DEF l
<1>13. TypeOK'
  <2>1. LiveRuns' = LiveRuns \cup {r}
    BY <1>3, <1>5 DEF LiveRuns
  <2>2. IsFiniteSet(LiveRuns) /\ r \notin LiveRuns
    BY <1>5, RunsAssumption, FS_Subset DEF LiveRuns
  <2>3. Cardinality(LiveRuns') <= MaxBackgroundRuns
    <3>1. Cardinality(LiveRuns') = Cardinality(LiveRuns) + 1
      BY <2>1, <2>2, FS_AddElement
    <3>2. Cardinality(LiveRuns) \in Nat /\ Cardinality(LiveRuns) < MaxBackgroundRuns
      BY <1>2, <2>2, FS_CardinalityType DEF SlotFree
    <3> QED BY <3>1, <3>2, SlotAssumption
  <2>4. receipt' \in [Runs -> Receipts] /\ managed' \in [Runs -> {"none", "live", "done"}]
    BY <1>2, <1>3 DEF Receipts
  <2>5. log' \in [Branches -> Seq(Entry)]
    BY <1>10 DEF LogOK
  <2> QED BY <1>2, <1>4, <2>3, <2>4, <2>5 DEF TypeOK, IInv
<1>14. MemoryOK'
  <2>1. \A s \in delivered \cup snapshot : receipt[s] \in Settled /\ s # r
    BY <1>2 DEF IInv, MemoryOK, Settled
  <2>2. \A s \in delivered' \cup snapshot' : receipt'[s] \in Settled
    BY <1>2, <1>5, <2>1 DEF IInv, TypeOK
  <2>3. \A s \in detached' : managed'[s] # "none"
    BY <1>2, <1>5 DEF IInv, MemoryOK, TypeOK
  <2> QED BY <1>2, <1>5, <2>2, <2>3 DEF IInv, MemoryOK
<1>15. PendingBacked'
  BY <1>2, <1>3, <1>5 DEF IInv, PendingBacked, Backed, Settled
<1>16. OwnedOK'
  <2>1. CASE lost = {}
    <3>1. n = <<e>> /\ r \in On(n, "created")
      BY <1>7, <1>8, <2>1, OneIs DEF On, e
    <3>2. r \in On(log'[active], "created")
      BY <1>3, <1>8, <1>11, <3>1, OnCat
    <3> QED
      <4>1. \A s \in branchOwned : s \in Runs /\ receipt[s] # "none" /\ (s \in On(log[active], "created") \/ s \in NeverRecorded)
        BY DEF IInv, OwnedOK, TypeOK, NeverRecorded, UnrecordedRuns
      <4>2. \A s \in NeverRecorded : Unrecorded(s)'
        <5>1. CreatesOpened(n)
          BY <1>2, <1>7, <1>8 DEF CreatesOpened
        <5> QED BY <1>3, <1>8, <5>1, StaysUnrecorded
      <4> QED BY <1>2, <1>3, <1>5, <1>11, <3>2, <4>1, <4>2 DEF OwnedOK
  <2>2. CASE lost # {}
    <3>1. log' = log
      BY <1>1, <1>3, <2>2
    <3>2. Unrecorded(r)'
      BY <1>9, <3>1 DEF Unrecorded, On
    <3> QED BY <1>2, <1>5, <3>1, <3>2 DEF IInv, TypeOK, OwnedOK, Unrecorded
  <2> QED BY <2>1, <2>2
<1>17. AdoptedOK'
  <2>1. r \notin detached
    BY <1>5 DEF IInv, MemoryOK
  <2>2. On(log[active], "created") \subseteq Runs
    BY DEF On
  <2> QED BY <1>2, <1>5, <1>12, <2>1, <2>2 DEF IInv, AdoptedOK
<1>18. DeliveredOK'
  BY <1>2, <1>11 DEF IInv, DeliveredOK
<1>19. NothingLost'
  <2>1. On(log[active], "created") \subseteq Runs
    BY DEF On
  <2> QED BY <1>2, <1>5, <1>11, <1>12, <2>1 DEF IInv, NothingLost
<1> QED BY <1>10, <1>13, <1>14, <1>15, <1>16, <1>17, <1>18, <1>19 DEF IInv, LogOK

LEMMA AppendIs ==
  ASSUME NEW S, NEW s \in Seq(S), NEW e \in S
  PROVE  /\ Append(s, e) \in Seq(S)
         /\ \A i \in DOMAIN Append(s, e) :
              (i \in DOMAIN s /\ Append(s, e)[i] = s[i]) \/ Append(s, e)[i] = e
OBVIOUS

LEMMA ProgressKeeps ==
  ASSUME IInv, NEW r \in Runs, MaybeEmitProgress(r)
  PROVE  IInv'
<1> DEFINE m == [kind |-> "progress", run |-> r]
           l == log[active]
<1>1. /\ managed[r] = "live" /\ reports[r] < MaxReports
      /\ reports' = [reports EXCEPT ![r] = @ + 1]
      /\ UNCHANGED <<active, session, paused, managed, current, detached, branchOwned,
                     snapshot, delivered, receipt, missed, moves>>
      /\ OnProgress(r)
  BY DEF MaybeEmitProgress, ShouldEmitProgress
<1>2. /\ log \in [Branches -> Seq(Entry)] /\ active \in Branches /\ l \in Seq(Entry)
      /\ faults \in 0 .. MaxFaults /\ pendingFlush \in Seq(Message) /\ buffered \subseteq Runs
      /\ reports \in [Runs -> 0 .. MaxReports]
  BY DEF IInv, TypeOK
<1>3. m \in Message /\ m \in Entry /\ m.kind = "progress" /\ m.run = r
  BY DEF Entry, Message
<1>4. \/ /\ pendingFlush' = Append(pendingFlush, m) /\ buffered' = buffered \cup {r}
         /\ UNCHANGED <<log, faults>>
      \/ /\ UNCHANGED <<pendingFlush, buffered>>
         /\ \E lost \in SUBSET {m} :
              /\ Spend(Cardinality(lost))
              /\ log' = [log EXCEPT ![active] = IF lost = {} THEN Append(@, m) ELSE @]
      \/ UNCHANGED <<log, pendingFlush, buffered, faults>>
  BY <1>1, <1>3 DEF OnProgress, Enqueue
<1> HIDE DEF m, l
<1>5. /\ pendingFlush' = pendingFlush \/
           (pendingFlush' = Append(pendingFlush, m) /\ r \in buffered')
      /\ buffered' \in {buffered, buffered \cup {r}}
  BY <1>4
<1>6. /\ faults' \in 0 .. MaxFaults /\ (faults' = 0 => faults = 0)
      /\ log' = log \/ log' = [log EXCEPT ![active] = Append(@, m)]
  <2>1. ASSUME NEW lost \in SUBSET {m}, Spend(Cardinality(lost)),
               log' = [log EXCEPT ![active] = IF lost = {} THEN Append(@, m) ELSE @]
        PROVE  /\ faults' \in 0 .. MaxFaults /\ (faults' = 0 => faults = 0)
               /\ log' = log \/ log' = [log EXCEPT ![active] = Append(@, m)]
    <3>0. IsFiniteSet({m})
      BY FS_Singleton
    <3>1. IsFiniteSet(lost)
      BY <3>0, FS_Subset
    <3>2. faults' \in 0 .. MaxFaults /\ (faults' = 0 => faults = 0)
      BY <1>2, <2>1, <3>1, SpendIs
    <3> QED BY <1>2, <2>1, <3>2
  <2> QED BY <1>2, <1>4, <2>1
<1>7. PICK n \in Seq(Entry) :
        /\ log' = [log EXCEPT ![active] = l \o n]
        /\ \A j \in DOMAIN n : j = 1 /\ n[j] = m
  <2>1. CASE log' = log
    <3>1. log' = [log EXCEPT ![active] = l \o <<>>]
      BY <1>2, <2>1 DEF l
    <3> QED BY <1>2, <1>3, <3>1, OneIs
  <2>2. CASE log' = [log EXCEPT ![active] = Append(@, m)]
    <3>1. log' = [log EXCEPT ![active] = l \o <<m>>]
      BY <1>2, <1>3, <2>2, OneIs DEF l
    <3> QED BY <1>2, <1>3, <3>1, OneIs
  <2> QED BY <1>6, <2>1, <2>2
<1>8. Wrote(active, l, n)
  BY <1>2, <1>7 DEF Wrote, Leaves, l
<1>9. receipt[r] = "live"
  BY <1>1 DEF IInv, MemoryOK
<1>10. Steady
  BY <1>1, <1>5, <1>6 DEF Steady
<1>11. LogOK'
  <2>1. \A j \in DOMAIN n : /\ receipt'[n[j].run] # "none"
                            /\ n[j].kind = "result" => receipt'[n[j].run] \in Settled
    BY <1>1, <1>3, <1>7, <1>9
  <2>2. CreatesOpened(n) /\ FinishesOwned(l, n, NeverRecorded)
    BY <1>3, <1>7 DEF CreatesOpened, FinishesOwned
  <2>3. NothingAfterResult(l, n, buffered')
    <3>1. \A i \in DOMAIN l : ~ (l[i].kind = "result" /\ l[i].run = r)
      BY <1>2, <1>9 DEF l, IInv, EntriesBacked, Backed, Settled
    <3> QED BY <1>3, <1>7, <3>1 DEF NothingAfterResult
  <2>4. ReportsInOrder(l, n, buffered' \cup NeverRecorded, faults' = 0)
    BY <1>3, <1>7 DEF ReportsInOrder
  <2> QED BY <1>2, <1>8, <1>10, <2>1, <2>2, <2>3, <2>4, WriteKeeps
<1>12. /\ log'[active] = l \o n
       /\ \A c \in Branches : \A kind : On(log[c], kind) \subseteq On(log'[c], kind)
       /\ \A s \in Runs : Reported(s) => Reported(s)'
  BY <1>2, <1>8, WriteGrows, WriteOn
<1>13. On(log'[active], "created") = On(log[active], "created")
  <2>1. On(n, "created") = {}
    BY <1>3, <1>7 DEF On
  <2>2. \A s : s \in On(log'[active], "created") <=> s \in On(log[active], "created")
    BY <1>2, <1>7, <1>12, <2>1, OnCat DEF l
  <2> QED BY <2>2
<1>14. \A s \in NeverRecorded : Unrecorded(s)'
  <2>1. CreatesOpened(n)
    BY <1>3, <1>7 DEF CreatesOpened
  <2> QED BY <1>2, <1>8, <2>1, StaysUnrecorded
<1>15. TypeOK'
  <2>1. log' \in [Branches -> Seq(Entry)]
    BY <1>11 DEF LogOK
  <2>2. reports' \in [Runs -> 0 .. MaxReports]
    BY <1>1, <1>2, ReportAssumption
  <2>3. pendingFlush' \in Seq(Message) /\ buffered' \subseteq Runs
    <3>1. Append(pendingFlush, m) \in Seq(Message)
      BY <1>2, <1>3, AppendIs
    <3>2. buffered \cup {r} \subseteq Runs
      BY <1>2
    <3> QED BY <1>2, <1>5, <3>1, <3>2
  <2>4. LiveRuns' = LiveRuns
    BY <1>1 DEF LiveRuns
  <2> QED BY <1>1, <1>6, <2>1, <2>2, <2>3, <2>4 DEF IInv, TypeOK
<1>16. MemoryOK'
  BY <1>1 DEF IInv, MemoryOK
<1>17. PendingBacked'
  <2>1. ASSUME NEW i \in DOMAIN pendingFlush'
        PROVE  /\ receipt'[pendingFlush'[i].run] # "none"
               /\ pendingFlush'[i].kind = "result" => receipt'[pendingFlush'[i].run] \in Settled
               /\ pendingFlush'[i].run \in buffered'
    <3>1. \/ i \in DOMAIN pendingFlush /\ pendingFlush'[i] = pendingFlush[i]
          \/ pendingFlush'[i] = m /\ r \in buffered'
      <4>1. CASE pendingFlush' = pendingFlush
        BY <2>1, <4>1
      <4>2. CASE pendingFlush' = Append(pendingFlush, m) /\ r \in buffered'
        BY <1>2, <1>3, <2>1, <4>2, AppendIs
      <4> QED BY <1>5, <4>1, <4>2
    <3> QED BY <1>1, <1>3, <1>5, <1>9, <3>1 DEF IInv, PendingBacked, Backed
  <2> QED BY <2>1 DEF PendingBacked, Backed
<1>18. OwnedOK'
  <2>1. \A s \in branchOwned : /\ receipt[s] # "none"
                               /\ s \in On(log[active], "created") \/ s \in NeverRecorded
    BY DEF IInv, OwnedOK, TypeOK, NeverRecorded, UnrecordedRuns
  <2> QED BY <1>1, <1>13, <1>14, <2>1 DEF OwnedOK
<1>19. AdoptedOK'
  BY <1>1, <1>13 DEF IInv, AdoptedOK
<1>20. DeliveredOK'
  BY <1>1, <1>12 DEF IInv, DeliveredOK
<1>21. NothingLost'
  <2>1. On(log[active], "created") \subseteq Runs
    BY DEF On
  <2> QED BY <1>1, <1>12, <1>13, <2>1 DEF IInv, NothingLost
<1> QED BY <1>11, <1>15, <1>16, <1>17, <1>18, <1>19, <1>20, <1>21 DEF IInv, LogOK

\* What the end of a run writes: its finished entry, then its result.
EndEntries(n, r, lost) ==
  /\ n \in Seq(Entry)
  /\ \A j \in DOMAIN n :
       \/ j = 1 /\ n[j] = [kind |-> "finished", run |-> r]
       \/ n[j] = Result(r) /\ ("finished" \notin lost => j = 2 /\ n[1] = [kind |-> "finished", run |-> r])
  /\ \A i, j \in DOMAIN n : i < j => n[i] = [kind |-> "finished", run |-> r]
  /\ (~paused /\ "result" \notin lost) => \E j \in DOMAIN n : n[j] = Result(r)
  /\ paused => \A j \in DOMAIN n : n[j] # Result(r)

LEMMA PairIs ==
  ASSUME NEW f \in Entry, NEW g \in Entry
  PROVE  /\ <<f>> \o <<g>> \in Seq(Entry) /\ DOMAIN (<<f>> \o <<g>>) = {1, 2}
         /\ (<<f>> \o <<g>>)[1] = f /\ (<<f>> \o <<g>>)[2] = g
         /\ <<>> \o <<g>> = <<g>>
<1>1. <<f>> \in Seq(Entry) /\ <<g>> \in Seq(Entry) /\ Len(<<f>>) = 1 /\ Len(<<g>>) = 1
  OBVIOUS
<1>2. <<f>>[1] = f /\ <<g>>[1] = g
  OBVIOUS
<1>3. 1 + 1 = 2 /\ 1 .. 2 = {1, 2} /\ 1 \in 1 .. 1
  OBVIOUS
<1>4. <<>> \o <<g>> = <<g>>
  OBVIOUS
<1> QED BY <1>1, <1>2, <1>3, <1>4, CatIs

LEMMA EndEntriesAre ==
  ASSUME NEW r \in Runs, NEW lost,
         NEW fin, fin = IF "finished" \in lost THEN <<>> ELSE <<[kind |-> "finished", run |-> r]>>,
         NEW res, res = IF paused \/ "result" \in lost THEN <<>> ELSE <<Result(r)>>
  PROVE  EndEntries(fin \o res, r, lost)
<1> DEFINE f == [kind |-> "finished", run |-> r]
<1>1. f \in Entry /\ Result(r) \in Entry /\ f # Result(r) /\ f.kind = "finished" /\ Result(r).kind = "result"
  BY DEF Entry, Message, Result
<1>f. fin = IF "finished" \in lost THEN <<>> ELSE <<f>>
  OBVIOUS
<1> HIDE DEF f
<1> SUFFICES
      LET n == fin \o res IN
        /\ n \in Seq(Entry)
        /\ \A j \in DOMAIN n :
             \/ j = 1 /\ n[j] = f
             \/ n[j] = Result(r) /\ ("finished" \notin lost => j = 2 /\ n[1] = f)
        /\ \A i, j \in DOMAIN n : i < j => n[i] = f
        /\ (~paused /\ "result" \notin lost) => \E j \in DOMAIN n : n[j] = Result(r)
        /\ paused => \A j \in DOMAIN n : n[j] # Result(r)
  BY DEF EndEntries, f
<1> DEFINE g == Result(r)
<1>g. g \in Entry /\ f # g /\ res = IF paused \/ "result" \in lost THEN <<>> ELSE <<g>>
  BY <1>1
<1> HIDE DEF g
<1>2. CASE "finished" \in lost /\ (paused \/ "result" \in lost)
  <2>1. fin \o res = <<>>
    BY <1>2, <1>f, <1>g
  <2> QED BY <1>2, <2>1
<1>3. CASE "finished" \notin lost /\ (paused \/ "result" \in lost)
  <2>1. <<f>> \in Seq(Entry) /\ DOMAIN <<f>> = {1} /\ <<f>>[1] = f
    BY <1>1, OneIs
  <2>2. fin \o res = <<f>>
    <3>1. fin = <<f>> /\ res = <<>>
      BY <1>3, <1>f, <1>g
    <3> QED BY <1>1, <2>1, <3>1, OneIs
  <2>3. \A j \in DOMAIN (fin \o res) : j = 1 /\ (fin \o res)[j] = f
    BY <2>1, <2>2
  <2> QED BY <1>3, <1>g, <2>1, <2>2, <2>3 DEF g
<1>4. CASE "finished" \in lost /\ ~ (paused \/ "result" \in lost)
  <2>1. fin \o res = <<g>>
    BY <1>1, <1>4, <1>f, <1>g, PairIs
  <2> QED BY <1>1, <1>4, <1>g, <2>1, OneIs DEF g
<1>5. CASE "finished" \notin lost /\ ~ (paused \/ "result" \in lost)
  <2>1. fin \o res = <<f>> \o <<g>>
    BY <1>5, <1>f, <1>g
  <2> QED BY <1>1, <1>5, <1>g, <2>1, PairIs DEF g
<1> QED BY <1>2, <1>3, <1>4, <1>5

LEMMA RunEndsKeeps ==
  ASSUME IInv, NEW r \in Runs, RunEnds(r)
  PROVE  IInv'
<1> DEFINE l == log[active]
<1>1. /\ managed[r] = "live"
      /\ managed' = [managed EXCEPT ![r] = "done"]
      /\ receipt' = [receipt EXCEPT ![r] = "terminal"]
      /\ UNCHANGED <<active, session, paused, current, detached, branchOwned, snapshot,
                     reports, moves>>
  BY DEF RunEnds
<1>2. /\ log \in [Branches -> Seq(Entry)] /\ active \in Branches /\ l \in Seq(Entry)
      /\ receipt \in [Runs -> Receipts] /\ managed \in [Runs -> {"none", "live", "done"}]
      /\ faults \in 0 .. MaxFaults /\ pendingFlush \in Seq(Message) /\ buffered \subseteq Runs
      /\ delivered \subseteq Runs /\ missed \subseteq Runs /\ branchOwned \subseteq Runs
  BY DEF IInv, TypeOK
<1>3. /\ receipt[r] = "live" /\ receipt'[r] = "terminal" /\ managed'[r] = "done"
      /\ \A s \in Runs : s # r => receipt'[s] = receipt[s] /\ managed'[s] = managed[s]
      /\ r \notin delivered \cup snapshot
  BY <1>1, <1>2 DEF IInv, MemoryOK, Settled
\* What is written, in either case.
<1> DEFINE quiet == EndQuietly(r)
           W(n, lost) ==
             /\ EndEntries(n, r, lost)
             /\ log' = [log EXCEPT ![active] = l \o n]
             /\ MayDeliver(r)
             /\ faults' = 0 => lost = {}
             /\ delivered' = IF paused \/ "result" \in lost THEN delivered ELSE delivered \cup {r}
             /\ missed' = IF "result" \in lost THEN missed \cup {r} ELSE missed
             /\ pendingFlush' = IF paused THEN Append(pendingFlush, Result(r)) ELSE pendingFlush
             /\ buffered' = IF paused THEN buffered \cup {r} ELSE buffered
<1>4. quiet \/ EndAndDeliver(r)
  BY DEF RunEnds
<1>5. ASSUME EndAndDeliver(r)
      PROVE  /\ faults' \in 0 .. MaxFaults /\ (faults' = 0 => faults = 0)
             /\ \E n, lost : W(n, lost)
  <2>1. PICK lost \in SUBSET {"finished", "result"} :
          /\ Spend(Cardinality(lost))
          /\ LET fin == IF "finished" \in lost THEN <<>> ELSE <<[kind |-> "finished", run |-> r]>>
                 res == IF paused \/ "result" \in lost THEN <<>> ELSE <<Result(r)>>
             IN  log' = [log EXCEPT ![active] = @ \o fin \o res]
          /\ delivered' = IF paused \/ "result" \in lost THEN delivered ELSE delivered \cup {r}
          /\ missed' = IF "result" \in lost THEN missed \cup {r} ELSE missed
    BY <1>5 DEF EndAndDeliver
  <2> DEFINE fin == IF "finished" \in lost THEN <<>> ELSE <<[kind |-> "finished", run |-> r]>>
             res == IF paused \/ "result" \in lost THEN <<>> ELSE <<Result(r)>>
  <2>2. EndEntries(fin \o res, r, lost)
    BY EndEntriesAre
  <2>3. IsFiniteSet(lost)
    <3>1. IsFiniteSet({"finished", "result"})
      <4>1. IsFiniteSet({"finished"} \cup {"result"})
        BY FS_Singleton, FS_AddElement
      <4>2. {"finished"} \cup {"result"} = {"finished", "result"}
        OBVIOUS
      <4> QED BY <4>1, <4>2
    <3> QED BY <3>1, FS_Subset
  <2>4. faults' \in 0 .. MaxFaults /\ (faults' = 0 => faults = 0 /\ lost = {})
    BY <1>2, <2>1, <2>3, SpendIs
  <2>5. l \o fin \o res = l \o (fin \o res)
    <3>1. fin \in Seq(Entry) /\ res \in Seq(Entry)
      <4>1. [kind |-> "finished", run |-> r] \in Entry /\ Result(r) \in Entry
        BY DEF Entry, Message, Result
      <4> QED BY <4>1, OneIs
    <3> HIDE DEF fin, res, l
    <3> QED BY <1>2, <3>1
  <2>6. log' = [log EXCEPT ![active] = l \o (fin \o res)]
    BY <2>1, <2>5
  <2>7. W(fin \o res, lost)
    <3> HIDE DEF fin, res
    <3> QED BY <1>5, <2>1, <2>2, <2>4, <2>6 DEF EndAndDeliver
  <2> QED BY <2>4, <2>7
<1>6. faults' \in 0 .. MaxFaults /\ (faults' = 0 => faults = 0)
  BY <1>2, <1>4, <1>5 DEF EndQuietly
<1>7. PICK n \in Seq(Entry) :
        /\ log' = [log EXCEPT ![active] = l \o n]
        /\ \/ quiet /\ DOMAIN n = {}
           \/ \E lost : W(n, lost)
  <2>1. CASE quiet
    <3>1. log' = [log EXCEPT ![active] = l \o <<>>]
      BY <1>2, <2>1 DEF EndQuietly
    <3>2. <<>> \in Seq(Entry) /\ DOMAIN <<>> = {}
      OBVIOUS
    <3> HIDE DEF quiet, W, l
    <3> QED BY <2>1, <3>1, <3>2
  <2>2. CASE EndAndDeliver(r)
    <3> HIDE DEF quiet, l
    <3> QED BY <1>5, <2>2 DEF EndEntries
  <2> QED BY <1>4, <2>1, <2>2
<1>8. Wrote(active, l, n)
  BY <1>2, <1>7 DEF Wrote, Leaves
<1>9. /\ buffered' = buffered \/ buffered' = buffered \cup {r}
      /\ pendingFlush' = pendingFlush \/
           (pendingFlush' = Append(pendingFlush, Result(r)) /\ r \in buffered')
      /\ delivered' \subseteq delivered \cup {r}
      /\ missed \subseteq missed' /\ missed' \subseteq missed \cup {r}
  BY <1>2, <1>7 DEF EndQuietly, history
<1>10. Steady
  BY <1>1, <1>3, <1>6, <1>9 DEF Steady, Settled
\* Only entries of the run, its finished entry first.
<1> DEFINE f == [kind |-> "finished", run |-> r]
<1>11. /\ \A j \in DOMAIN n : n[j] = f \/ n[j] = Result(r)
       /\ \A i, j \in DOMAIN n : i < j => n[i] = f
       /\ DOMAIN n # {} => MayDeliver(r)
       /\ \A j \in DOMAIN n : n[j] = Result(r) /\ faults' = 0 => j = 2 /\ n[1] = f
  <2>1. CASE quiet /\ DOMAIN n = {}
    BY <2>1
  <2>2. CASE \E lost : W(n, lost)
    <3>1. PICK lost : W(n, lost)
      BY <2>2
    <3>2. EndEntries(n, r, lost) /\ MayDeliver(r) /\ (faults' = 0 => lost = {})
      BY <3>1
    <3>3. /\ \A j \in DOMAIN n : n[j] = f \/ n[j] = Result(r)
          /\ \A i, j \in DOMAIN n : i < j => n[i] = f
      BY <3>2 DEF EndEntries
    <3>4. f # Result(r)
      BY DEF Result
    <3>5. ASSUME NEW j \in DOMAIN n, n[j] = Result(r), faults' = 0 PROVE j = 2 /\ n[1] = f
      <4>1. "finished" \notin lost
        BY <3>2, <3>5
      <4> HIDE DEF f
      <4>2. j = 2 /\ n[1] = [kind |-> "finished", run |-> r]
        BY <3>2, <3>4, <3>5, <4>1 DEF EndEntries, f
      <4> QED BY <4>2 DEF f
    <3> HIDE DEF f, W, quiet
    <3> QED BY <3>2, <3>3, <3>5
  <2> HIDE DEF f, W, quiet
  <2> QED BY <1>7, <2>1, <2>2
<1>12. /\ f.kind = "finished" /\ f.run = r
       /\ Result(r).kind = "result" /\ Result(r).run = r /\ Result(r) \in Message /\ Result(r) # f
  BY DEF Result, Message
<1> HIDE DEF f, l
<1>13. MayDeliver(r) => r \in On(l, "created") \/ r \in NeverRecorded
  BY DEF MayDeliver, IInv, OwnedOK, NeverRecorded, UnrecordedRuns, l
<1>14. LogOK'
  <2>1. \A j \in DOMAIN n : /\ receipt'[n[j].run] # "none"
                            /\ n[j].kind = "result" => receipt'[n[j].run] \in Settled
    BY <1>3, <1>11, <1>12 DEF Settled
  <2>2. CreatesOpened(n)
    BY <1>11, <1>12 DEF CreatesOpened
  <2>3. FinishesOwned(l, n, NeverRecorded)
    BY <1>11, <1>12, <1>13 DEF FinishesOwned, On
  <2>4. NothingAfterResult(l, n, buffered')
    <3>1. \A i \in DOMAIN l : ~ (l[i].kind = "result" /\ l[i].run = r)
      BY <1>2, <1>3 DEF l, IInv, EntriesBacked, Backed, Settled
    <3> QED BY <1>11, <1>12, <3>1 DEF NothingAfterResult
  <2>5. ReportsInOrder(l, n, buffered' \cup NeverRecorded, faults' = 0)
    <3> SUFFICES ASSUME NEW j \in DOMAIN n, n[j].kind = "result",
                        n[j].run \notin buffered' \cup NeverRecorded
                 PROVE  ReportOrder(l \o n, Len(l) + j, n[j].run, faults' = 0)
      BY DEF ReportsInOrder
    <3>1. n[j] = Result(r) /\ n[j].run = r /\ r \notin NeverRecorded
      BY <1>11, <1>12
    <3>2. PICK i \in DOMAIN l : l[i] = [kind |-> "created", run |-> r]
      BY <1>11, <1>13, <3>1 DEF On
    <3>3. /\ Len(l) \in Nat /\ Len(n) \in Nat /\ DOMAIN l = 1 .. Len(l) /\ DOMAIN n = 1 .. Len(n)
          /\ \A k \in 1 .. Len(l) : (l \o n)[k] = l[k]
          /\ \A k \in 1 .. Len(n) : (l \o n)[Len(l) + k] = n[k]
      BY <1>2, CatIs
    <3>4. i \in 1 .. ((Len(l) + j) - 1) /\ (l \o n)[i] = [kind |-> "created", run |-> r]
      BY <3>2, <3>3
    <3>5. ASSUME faults' = 0
          PROVE  \E k \in (i + 1) .. ((Len(l) + j) - 1) : (l \o n)[k] = [kind |-> "finished", run |-> r]
      <4>1. j = 2 /\ n[1] = f /\ 1 \in 1 .. Len(n)
        BY <1>11, <3>1, <3>3, <3>5
      <4>2. Len(l) + 1 \in (i + 1) .. ((Len(l) + j) - 1) /\ (l \o n)[Len(l) + 1] = f
        BY <3>2, <3>3, <4>1
      <4> QED BY <4>2 DEF f
    <3> QED BY <3>1, <3>4, <3>5 DEF ReportOrder
  <2> QED BY <1>2, <1>8, <1>10, <2>1, <2>2, <2>3, <2>4, <2>5, WriteKeeps
<1>15. /\ log'[active] = l \o n
       /\ \A c \in Branches : \A kind : On(log[c], kind) \subseteq On(log'[c], kind)
       /\ \A s \in Runs : Reported(s) => Reported(s)'
       /\ \A s \in Runs : Reported(s)' <=> \E c \in Branches : s \in On(log'[c], "result")
  BY <1>2, <1>8, WriteGrows, WriteOn
<1>16. On(log'[active], "created") = On(log[active], "created")
  <2>1. On(n, "created") = {}
    BY <1>11, <1>12 DEF On
  <2>2. \A s : s \in On(log'[active], "created") <=> s \in On(log[active], "created")
    BY <1>2, <1>7, <1>15, <2>1, OnCat DEF l
  <2> QED BY <2>2
<1>17. \A s \in NeverRecorded : Unrecorded(s)'
  <2>1. CreatesOpened(n)
    BY <1>11, <1>12 DEF CreatesOpened
  <2> QED BY <1>2, <1>8, <2>1, StaysUnrecorded
\* The result is on the branch when it counts as delivered.
<1>18. ASSUME MayDeliver(r)
       PROVE  /\ r \in delivered' => r \in On(log'[active], "result")
              /\ ~ paused => r \in On(log'[active], "result") \/ r \in missed'
  <2>1. PICK lost : W(n, lost)
    BY <1>7, <1>18 DEF EndQuietly
  <2>2. (~paused /\ "result" \notin lost) => r \in On(n, "result")
    <3>1. (~paused /\ "result" \notin lost) => \E j \in DOMAIN n : n[j] = Result(r)
      BY <2>1 DEF EndEntries
    <3> QED BY <3>1 DEF On, Result
  <2>3. r \in On(n, "result") => r \in On(log'[active], "result")
    BY <1>2, <1>7, <1>15, OnCat
  <2> HIDE DEF quiet
  <2> QED BY <1>3, <2>1, <2>2, <2>3
<1>19. TypeOK'
  <2>1. log' \in [Branches -> Seq(Entry)]
    BY <1>14 DEF LogOK
  <2>2. pendingFlush' \in Seq(Message) /\ buffered' \subseteq Runs
    <3>1. Append(pendingFlush, Result(r)) \in Seq(Message)
      BY <1>2, <1>12, AppendIs
    <3> QED BY <1>2, <1>9, <3>1
  <2>3. delivered' \subseteq Runs /\ missed' \subseteq Runs
    BY <1>2, <1>9
  <2>4. receipt' \in [Runs -> Receipts] /\ managed' \in [Runs -> {"none", "live", "done"}]
    BY <1>1, <1>2 DEF Receipts
  <2>5. Cardinality(LiveRuns') <= MaxBackgroundRuns
    <3>1. LiveRuns' \subseteq LiveRuns /\ IsFiniteSet(LiveRuns)
      BY <1>2, <1>3, RunsAssumption, FS_Subset DEF LiveRuns
    <3>2. Cardinality(LiveRuns') <= Cardinality(LiveRuns) /\ IsFiniteSet(LiveRuns')
      BY <3>1, FS_Subset
    <3>3. Cardinality(LiveRuns') \in Nat /\ Cardinality(LiveRuns) \in Nat
      BY <3>1, <3>2, FS_CardinalityType
    <3> QED BY <3>2, <3>3, SlotAssumption DEF IInv, TypeOK
  <2> QED BY <1>1, <1>6, <2>1, <2>2, <2>3, <2>4, <2>5 DEF IInv, TypeOK
<1>20. MemoryOK'
  <2>1. \A s \in delivered' \cup snapshot' : s = r \/ (s \in Runs /\ receipt[s] \in Settled)
    BY <1>1, <1>9 DEF IInv, MemoryOK, TypeOK
  <2>2. \A s \in delivered' \cup snapshot' : receipt'[s] \in Settled
    BY <1>3, <2>1 DEF Settled
  <2>3. \A s \in detached' : managed'[s] # "none"
    BY <1>1, <1>3 DEF IInv, MemoryOK, TypeOK
  <2> QED BY <1>1, <1>3, <2>2, <2>3 DEF IInv, MemoryOK
<1>21. PendingBacked'
  <2>1. ASSUME NEW i \in DOMAIN pendingFlush'
        PROVE  /\ receipt'[pendingFlush'[i].run] # "none"
               /\ pendingFlush'[i].kind = "result" => receipt'[pendingFlush'[i].run] \in Settled
               /\ pendingFlush'[i].run \in buffered'
    <3>1. \/ i \in DOMAIN pendingFlush /\ pendingFlush'[i] = pendingFlush[i]
          \/ pendingFlush'[i] = Result(r) /\ r \in buffered'
      <4>1. CASE pendingFlush' = pendingFlush
        BY <2>1, <4>1
      <4>2. CASE pendingFlush' = Append(pendingFlush, Result(r)) /\ r \in buffered'
        BY <1>2, <1>12, <2>1, <4>2, AppendIs
      <4> QED BY <1>9, <4>1, <4>2
    <3>2. CASE pendingFlush'[i] = Result(r) /\ r \in buffered'
      BY <1>3, <1>12, <3>2 DEF Settled
    <3>3. CASE i \in DOMAIN pendingFlush /\ pendingFlush'[i] = pendingFlush[i]
      <4>1. /\ Backed(pendingFlush[i]) /\ pendingFlush[i].run \in buffered
            /\ pendingFlush[i].run \in Runs
        BY <1>2, <3>3 DEF IInv, PendingBacked, Message
      <4>2. pendingFlush[i].run \in buffered'
        BY <1>9, <4>1
      <4> QED BY <1>10, <3>3, <4>1, <4>2 DEF Backed, Steady
    <3> QED BY <3>1, <3>2, <3>3
  <2> QED BY <2>1 DEF PendingBacked, Backed
<1>22. OwnedOK'
  <2>1. \A s \in branchOwned : /\ receipt[s] # "none" /\ s \in Runs
                               /\ s \in On(log[active], "created") \/ s \in NeverRecorded
    BY DEF IInv, OwnedOK, TypeOK, NeverRecorded, UnrecordedRuns
  <2> QED BY <1>1, <1>10, <1>16, <1>17, <2>1 DEF OwnedOK, Steady
<1>23. AdoptedOK'
  <2>1. On(log[active], "created") \subseteq Runs
    BY DEF On
  <2> QED BY <1>1, <1>3, <1>16, <2>1 DEF IInv, AdoptedOK
<1>24. DeliveredOK'
  <2>1. ASSUME NEW s \in delivered' PROVE \E b \in Branches : s \in On(log'[b], "result")
    <3>1. CASE s \in delivered
      BY <1>15, <3>1 DEF IInv, DeliveredOK
    <3>2. CASE s \notin delivered
      <4>1. s = r /\ MayDeliver(r)
        BY <1>4, <1>9, <3>2 DEF EndQuietly, EndAndDeliver
      <4> QED BY <1>2, <1>18, <4>1
    <3> QED BY <3>1, <3>2
  <2> QED BY <2>1 DEF DeliveredOK
<1>25. NothingLost'
  <2> SUFFICES ASSUME session = "open", NEW s \in On(log[active], "created") \ missed',
                      receipt'[s] = "terminal"
               PROVE  Reported(s)'
    BY <1>1, <1>16 DEF NothingLost
  <2>1. s \in Runs
    BY DEF On
  <2>2. CASE s # r
    <3>1. receipt[s] = "terminal" /\ s \notin missed
      BY <1>3, <1>9, <2>1, <2>2
    <3>2. Reported(s)
      BY <3>1 DEF IInv, NothingLost
    <3> QED BY <1>15, <2>1, <3>2
  <2>3. CASE s = r
    <3>1. MayDeliver(r) /\ ~ paused
      BY <1>1, <1>3, <2>3 DEF IInv, AdoptedOK, MemoryOK, MayDeliver, WasDelivered
    <3>2. r \in On(log'[active], "result")
      BY <1>18, <2>3, <3>1
    <3> QED BY <1>2, <1>15, <2>3, <3>2
  <2> QED BY <2>2, <2>3
<1> QED BY <1>14, <1>19, <1>20, <1>21, <1>22, <1>23, <1>24, <1>25 DEF IInv, LogOK

------------------------------------------------------------------------------
(* The reconcile of a session or of a leaf that is opened                  *)

\* What reconcile writes on a branch: the finished entries that are due, then the
\* results and the buffered messages that are sent.
ReconcileEntries(n, l, both) ==
  /\ n \in Seq(Entry)
  /\ \A j \in DOMAIN n :
       /\ n[j].kind # "created"
       /\ n[j].kind = "finished" => n[j].run \in Undelivered(l)
       /\ n[j].kind \in {"progress", "result"} =>
            n[j].run \in buffered \/ (n[j].run \in Undelivered(l) /\ n[j].kind = "result")
       /\ receipt[n[j].run] # "none" /\ (n[j].kind = "result" => receipt[n[j].run] \in Settled)
  /\ \A i, j \in DOMAIN n : i < j /\ n[i].kind = "result" =>
       n[j].kind # "finished" /\ (n[i].run = n[j].run => n[j].run \in buffered)
  /\ both => \A j \in DOMAIN n : n[j].kind = "result" /\ n[j].run \notin buffered =>
               \/ n[j].run \in On(l, "finished")
               \/ \E i \in DOMAIN n : i < j /\ n[i] = [kind |-> "finished", run |-> n[j].run]

\* The messages of a reconcile: one for each result it reports, then the buffered ones.
MessagesOf(res, flush) == EntriesFor("result", res) \o flush

LEMMA MessagesAre ==
  ASSUME IInv, NEW b \in Branches, NEW l \in Leaves(b), NEW flush \in Seq(Message),
         NEW res \in InOrder(l, Undelivered(l)),
         \A i \in DOMAIN flush : Backed(flush[i]) /\ flush[i].run \in buffered
  PROVE  /\ MessagesOf(res, flush) \in Seq(Message)
         /\ \A i \in DOMAIN MessagesOf(res, flush) :
              /\ \/ MessagesOf(res, flush)[i].run \in buffered
                 \/ /\ MessagesOf(res, flush)[i].run \in Undelivered(l)
                    /\ MessagesOf(res, flush)[i].kind = "result"
              /\ Backed(MessagesOf(res, flush)[i])
         /\ \A i, j \in DOMAIN MessagesOf(res, flush) :
              /\ MessagesOf(res, flush)[i].run = MessagesOf(res, flush)[j].run
              /\ MessagesOf(res, flush)[j].run \notin buffered
              => i = j
         /\ \A r \in Undelivered(l) : \E i \in DOMAIN MessagesOf(res, flush) :
              MessagesOf(res, flush)[i] = Result(r)
<1> DEFINE msgs == MessagesOf(res, flush)
<1> DEFINE R == EntriesFor("result", res)
<1>1. l \in Seq(Entry) /\ CreatedOnce(l)
  BY LeafFacts
<1>2. Undelivered(l) \in SUBSET Runs /\ Undelivered(l) \subseteq On(l, "created")
  BY DEF Undelivered, On
<1>3. /\ R \in Seq(Message)
      /\ \A i \in DOMAIN R : R[i].kind = "result" /\ R[i].run \in Undelivered(l)
      /\ \A r \in Undelivered(l) : \E i \in DOMAIN R : R[i] = [kind |-> "result", run |-> r]
      /\ \A i, j \in DOMAIN R : R[i].run = R[j].run => i = j
  BY <1>1, <1>2, EntriesForIs DEF Kinds
<1>4. msgs = R \o flush
  BY DEF MessagesOf
<1> HIDE DEF R, msgs
<1>6. /\ msgs \in Seq(Message) /\ Len(R) \in Nat
      /\ DOMAIN R = 1 .. Len(R)
      /\ \A i \in DOMAIN R : i \in DOMAIN msgs /\ msgs[i] = R[i]
      /\ \A i \in DOMAIN msgs :
           (i \in DOMAIN R /\ msgs[i] = R[i]) \/ (i - Len(R) \in DOMAIN flush /\ msgs[i] = flush[i - Len(R)])
  <2>1. Len(R) \in Nat /\ DOMAIN R = 1 .. Len(R)
    BY <1>3, SeqIs
  <2>2. /\ R \o flush \in Seq(Message)
        /\ \A i \in DOMAIN R : i \in DOMAIN (R \o flush) /\ (R \o flush)[i] = R[i]
        /\ \A i \in DOMAIN (R \o flush) :
             (i \in DOMAIN R /\ (R \o flush)[i] = R[i])
             \/ (i - Len(R) \in DOMAIN flush /\ (R \o flush)[i] = flush[i - Len(R)])
    BY <1>3, CatOf
  <2> QED BY <1>4, <2>1, <2>2
<1>7. \A r \in Undelivered(l) : receipt[r] = "terminal"
  BY DEF Undelivered
<1>8. \A i \in DOMAIN msgs :
        /\ msgs[i].run \in buffered \/ (msgs[i].run \in Undelivered(l) /\ msgs[i].kind = "result")
        /\ Backed(msgs[i])
  BY <1>3, <1>6, <1>7 DEF Backed, Settled
<1>9. ASSUME NEW i \in DOMAIN msgs, NEW j \in DOMAIN msgs, msgs[i].run = msgs[j].run,
             msgs[j].run \notin buffered
      PROVE  i = j
  <2>1. i \in DOMAIN R /\ msgs[i] = R[i] /\ j \in DOMAIN R /\ msgs[j] = R[j]
    BY <1>6, <1>9
  <2> QED BY <1>3, <1>9, <2>1
<1>10. ASSUME NEW r \in Undelivered(l) PROVE \E i \in DOMAIN msgs : msgs[i] = Result(r)
  <2>1. PICK i \in DOMAIN R : R[i] = [kind |-> "result", run |-> r]
    BY <1>3
  <2> QED BY <1>6, <2>1 DEF Result
<1> QED BY <1>6, <1>8, <1>9, <1>10 DEF msgs

LEMMA ReconcileEntriesAre ==
  ASSUME IInv, NEW b \in Branches, NEW l \in Leaves(b), NEW msgs \in Seq(Message),
         \A i \in DOMAIN msgs :
           /\ msgs[i].run \in buffered \/ (msgs[i].run \in Undelivered(l) /\ msgs[i].kind = "result")
           /\ Backed(msgs[i]),
         \A i, j \in DOMAIN msgs :
           msgs[i].run = msgs[j].run /\ msgs[j].run \notin buffered => i = j,
         NEW due, due = Undelivered(l) \ On(l, "finished"), NEW lostFin,
         NEW keep \in SUBSET DOMAIN msgs, NEW both, both => lostFin = {},
         NEW fin \in InOrder(l, due \ lostFin), NEW f \in Ascending(keep)
  PROVE  ReconcileEntries(EntriesFor("finished", fin) \o SentIn(f, msgs), l, both)
<1> DEFINE F == EntriesFor("finished", fin)
           sent == SentIn(f, msgs)
           n == F \o sent
<1>1. l \in Seq(Entry) /\ CreatedOnce(l)
  BY LeafFacts
<1>2. due \ lostFin \in SUBSET Runs /\ due \subseteq On(l, "created")
  BY DEF Undelivered, On
<1>3. /\ F \in Seq(Entry)
      /\ \A i \in DOMAIN F : F[i].kind = "finished" /\ F[i].run \in due \ lostFin
      /\ \A r \in due \ lostFin : \E i \in DOMAIN F : F[i] = [kind |-> "finished", run |-> r]
  <2> DEFINE S == due \ lostFin
  <2>1. S \in SUBSET Runs /\ "finished" \in Kinds /\ fin \in InOrder(l, S)
    BY <1>2 DEF Kinds
  <2> HIDE DEF S
  <2>2. /\ F \in Seq(Entry)
        /\ \A i \in DOMAIN F : F[i].kind = "finished" /\ F[i].run \in S
        /\ \A r \in S : \E i \in DOMAIN F : F[i] = [kind |-> "finished", run |-> r]
    BY <1>1, <2>1, EntriesForIs
  <2> QED BY <2>2 DEF S
<1>5. sent \in Seq(Message) /\ SentFrom(f, sent, msgs, keep)
  BY SentIs
<1> HIDE DEF F, sent
<1>7. sent \in Seq(Entry) /\ Len(sent) \in Nat /\ DOMAIN sent = 1 .. Len(sent)
  <2>1. Message \subseteq Entry
    BY DEF Entry
  <2> QED BY <1>5, <2>1
<1>8. /\ \A i \in DOMAIN sent : f[i] \in DOMAIN msgs /\ sent[i] = msgs[f[i]]
                                 /\ sent[i].kind \in {"progress", "result"}
      /\ \A i, j \in DOMAIN sent : i < j => f[i] < f[j]
  <2>1. \A i \in DOMAIN sent : sent[i] \in Message
    BY <1>5
  <2> QED BY <1>5, <1>7, <2>1 DEF SentFrom, Message
<1> HIDE DEF n
<1>9. /\ n \in Seq(Entry) /\ Len(F) \in Nat /\ DOMAIN F = 1 .. Len(F)
      /\ DOMAIN n = 1 .. Len(F) + Len(sent)
      /\ \A i \in DOMAIN F : i \in DOMAIN n /\ n[i] = F[i]
      /\ \A i \in DOMAIN n : i \in DOMAIN F \/ (i - Len(F) \in DOMAIN sent /\ n[i] = sent[i - Len(F)])
  BY <1>3, <1>7, CatIs, CatOf DEF n
<1>10. /\ \A i \in DOMAIN F : n[i].kind = "finished" /\ n[i].run \in due
       /\ \A i \in DOMAIN n : n[i].kind # "finished" =>
            i - Len(F) \in DOMAIN sent /\ n[i] = sent[i - Len(F)]
  <2>1. ASSUME NEW i \in DOMAIN F PROVE n[i].kind = "finished" /\ n[i].run \in due
    <3>1. F[i].kind = "finished" /\ F[i].run \in due
      BY <1>3
    <3>2. n[i] = F[i]
      BY <1>9
    <3> QED BY <3>1, <3>2
  <2>2. ASSUME NEW i \in DOMAIN n, n[i].kind # "finished"
        PROVE  i - Len(F) \in DOMAIN sent /\ n[i] = sent[i - Len(F)]
    BY <1>9, <2>1, <2>2
  <2> QED BY <2>1, <2>2
<1>11. \A i \in DOMAIN n : n[i].kind = "finished" => i \in DOMAIN F
  BY <1>8, <1>9
<1>12. \A r \in due : r \in Undelivered(l) /\ receipt[r] = "terminal"
  BY DEF Undelivered
<1>13. ASSUME NEW j \in DOMAIN n
       PROVE  /\ n[j].kind # "created"
              /\ n[j].kind = "finished" => n[j].run \in Undelivered(l)
              /\ n[j].kind \in {"progress", "result"} =>
                   n[j].run \in buffered \/ (n[j].run \in Undelivered(l) /\ n[j].kind = "result")
              /\ receipt[n[j].run] # "none" /\ (n[j].kind = "result" => receipt[n[j].run] \in Settled)
  <2>1. CASE n[j].kind = "finished"
    BY <1>10, <1>11, <1>12, <2>1
  <2>2. CASE n[j].kind # "finished"
    <3>1. PICK k \in DOMAIN msgs : n[j] = msgs[k] /\ n[j].kind \in {"progress", "result"}
      BY <1>8, <1>10, <2>2
    <3> QED BY <3>1 DEF Backed
  <2> QED BY <2>1, <2>2
<1>14. ASSUME NEW i \in DOMAIN n, NEW j \in DOMAIN n, i < j, n[i].kind = "result"
       PROVE  n[j].kind # "finished" /\ (n[i].run = n[j].run => n[j].run \in buffered)
  <2>1. i - Len(F) \in DOMAIN sent /\ n[i] = sent[i - Len(F)]
    BY <1>10, <1>14
  <2>2. i \in Int /\ j \in Int /\ i > Len(F) /\ j > Len(F)
    BY <1>7, <1>9, <1>14, <2>1
  <2>3. n[j].kind # "finished" /\ j - Len(F) \in DOMAIN sent /\ n[j] = sent[j - Len(F)]
    <3>1. j \notin DOMAIN F
      BY <1>9, <2>2
    <3> QED BY <1>9, <1>10, <1>11, <3>1
  <2>4. i - Len(F) < j - Len(F)
    BY <1>9, <1>14, <2>2
  <2>5. /\ f[i - Len(F)] < f[j - Len(F)]
        /\ f[i - Len(F)] \in DOMAIN msgs /\ f[j - Len(F)] \in DOMAIN msgs
        /\ n[i] = msgs[f[i - Len(F)]] /\ n[j] = msgs[f[j - Len(F)]]
    BY <1>8, <2>1, <2>3, <2>4
  <2>6. f[i - Len(F)] # f[j - Len(F)]
    <3>1. DOMAIN msgs \subseteq Int
      OBVIOUS
    <3> QED BY <2>5, <3>1
  <2>7. n[i].run = n[j].run => n[j].run \in buffered
    BY <2>5, <2>6
  <2> QED BY <2>3, <2>7
<1>15. ASSUME both, NEW j \in DOMAIN n, n[j].kind = "result", n[j].run \notin buffered
       PROVE  \/ n[j].run \in On(l, "finished")
              \/ \E i \in DOMAIN n : i < j /\ n[i] = [kind |-> "finished", run |-> n[j].run]
  <2>1. n[j].run \in Undelivered(l)
    BY <1>13, <1>15
  <2>2. ASSUME n[j].run \notin On(l, "finished")
        PROVE  \E i \in DOMAIN n : i < j /\ n[i] = [kind |-> "finished", run |-> n[j].run]
    <3>1. PICK i \in DOMAIN F : F[i] = [kind |-> "finished", run |-> n[j].run]
      BY <1>3, <1>15, <2>1, <2>2
    <3>2. i \in DOMAIN n /\ n[i] = F[i] /\ i < j
      <4>1. j - Len(F) \in DOMAIN sent
        BY <1>10, <1>15
      <4>2. j - Len(F) >= 1 /\ j \in Int
        BY <1>7, <1>9, <4>1
      <4>3. j > Len(F) /\ i <= Len(F) /\ i \in Int
        BY <1>9, <3>1, <4>2
      <4>4. i \in DOMAIN n /\ n[i] = F[i]
        BY <1>9
      <4> QED BY <4>2, <4>3, <4>4
    <3> QED BY <3>1, <3>2
  <2> QED BY <2>2
<1> QED
  <2>1. ReconcileEntries(n, l, both)
    BY <1>9, <1>13, <1>14, <1>15 DEF ReconcileEntries
  <2> QED BY <2>1 DEF n, F, sent

LEMMA ReconcileKeeps ==
  ASSUME IInv, NEW b \in Branches, NEW l \in Leaves(b),
         NEW kept \in SUBSET Runs, NEW apart \in SUBSET Runs, NEW flush \in Seq(Message),
         Reconcile(b, l, kept, apart, flush),
         \A r \in apart : managed[r] # "none",
         \A i \in DOMAIN flush : Backed(flush[i]) /\ flush[i].run \in buffered,
         pendingFlush' \in {pendingFlush, <<>>}, moves' \in 0 .. MaxMoves,
         UNCHANGED <<managed, reports, receipt, buffered>>
  PROVE  IInv'
<1> DEFINE owned == On(l, "created")
           live == owned \cap LiveRuns
           report == Undelivered(l)
           due == report \ On(l, "finished")
<1>a. PICK lostFin \in SUBSET due :
        \E fin \in InOrder(l, due \ lostFin), res \in InOrder(l, report) :
          \E lostMsg \in SUBSET DOMAIN (EntriesFor("result", res) \o flush) :
            /\ Spend(Cardinality(lostFin) + Cardinality(lostMsg))
            /\ SendAll(b, l \o EntriesFor("finished", fin), EntriesFor("result", res) \o flush, lostMsg)
  BY DEF Reconcile
<1>b. PICK fin \in InOrder(l, due \ lostFin), res \in InOrder(l, report) :
        \E lostMsg \in SUBSET DOMAIN MessagesOf(res, flush) :
          /\ Spend(Cardinality(lostFin) + Cardinality(lostMsg))
          /\ SendAll(b, l \o EntriesFor("finished", fin), MessagesOf(res, flush), lostMsg)
  BY <1>a DEF MessagesOf
<1> DEFINE msgs == MessagesOf(res, flush)
<1>c. PICK lostMsg \in SUBSET DOMAIN msgs :
        /\ Spend(Cardinality(lostFin) + Cardinality(lostMsg))
        /\ SendAll(b, l \o EntriesFor("finished", fin), msgs, lostMsg)
  BY <1>b
<1>1. PICK f \in Ascending(DOMAIN msgs \ lostMsg) :
        LET told == ResultsIn(SentIn(f, msgs))
        IN  /\ log' = [log EXCEPT ![b] = l \o EntriesFor("finished", fin) \o SentIn(f, msgs)]
            /\ delivered' = delivered \cup told
            /\ missed' = {r \in Runs : \E i \in lostMsg : msgs[i] = Result(r)} \ told
  <2> HIDE DEF msgs
  <2> QED BY <1>c DEF SendAll, SentIn
<1>2. /\ active' = b /\ session' = "open" /\ paused' = FALSE
      /\ branchOwned' = owned /\ snapshot' = On(l, "result")
      /\ current' = kept \cup live /\ detached' = apart \ live
  BY DEF Reconcile
<1> DEFINE keep == DOMAIN msgs \ lostMsg
           sent == SentIn(f, msgs)
           told == ResultsIn(sent)
           F == EntriesFor("finished", fin)
           n == F \o sent
           gone == {r \in Runs : \E i \in lostMsg : msgs[i] = Result(r)}
<1>3. /\ Spend(Cardinality(lostFin) + Cardinality(lostMsg))
      /\ log' = [log EXCEPT ![b] = l \o F \o sent]
      /\ delivered' = delivered \cup told
      /\ missed' = gone \ told
  BY <1>c, <1>1
<1>4. /\ msgs \in Seq(Message)
      /\ \A i \in DOMAIN msgs :
           /\ msgs[i].run \in buffered \/ (msgs[i].run \in report /\ msgs[i].kind = "result")
           /\ Backed(msgs[i])
      /\ \A i, j \in DOMAIN msgs : msgs[i].run = msgs[j].run /\ msgs[j].run \notin buffered => i = j
      /\ \A r \in report : \E i \in DOMAIN msgs : msgs[i] = Result(r)
  BY MessagesAre
<1>5. l \in Seq(Entry) /\ \A i \in DOMAIN l : Backed(l[i]) /\ l[i].run \in Runs
  BY LeafFacts
<1>6. /\ log \in [Branches -> Seq(Entry)] /\ faults \in 0 .. MaxFaults
      /\ buffered \subseteq Runs /\ receipt \in [Runs -> Receipts]
  BY DEF IInv, TypeOK
<1>7. owned \subseteq Runs /\ report \subseteq owned /\ On(l, "result") \subseteq Runs
  BY DEF Undelivered, On
<1>8. faults' \in 0 .. MaxFaults /\ (faults' = 0 => faults = 0 /\ lostFin = {})
  <2>1. IsFiniteSet(lostFin) /\ lostFin \subseteq Runs
    <3>1. lostFin \subseteq Runs
      BY <1>7
    <3> QED BY <3>1, RunsAssumption, FS_Subset
  <2>2. IsFiniteSet(lostMsg)
    <3> HIDE DEF msgs
    <3>1. Len(msgs) \in Nat /\ DOMAIN msgs = 1 .. Len(msgs)
      BY <1>4, SeqIs
    <3>2. IsFiniteSet(DOMAIN msgs)
      BY <3>1, FS_Interval
    <3> QED BY <3>2, FS_Subset
  <2>3. /\ Cardinality(lostFin) \in Nat /\ Cardinality(lostMsg) \in Nat
        /\ (Cardinality(lostFin) = 0 <=> lostFin = {})
    BY <2>1, <2>2, FS_CardinalityType, FS_EmptySet
  <2> HIDE DEF msgs, due
  <2> QED BY <1>3, <1>6, <2>3, BoundAssumption DEF Spend
<1> DEFINE both == faults' = 0
<1>9. ReconcileEntries(n, l, both)
  <2> HIDE DEF msgs
  <2>1. keep \in SUBSET DOMAIN msgs /\ (both => lostFin = {})
    BY <1>8
  <2> HIDE DEF keep, both
  <2> QED BY <1>4, <2>1, ReconcileEntriesAre
<1>10. sent \in Seq(Message) /\ F \in Seq(Entry) /\ SentFrom(f, sent, msgs, keep)
  <2>1. keep \in SUBSET DOMAIN msgs /\ f \in Ascending(keep)
    OBVIOUS
  <2>2. F \in Seq(Entry)
    <3> DEFINE S == due \ lostFin
    <3>1. S \in SUBSET Runs /\ "finished" \in Kinds /\ fin \in InOrder(l, S) /\ CreatedOnce(l)
      BY <1>7, LeafFacts DEF Kinds
    <3> HIDE DEF S
    <3> QED BY <1>5, <3>1, EntriesForIs
  <2> HIDE DEF msgs, keep, F
  <2> QED BY <1>4, <2>1, <2>2, SentIs
<1> HIDE DEF msgs
<1>11. sent \in Seq(Entry)
  <2>1. Message \subseteq Entry
    BY DEF Entry
  <2> HIDE DEF sent
  <2> QED BY <1>10, <2>1
<1>12. n \in Seq(Entry) /\ log' = [log EXCEPT ![b] = l \o n] /\ Wrote(b, l, n)
  <2>1. n \in Seq(Entry)
    BY <1>9 DEF ReconcileEntries
  <2>2. l \o F \o sent = l \o (F \o sent)
    <3> HIDE DEF F, sent
    <3> QED BY <1>5, <1>10, <1>11
  <2> QED BY <1>3, <2>1, <2>2 DEF Wrote
\* Each result that is reported is sent or lost, and what is sent is in the log.
<1>13. \A r \in told : r \in On(n, "result")
  <2>1. ASSUME NEW r \in told PROVE r \in On(sent, "result")
    BY <2>1 DEF ResultsIn, On, Result
  <2> HIDE DEF sent, F
  <2> QED BY <1>10, <1>11, <2>1, OnCat
<1>14. \A r \in report : r \in told \/ r \in missed'
  <2> SUFFICES ASSUME NEW r \in report PROVE r \in told \/ r \in gone
    BY <1>3
  <2>1. PICK i \in DOMAIN msgs : msgs[i] = Result(r)
    BY <1>4
  <2>2. r \in Runs
    BY <1>7
  <2>3. CASE i \in keep
    <3> HIDE DEF sent, keep
    <3>1. PICK k \in 1 .. Len(sent) : f[k] = i
      BY <1>10, <2>3 DEF SentFrom
    <3>2. k \in DOMAIN sent /\ sent[k] = Result(r)
      BY <1>10, <2>1, <3>1 DEF SentFrom
    <3> QED BY <2>2, <3>2 DEF ResultsIn
  <2>4. CASE i \in lostMsg
    BY <2>1, <2>2, <2>4
  <2> QED BY <2>3, <2>4
<1>15. told \subseteq Runs /\ missed' \subseteq Runs
  BY <1>3 DEF ResultsIn
<1> HIDE DEF n, sent, told, F, gone, keep, due
<1>16. Steady
  BY <1>8 DEF Steady
<1>17. /\ \A j \in DOMAIN n :
            /\ n[j].kind # "created"
            /\ n[j].kind = "finished" => n[j].run \in report
            /\ n[j].kind \in {"progress", "result"} =>
                 n[j].run \in buffered \/ (n[j].run \in report /\ n[j].kind = "result")
            /\ receipt[n[j].run] # "none" /\ (n[j].kind = "result" => receipt[n[j].run] \in Settled)
            /\ n[j].kind \in Kinds
       /\ \A i, j \in DOMAIN n : i < j /\ n[i].kind = "result" =>
            n[j].kind # "finished" /\ (n[i].run = n[j].run => n[j].run \in buffered)
       /\ both => \A j \in DOMAIN n : n[j].kind = "result" /\ n[j].run \notin buffered =>
                    \/ n[j].run \in On(l, "finished")
                    \/ \E i \in DOMAIN n : i < j /\ n[i] = [kind |-> "finished", run |-> n[j].run]
  <2>1. \A j \in DOMAIN n : n[j].kind \in Kinds
    BY <1>12, SeqIs, EntryIs
  <2> HIDE DEF both, report
  <2> QED BY <1>9, <2>1 DEF ReconcileEntries, report
<1>18. \A r \in report : r \notin On(l, "result") /\ receipt[r] = "terminal"
  BY DEF Undelivered
<1>19. LogOK'
  <2>1. CreatesOpened(n)
    BY <1>17 DEF CreatesOpened
  <2>2. FinishesOwned(l, n, NeverRecorded)
    BY <1>7, <1>17 DEF FinishesOwned, On
  <2>3. NothingAfterResult(l, n, buffered')
    <3> SUFFICES ASSUME NEW j \in DOMAIN n, n[j].run \notin buffered
                 PROVE  /\ \A i \in DOMAIN l : ~ (l[i].kind = "result" /\ l[i].run = n[j].run)
                        /\ \A i \in DOMAIN n : i < j => ~ (n[i].kind = "result" /\ n[i].run = n[j].run)
      BY DEF NothingAfterResult
    <3>1. n[j].run \in report
      BY <1>17 DEF Kinds
    <3>2. ASSUME NEW i \in DOMAIN l, l[i].kind = "result", l[i].run = n[j].run PROVE FALSE
      <4>1. l[i] = [kind |-> "result", run |-> n[j].run]
        BY <1>5, <3>2, SeqIs, EntryIs
      <4>2. n[j].run \in On(l, "result")
        BY <1>7, <3>1, <4>1 DEF On
      <4> QED BY <1>18, <3>1, <4>2
    <3> QED BY <1>17, <3>2
  <2>4. ReportsInOrder(l, n, buffered' \cup NeverRecorded, both)
    <3> SUFFICES ASSUME NEW j \in DOMAIN n, n[j].kind = "result", n[j].run \notin buffered
                 PROVE  ReportOrder(l \o n, Len(l) + j, n[j].run, both)
      BY DEF ReportsInOrder
    <3> DEFINE r == n[j].run
    <3>1. r \in report /\ r \in owned /\ r \in Runs
      BY <1>7, <1>17
    <3>2. PICK c \in DOMAIN l : l[c] = [kind |-> "created", run |-> r]
      BY <3>1 DEF On
    <3>3. /\ Len(l) \in Nat /\ Len(n) \in Nat /\ DOMAIN l = 1 .. Len(l) /\ DOMAIN n = 1 .. Len(n)
          /\ \A k \in 1 .. Len(l) : (l \o n)[k] = l[k]
          /\ \A k \in 1 .. Len(n) : (l \o n)[Len(l) + k] = n[k]
      BY <1>5, <1>12, CatIs
    <3>4. CASE ~ both
      <4>1. c \in 1 .. ((Len(l) + j) - 1) /\ (l \o n)[c] = [kind |-> "created", run |-> r]
        BY <3>2, <3>3
      <4>2. \E p \in 1 .. ((Len(l) + j) - 1) :
              /\ (l \o n)[p] = [kind |-> "created", run |-> n[j].run]
              /\ both => \E m \in (p + 1) .. ((Len(l) + j) - 1) :
                           (l \o n)[m] = [kind |-> "finished", run |-> n[j].run]
        BY <3>4, <4>1
      <4> QED BY <4>2 DEF ReportOrder
    <3>5. CASE both /\ r \in On(l, "finished")
      <4>1. PICK k \in DOMAIN l : l[k] = [kind |-> "finished", run |-> r]
        BY <3>5 DEF On
      <4>2. r \notin UnrecordedRuns
        BY <3>1, LeafFacts DEF UnrecordedRuns
      <4>3. FinishedIn(l, UnrecordedRuns)
        BY LeafFacts
      <4>4. PICK i \in 1 .. (k - 1) : l[i] = [kind |-> "created", run |-> r]
        BY <4>1, <4>2, <4>3 DEF FinishedIn, CreatedBefore
      <4>5. /\ i \in 1 .. ((Len(l) + j) - 1) /\ (l \o n)[i] = [kind |-> "created", run |-> r]
            /\ k \in (i + 1) .. ((Len(l) + j) - 1) /\ (l \o n)[k] = [kind |-> "finished", run |-> r]
        BY <3>3, <4>1, <4>4
      <4> QED BY <4>5 DEF ReportOrder
    <3>6. CASE both /\ r \notin On(l, "finished")
      <4>1. PICK k \in DOMAIN n : k < j /\ n[k] = [kind |-> "finished", run |-> r]
        BY <1>17, <3>6
      <4>2. c \in 1 .. ((Len(l) + j) - 1) /\ (l \o n)[c] = [kind |-> "created", run |-> r]
        BY <3>2, <3>3
      <4>3. Len(l) + k \in (c + 1) .. ((Len(l) + j) - 1)
        BY <3>3, <4>1
      <4>4. (l \o n)[Len(l) + k] = [kind |-> "finished", run |-> r]
        BY <3>3, <4>1
      <4>5. \E m \in (c + 1) .. ((Len(l) + j) - 1) : (l \o n)[m] = [kind |-> "finished", run |-> r]
        BY <4>3, <4>4
      <4>6. \E p \in 1 .. ((Len(l) + j) - 1) :
              /\ (l \o n)[p] = [kind |-> "created", run |-> r]
              /\ both => \E m \in (p + 1) .. ((Len(l) + j) - 1) :
                           (l \o n)[m] = [kind |-> "finished", run |-> r]
        BY <4>2, <4>5
      <4> QED BY <4>6 DEF ReportOrder
    <3> QED BY <3>4, <3>5, <3>6
  <2>5. \A j \in DOMAIN n : /\ receipt'[n[j].run] # "none"
                            /\ n[j].kind = "result" => receipt'[n[j].run] \in Settled
    BY <1>17
  <2> QED BY <1>12, <1>16, <2>1, <2>2, <2>3, <2>4, <2>5, WriteKeeps
<1>20. /\ log'[b] = l \o n
       /\ \A c \in Branches : \A kind : On(log[c], kind) \subseteq On(log'[c], kind)
       /\ \A s \in Runs : Reported(s)' <=> \E c \in Branches : s \in On(log'[c], "result")
  BY <1>12, WriteGrows, WriteOn
<1>21. On(log'[b], "created") = owned
  <2>1. On(n, "created") = {}
    BY <1>17 DEF On
  <2>2. \A s : s \in On(log'[b], "created") <=> s \in owned
    BY <1>5, <1>12, <1>20, <2>1, OnCat
  <2> QED BY <2>2
<1>22. \A r \in told : r \in On(log'[b], "result") /\ receipt[r] \in Settled
  <2>1. ASSUME NEW r \in told PROVE receipt[r] \in Settled
    <3>1. PICK j \in DOMAIN n : n[j] = [kind |-> "result", run |-> r]
      BY <1>13 DEF On
    <3> QED BY <1>17, <3>1
  <2> QED BY <1>5, <1>12, <1>13, <1>20, <2>1, OnCat
<1>23. \A r \in On(l, "result") : receipt[r] \in Settled /\ r \in On(log'[b], "result")
  <2>1. ASSUME NEW r \in On(l, "result") PROVE receipt[r] \in Settled
    <3>1. PICK i \in DOMAIN l : l[i] = [kind |-> "result", run |-> r]
      BY DEF On
    <3>2. Backed(l[i]) /\ l[i].kind = "result" /\ l[i].run = r
      BY <1>5, <3>1
    <3> QED BY <3>2 DEF Backed
  <2> QED BY <1>5, <1>12, <1>20, <2>1, OnCat
<1>24. TypeOK'
  <2>1. log' \in [Branches -> Seq(Entry)]
    BY <1>19 DEF LogOK
  <2>2. LiveRuns' = LiveRuns
    BY DEF LiveRuns
  <2>3. pendingFlush' \in Seq(Message)
    <3>1. pendingFlush \in Seq(Message) /\ <<>> \in Seq(Message)
      BY DEF IInv, TypeOK
    <3> QED BY <3>1
  <2>4. current' \subseteq Runs /\ detached' \subseteq Runs /\ branchOwned' \subseteq Runs /\ snapshot' \subseteq Runs
    BY <1>2, <1>7
  <2>5. delivered' \subseteq Runs /\ missed' \subseteq Runs
    BY <1>3, <1>15 DEF IInv, TypeOK
  <2> QED BY <1>2, <1>8, <2>1, <2>2, <2>3, <2>4, <2>5 DEF IInv, TypeOK
<1>25. MemoryOK'
  <2>1. \A r \in delivered' \cup snapshot' : receipt'[r] \in Settled
    BY <1>2, <1>3, <1>22, <1>23 DEF IInv, MemoryOK
  <2> QED BY <1>2, <2>1 DEF IInv, MemoryOK
<1>26. PendingBacked'
  BY DEF IInv, PendingBacked, Backed
<1>27. OwnedOK'
  <2>1. ASSUME NEW r \in owned PROVE receipt[r] # "none"
    <3>1. PICK i \in DOMAIN l : l[i] = [kind |-> "created", run |-> r]
      BY DEF On
    <3>2. Backed(l[i]) /\ l[i].run = r
      BY <1>5, <3>1
    <3> QED BY <3>2 DEF Backed
  <2> HIDE DEF owned
  <2> QED BY <1>2, <1>21, <2>1 DEF OwnedOK
<1>28. AdoptedOK'
  <2> SUFFICES ASSUME NEW r \in owned, managed[r] = "live"
               PROVE  r \in current' /\ r \in branchOwned' /\ r \notin detached'
    BY <1>2, <1>21 DEF AdoptedOK
  <2>1. r \in live
    BY <1>7 DEF LiveRuns
  <2> QED BY <1>2, <2>1
<1>29. DeliveredOK'
  <2> HIDE DEF report, owned
  <2> QED BY <1>3, <1>20, <1>22 DEF IInv, DeliveredOK
<1>30. NothingLost'
  <2> SUFFICES ASSUME NEW r \in owned, r \notin missed', receipt[r] = "terminal"
               PROVE  Reported(r)'
    BY <1>2, <1>21 DEF NothingLost
  <2>0. r \in Runs
    BY <1>7
  <2> SUFFICES \E c \in Branches : r \in On(log'[c], "result")
    BY <1>20, <2>0
  <2>1. CASE r \in delivered
    BY <1>20, <2>1 DEF IInv, DeliveredOK
  <2>2. CASE r \in On(l, "result")
    BY <1>23, <2>2
  <2>3. CASE r \notin delivered /\ r \notin On(l, "result")
    <3>1. managed[r] # "live"
      BY <2>0 DEF IInv, MemoryOK
    <3>2. r \in report
      BY <2>3, <3>1 DEF Undelivered
    <3>3. r \in told
      BY <1>14, <3>2
    <3> QED BY <1>22, <3>3
  <2> QED BY <2>1, <2>2, <2>3
<1> QED BY <1>19, <1>24, <1>25, <1>26, <1>27, <1>28, <1>29, <1>30 DEF IInv, LogOK

LEMMA AfterTreeKeeps ==
  ASSUME IInv, NEW b \in Branches, NEW l \in Leaves(b), AfterTree(b, l)
  PROVE  IInv'
<1>1. /\ Reconcile(b, l, current, detached, pendingFlush)
      /\ pendingFlush' = <<>>
      /\ UNCHANGED <<managed, reports, receipt, buffered, moves>>
  BY DEF AfterTree
<1>2. /\ current \in SUBSET Runs /\ detached \in SUBSET Runs /\ pendingFlush \in Seq(Message)
      /\ moves \in 0 .. MaxMoves
  BY DEF IInv, TypeOK
<1>3. /\ \A r \in detached : managed[r] # "none"
      /\ \A i \in DOMAIN pendingFlush : Backed(pendingFlush[i]) /\ pendingFlush[i].run \in buffered
  BY DEF IInv, MemoryOK, PendingBacked
<1> QED BY <1>1, <1>2, <1>3, ReconcileKeeps

LEMMA StartKeeps ==
  ASSUME IInv, NEW b \in Branches, NEW l \in Leaves(b), Start(b, l)
  PROVE  IInv'
<1> DEFINE apart == {r \in Runs : managed[r] # "none"}
           empty == <<>>
<1>1. /\ Reconcile(b, l, {}, apart, empty)
      /\ Move /\ UNCHANGED <<managed, pendingFlush, reports, receipt, buffered>>
  BY DEF Start
<1>2. moves' \in 0 .. MaxMoves
  BY <1>1, BoundAssumption DEF Move, IInv, TypeOK
<1>3. /\ {} \in SUBSET Runs /\ apart \in SUBSET Runs /\ empty \in Seq(Message) /\ DOMAIN empty = {}
      /\ \A r \in apart : managed[r] # "none"
  OBVIOUS
<1>4. \A i \in DOMAIN empty : Backed(empty[i]) /\ empty[i].run \in buffered
  BY <1>3
<1> HIDE DEF apart, empty
<1> QED BY <1>1, <1>2, <1>3, <1>4, ReconcileKeeps

------------------------------------------------------------------------------
(* The theorems                                                            *)

LEMMA InitInv == Init => IInv
<1> SUFFICES ASSUME Init PROVE IInv
  OBVIOUS
<1>1. /\ log = [b \in Branches |-> <<>>] /\ active \in Branches
      /\ session = "down" /\ paused = FALSE
      /\ managed = [r \in Runs |-> "none"] /\ receipt = [r \in Runs |-> "none"]
      /\ reports = [r \in Runs |-> 0]
      /\ current = {} /\ detached = {} /\ branchOwned = {} /\ snapshot = {}
      /\ delivered = {} /\ pendingFlush = <<>> /\ missed = {} /\ buffered = {}
      /\ moves = 0 /\ faults = 0
  BY DEF Init
<1>2. \A b \in Branches : DOMAIN log[b] = {}
  BY <1>1
<1>3. TypeOK
  <2>1. log \in [Branches -> Seq(Entry)] /\ pendingFlush \in Seq(Message)
    BY <1>1
  <2>2. receipt \in [Runs -> Receipts] /\ managed \in [Runs -> {"none", "live", "done"}]
        /\ reports \in [Runs -> 0 .. MaxReports]
    BY <1>1, ReportAssumption DEF Receipts
  <2>3. LiveRuns = {} /\ Cardinality(LiveRuns) <= MaxBackgroundRuns
    <3>1. LiveRuns = {}
      BY <1>1 DEF LiveRuns
    <3> QED BY <3>1, FS_EmptySet, SlotAssumption
  <2>4. moves \in 0 .. MaxMoves /\ faults \in 0 .. MaxFaults
    BY <1>1, BoundAssumption
  <2> QED BY <1>1, <2>1, <2>2, <2>3, <2>4 DEF TypeOK
<1>4. MemoryOK
  BY <1>1 DEF MemoryOK
<1>5. EntriesBacked /\ LedgerOK /\ ResultIsLast /\ ReportedToOwner
  BY <1>2 DEF EntriesBacked, LedgerOK, CreatedOnce, FinishedAfter, ResultIsLast, ReportedToOwner
<1>6. PendingBacked
  <2>1. DOMAIN pendingFlush = {}
    BY <1>1
  <2> QED BY <2>1 DEF PendingBacked
<1>7. OwnedOK /\ AdoptedOK /\ DeliveredOK /\ NothingLost
  BY <1>1 DEF OwnedOK, AdoptedOK, DeliveredOK, NothingLost
<1> QED BY <1>3, <1>4, <1>5, <1>6, <1>7 DEF IInv

LEMMA NextInv == IInv /\ [Next]_vars => IInv'
<1> SUFFICES ASSUME IInv, [Next]_vars PROVE IInv'
  OBVIOUS
<1>1. ASSUME NEW r \in Runs, Delegate(r) PROVE IInv'
  BY <1>1, DelegateKeeps
<1>2. ASSUME NEW r \in Runs, MaybeEmitProgress(r) PROVE IInv'
  BY <1>2, ProgressKeeps
<1>3. ASSUME NEW r \in Runs, RunEnds(r) PROVE IInv'
  BY <1>3, RunEndsKeeps
<1>4. ASSUME NEW r \in Runs, SurvivorEnds(r) PROVE IInv'
  BY <1>4, SurvivorEndsKeeps
<1>5. ASSUME NEW r \in Runs, Purge(r) PROVE IInv'
  BY <1>5, PurgeKeeps
<1>6. ASSUME NEW b \in Branches, NEW l \in Leaves(b), AfterTree(b, l) PROVE IInv'
  BY <1>6, AfterTreeKeeps
<1>7. ASSUME NEW b \in Branches, NEW l \in Leaves(b), Start(b, l) PROVE IInv'
  BY <1>7, StartKeeps
<1>8. CASE BeforeTree \/ Shutdown
  BY <1>8, PauseKeeps
<1>9. CASE Crash
  BY <1>9, CrashKeeps
<1>10. CASE Restart \/ OtherProcessStarts
  BY <1>10, OrphanKeeps
<1>11. CASE UNCHANGED vars
  BY <1>11, StutterKeeps
<1> QED BY <1>1, <1>2, <1>3, <1>4, <1>5, <1>6, <1>7, <1>8, <1>9, <1>10, <1>11 DEF Next

\* The inductive invariant.
THEOREM Invariance == Spec => []IInv
BY InitInv, NextInv, PTL DEF Spec

\* Types, and register never exceeds the slot limit of the configuration.
THEOREM SlotsRespected == Spec => []TypeOK
<1>1. IInv => TypeOK
  BY DEF IInv
<1> QED BY <1>1, Invariance, PTL

\* R10, R12, R23: after the result of a run nothing of it follows on a branch, unless
\* something of it was buffered for a tree switch.
THEOREM ResultStaysLast == Spec => []ResultIsLast
<1>1. IInv => ResultIsLast
  BY DEF IInv
<1> QED BY <1>1, Invariance, PTL

\* R11, R13: a result is reported on a branch that created its run, and after the
\* finished entry when no write failed.
THEOREM ReportedOnlyToOwner == Spec => []ReportedToOwner
<1>1. IInv => ReportedToOwner
  BY DEF IInv
<1> QED BY <1>1, Invariance, PTL

\* R12: on the branch that owns it, an ended run was reported, unless its last message
\* could not be sent or another process settled its receipt since the last reconcile.
THEOREM NothingIsLost == Spec => []NothingLost
<1>1. IInv => NothingLost
  BY DEF IInv
<1> QED BY <1>1, Invariance, PTL

\* A finished entry is no message.
LEMMA MessagesSame ==
  ASSUME NEW l \in Seq(Entry), NEW n \in Seq(Entry),
         \A j \in DOMAIN n : n[j] \notin Message
  PROVE  Messages(l \o n) = Messages(l)
<1> DEFINE c == l \o n
<1>1. /\ DOMAIN l = 1 .. Len(l)
      /\ \A i \in DOMAIN l : i \in DOMAIN c /\ c[i] = l[i]
      /\ \A i \in DOMAIN c : (i \in DOMAIN l /\ c[i] = l[i]) \/ (i - Len(l) \in DOMAIN n /\ c[i] = n[i - Len(l)])
  BY CatOf
<1> HIDE DEF c
<1>2. {i \in DOMAIN c : c[i] \in Message} = {i \in DOMAIN l : l[i] \in Message}
  BY <1>1
<1> QED BY <1>2 DEF Messages, c

SilentStep ==
  \A b \in Branches :
    (log[b] # <<>> /\ log'[b] # log[b] /\ Messages(log'[b]) > Messages(log[b]))
      => b = active' /\ ~paused' /\ session' = "open"

LEMMA RunEndsSilently ==
  ASSUME IInv, NEW r \in Runs, RunEnds(r)
  PROVE  SilentStep
<1> SUFFICES ASSUME NEW b \in Branches, log'[b] # log[b], Messages(log'[b]) > Messages(log[b])
             PROVE  b = active' /\ ~paused' /\ session' = "open"
  BY DEF SilentStep
<1>1. /\ active' = active /\ paused' = paused /\ session' = session
      /\ managed[r] = "live" /\ EndAndDeliver(r)
  BY DEF RunEnds, EndQuietly
<1>2. log \in [Branches -> Seq(Entry)] /\ active \in Branches /\ log[active] \in Seq(Entry)
  BY DEF IInv, TypeOK
<1>3. PICK lost \in SUBSET {"finished", "result"} :
        LET fin == IF "finished" \in lost THEN <<>> ELSE <<[kind |-> "finished", run |-> r]>>
            res == IF paused \/ "result" \in lost THEN <<>> ELSE <<Result(r)>>
        IN  log' = [log EXCEPT ![active] = @ \o fin \o res]
  BY <1>1 DEF EndAndDeliver
<1> DEFINE fin == IF "finished" \in lost THEN <<>> ELSE <<[kind |-> "finished", run |-> r]>>
           res == IF paused \/ "result" \in lost THEN <<>> ELSE <<Result(r)>>
<1>4. log' = [log EXCEPT ![active] = log[active] \o fin \o res]
  BY <1>3
<1>5. b = active
  <2> HIDE DEF fin, res
  <2> QED BY <1>2, <1>4
<1>6. ~ paused
  <2> SUFFICES ASSUME paused PROVE FALSE
    OBVIOUS
  <2>1. fin \in Seq(Entry) /\ \A j \in DOMAIN fin : fin[j] \notin Message
    <3> DEFINE f == [kind |-> "finished", run |-> r]
    <3>1. f \in Entry /\ f \notin Message
      BY DEF Entry, Message
    <3> HIDE DEF f
    <3>2. <<f>> \in Seq(Entry) /\ DOMAIN <<f>> = {1} /\ <<f>>[1] = f /\ <<>> \in Seq(Entry) /\ DOMAIN <<>> = {}
      BY <3>1, <1>2, OneIs
    <3>3. fin = <<>> \/ fin = <<f>>
      BY DEF f
    <3> QED BY <3>1, <3>2, <3>3
  <2>2. res = <<>>
    OBVIOUS
  <2> HIDE DEF fin, res
  <2>3. log[active] \o fin \o res = log[active] \o fin
    BY <1>2, <2>1, <2>2
  <2>4. log'[active] = log[active] \o fin
    BY <1>2, <1>4, <2>3
  <2>5. Messages(log'[active]) = Messages(log[active])
    BY <1>2, <2>1, <2>4, MessagesSame
  <2>6. \A k \in {Messages(log[active])} : ~ (k > k)
    <3>1. Messages(log[active]) \in Nat
      <4> DEFINE l == log[active]
                 T == {i \in DOMAIN l : l[i] \in Message}
      <4>1. IsFiniteSet(DOMAIN l)
        <5>1. DOMAIN l = 1 .. Len(l) /\ Len(l) \in Nat
          BY <1>2
        <5> QED BY <5>1, FS_Interval
      <4>2. IsFiniteSet(T)
        BY <4>1, FS_Subset
      <4> QED BY <4>2, FS_CardinalityType DEF Messages
    <3> QED BY <3>1
  <2> QED BY <1>5, <2>5, <2>6
<1>7. session = "open"
  BY <1>1, <1>6 DEF IInv, MemoryOK, TypeOK
<1> QED BY <1>1, <1>5, <1>6, <1>7

LEMMA SilentNext == IInv /\ [Next]_vars => [SilentStep]_vars
<1> SUFFICES ASSUME IInv, Next PROVE SilentStep
  BY DEF vars
<1>0. log \in [Branches -> Seq(Entry)] /\ active \in Branches
  BY DEF IInv, TypeOK
<1>1. ASSUME log' = log PROVE SilentStep
  BY <1>1 DEF SilentStep
<1>2. ASSUME NEW r \in Runs, Delegate(r) PROVE SilentStep
  <2>1. /\ session = "open" /\ session' = session /\ paused' = paused /\ active' = active
        /\ \A b \in Branches : b # active => log'[b] = log[b]
    BY <1>0, <1>2 DEF Delegate, Register
  <2> QED BY <2>1 DEF SilentStep, IInv, MemoryOK
<1>3. ASSUME NEW r \in Runs, MaybeEmitProgress(r) PROVE SilentStep
  <2>1. CASE paused
    <3>1. log' = log
      BY <1>3, <2>1 DEF MaybeEmitProgress, OnProgress, Enqueue
    <3> QED BY <1>1, <3>1
  <2>2. CASE ~ paused
    <3>1. /\ session' = session /\ paused' = paused /\ active' = active /\ managed[r] = "live"
          /\ \A b \in Branches : b # active => log'[b] = log[b]
      BY <1>0, <1>3 DEF MaybeEmitProgress, ShouldEmitProgress, OnProgress, Enqueue
    <3>2. session = "open"
      BY <2>2, <3>1 DEF IInv, MemoryOK, TypeOK
    <3> QED BY <2>2, <3>1, <3>2 DEF SilentStep
  <2> QED BY <2>1, <2>2
<1>4. ASSUME NEW r \in Runs, RunEnds(r) PROVE SilentStep
  BY <1>4, RunEndsSilently
<1>5. ASSUME NEW b \in Branches, NEW l \in Leaves(b), AfterTree(b, l) \/ Start(b, l) PROVE SilentStep
  <2>1. PICK kept, apart, flush : Reconcile(b, l, kept, apart, flush)
    BY <1>5 DEF AfterTree, Start
  <2>2. /\ active' = b /\ session' = "open" /\ paused' = FALSE
        /\ \E m : log' = [log EXCEPT ![b] = m]
    BY <2>1 DEF Reconcile, SendAll
  <2> QED BY <1>0, <2>2 DEF SilentStep
<1>6. ASSUME NEW r \in Runs, SurvivorEnds(r) \/ Purge(r) PROVE SilentStep
  BY <1>1, <1>6 DEF SurvivorEnds, Purge
<1>7. CASE BeforeTree \/ Shutdown \/ Crash \/ Restart \/ OtherProcessStarts
  BY <1>1, <1>7 DEF BeforeTree, Shutdown, Crash, Restart, OtherProcessStarts
<1> QED BY <1>2, <1>3, <1>4, <1>5, <1>6, <1>7 DEF Next

\* R13, R23: messages reach only the branch the session is on, never while a tree
\* switch is in flight or after the shutdown.
THEOREM SilentUnlessOpen == Spec => SilentWhilePaused
<1>1. IInv /\ [Next]_vars =>
        [\A b \in Branches :
           (log[b] # <<>> /\ log'[b] # log[b] /\ Messages(log'[b]) > Messages(log[b]))
             => b = active' /\ ~paused' /\ session' = "open"]_vars
  BY SilentNext DEF SilentStep
<1> QED BY <1>1, Invariance, PTL DEF Spec, SilentWhilePaused
=============================================================================
