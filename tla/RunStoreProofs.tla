--------------------------- MODULE RunStoreProofs ---------------------------
(***************************************************************************)
(* Theorems about RunStore, for every set of runs and processes, all       *)
(* limits and bounds.                                                      *)
(***************************************************************************)
EXTENDS RunStore, Integers, FiniteSetTheorems, WellFoundedInduction, TLAPS

(***************************************************************************)
(* What Filter returns, for every sequence and every set. The induction    *)
(* theorems of the library have an operator as a parameter; here induction *)
(* is stated for a set of numbers, and rests on the fact that the natural  *)
(* numbers are well-founded.                                               *)
(***************************************************************************)

\* Every set of natural numbers has a least element.
LEMMA LeastNumber ==
  ASSUME NEW T \in SUBSET Nat, T # {}
  PROVE  \E m \in T : \A n \in T : m <= n
<1> DEFINE R == OpToRel(<, Nat)
<1>1. IsWellFoundedOn(R, Nat)
  BY NatLessThanWellFounded
<1>2. \A x, y \in Nat : <<x, y>> \in R <=> x < y
  BY DEF OpToRel
<1>3. PICK m \in T : \A n \in T : ~ (<<n, m>> \in R)
  <2> HIDE DEF R
  <2> QED BY <1>1, WFMin
<1>4. ASSUME NEW n \in T PROVE m <= n
  <2>1. m \in Nat /\ n \in Nat /\ ~ (<<n, m>> \in R)
    BY <1>3
  <2> HIDE DEF R
  <2> QED BY <1>2, <2>1
<1> HIDE DEF R
<1> QED BY <1>4

\* Induction over the numbers up to N.
LEMMA InductionUpTo ==
  ASSUME NEW N \in Nat, NEW T, 0 \in T,
         \A n \in 0 .. N : n \in T /\ n < N => n + 1 \in T
  PROVE  \A n \in 0 .. N : n \in T
<1> SUFFICES ASSUME (0 .. N) \ T # {} PROVE FALSE
  OBVIOUS
<1> DEFINE U == (0 .. N) \ T
<1>0. U \in SUBSET Nat /\ U # {}
  OBVIOUS
<1>1. PICK m \in U : \A n \in U : m <= n
  <2> HIDE DEF U
  <2> QED BY <1>0, LeastNumber
<1>2. m # 0 /\ m - 1 \in 0 .. N /\ m - 1 < N
  BY <1>1
<1>3. m - 1 \in T
  BY <1>1, <1>2
<1>4. (m - 1) + 1 \in T
  BY <1>2, <1>3
<1> QED BY <1>1, <1>2, <1>4

\* The recursive function in the definition of Filter is one.
KeptUpTo(s, S, N, g) ==
  g = [n \in 0 .. N |-> IF n = 0 THEN <<>>
                        ELSE IF s[n] \in S THEN Append(g[n - 1], s[n])
                        ELSE g[n - 1]]

LEMMA FilterDefined ==
  ASSUME NEW X, NEW s \in Seq(X), NEW S
  PROVE  \E g : KeptUpTo(s, S, Len(s), g) /\ Filter(s, S) = g[Len(s)]
<1> DEFINE T == {N \in Nat : \E g : KeptUpTo(s, S, N, g)}
<1>1. 0 \in T
  <2>1. KeptUpTo(s, S, 0, [n \in 0 .. 0 |-> <<>>])
    BY DEF KeptUpTo
  <2> QED BY <2>1
<1>2. ASSUME NEW N \in Nat, N \in T PROVE N + 1 \in T
  <2>1. PICK g : KeptUpTo(s, S, N, g)
    BY <1>2
  <2> DEFINE last == IF s[N + 1] \in S THEN Append(g[N], s[N + 1]) ELSE g[N]
  <2> DEFINE h == [n \in 0 .. N + 1 |-> IF n = N + 1 THEN last ELSE g[n]]
  <2>2. ASSUME NEW n \in 0 .. N + 1
        PROVE  h[n] = IF n = 0 THEN <<>>
                      ELSE IF s[n] \in S THEN Append(h[n - 1], s[n]) ELSE h[n - 1]
    <3>1. CASE n = N + 1
      <4>1. n # 0 /\ n - 1 = N /\ h[n] = last /\ h[n - 1] = g[N]
        BY <3>1
      <4> QED BY <3>1, <4>1
    <3>2. CASE n = 0
      <4>1. h[n] = g[n] /\ n \in 0 .. N
        BY <3>2
      <4> QED BY <2>1, <3>2, <4>1 DEF KeptUpTo
    <3>3. CASE n # N + 1 /\ n # 0
      <4>1. /\ h[n] = g[n] /\ n \in 0 .. N
            /\ n - 1 \in 0 .. N + 1 /\ n - 1 # N + 1 /\ h[n - 1] = g[n - 1]
        BY <3>3
      <4> HIDE DEF h, last
      <4>2. g[n] = IF s[n] \in S THEN Append(g[n - 1], s[n]) ELSE g[n - 1]
        BY <2>1, <3>3, <4>1 DEF KeptUpTo
      <4> QED BY <3>3, <4>1, <4>2
    <3> QED BY <3>1, <3>2, <3>3
  <2>3. h = [n \in 0 .. N + 1 |-> h[n]]
    OBVIOUS
  <2>4. KeptUpTo(s, S, N + 1, h)
    <3> HIDE DEF h, last
    <3> QED BY <2>2, <2>3 DEF KeptUpTo
  <2> HIDE DEF h
  <2> QED BY <2>4
<1>3. Len(s) \in Nat
  OBVIOUS
<1>4. Len(s) \in T
  <2> HIDE DEF T
  <2>1. \A n \in 0 .. Len(s) : n \in T
    BY <1>1, <1>2, <1>3, InductionUpTo
  <2> QED BY <1>3, <2>1
<1>5. KeptUpTo(s, S, Len(s), CHOOSE g : KeptUpTo(s, S, Len(s), g))
  BY <1>4
<1>6. Filter(s, S) = (CHOOSE g : KeptUpTo(s, S, Len(s), g))[Len(s)]
  BY DEF Filter, KeptUpTo
<1> QED BY <1>5, <1>6

\* q has the entries of S among the first N of s: f says where each comes from.
Picks(f, q, s, N, S) ==
  /\ f \in [1 .. Len(q) -> 1 .. N]
  /\ \A i, j \in 1 .. Len(q) : i < j => f[i] < f[j]
  /\ \A i \in 1 .. Len(q) : q[i] = s[f[i]] /\ q[i] \in S
  /\ \A k \in 1 .. N : s[k] \in S => \E i \in 1 .. Len(q) : f[i] = k

\* One more entry is looked at, and left out or taken.
LEMMA PickNone ==
  ASSUME NEW q, NEW s, NEW S, NEW N \in Nat, NEW f, Picks(f, q, s, N, S), s[N + 1] \notin S
  PROVE  Picks(f, q, s, N + 1, S)
<1>1. \A k \in 1 .. N + 1 : k \in 1 .. N \/ k = N + 1
  OBVIOUS
<1>2. f \in [1 .. Len(q) -> 1 .. N + 1]
  BY DEF Picks
<1> QED BY <1>1, <1>2 DEF Picks

LEMMA PickOne ==
  ASSUME NEW X, NEW q \in Seq(X), NEW s, NEW S, NEW N \in Nat, NEW f, Picks(f, q, s, N, S),
         s[N + 1] \in S, s[N + 1] \in X
  PROVE  \E h : Picks(h, Append(q, s[N + 1]), s, N + 1, S)
<1> DEFINE p == Append(q, s[N + 1])
           h == [i \in 1 .. Len(p) |-> IF i = Len(q) + 1 THEN N + 1 ELSE f[i]]
<1>1. /\ Len(q) \in Nat /\ Len(p) = Len(q) + 1 /\ p[Len(q) + 1] = s[N + 1]
      /\ \A i \in 1 .. Len(q) : p[i] = q[i]
  OBVIOUS
<1>2. \A i \in 1 .. Len(p) : i \in 1 .. Len(q) \/ i = Len(q) + 1
  BY <1>1
<1>3. \A i \in 1 .. Len(q) : f[i] \in 1 .. N
  BY DEF Picks
<1>4. /\ h = [i \in 1 .. Len(p) |-> h[i]]
      /\ \A i \in 1 .. Len(q) : i \in 1 .. Len(p) /\ h[i] = f[i]
      /\ Len(q) + 1 \in 1 .. Len(p) /\ h[Len(q) + 1] = N + 1
  BY <1>1
<1> HIDE DEF p, h
<1>5. h \in [1 .. Len(p) -> 1 .. N + 1]
  <2>1. ASSUME NEW i \in 1 .. Len(p) PROVE h[i] \in 1 .. N + 1
    <3>1. CASE i = Len(q) + 1
      BY <1>4, <3>1
    <3>2. CASE i \in 1 .. Len(q)
      <4>1. h[i] = f[i] /\ f[i] \in 1 .. N
        BY <1>3, <1>4, <3>2
      <4> QED BY <4>1
    <3> QED BY <1>2, <3>1, <3>2
  <2> QED BY <1>4, <2>1
<1>6. ASSUME NEW i \in 1 .. Len(p), NEW j \in 1 .. Len(p), i < j PROVE h[i] < h[j]
  <2>0. i \in 1 .. Len(q)
    BY <1>1, <1>2, <1>6
  <2>1. i \in 1 .. Len(q) /\ h[i] = f[i] /\ f[i] \in 1 .. N
    BY <1>3, <1>4, <2>0
  <2>2. CASE j = Len(q) + 1
    BY <1>4, <2>1, <2>2
  <2>3. CASE j \in 1 .. Len(q)
    BY <1>4, <1>6, <2>1, <2>3 DEF Picks
  <2> QED BY <1>2, <2>2, <2>3
<1>7. \A i \in 1 .. Len(p) : p[i] = s[h[i]] /\ p[i] \in S
  BY <1>1, <1>2, <1>4 DEF Picks
<1>8. ASSUME NEW k \in 1 .. N + 1, s[k] \in S PROVE \E i \in 1 .. Len(p) : h[i] = k
  <2>1. CASE k = N + 1
    BY <1>4, <2>1
  <2>2. CASE k \in 1 .. N
    BY <1>4, <1>8, <2>2 DEF Picks
  <2> QED BY <2>1, <2>2
<1>9. Picks(h, p, s, N + 1, S)
  BY <1>5, <1>6, <1>7, <1>8 DEF Picks
<1> QED BY <1>9 DEF p

\* What Filter returns.
LEMMA FilterPicks ==
  ASSUME NEW X, NEW s \in Seq(X), NEW S
  PROVE  /\ Filter(s, S) \in Seq(X)
         /\ \E f : Picks(f, Filter(s, S), s, Len(s), S)
<1>1. PICK g : KeptUpTo(s, S, Len(s), g) /\ Filter(s, S) = g[Len(s)]
  BY FilterDefined
<1>2. /\ g[0] = <<>>
      /\ \A n \in 0 .. Len(s) : n < Len(s) =>
           g[n + 1] = IF s[n + 1] \in S THEN Append(g[n], s[n + 1]) ELSE g[n]
  <2>1. Len(s) \in Nat
    OBVIOUS
  <2>2. \A n \in 0 .. Len(s) :
          g[n] = IF n = 0 THEN <<>>
                 ELSE IF s[n] \in S THEN Append(g[n - 1], s[n]) ELSE g[n - 1]
    BY <1>1 DEF KeptUpTo
  <2>3. g[0] = <<>>
    BY <2>1, <2>2
  <2>4. ASSUME NEW n \in 0 .. Len(s), n < Len(s)
        PROVE  g[n + 1] = IF s[n + 1] \in S THEN Append(g[n], s[n + 1]) ELSE g[n]
    <3>1. n + 1 \in 0 .. Len(s) /\ n + 1 # 0 /\ (n + 1) - 1 = n
      BY <2>1, <2>4
    <3> QED BY <2>2, <3>1
  <2> QED BY <2>3, <2>4
<1> DEFINE T == {n \in 0 .. Len(s) : g[n] \in Seq(X) /\ \E f : Picks(f, g[n], s, n, S)}
<1>3. 0 \in T
  <2>1. Picks([i \in 1 .. 0 |-> 0], <<>>, s, 0, S)
    BY DEF Picks
  <2>2. 0 \in 0 .. Len(s) /\ g[0] \in Seq(X)
    BY <1>2
  <2>3. \E f : Picks(f, g[0], s, 0, S)
    BY <1>2, <2>1
  <2> QED BY <2>2, <2>3
<1>4. ASSUME NEW n \in 0 .. Len(s), n \in T, n < Len(s) PROVE n + 1 \in T
  <2>1. /\ n \in Nat /\ n + 1 \in 0 .. Len(s) /\ s[n + 1] \in X
        /\ g[n] \in Seq(X)
    BY <1>4
  <2>2. PICK f : Picks(f, g[n], s, n, S)
    BY <1>4
  <2>3. CASE s[n + 1] \in S
    <3>1. g[n + 1] = Append(g[n], s[n + 1])
      BY <1>2, <1>4, <2>3
    <3>2. \E h : Picks(h, g[n + 1], s, n + 1, S)
      BY <2>1, <2>2, <2>3, <3>1, PickOne
    <3>3. g[n + 1] \in Seq(X)
      BY <2>1, <3>1
    <3> QED BY <2>1, <3>2, <3>3
  <2>4. CASE s[n + 1] \notin S
    <3>1. g[n + 1] = g[n]
      BY <1>2, <1>4, <2>4
    <3>2. Picks(f, g[n + 1], s, n + 1, S)
      BY <2>1, <2>2, <2>4, <3>1, PickNone
    <3>3. g[n + 1] \in Seq(X) /\ \E h : Picks(h, g[n + 1], s, n + 1, S)
      BY <2>1, <3>1, <3>2
    <3> QED BY <2>1, <3>3
  <2> QED BY <2>3, <2>4
<1>5. Len(s) \in T
  <2>1. Len(s) \in Nat
    OBVIOUS
  <2> HIDE DEF T
  <2>2. \A n \in 0 .. Len(s) : n \in T
    BY <1>3, <1>4, <2>1, InductionUpTo
  <2> QED BY <2>1, <2>2
<1> QED BY <1>1, <1>5

------------------------------------------------------------------------------
(* The invariant                                                           *)

\* The run a process has in hand.
Hand(p) == Head(todo[p])

\* Only the process that opened a run opens, writes and finishes it.
OwnerActs ==
  \A p \in Procs : at[p] \in {"spawn", "write", "chunk"} => owner[Hand(p)] = p

\* Where the runner is while its process has the run in hand.
Stages ==
  \A p \in Procs :
    /\ at[p] = "spawn" => phase[Hand(p)] = "opened"
    /\ at[p] = "write" => /\ phase[Hand(p)] \in {"live", "ended"}
                          /\ patch[p].state # "none"
                          /\ patch[p].state \in Terminal => phase[Hand(p)] = "ended"
    /\ at[p] = "chunk" => phase[Hand(p)] = "ended"

\* What has a receipt, or is on somebody's list, was opened.
Begun ==
  /\ \A r \in Runs : OnDisk(r) => phase[r] # "none"
  /\ \A p \in Procs : \A r \in ToSet(todo[p]) : phase[r] # "none"

\* A receipt names a pid only when there is, or was, a child.
Past(r) == phase[r] \notin {"none", "opened"}
PidsNamed ==
  /\ \A r \in Runs : receipt[r].pid => Past(r)
  /\ \A p \in Procs : at[p] = "settle" /\ seen[p] => Past(Hand(p))

\* Recovery goes on to mark a run only if its child is dead, or if it was early; and
\* a child that is dead stays so.
Marked ==
  \A p \in Procs : at[p] \in {"mark", "settle"} /\ Hand(p) \notin early =>
    pid[Hand(p)] # "child" /\ Past(Hand(p))
SettledDead == \A r \in settled \ early : pid[r] # "child" /\ Past(r)

\* Nobody is about to write the receipt of a run whose success is kept.
Ended(r) == phase[r] \in {"ended", "retained"}
HeldSafe ==
  \A r \in held :
    /\ receipt[r].state \in {"none", "succeeded"} /\ Ended(r)
    /\ \A p \in Procs : at[p] \in {"spawn", "write", "chunk", "settle"} => Hand(p) # r

\* What is terminal, or about to be removed as such, has ended.
TerminalEnded ==
  /\ \A r \in Runs \ settled : IsTerminal(r) => Ended(r)
  /\ \A p \in Procs : at[p] = "unlink" => \A r \in ToSet(todo[p]) \ settled : Ended(r)

\* An orphan that a start has found is settled, gone, or still on its list; nobody
\* else writes its receipt, except for another recovery.
DueHandled ==
  \A p \in Procs : \A r \in due[p] :
    /\ owner[r] = Nobody /\ phase[r] # "none" /\ Gone(r) /\ at[p] # "down"
    /\ \/ IsTerminal(r)
       \/ ~OnDisk(r)
       \/ at[p] \in {"probe", "mark", "settle"} /\ r \in ToSet(todo[p])

\* The inductive invariant.
IInv ==
  /\ TypeOK /\ OwnerActs /\ Stages /\ Begun /\ PidsNamed /\ Marked /\ SettledDead
  /\ HeldSafe /\ TerminalEnded /\ ActiveKept /\ DueHandled

------------------------------------------------------------------------------
(* Lists of runs                                                           *)

Once(s) == \A i, j \in DOMAIN s : s[i] = s[j] => i = j

\* a comes before b.
Before(s, a, b) == \E i, j \in DOMAIN s : i < j /\ s[i] = a /\ s[j] = b

LEMMA InList ==
  ASSUME NEW X, NEW s \in Seq(X), NEW x
  PROVE  x \in ToSet(s) <=> \E i \in 1 .. Len(s) : s[i] = x
BY DEF ToSet

LEMMA ListTyped == ASSUME NEW X, NEW s \in Seq(X) PROVE ToSet(s) \subseteq X
BY DEF ToSet

LEMMA ListEmpty == ToSet(<<>>) = {}
BY DEF ToSet

LEMMA ListOne ==
  ASSUME NEW r \in Runs
  PROVE  <<r>> \in Seq(Runs) /\ <<r>> # <<>> /\ Head(<<r>>) = r /\ ToSet(<<r>>) = {r}
BY DEF ToSet

LEMMA ListHead ==
  ASSUME NEW X, NEW s \in Seq(X), s # <<>>
  PROVE  /\ Head(s) \in X /\ Head(s) \in ToSet(s) /\ Tail(s) \in Seq(X)
         /\ ToSet(Tail(s)) \subseteq ToSet(s) /\ ToSet(s) \subseteq ToSet(Tail(s)) \cup {Head(s)}
         /\ Len(s) # 1 => Tail(s) # <<>>
         /\ Len(s) = 1 => ToSet(s) = {Head(s)}
<1>1. /\ Len(s) \in Nat \ {0} /\ Head(s) = s[1] /\ Tail(s) \in Seq(X)
      /\ Len(Tail(s)) = Len(s) - 1
      /\ \A i \in 1 .. Len(s) - 1 : Tail(s)[i] = s[i + 1]
  OBVIOUS
<1>2. Head(s) \in ToSet(s) /\ Head(s) \in X
  BY <1>1, InList
<1>3. ASSUME NEW x \in ToSet(Tail(s)) PROVE x \in ToSet(s)
  <2>0. \E i \in 1 .. Len(Tail(s)) : Tail(s)[i] = x
    <3>1. Tail(s) \in Seq(X)
      BY <1>1
    <3> QED BY <1>3, <3>1, InList
  <2>1. PICK i \in 1 .. Len(s) - 1 : Tail(s)[i] = x
    BY <1>1, <2>0
  <2>2. s[i + 1] = x /\ i + 1 \in 1 .. Len(s)
    BY <1>1, <2>1
  <2> QED BY <2>2, InList
<1>4. ASSUME NEW x \in ToSet(s), x # Head(s) PROVE x \in ToSet(Tail(s)) /\ Len(s) # 1
  <2>1. PICK i \in 1 .. Len(s) : s[i] = x
    BY InList
  <2>2. i # 1 /\ i - 1 \in 1 .. Len(s) - 1 /\ (i - 1) + 1 = i
    BY <1>1, <1>4, <2>1
  <2>3. Tail(s)[i - 1] = x /\ i - 1 \in 1 .. Len(Tail(s))
    BY <1>1, <2>1, <2>2
  <2>4. x \in ToSet(Tail(s))
    <3>1. Tail(s) \in Seq(X)
      BY <1>1
    <3> QED BY <2>3, <3>1, InList
  <2>5. Len(s) # 1
    BY <1>1, <2>1, <2>2
  <2> QED BY <2>4, <2>5
<1>5. Len(s) # 1 => Tail(s) # <<>>
  <2>1. Len(s) # 1 => Len(Tail(s)) # 0
    BY <1>1
  <2>2. Len(<<>>) = 0
    OBVIOUS
  <2> QED BY <2>1, <2>2
<1>6. Len(s) = 1 => ToSet(s) = {Head(s)}
  BY <1>2, <1>4
<1>7. ToSet(s) \subseteq ToSet(Tail(s)) \cup {Head(s)}
  BY <1>4
<1> QED BY <1>1, <1>2, <1>3, <1>5, <1>6, <1>7

LEMMA ReverseList ==
  ASSUME NEW X, NEW s \in Seq(X)
  PROVE  Reverse(s) \in Seq(X) /\ Len(Reverse(s)) = Len(s)
BY DEF Reverse

\* What is left of a list when only the members of S are kept.
LEMMA FilteredList ==
  ASSUME NEW X, NEW s \in Seq(X), NEW S
  PROVE  /\ Filter(s, S) \in Seq(X)
         /\ ToSet(Filter(s, S)) = ToSet(s) \cap S
         /\ Once(s) => Once(Filter(s, S))
         /\ \A a, b \in S : Before(s, a, b) => Before(Filter(s, S), a, b)
         /\ \A a, b : Before(Filter(s, S), a, b) => Before(s, a, b)
<1> DEFINE q == Filter(s, S)
<1>1. q \in Seq(X)
  BY FilterPicks
<1>2. PICK f : Picks(f, q, s, Len(s), S)
  BY FilterPicks
<1> HIDE DEF q
<1>3. /\ Len(q) \in Nat /\ DOMAIN q = 1 .. Len(q) /\ Len(s) \in Nat /\ DOMAIN s = 1 .. Len(s)
  BY <1>1
<1>4. \A i \in 1 .. Len(q) : f[i] \in 1 .. Len(s) /\ q[i] = s[f[i]] /\ q[i] \in S
  BY <1>2 DEF Picks
<1>5. \A k \in 1 .. Len(s) : s[k] \in S => \E i \in 1 .. Len(q) : f[i] = k
  BY <1>2 DEF Picks
<1>6. \A i, j \in 1 .. Len(q) : i < j => f[i] < f[j]
  BY <1>2 DEF Picks
<1>7. ASSUME NEW x PROVE x \in ToSet(q) <=> x \in ToSet(s) \cap S
  <2>1. ASSUME x \in ToSet(q) PROVE x \in ToSet(s) \cap S
    BY <1>1, <1>4, <2>1, InList
  <2>2. ASSUME x \in ToSet(s), x \in S PROVE x \in ToSet(q)
    <3>1. PICK k \in 1 .. Len(s) : s[k] = x
      BY <2>2, InList
    <3>2. PICK i \in 1 .. Len(q) : f[i] = k
      BY <1>5, <2>2, <3>1
    <3> QED BY <1>1, <1>4, <3>1, <3>2, InList
  <2> QED BY <2>1, <2>2
<1>8. ASSUME Once(s), NEW i \in DOMAIN q, NEW j \in DOMAIN q, q[i] = q[j] PROVE i = j
  <2>1. f[i] = f[j]
    BY <1>3, <1>4, <1>8 DEF Once
  <2>2. i \in Nat /\ j \in Nat /\ f[i] \in Nat /\ ~(i < j) /\ ~(j < i)
    BY <1>3, <1>4, <1>6, <2>1
  <2> QED BY <2>2
<1>9. ASSUME NEW a \in S, NEW b \in S, Before(s, a, b) PROVE Before(q, a, b)
  <2>1. PICK k, l \in 1 .. Len(s) : k < l /\ s[k] = a /\ s[l] = b
    BY <1>3, <1>9 DEF Before
  <2>2. PICK i \in 1 .. Len(q) : f[i] = k
    BY <1>5, <2>1
  <2>3. PICK j \in 1 .. Len(q) : f[j] = l
    BY <1>5, <2>1
  <2>4. i < j
    <3>1. ~(j < i) /\ i # j
      BY <1>6, <2>1, <2>2, <2>3
    <3> QED BY <1>3, <3>1
  <2> QED BY <1>3, <1>4, <2>1, <2>2, <2>3, <2>4 DEF Before
<1>10. Once(s) => Once(q)
  BY <1>8 DEF Once
<1>11. ASSUME NEW a, NEW b, Before(q, a, b) PROVE Before(s, a, b)
  <2>1. PICK i, j \in 1 .. Len(q) : i < j /\ q[i] = a /\ q[j] = b
    BY <1>3, <1>11 DEF Before
  <2> QED BY <1>3, <1>4, <1>6, <2>1 DEF Before
<1> QED BY <1>1, <1>7, <1>9, <1>10, <1>11 DEF q

\* The order of the receipts when r is written.
Rewritten(s, r) == Append(Filter(s, Runs \ {r}), r)

LEMMA WrittenLast ==
  ASSUME NEW s \in Seq(Runs), Once(s), NEW r \in Runs
  PROVE  /\ Rewritten(s, r) \in Seq(Runs) /\ Once(Rewritten(s, r))
         /\ ToSet(Rewritten(s, r)) = ToSet(s) \cup {r}
         /\ \A a, b \in Runs \ {r} : Before(s, a, b) => Before(Rewritten(s, r), a, b)
         /\ \A a \in ToSet(s) \ {r} : Before(Rewritten(s, r), a, r)
<1> DEFINE q == Rewritten(s, r)
           t == Filter(s, Runs \ {r})
<1>1. /\ t \in Seq(Runs) /\ ToSet(t) = ToSet(s) \cap (Runs \ {r}) /\ Once(t)
      /\ \A a, b \in Runs \ {r} : Before(s, a, b) => Before(t, a, b)
  BY FilteredList
<1>0. q = Append(t, r)
  BY DEF Rewritten
<1> HIDE DEF t, q
<1>2. /\ q \in Seq(Runs) /\ Len(t) \in Nat /\ Len(q) = Len(t) + 1 /\ q[Len(t) + 1] = r
      /\ \A i \in 1 .. Len(t) : q[i] = t[i]
      /\ DOMAIN q = 1 .. Len(t) + 1 /\ DOMAIN t = 1 .. Len(t)
  BY <1>0, <1>1
<1>3. \A i \in 1 .. Len(t) : t[i] # r
  BY <1>1, InList
<1>4. Once(q)
  <2> SUFFICES ASSUME NEW i \in 1 .. Len(t) + 1, NEW j \in 1 .. Len(t) + 1, q[i] = q[j]
               PROVE  i = j
    BY <1>2 DEF Once
  <2>1. CASE i \in 1 .. Len(t) /\ j \in 1 .. Len(t)
    BY <1>1, <1>2, <2>1 DEF Once
  <2>2. i \in 1 .. Len(t) => q[i] # r
    BY <1>2, <1>3
  <2>3. j \in 1 .. Len(t) => q[j] # r
    BY <1>2, <1>3
  <2>4. /\ i \in 1 .. Len(t) \/ i = Len(t) + 1
        /\ j \in 1 .. Len(t) \/ j = Len(t) + 1
    BY <1>2
  <2> QED BY <1>2, <2>1, <2>2, <2>3, <2>4
<1>8. \A x : x \in ToSet(q) <=> \E i \in 1 .. Len(q) : q[i] = x
  BY <1>2, InList
<1>5. ASSUME NEW x PROVE x \in ToSet(q) <=> x \in ToSet(s) \cup {r}
  <2>1. x \in ToSet(q) <=> (x \in ToSet(t) \/ x = r)
    <3>1. ASSUME x \in ToSet(q) PROVE x \in ToSet(t) \/ x = r
      <4>1. PICK i \in 1 .. Len(t) + 1 : q[i] = x
        BY <1>8, <1>2, <3>1
      <4>2. i \in 1 .. Len(t) \/ i = Len(t) + 1
        BY <1>2
      <4> QED BY <1>1, <1>2, <4>1, <4>2, InList
    <3>2. ASSUME x \in ToSet(t) PROVE x \in ToSet(q)
      <4>1. PICK i \in 1 .. Len(t) : t[i] = x
        BY <1>1, <3>2, InList
      <4>2. q[i] = x
        BY <1>2, <4>1
      <4>3. i \in 1 .. Len(q)
        BY <1>2
      <4> QED BY <1>8, <4>2, <4>3
    <3>3. r \in ToSet(q)
      <4>1. Len(t) + 1 \in 1 .. Len(q)
        BY <1>2
      <4> QED BY <1>8, <1>2, <4>1
    <3> QED BY <3>1, <3>2, <3>3
  <2> QED BY <1>1, <2>1, ListTyped
<1>6. ASSUME NEW a \in Runs \ {r}, NEW b \in Runs \ {r}, Before(s, a, b) PROVE Before(q, a, b)
  <2>1. PICK i, j \in 1 .. Len(t) : i < j /\ t[i] = a /\ t[j] = b
    BY <1>1, <1>2, <1>6 DEF Before
  <2>2. i \in DOMAIN q /\ j \in DOMAIN q
    BY <1>2
  <2> QED BY <1>2, <2>1, <2>2 DEF Before
<1>7. ASSUME NEW a \in ToSet(s) \ {r} PROVE Before(q, a, r)
  <2>1. a \in ToSet(t)
    BY <1>1, ListTyped
  <2>2. PICK i \in 1 .. Len(t) : t[i] = a
    BY <1>1, <2>1, InList
  <2>3. i \in DOMAIN q /\ Len(t) + 1 \in DOMAIN q /\ i < Len(t) + 1
    BY <1>2
  <2> QED BY <1>2, <2>2, <2>3 DEF Before
<1> QED BY <1>2, <1>4, <1>5, <1>6, <1>7 DEF q

LEMMA ReversedIn ==
  ASSUME NEW X, NEW s \in Seq(X)
  PROVE  ToSet(Reverse(s)) \subseteq ToSet(s)
<1> SUFFICES ASSUME NEW x \in ToSet(Reverse(s)) PROVE x \in ToSet(s)
  OBVIOUS
<1>1. Reverse(s) \in Seq(X) /\ Len(Reverse(s)) = Len(s)
  BY ReverseList
<1>2. PICK i \in 1 .. Len(Reverse(s)) : Reverse(s)[i] = x
  BY <1>1, InList
<1>3. Len(s) \in Nat /\ (Len(s) - i) + 1 \in 1 .. Len(s) /\ s[(Len(s) - i) + 1] = x
  BY <1>1, <1>2 DEF Reverse
<1> QED BY <1>3, InList

\* The first n of a list.
LEMMA FirstOf ==
  ASSUME NEW X, NEW s \in Seq(X), NEW n \in 0 .. Len(s)
  PROVE  /\ SubSeq(s, 1, n) \in Seq(X) /\ Len(SubSeq(s, 1, n)) = n
         /\ \A i \in 1 .. n : SubSeq(s, 1, n)[i] = s[i]
         /\ ToSet(SubSeq(s, 1, n)) \subseteq ToSet(s)
<1>1. /\ SubSeq(s, 1, n) \in Seq(X) /\ Len(SubSeq(s, 1, n)) = n /\ Len(s) \in Nat
      /\ \A i \in 1 .. n : SubSeq(s, 1, n)[i] = s[i] /\ i \in 1 .. Len(s)
  OBVIOUS
<1>2. ASSUME NEW x \in ToSet(SubSeq(s, 1, n)) PROVE x \in ToSet(s)
  <2>1. PICK i \in 1 .. Len(SubSeq(s, 1, n)) : SubSeq(s, 1, n)[i] = x
    BY <1>1, <1>2, InList
  <2> QED BY <1>1, <2>1, InList
<1> QED BY <1>1, <1>2

LEMMA Joined ==
  ASSUME NEW X, NEW a \in Seq(X), NEW b \in Seq(X)
  PROVE  a \o b \in Seq(X) /\ ToSet(a \o b) = ToSet(a) \cup ToSet(b)
<1>1. /\ a \o b \in Seq(X) /\ Len(a) \in Nat /\ Len(b) \in Nat
      /\ Len(a \o b) = Len(a) + Len(b)
      /\ \A i \in 1 .. Len(a) : (a \o b)[i] = a[i]
      /\ \A i \in 1 .. Len(b) : (a \o b)[Len(a) + i] = b[i]
  OBVIOUS
<1>2. \A x : x \in ToSet(a \o b) <=> \E i \in 1 .. Len(a \o b) : (a \o b)[i] = x
  BY <1>1, InList
<1>3. ASSUME NEW x \in ToSet(a \o b) PROVE x \in ToSet(a) \cup ToSet(b)
  <2>1. PICK i \in 1 .. Len(a) + Len(b) : (a \o b)[i] = x
    BY <1>1, <1>2, <1>3
  <2>2. CASE i \in 1 .. Len(a)
    BY <1>1, <2>1, <2>2, InList
  <2>3. CASE i \notin 1 .. Len(a)
    <3>1. i - Len(a) \in 1 .. Len(b) /\ Len(a) + (i - Len(a)) = i
      BY <1>1, <2>3
    <3> QED BY <1>1, <2>1, <3>1, InList
  <2> QED BY <2>2, <2>3
<1>4. ASSUME NEW x \in ToSet(a) PROVE x \in ToSet(a \o b)
  <2>1. PICK i \in 1 .. Len(a) : a[i] = x
    BY <1>4, InList
  <2>2. i \in 1 .. Len(a \o b)
    BY <1>1
  <2> QED BY <1>1, <1>2, <2>1, <2>2
<1>5. ASSUME NEW x \in ToSet(b) PROVE x \in ToSet(a \o b)
  <2>1. PICK i \in 1 .. Len(b) : b[i] = x
    BY <1>5, InList
  <2>2. Len(a) + i \in 1 .. Len(a \o b)
    BY <1>1
  <2> QED BY <1>1, <1>2, <2>1, <2>2
<1> QED BY <1>1, <1>3, <1>4, <1>5

------------------------------------------------------------------------------
(* The directory and the lists of the processes                            *)

\* The receipts, with the order of their writes.
DiskOK ==
  /\ receipt \in [Runs -> Receipt] /\ order \in Seq(Runs)
  /\ \A r \in Runs : (r \in ToSet(order)) <=> OnDisk(r)
  /\ \A i, j \in DOMAIN order : order[i] = order[j] => i = j

LEMMA PutKeeps ==
  ASSUME DiskOK, NEW r \in Runs, NEW state \in States, NEW named \in BOOLEAN,
         Put(r, state, named)
  PROVE  /\ DiskOK' /\ receipt'[r].state = state /\ receipt'[r].pid = named
         /\ \A x \in Runs \ {r} : receipt'[x] = receipt[x]
<1>1. /\ receipt' \in [Runs -> Receipt] /\ receipt'[r] = [state |-> state, pid |-> named]
      /\ \A x \in Runs \ {r} : receipt'[x] = receipt[x]
  BY DEF DiskOK, Put, Receipt
<1>2. receipt'[r].state = state /\ receipt'[r].pid = named
  BY <1>1
<1>3. state # "none"
  BY DEF States, Terminal
<1>4. /\ order' \in Seq(Runs) /\ Once(order') /\ ToSet(order') = ToSet(order) \cup {r}
  <2>1. order \in Seq(Runs) /\ Once(order) /\ order' = Rewritten(order, r)
    BY DEF DiskOK, Put, Once, Rewritten
  <2> QED BY <2>1, WrittenLast
<1>5. \A x \in Runs : x \in ToSet(order') <=> OnDisk(x)'
  BY <1>1, <1>2, <1>3, <1>4 DEF DiskOK, OnDisk
<1> QED BY <1>1, <1>2, <1>4, <1>5 DEF DiskOK, Once

LEMMA DiskSame ==
  ASSUME DiskOK, UNCHANGED disk
  PROVE  DiskOK' /\ receipt' = receipt
BY DEF DiskOK, disk, OnDisk

\* A process in the middle of something has a run in hand.
LEMMA InHand ==
  ASSUME TypeOK, NEW p \in Procs, at[p] \notin {"down", "idle"}
  PROVE  /\ Hand(p) \in Runs /\ Hand(p) \in ToSet(todo[p]) /\ Tail(todo[p]) \in Seq(Runs)
         /\ ToSet(Tail(todo[p])) \subseteq ToSet(todo[p])
         /\ ToSet(todo[p]) \subseteq ToSet(Tail(todo[p])) \cup {Hand(p)}
         /\ Len(todo[p]) # 1 => Tail(todo[p]) # <<>>
         /\ Len(todo[p]) = 1 => ToSet(todo[p]) = {Hand(p)}
<1>1. todo[p] \in Seq(Runs) /\ todo[p] # <<>>
  BY DEF TypeOK
<1> QED BY <1>1, ListHead DEF Hand

LEMMA Lists ==
  ASSUME TypeOK
  PROVE  \A q \in Procs :
           /\ ToSet(todo[q]) \subseteq Runs
           /\ at[q] \notin {"down", "idle"} => Hand(q) \in Runs /\ Hand(q) \in ToSet(todo[q])
BY InHand, ListTyped DEF TypeOK

\* What every step but p's own leaves to the other processes.
Others(p) ==
  \A q \in Procs \ {p} : /\ at'[q] = at[q] /\ todo'[q] = todo[q]
                         /\ seen'[q] = seen[q] /\ patch'[q] = patch[q]

------------------------------------------------------------------------------
(* The owner's steps                                                       *)

\* An owner's read: whatever it reports, the runner only goes on.
LEMMA OwnerReads ==
  ASSUME IInv, NEW p \in Procs, NEW r \in Runs, NEW state \in States, NEW named \in BOOLEAN,
         Reads(p, r, state, named), owner[r] = p,
         \/ at[p] = "idle" /\ phase[r] = "live"
         \/ at[p] \in {"spawn", "chunk"} /\ Hand(p) = r,
         phase' \in [Runs -> {"none", "opened", "live", "ended", "retained"}],
         \A x \in Runs \ {r} : phase'[x] = phase[x],
         phase'[r] \in {"live", "ended"}, phase[r] = "ended" => phase'[r] = "ended",
         state \in Terminal => phase'[r] = "ended",
         pid' \in [Runs -> {"none", "child", "gone", "taken"}],
         \A x \in Runs : pid'[x] = pid[x] \/ (x = r /\ phase[r] = "opened")
  PROVE  IInv'
<1> USE DEF IInv
<1>1. receipt' = receipt /\ DiskOK'
  BY DiskSame DEF Reads, TypeOK, DiskOK
<1>2. /\ owner' = owner /\ aged' = aged /\ starts' = starts /\ early' = early /\ held' = held
      /\ settled' = settled /\ due' = due
  BY DEF Reads, history
<1>3. /\ state # "none" /\ <<r>> \in Seq(Runs) /\ <<r>> # <<>>
      /\ Head(<<r>>) = r /\ ToSet(<<r>>) = {r}
  BY ListOne DEF States, Terminal
<1>4. /\ todo'[p] = <<r>> /\ Hand(p)' = r /\ ToSet(todo'[p]) = {r} /\ todo' \in [Procs -> Seq(Runs)]
  BY <1>3 DEF Reads, TypeOK, Hand
<1>5. /\ at' \in [Procs -> {"down", "idle", "spawn", "write", "chunk", "unlink",
                       "probe", "mark", "settle"}]
      /\ at'[p] \in {"write", "chunk", "idle"}
      /\ at'[p] = "chunk" => state = "failed"
      /\ at'[p] = "write" => patch'[p] = [state |-> state, pid |-> named]
      /\ Others(p)
  BY DEF Reads, TypeOK, AfterUpdate, Others
<1>6. seen' \in [Procs -> BOOLEAN] /\ patch' \in [Procs -> Receipt]
  <2>1. [state |-> state, pid |-> named] \in Receipt /\ receipt[r].pid \in BOOLEAN
    BY DEF Receipt, TypeOK
  <2>2. seen \in [Procs -> BOOLEAN] /\ patch \in [Procs -> Receipt]
    BY DEF TypeOK
  <2>3. /\ seen' = seen \/ seen' = [seen EXCEPT ![p] = receipt[r].pid]
        /\ patch' = patch \/ patch' = [patch EXCEPT ![p] = [state |-> state, pid |-> named]]
    BY DEF Reads
  <2> QED BY <2>1, <2>2, <2>3
<1>7. at'[p] = "write" => patch'[p].state = state
  BY <1>5
<1>8. TypeOK'
  <2>1. ASSUME NEW q \in Procs, at'[q] \notin {"down", "idle"} PROVE todo'[q] # <<>>
    <3>1. CASE q = p
      BY <1>3, <1>4, <3>1
    <3>2. CASE q # p
      BY <1>5, <2>1, <3>2 DEF TypeOK, Others
    <3> QED BY <3>1, <3>2
  <2> QED BY <1>1, <1>2, <1>4, <1>5, <1>6, <2>1 DEF TypeOK, DiskOK
<1>9. \A q \in Procs : \/ q = p
                       \/ /\ Hand(q)' = Hand(q) /\ at'[q] = at[q] /\ patch'[q] = patch[q]
                          /\ todo'[q] = todo[q] /\ seen'[q] = seen[q]
  BY <1>5 DEF Others, Hand
<1>10. phase[r] \in {"opened", "live", "ended"}
  BY DEF Stages
<1>11. \A q \in Procs : /\ ToSet(todo[q]) \subseteq Runs
                        /\ at[q] \notin {"down", "idle"} => Hand(q) \in Runs
  BY Lists
<1>12. OwnerActs'
  BY <1>2, <1>4, <1>5, <1>9 DEF OwnerActs
<1>13. Stages'
  <2>1. \A q \in Procs \ {p} : at[q] \in {"spawn", "write", "chunk"} => Hand(q) # r /\ Hand(q) \in Runs
    BY <1>11 DEF OwnerActs
  <2>2. ASSUME NEW q \in Procs \ {p}
        PROVE  /\ at'[q] = "spawn" => phase'[Hand(q)'] = "opened"
               /\ at'[q] = "write" => /\ phase'[Hand(q)'] \in {"live", "ended"}
                                      /\ patch'[q].state # "none"
                                      /\ patch'[q].state \in Terminal => phase'[Hand(q)'] = "ended"
               /\ at'[q] = "chunk" => phase'[Hand(q)'] = "ended"
    <3>1. \A x \in Runs \ {r} : phase'[x] = phase[x]
      OBVIOUS
    <3> QED BY <1>9, <2>1, <3>1 DEF Stages
  <2>3. /\ at'[p] # "spawn"
        /\ at'[p] = "chunk" => phase'[r] = "ended"
        /\ at'[p] = "write" => patch'[p].state = state /\ phase'[r] \in {"live", "ended"}
    BY <1>5, <1>7 DEF Terminal
  <2>4. /\ at'[p] = "spawn" => phase'[Hand(p)'] = "opened"
        /\ at'[p] = "write" => /\ phase'[Hand(p)'] \in {"live", "ended"}
                               /\ patch'[p].state # "none"
                               /\ patch'[p].state \in Terminal => phase'[Hand(p)'] = "ended"
        /\ at'[p] = "chunk" => phase'[Hand(p)'] = "ended"
    BY <1>3, <1>4, <2>3
  <2> QED BY <2>2, <2>4 DEF Stages
<1>14. Begun'
  <2>1. \A x \in Runs : phase[x] # "none" => phase'[x] # "none"
    OBVIOUS
  <2>2. \A x \in Runs : receipt'[x].state # "none" => phase'[x] # "none"
    BY <1>1, <2>1 DEF Begun, OnDisk
  <2>3. ASSUME NEW q \in Procs, NEW x \in ToSet(todo'[q]) PROVE phase'[x] # "none"
    BY <1>4, <1>9, <1>11, <2>1 DEF Begun
  <2> QED BY <2>2, <2>3 DEF Begun, OnDisk
<1>15. \A x \in Runs : Past(x) => Past(x)'
  BY DEF Past
<1>16. PidsNamed'
  <2>1. \A x \in Runs : receipt'[x].pid => Past(x)'
    BY <1>1, <1>15 DEF PidsNamed
  <2>2. ASSUME NEW q \in Procs, at'[q] = "settle", seen'[q] PROVE Past(Hand(q))'
    <3>1. q # p
      BY <1>5, <2>2
    <3>2. at[q] = "settle" /\ seen[q] /\ Hand(q)' = Hand(q)
      BY <1>9, <2>2, <3>1
    <3> QED BY <1>11, <1>15, <3>2 DEF PidsNamed, Past
  <2> QED BY <2>1, <2>2 DEF PidsNamed
<1>17. Marked'
  <2> SUFFICES ASSUME NEW q \in Procs, at'[q] \in {"mark", "settle"}, Hand(q)' \notin early
               PROVE  pid'[Hand(q)'] # "child" /\ Past(Hand(q))'
    BY <1>2 DEF Marked
  <2>1. q # p
    BY <1>5
  <2>2. Hand(q)' = Hand(q) /\ Hand(q) \in Runs /\ pid[Hand(q)] # "child" /\ Past(Hand(q))
    BY <1>9, <1>11, <2>1 DEF Marked
  <2>3. pid'[Hand(q)] = pid[Hand(q)]
    BY <2>2 DEF Past
  <2> QED BY <1>15, <2>2, <2>3 DEF Past
<1>18. SettledDead'
  BY <1>2, <1>15 DEF SettledDead, Past, TypeOK
<1>19. HeldSafe'
  <2>1. r \notin held
    BY DEF HeldSafe, Ended
  <2>2. held \subseteq Runs
    BY DEF TypeOK
  <2>3. \A x \in held : Ended(x)'
    BY <2>1, <2>2 DEF HeldSafe, Ended
  <2>4. ASSUME NEW x \in held, NEW q \in Procs, at'[q] \in {"spawn", "write", "chunk", "settle"}
        PROVE  Hand(q)' # x
    BY <1>4, <1>9, <2>1, <2>4 DEF HeldSafe
  <2> QED BY <1>1, <1>2, <2>3, <2>4 DEF HeldSafe
<1>20. TerminalEnded'
  <2>1. \A x \in Runs : Ended(x) => Ended(x)'
    BY <1>10 DEF Ended
  <2>2. \A x \in Runs \ settled : IsTerminal(x)' => Ended(x)'
    BY <1>1, <2>1 DEF TerminalEnded, IsTerminal
  <2>3. ASSUME NEW q \in Procs, at'[q] = "unlink", NEW x \in ToSet(todo'[q]) \ settled
        PROVE  Ended(x)'
    BY <1>5, <1>9, <1>11, <2>1, <2>3 DEF TerminalEnded
  <2> QED BY <1>2, <2>2, <2>3 DEF TerminalEnded
<1>21. ActiveKept'
  BY <1>1, <1>2, <1>10 DEF ActiveKept, OnDisk
<1>22. DueHandled'
  <2>1. \A q \in Procs : \A x \in due[q] : x \in Runs \ {r}
    BY NobodyAssumption DEF DueHandled, TypeOK
  <2>2. \A x \in Runs \ {r} : phase'[x] = phase[x] /\ pid'[x] = pid[x]
    OBVIOUS
  <2>3. \A q \in Procs, x \in Runs : at'[q] # "down" \/ at[q] = "down"
    BY <1>5, <1>9
  <2>4. ASSUME NEW q \in Procs, NEW x \in due[q]
        PROVE  owner'[x] = Nobody /\ phase'[x] # "none" /\ Gone(x)' /\ at'[q] # "down"
    BY <1>2, <2>1, <2>2, <2>3 DEF DueHandled, Gone
  <2>5. ASSUME NEW q \in Procs, NEW x \in due[q]
        PROVE  \/ IsTerminal(x)'
               \/ ~OnDisk(x)'
               \/ at'[q] \in {"probe", "mark", "settle"} /\ x \in ToSet(todo'[q])
    <3>1. \/ IsTerminal(x)
          \/ ~OnDisk(x)
          \/ at[q] \in {"probe", "mark", "settle"} /\ x \in ToSet(todo[q])
      BY DEF DueHandled
    <3>2. IsTerminal(x)' = IsTerminal(x) /\ OnDisk(x)' = OnDisk(x)
      BY <1>1 DEF IsTerminal, OnDisk
    <3>3. at[q] \in {"probe", "mark", "settle"} => q # p
      OBVIOUS
    <3> QED BY <1>9, <3>1, <3>2, <3>3
  <2> QED BY <1>2, <2>4, <2>5 DEF DueHandled
<1> QED BY <1>8, <1>12, <1>13, <1>14, <1>16, <1>17, <1>18, <1>19, <1>20, <1>21, <1>22

LEMMA SpawnKeeps ==
  ASSUME IInv, NEW p \in Procs, NEW named \in BOOLEAN, Spawn(p, named)
  PROVE  IInv'
<1>1. /\ at[p] = "spawn" /\ Reads(p, Hand(p), "starting", named)
      /\ pid' = [pid EXCEPT ![Hand(p)] = IF named THEN "child" ELSE "none"]
      /\ phase' = [phase EXCEPT ![Hand(p)] = "live"]
  BY DEF Spawn, Hand
<1>2. Hand(p) \in Runs /\ owner[Hand(p)] = p /\ phase[Hand(p)] = "opened"
  BY <1>1, InHand DEF IInv, OwnerActs, Stages
<1>3. /\ phase' \in [Runs -> {"none", "opened", "live", "ended", "retained"}]
      /\ pid' \in [Runs -> {"none", "child", "gone", "taken"}]
      /\ \A x \in Runs \ {Hand(p)} : phase'[x] = phase[x] /\ pid'[x] = pid[x]
      /\ phase'[Hand(p)] = "live"
  BY <1>1, <1>2 DEF IInv, TypeOK
<1>4. "starting" \in States /\ "starting" \notin Terminal
  BY DEF States, Terminal
<1> QED BY <1>1, <1>2, <1>3, <1>4, OwnerReads

LEMMA SpawnFailsKeeps ==
  ASSUME IInv, NEW p \in Procs, SpawnFails(p)
  PROVE  IInv'
<1>1. /\ at[p] = "spawn" /\ Reads(p, Hand(p), "failed", FALSE) /\ pid' = pid
      /\ phase' = [phase EXCEPT ![Hand(p)] = "ended"]
  BY DEF SpawnFails, Hand
<1>2. Hand(p) \in Runs /\ owner[Hand(p)] = p /\ phase[Hand(p)] = "opened"
  BY <1>1, InHand DEF IInv, OwnerActs, Stages
<1>3. /\ phase' \in [Runs -> {"none", "opened", "live", "ended", "retained"}]
      /\ pid' \in [Runs -> {"none", "child", "gone", "taken"}]
      /\ \A x \in Runs \ {Hand(p)} : phase'[x] = phase[x]
      /\ \A x \in Runs : pid'[x] = pid[x]
      /\ phase'[Hand(p)] = "ended"
  BY <1>1, <1>2 DEF IInv, TypeOK
<1>4. "failed" \in States /\ FALSE \in BOOLEAN
  BY DEF States, Terminal
<1> QED BY <1>1, <1>2, <1>3, <1>4, OwnerReads

LEMMA AcceptedKeeps ==
  ASSUME IInv, NEW p \in Procs, NEW r \in Runs, Accepted(p, r)
  PROVE  IInv'
<1>1. /\ at[p] = "idle" /\ owner[r] = p /\ phase[r] = "live"
      /\ Reads(p, r, "running", FALSE) /\ pid' = pid /\ phase' = phase
  BY DEF Accepted
<1>2. /\ phase' \in [Runs -> {"none", "opened", "live", "ended", "retained"}]
      /\ pid' \in [Runs -> {"none", "child", "gone", "taken"}]
      /\ \A x \in Runs : phase'[x] = phase[x] /\ pid'[x] = pid[x]
      /\ phase'[r] = "live"
  BY <1>1 DEF IInv, TypeOK
<1>3. "running" \in States /\ "running" \notin Terminal /\ FALSE \in BOOLEAN
  BY DEF States, Terminal
<1> QED BY <1>1, <1>2, <1>3, OwnerReads

LEMMA FinishKeeps ==
  ASSUME IInv, NEW p \in Procs, NEW r \in Runs, NEW s \in Ends, Finish(p, r, s)
  PROVE  IInv'
<1>1. /\ at[p] = "idle" /\ owner[r] = p /\ phase[r] = "live"
      /\ Reads(p, r, s, FALSE) /\ pid' = pid /\ phase' = [phase EXCEPT ![r] = "ended"]
  BY DEF Finish
<1>2. /\ phase' \in [Runs -> {"none", "opened", "live", "ended", "retained"}]
      /\ pid' \in [Runs -> {"none", "child", "gone", "taken"}]
      /\ \A x \in Runs \ {r} : phase'[x] = phase[x]
      /\ \A x \in Runs : pid'[x] = pid[x]
      /\ phase'[r] = "ended"
  BY <1>1 DEF IInv, TypeOK
<1>3. s \in States /\ FALSE \in BOOLEAN
  BY EndsAssumption DEF States, Terminal
<1> QED BY <1>1, <1>2, <1>3, OwnerReads

LEMMA AcceptedLateKeeps ==
  ASSUME IInv, NEW p \in Procs, AcceptedLate(p)
  PROVE  IInv'
<1>1. /\ at[p] = "chunk" /\ Reads(p, Hand(p), "running", FALSE)
      /\ pid' = pid /\ phase' = phase
  BY DEF AcceptedLate, Hand
<1>2. Hand(p) \in Runs /\ owner[Hand(p)] = p /\ phase[Hand(p)] = "ended"
  BY <1>1, InHand DEF IInv, OwnerActs, Stages
<1>3. /\ phase' \in [Runs -> {"none", "opened", "live", "ended", "retained"}]
      /\ pid' \in [Runs -> {"none", "child", "gone", "taken"}]
      /\ \A x \in Runs : phase'[x] = phase[x] /\ pid'[x] = pid[x]
      /\ phase'[Hand(p)] = "ended"
  BY <1>1, <1>2 DEF IInv, TypeOK
<1>4. "running" \in States /\ "running" \notin Terminal /\ FALSE \in BOOLEAN
  BY DEF States, Terminal
<1> QED BY <1>1, <1>2, <1>3, <1>4, OwnerReads

LEMMA OpenKeeps ==
  ASSUME IInv, NEW p \in Procs, NEW r \in Runs, Open(p, r)
  PROVE  IInv'
<1> USE DEF IInv
<1>1. /\ at[p] = "idle" /\ phase[r] = "none" /\ Put(r, "created", FALSE)
      /\ owner' = [owner EXCEPT ![r] = p] /\ phase' = [phase EXCEPT ![r] = "opened"]
      /\ at' = [at EXCEPT ![p] = "spawn"] /\ todo' = [todo EXCEPT ![p] = <<r>>]
      /\ pid' = pid /\ seen' = seen /\ patch' = patch /\ aged' = aged /\ starts' = starts
      /\ early' = early /\ held' = held /\ settled' = settled /\ due' = due
  BY DEF Open, history
<1>2. /\ DiskOK' /\ receipt'[r].state = "created" /\ receipt'[r].pid = FALSE
      /\ \A x \in Runs \ {r} : receipt'[x] = receipt[x]
  <2>1. "created" \in States /\ FALSE \in BOOLEAN /\ DiskOK
    BY DEF States, DiskOK, TypeOK
  <2> QED BY <1>1, <2>1, PutKeeps
<1>3. /\ <<r>> \in Seq(Runs) /\ <<r>> # <<>> /\ Head(<<r>>) = r /\ ToSet(<<r>>) = {r}
  BY ListOne
<1>4. /\ at'[p] = "spawn" /\ todo'[p] = <<r>> /\ Hand(p)' = r /\ ToSet(todo'[p]) = {r}
      /\ owner'[r] = p /\ phase'[r] = "opened"
      /\ \A x \in Runs \ {r} : owner'[x] = owner[x] /\ phase'[x] = phase[x]
      /\ \A q \in Procs \ {p} : at'[q] = at[q] /\ todo'[q] = todo[q] /\ Hand(q)' = Hand(q)
  BY <1>1, <1>3 DEF TypeOK, Hand
\* Nothing knows the run yet.
<1>5. /\ r \notin held /\ ~OnDisk(r) /\ \A q \in Procs : r \notin due[q] /\ r \notin ToSet(todo[q])
  BY <1>1 DEF HeldSafe, Ended, Begun, DueHandled
<1>6. \A q \in Procs : /\ ToSet(todo[q]) \subseteq Runs /\ due[q] \subseteq Runs
                       /\ at[q] \notin {"down", "idle"} => Hand(q) \in Runs \ {r}
  BY <1>5, Lists DEF TypeOK
<1>7. TypeOK'
  <2>1. ASSUME NEW q \in Procs, at'[q] \notin {"down", "idle"} PROVE todo'[q] # <<>>
    BY <1>3, <1>4, <2>1 DEF TypeOK
  <2>2. /\ owner' \in [Runs -> Procs \cup {Nobody}]
        /\ phase' \in [Runs -> {"none", "opened", "live", "ended", "retained"}]
        /\ at' \in [Procs -> {"down", "idle", "spawn", "write", "chunk", "unlink",
                       "probe", "mark", "settle"}]
        /\ todo' \in [Procs -> Seq(Runs)]
    BY <1>1, <1>3 DEF TypeOK
  <2> QED BY <1>1, <1>2, <2>1, <2>2 DEF TypeOK, DiskOK
<1>8. OwnerActs'
  BY <1>4, <1>6 DEF OwnerActs
<1>9. Stages'
  <2>1. ASSUME NEW q \in Procs \ {p}
        PROVE  /\ at'[q] = "spawn" => phase'[Hand(q)'] = "opened"
               /\ at'[q] = "write" => /\ phase'[Hand(q)'] \in {"live", "ended"}
                                      /\ patch'[q].state # "none"
                                      /\ patch'[q].state \in Terminal => phase'[Hand(q)'] = "ended"
               /\ at'[q] = "chunk" => phase'[Hand(q)'] = "ended"
    BY <1>1, <1>4, <1>6 DEF Stages
  <2> QED BY <1>4, <2>1 DEF Stages
<1>10. Begun'
  <2>1. \A x \in Runs : OnDisk(x)' => phase'[x] # "none"
    BY <1>2, <1>4 DEF Begun, OnDisk
  <2>2. ASSUME NEW q \in Procs, NEW x \in ToSet(todo'[q]) PROVE phase'[x] # "none"
    BY <1>4, <1>5, <1>6 DEF Begun
  <2> QED BY <2>1, <2>2 DEF Begun
<1>11. \A x \in Runs : Past(x)' = Past(x) /\ Ended(x)' = Ended(x)
  BY <1>1, <1>4 DEF Past, Ended
<1>12. PidsNamed'
  <2>1. \A x \in Runs : receipt'[x].pid => Past(x)'
    BY <1>2, <1>11 DEF PidsNamed
  <2>2. ASSUME NEW q \in Procs, at'[q] = "settle", seen'[q] PROVE Past(Hand(q))'
    <3>1. q # p
      BY <1>4, <2>2
    <3>2. at[q] = "settle" /\ seen[q] /\ Hand(q)' = Hand(q)
      BY <1>1, <1>4, <2>2, <3>1
    <3> QED BY <1>4, <1>6, <3>2 DEF PidsNamed, Past
  <2> QED BY <2>1, <2>2 DEF PidsNamed
<1>13. Marked'
  <2> SUFFICES ASSUME NEW q \in Procs, at'[q] \in {"mark", "settle"}, Hand(q)' \notin early
               PROVE  pid'[Hand(q)'] # "child" /\ Past(Hand(q))'
    BY <1>1 DEF Marked
  <2>1. q # p
    BY <1>4
  <2>2. Hand(q)' = Hand(q) /\ Hand(q) \in Runs \ {r} /\ pid[Hand(q)] # "child" /\ Past(Hand(q))
    BY <1>4, <1>6, <2>1 DEF Marked
  <2> QED BY <1>1, <1>4, <2>2 DEF Past
<1>14. SettledDead'
  BY <1>1, <1>11 DEF SettledDead, TypeOK
<1>15. HeldSafe'
  <2>1. ASSUME NEW x \in held PROVE receipt'[x].state \in {"none", "succeeded"} /\ Ended(x)'
    BY <1>2, <1>5, <1>11 DEF HeldSafe, TypeOK
  <2>2. ASSUME NEW x \in held, NEW q \in Procs, at'[q] \in {"spawn", "write", "chunk", "settle"}
        PROVE  Hand(q)' # x
    BY <1>4, <1>5, <2>2 DEF HeldSafe
  <2> QED BY <1>1, <2>1, <2>2 DEF HeldSafe
<1>16. TerminalEnded'
  <2>1. \A x \in Runs \ settled : IsTerminal(x)' => Ended(x)'
    BY <1>2, <1>11 DEF TerminalEnded, IsTerminal, Terminal
  <2>2. ASSUME NEW q \in Procs, at'[q] = "unlink", NEW x \in ToSet(todo'[q]) \ settled
        PROVE  Ended(x)'
    BY <1>4, <1>6, <1>11, <2>2 DEF TerminalEnded
  <2> QED BY <1>1, <2>1, <2>2 DEF TerminalEnded
<1>17. ActiveKept'
  BY <1>1, <1>2, <1>4 DEF ActiveKept, OnDisk
<1>18. DueHandled'
  <2>1. ASSUME NEW q \in Procs, NEW x \in due[q]
        PROVE  owner'[x] = Nobody /\ phase'[x] # "none" /\ Gone(x)' /\ at'[q] # "down"
    BY <1>1, <1>4, <1>5, <1>6 DEF DueHandled, Gone
  <2>2. ASSUME NEW q \in Procs, NEW x \in due[q]
        PROVE  \/ IsTerminal(x)'
               \/ ~OnDisk(x)'
               \/ at'[q] \in {"probe", "mark", "settle"} /\ x \in ToSet(todo'[q])
    <3>1. \/ IsTerminal(x)
          \/ ~OnDisk(x)
          \/ at[q] \in {"probe", "mark", "settle"} /\ x \in ToSet(todo[q])
      BY DEF DueHandled
    <3>2. x \in Runs \ {r}
      BY <1>5, <1>6
    <3>3. IsTerminal(x)' = IsTerminal(x) /\ OnDisk(x)' = OnDisk(x)
      BY <1>2, <3>2 DEF IsTerminal, OnDisk
    <3>4. at[q] \in {"probe", "mark", "settle"} => q # p
      BY <1>1
    <3> QED BY <1>4, <3>1, <3>3, <3>4
  <2> QED BY <1>1, <2>1, <2>2 DEF DueHandled
<1> QED BY <1>7, <1>8, <1>9, <1>10, <1>12, <1>13, <1>14, <1>15, <1>16, <1>17, <1>18

LEMMA WriteKeeps ==
  ASSUME IInv, NEW p \in Procs, Write(p)
  PROVE  IInv'
<1> USE DEF IInv
<1> DEFINE r == Hand(p)
<1>1. /\ at[p] = "write" /\ Put(r, patch[p].state, seen[p] \/ patch[p].pid) /\ LetGo(p)
      /\ held' = IF patch[p].state = "succeeded" /\ pid[r] = "child" /\ r \notin early
                 THEN held \cup {r} ELSE held
      /\ at' = [at EXCEPT ![p] = AfterUpdate(r, patch[p].state)]
      /\ pid' = pid /\ owner' = owner /\ phase' = phase /\ todo' = todo /\ aged' = aged
      /\ starts' = starts /\ early' = early /\ settled' = settled /\ due' = due
  BY DEF Write, Hand, runners
<1>2. r \in Runs /\ r \in ToSet(todo[p]) /\ owner[r] = p /\ phase[r] \in {"live", "ended"}
  BY <1>1, InHand DEF OwnerActs, Stages
<1>3. /\ patch[p].state # "none"
      /\ patch[p].state \in Terminal => phase[r] = "ended"
      /\ patch[p].state \in States /\ (seen[p] \/ patch[p].pid) \in BOOLEAN
  BY <1>1, <1>2 DEF Stages, TypeOK, Receipt
<1> HIDE DEF r
<1>4. /\ DiskOK' /\ receipt'[r].state = patch[p].state
      /\ \A x \in Runs \ {r} : receipt'[x] = receipt[x]
  <2>1. DiskOK
    BY DEF TypeOK, DiskOK
  <2> QED BY <1>1, <1>2, <1>3, <2>1, PutKeeps
<1>5. /\ \A q \in Procs : Hand(q)' = Hand(q) /\ todo'[q] = todo[q]
      /\ \A q \in Procs \ {p} : at'[q] = at[q] /\ seen'[q] = seen[q] /\ patch'[q] = patch[q]
  BY <1>1 DEF Hand, LetGo, TypeOK
<1>6. /\ at'[p] \in {"chunk", "idle"}
      /\ at'[p] = "chunk" => patch[p].state = "failed"
  BY <1>1 DEF AfterUpdate, TypeOK
<1>7. r \notin held /\ \A q \in Procs : r \notin due[q]
  BY <1>1, <1>2, NobodyAssumption DEF HeldSafe, DueHandled, r
<1>8. \A q \in Procs : /\ ToSet(todo[q]) \subseteq Runs /\ due[q] \subseteq Runs
                       /\ at[q] \notin {"down", "idle"} => Hand(q) \in Runs
  BY Lists DEF TypeOK
<1>9. \A x \in Runs : Past(x)' = Past(x) /\ Ended(x)' = Ended(x)
  BY <1>1 DEF Past, Ended
<1>10. held' \subseteq held \cup {r} /\ (r \in held' => /\ patch[p].state = "succeeded"
                                                       /\ pid[r] = "child" /\ r \notin early)
  BY <1>1, <1>7
<1>11. TypeOK'
  <2>1. seen' \in [Procs -> BOOLEAN] /\ patch' \in [Procs -> Receipt]
    <3>1. NoReceipt \in Receipt
      BY DEF Receipt, NoReceipt
    <3> QED BY <1>1, <3>1 DEF LetGo, TypeOK
  <2>2. at' \in [Procs -> {"down", "idle", "spawn", "write", "chunk", "unlink",
                       "probe", "mark", "settle"}]
    BY <1>1 DEF TypeOK, AfterUpdate
  <2>3. ASSUME NEW q \in Procs, at'[q] \notin {"down", "idle"} PROVE todo'[q] # <<>>
    BY <1>1, <1>5, <2>3 DEF TypeOK
  <2>4. held' \subseteq Runs
    BY <1>2, <1>10 DEF TypeOK
  <2> QED BY <1>1, <1>4, <2>1, <2>2, <2>3, <2>4 DEF TypeOK, DiskOK
<1>12. OwnerActs'
  BY <1>1, <1>2, <1>5 DEF OwnerActs, r
<1>13. Stages'
  <2>1. ASSUME NEW q \in Procs \ {p}
        PROVE  /\ at'[q] = "spawn" => phase'[Hand(q)'] = "opened"
               /\ at'[q] = "write" => /\ phase'[Hand(q)'] \in {"live", "ended"}
                                      /\ patch'[q].state # "none"
                                      /\ patch'[q].state \in Terminal => phase'[Hand(q)'] = "ended"
               /\ at'[q] = "chunk" => phase'[Hand(q)'] = "ended"
    BY <1>1, <1>5 DEF Stages
  <2>2. at'[p] = "chunk" => phase'[Hand(p)'] = "ended"
    BY <1>1, <1>3, <1>5, <1>6 DEF Terminal, r
  <2> QED BY <1>6, <2>1, <2>2 DEF Stages
<1>14. Begun'
  <2>1. \A x \in Runs : OnDisk(x)' => phase'[x] # "none"
    BY <1>1, <1>2, <1>4 DEF Begun, OnDisk
  <2> QED BY <1>1, <1>5, <2>1 DEF Begun
<1>15. PidsNamed'
  <2>1. \A x \in Runs : receipt'[x].pid => Past(x)'
    BY <1>2, <1>4, <1>9 DEF PidsNamed, Past
  <2>2. ASSUME NEW q \in Procs, at'[q] = "settle", seen'[q] PROVE Past(Hand(q))'
    <3>1. q # p
      BY <1>6, <2>2
    <3>2. at[q] = "settle" /\ seen[q] /\ Hand(q)' = Hand(q)
      BY <1>5, <2>2, <3>1
    <3> QED BY <1>1, <1>8, <3>2 DEF PidsNamed, Past
  <2> QED BY <2>1, <2>2 DEF PidsNamed
<1>16. Marked'
  <2> SUFFICES ASSUME NEW q \in Procs, at'[q] \in {"mark", "settle"}, Hand(q)' \notin early
               PROVE  pid'[Hand(q)'] # "child" /\ Past(Hand(q))'
    BY <1>1 DEF Marked
  <2>1. q # p
    BY <1>6
  <2>2. Hand(q)' = Hand(q) /\ pid[Hand(q)] # "child" /\ Past(Hand(q))
    BY <1>5, <2>1 DEF Marked
  <2> QED BY <1>1, <2>2 DEF Past
<1>17. SettledDead'
  BY <1>1, <1>9 DEF SettledDead, TypeOK
\* Whoever is about to write the receipt now is a recovery, and thinks the child dead.
<1>18. HeldSafe'
  <2>1. ASSUME NEW x \in held' PROVE receipt'[x].state \in {"none", "succeeded"} /\ Ended(x)'
    <3>1. CASE x \in held
      BY <1>4, <1>7, <1>9, <3>1 DEF HeldSafe, TypeOK
    <3>2. CASE x = r
      <4>1. patch[p].state = "succeeded"
        BY <1>10, <2>1, <3>2
      <4> QED BY <1>1, <1>3, <1>4, <3>2, <4>1 DEF Ended, Terminal
    <3> QED BY <1>10, <3>1, <3>2
  <2>2. ASSUME NEW x \in held', NEW q \in Procs, at'[q] \in {"spawn", "write", "chunk", "settle"}
        PROVE  Hand(q) # x
    <3>1. CASE x \in held /\ q # p
      BY <1>5, <2>2, <3>1 DEF HeldSafe
    <3>2. CASE x \in held /\ q = p
      BY <1>7, <3>2 DEF r
    <3>3. CASE x = r
      <4>1. q # p
        BY <1>6, <1>10, <2>2, <3>3
      <4>2. CASE at[q] = "settle"
        BY <1>10, <2>2, <3>3, <4>2 DEF Marked
      <4>3. CASE at[q] # "settle"
        BY <1>2, <1>5, <2>2, <3>3, <4>1, <4>3 DEF OwnerActs
      <4> QED BY <4>2, <4>3
    <3> QED BY <1>10, <3>1, <3>2, <3>3
  <2> QED BY <1>5, <2>1, <2>2 DEF HeldSafe
<1>19. TerminalEnded'
  <2>1. \A x \in Runs \ settled : IsTerminal(x)' => Ended(x)'
    BY <1>1, <1>2, <1>3, <1>4, <1>9 DEF TerminalEnded, IsTerminal, Ended
  <2>2. ASSUME NEW q \in Procs, at'[q] = "unlink", NEW x \in ToSet(todo'[q]) \ settled
        PROVE  Ended(x)'
    BY <1>5, <1>6, <1>8, <1>9, <2>2 DEF TerminalEnded
  <2> QED BY <1>1, <2>1, <2>2 DEF TerminalEnded
<1>20. ActiveKept'
  BY <1>1, <1>2, <1>3, <1>4 DEF ActiveKept, OnDisk
<1>21. DueHandled'
  <2>1. ASSUME NEW q \in Procs, NEW x \in due[q]
        PROVE  owner'[x] = Nobody /\ phase'[x] # "none" /\ Gone(x)' /\ at'[q] # "down"
    BY <1>1, <1>5, <1>6 DEF DueHandled, Gone
  <2>2. ASSUME NEW q \in Procs, NEW x \in due[q]
        PROVE  \/ IsTerminal(x)'
               \/ ~OnDisk(x)'
               \/ at'[q] \in {"probe", "mark", "settle"} /\ x \in ToSet(todo'[q])
    <3>1. \/ IsTerminal(x)
          \/ ~OnDisk(x)
          \/ at[q] \in {"probe", "mark", "settle"} /\ x \in ToSet(todo[q])
      BY DEF DueHandled
    <3>2. x \in Runs \ {r}
      BY <1>7, <1>8
    <3>3. IsTerminal(x)' = IsTerminal(x) /\ OnDisk(x)' = OnDisk(x)
      BY <1>4, <3>2 DEF IsTerminal, OnDisk
    <3>4. at[q] \in {"probe", "mark", "settle"} => q # p
      BY <1>1
    <3> QED BY <1>5, <3>1, <3>3, <3>4
  <2> QED BY <1>1, <2>1, <2>2 DEF DueHandled
<1> QED BY <1>11, <1>12, <1>13, <1>14, <1>15, <1>16, <1>17, <1>18, <1>19, <1>20, <1>21

------------------------------------------------------------------------------
(* Retention, and orphan recovery                                          *)

\* A step of p that is not its own run's: receipts go only when their runs have
\* ended, and become "crashed" only with a reason to.
LEMMA Elsewhere ==
  ASSUME IInv, TypeOK', NEW p \in Procs, Others(p), pid' = pid, owner' = owner,
         \A x \in Runs : \/ phase'[x] = phase[x]
                         \/ phase[x] = "ended" /\ owner[x] = p /\ phase'[x] = "retained",
         at[p] \notin {"spawn", "write"},
         at'[p] \notin {"down", "spawn", "write", "chunk"},
         \A x \in ToSet(todo'[p]) : phase[x] # "none",
         held' = held, early \subseteq early', settled \subseteq settled',
         \A x \in Runs :
           \/ receipt'[x] = receipt[x]
           \/ receipt'[x] = NoReceipt /\ (Ended(x) \/ x \in settled)
           \/ /\ receipt'[x].state = "crashed" /\ x \in settled' \ held /\ phase[x] # "none"
              /\ receipt'[x].pid => Past(x),
         \A x \in (settled' \ settled) \ early : pid[x] # "child" /\ Past(x),
         (at'[p] \in {"mark", "settle"} /\ Hand(p)' \notin early') =>
           (pid[Hand(p)'] # "child" /\ Past(Hand(p)')),
         at'[p] = "settle" => (Hand(p)' \notin held /\ (seen'[p] => Past(Hand(p)'))),
         at'[p] = "unlink" => \A x \in ToSet(todo'[p]) \ settled' : Ended(x),
         \A q \in Procs \ {p} : due'[q] = due[q],
         \A x \in due'[p] :
           /\ owner[x] = Nobody /\ phase[x] # "none" /\ Gone(x)
           /\ \/ IsTerminal(x)'
              \/ ~OnDisk(x)'
              \/ at'[p] \in {"probe", "mark", "settle"} /\ x \in ToSet(todo'[p])
  PROVE  IInv'
<1> USE DEF IInv
<1>1. \A q \in Procs \ {p} : /\ Hand(q)' = Hand(q) /\ at'[q] = at[q] /\ todo'[q] = todo[q]
                             /\ seen'[q] = seen[q] /\ patch'[q] = patch[q]
  BY DEF Others, Hand
<1>2. \A q \in Procs : /\ ToSet(todo[q]) \subseteq Runs
                       /\ at[q] \notin {"down", "idle"} => Hand(q) \in Runs
  BY Lists
<1>3. \A q \in Procs : /\ ToSet(todo'[q]) \subseteq Runs /\ due'[q] \subseteq Runs
                       /\ at'[q] \notin {"down", "idle"} => Hand(q)' \in Runs
  <2>1. \A q \in Procs : /\ ToSet(todo'[q]) \subseteq Runs
                         /\ at'[q] \notin {"down", "idle"} => Hand(q)' \in Runs
    <3>1. todo' \in [Procs -> Seq(Runs)] /\ \A q \in Procs : at'[q] \notin {"down", "idle"} => todo'[q] # <<>>
      BY DEF TypeOK
    <3> QED BY <3>1, ListTyped, ListHead DEF Hand
  <2> QED BY <2>1 DEF TypeOK
<1>4. \A x \in Runs : /\ Past(x) => Past(x)'
                      /\ Ended(x) => Ended(x)'
                      /\ phase[x] # "none" => phase'[x] # "none"
                      /\ phase'[x] \in {"opened", "live"} => phase[x] = phase'[x]
  BY DEF Past, Ended
<1>5. OwnerActs'
  BY <1>1, <1>2 DEF OwnerActs
<1>6. Stages'
  <2>1. ASSUME NEW q \in Procs \ {p}, at[q] \in {"spawn", "write", "chunk"}
        PROVE  Hand(q) \in Runs /\ phase'[Hand(q)] = phase[Hand(q)]
    <3>1. Hand(q) \in Runs /\ owner[Hand(q)] # p
      BY <1>2, <2>1 DEF OwnerActs
    <3> QED BY <3>1
  <2>2. ASSUME NEW q \in Procs \ {p}
        PROVE  /\ at'[q] = "spawn" => phase'[Hand(q)'] = "opened"
               /\ at'[q] = "write" => /\ phase'[Hand(q)'] \in {"live", "ended"}
                                      /\ patch'[q].state # "none"
                                      /\ patch'[q].state \in Terminal => phase'[Hand(q)'] = "ended"
               /\ at'[q] = "chunk" => phase'[Hand(q)'] = "ended"
    BY <1>1, <2>1 DEF Stages
  <2> QED BY <2>2 DEF Stages
<1>7. Begun'
  <2>1. ASSUME NEW x \in Runs, OnDisk(x)' PROVE phase'[x] # "none"
    BY <1>4, <2>1 DEF Begun, OnDisk, NoReceipt
  <2>2. ASSUME NEW q \in Procs, NEW x \in ToSet(todo'[q]) PROVE phase'[x] # "none"
    BY <1>1, <1>3, <1>4 DEF Begun
  <2> QED BY <2>1, <2>2 DEF Begun
<1>8. PidsNamed'
  <2>1. ASSUME NEW x \in Runs, receipt'[x].pid PROVE Past(x)'
    BY <1>4, <2>1 DEF PidsNamed, NoReceipt
  <2>2. ASSUME NEW q \in Procs, at'[q] = "settle", seen'[q] PROVE Past(Hand(q))'
    <3>1. CASE q = p
      BY <1>3, <1>4, <2>2, <3>1 DEF Past
    <3>2. CASE q # p
      <4>1. at[q] = "settle" /\ seen[q] /\ Hand(q)' = Hand(q)
        BY <1>1, <2>2, <3>2
      <4> QED BY <1>2, <1>4, <4>1 DEF PidsNamed, Past
    <3> QED BY <3>1, <3>2
  <2> QED BY <2>1, <2>2 DEF PidsNamed
<1>9. Marked'
  <2> SUFFICES ASSUME NEW q \in Procs, at'[q] \in {"mark", "settle"}, Hand(q)' \notin early'
               PROVE  pid'[Hand(q)'] # "child" /\ Past(Hand(q))'
    BY DEF Marked
  <2>1. CASE q = p
    BY <1>3, <1>4, <2>1 DEF Past
  <2>2. CASE q # p
    <3>1. Hand(q)' = Hand(q) /\ Hand(q) \in Runs /\ pid[Hand(q)] # "child" /\ Past(Hand(q))
      BY <1>1, <1>2, <2>2 DEF Marked
    <3> QED BY <1>4, <3>1 DEF Past
  <2> QED BY <2>1, <2>2
<1>10. SettledDead'
  <2>1. settled' \subseteq Runs
    BY DEF TypeOK
  <2> SUFFICES ASSUME NEW x \in settled' \ early' PROVE pid[x] # "child" /\ Past(x)'
    BY DEF SettledDead
  <2>2. pid[x] # "child" /\ Past(x)
    BY DEF SettledDead
  <2> QED BY <1>4, <2>1, <2>2
<1>11. HeldSafe'
  <2>1. ASSUME NEW x \in held PROVE receipt'[x].state \in {"none", "succeeded"} /\ Ended(x)'
    BY <1>4 DEF HeldSafe, TypeOK, NoReceipt
  <2>2. ASSUME NEW x \in held, NEW q \in Procs, at'[q] \in {"spawn", "write", "chunk", "settle"}
        PROVE  Hand(q)' # x
    <3>1. CASE q = p
      BY <2>2, <3>1
    <3>2. CASE q # p
      BY <1>1, <2>2, <3>2 DEF HeldSafe
    <3> QED BY <3>1, <3>2
  <2> QED BY <2>1, <2>2 DEF HeldSafe
<1>12. TerminalEnded'
  <2>1. ASSUME NEW x \in Runs \ settled', IsTerminal(x)' PROVE Ended(x)'
    BY <1>4, <2>1 DEF TerminalEnded, IsTerminal, Terminal, NoReceipt
  <2>2. ASSUME NEW q \in Procs, at'[q] = "unlink", NEW x \in ToSet(todo'[q]) \ settled'
        PROVE  Ended(x)'
    <3>1. x \in Runs
      BY <1>3
    <3>2. Ended(x)
      BY <1>1, <2>2 DEF TerminalEnded
    <3> QED BY <1>4, <3>1, <3>2
  <2> QED BY <2>1, <2>2 DEF TerminalEnded
<1>13. ActiveKept'
  <2> SUFFICES ASSUME NEW x \in Runs \ settled', phase'[x] \in {"opened", "live"} PROVE OnDisk(x)'
    BY DEF ActiveKept
  <2>1. phase[x] \in {"opened", "live"} /\ OnDisk(x) /\ ~Ended(x)
    BY <1>4 DEF ActiveKept, Ended
  <2> QED BY <2>1 DEF OnDisk
<1>14. DueHandled'
  <2>1. ASSUME NEW q \in Procs, NEW x \in due'[q]
        PROVE  /\ owner'[x] = Nobody /\ phase'[x] # "none" /\ Gone(x)' /\ at'[q] # "down"
               /\ \/ IsTerminal(x)'
                  \/ ~OnDisk(x)'
                  \/ at'[q] \in {"probe", "mark", "settle"} /\ x \in ToSet(todo'[q])
    <3>1. x \in Runs
      BY <1>3
    <3>2. CASE q = p
      BY <1>4, <3>1, <3>2 DEF Gone
    <3>3. CASE q # p
      <4>1. /\ owner'[x] = Nobody /\ phase'[x] # "none" /\ Gone(x)' /\ at'[q] # "down"
        BY <1>1, <1>4, <3>1, <3>3 DEF DueHandled, Gone
      <4>2. \/ IsTerminal(x)
            \/ ~OnDisk(x)
            \/ at'[q] \in {"probe", "mark", "settle"} /\ x \in ToSet(todo'[q])
        BY <1>1, <3>3 DEF DueHandled
      <4>3. \/ receipt'[x] = receipt[x]
            \/ receipt'[x].state \in {"none", "crashed"}
        BY <3>1 DEF NoReceipt
      <4>4. (IsTerminal(x) \/ ~OnDisk(x)) => (IsTerminal(x)' \/ ~OnDisk(x)')
        BY <4>3 DEF IsTerminal, OnDisk, Terminal
      <4> QED BY <4>1, <4>2, <4>4
    <3> QED BY <3>2, <3>3
  <2> QED BY <2>1 DEF DueHandled
<1> QED BY <1>5, <1>6, <1>7, <1>8, <1>9, <1>10, <1>11, <1>12, <1>13, <1>14

\* What retention may remove, and how much of it is beyond maxRuns.
LEMMA RemovableIs ==
  ASSUME TypeOK
  PROVE  /\ Removable \in Seq(Runs) /\ Surplus \in 0 .. Len(Removable)
         /\ ToSet(Removable) = {r \in Runs : OnDisk(r) /\ IsTerminal(r)}
         /\ Len(Removable) > MaxRuns => Surplus = Len(Removable) - MaxRuns
         /\ ~(Len(Removable) > MaxRuns) => Surplus = 0
<1>1. Removable \in Seq(Runs) /\ ToSet(Removable) = ToSet(order) \cap {r \in Runs : IsTerminal(r)}
  BY FilteredList DEF Removable, TypeOK
<1>2. ToSet(Removable) = {r \in Runs : OnDisk(r) /\ IsTerminal(r)}
  BY <1>1 DEF TypeOK
<1>3. Len(Removable) \in Nat /\ MaxRuns \in Nat
  BY <1>1, LimitAssumption
<1> QED BY <1>1, <1>2, <1>3 DEF Surplus

LEMMA RetainKeeps ==
  ASSUME IInv, NEW p \in Procs, NEW r \in Runs, Retain(p, r)
  PROVE  IInv'
<1> USE DEF IInv
<1> DEFINE old   == Filter(Removable, aged)
           extra == Filter(SubSeq(Removable, 1, Surplus), Runs \ aged)
           s     == old \o extra
<1>1. /\ at[p] = "idle" /\ owner[r] = p /\ phase[r] = "ended"
      /\ phase' = [phase EXCEPT ![r] = "retained"]
      /\ todo' = [todo EXCEPT ![p] = s]
      /\ at' = [at EXCEPT ![p] = IF s = <<>> THEN "idle" ELSE "unlink"]
      /\ pid' = pid /\ owner' = owner /\ seen' = seen /\ patch' = patch /\ aged' = aged
      /\ starts' = starts /\ early' = early /\ held' = held /\ settled' = settled /\ due' = due
      /\ UNCHANGED disk
  BY DEF Retain, history
<1>2. s \in Seq(Runs) /\ \A x \in ToSet(s) : x \in Runs /\ OnDisk(x) /\ IsTerminal(x)
  <2>1. /\ Removable \in Seq(Runs) /\ Surplus \in 0 .. Len(Removable)
        /\ ToSet(Removable) = {x \in Runs : OnDisk(x) /\ IsTerminal(x)}
    BY RemovableIs
  <2>2. SubSeq(Removable, 1, Surplus) \in Seq(Runs)
        /\ ToSet(SubSeq(Removable, 1, Surplus)) \subseteq ToSet(Removable)
    BY <2>1, FirstOf
  <2>3. old \in Seq(Runs) /\ ToSet(old) = ToSet(Removable) \cap aged
    BY <2>1, FilteredList
  <2> HIDE DEF old
  <2>4. extra \in Seq(Runs) /\ ToSet(extra) \subseteq ToSet(Removable)
    <3> DEFINE first == SubSeq(Removable, 1, Surplus)
    <3>1. first \in Seq(Runs) /\ ToSet(first) \subseteq ToSet(Removable)
      BY <2>2
    <3> HIDE DEF first
    <3>2. /\ Filter(first, Runs \ aged) \in Seq(Runs)
          /\ ToSet(Filter(first, Runs \ aged)) = ToSet(first) \cap (Runs \ aged)
      BY <3>1, FilteredList
    <3> QED BY <3>1, <3>2 DEF first
  <2> HIDE DEF extra
  <2>5. s \in Seq(Runs) /\ ToSet(s) = ToSet(old) \cup ToSet(extra)
    BY <2>3, <2>4, Joined
  <2> QED BY <2>1, <2>3, <2>4, <2>5
<1> HIDE DEF s, old, extra
<1>3. DiskOK' /\ receipt' = receipt
  BY <1>1, DiskSame DEF TypeOK, DiskOK
<1>4. /\ todo'[p] = s /\ at'[p] \in {"idle", "unlink"} /\ Others(p)
      /\ at'[p] # "idle" => s # <<>>
  BY <1>1 DEF TypeOK, Others
<1>5. TypeOK'
  <2>1. ASSUME NEW q \in Procs, at'[q] \notin {"down", "idle"} PROVE todo'[q] # <<>>
    <3>1. CASE q = p
      BY <1>1, <2>1, <3>1 DEF TypeOK
    <3>2. CASE q # p
      BY <1>4, <2>1, <3>2 DEF TypeOK, Others
    <3> QED BY <3>1, <3>2
  <2>2. /\ phase' \in [Runs -> {"none", "opened", "live", "ended", "retained"}]
        /\ at' \in [Procs -> {"down", "idle", "spawn", "write", "chunk", "unlink",
                       "probe", "mark", "settle"}]
        /\ todo' \in [Procs -> Seq(Runs)]
    BY <1>1, <1>2 DEF TypeOK
  <2> QED BY <1>1, <1>3, <2>1, <2>2 DEF TypeOK, DiskOK
<1>6. \A x \in Runs : \/ phase'[x] = phase[x]
                      \/ phase[x] = "ended" /\ owner[x] = p /\ phase'[x] = "retained"
  BY <1>1 DEF TypeOK
<1>7. \A x \in ToSet(todo'[p]) : phase[x] # "none" /\ (x \notin settled => Ended(x))
  <2>1. todo'[p] = s
    BY <1>4
  <2>2. \A x \in ToSet(s) : phase[x] # "none" /\ (x \notin settled => Ended(x))
    BY <1>2 DEF Begun, TerminalEnded
  <2> QED BY <2>1, <2>2
<1>8. \A x \in due[p] : /\ owner[x] = Nobody /\ phase[x] # "none" /\ Gone(x)
                        /\ IsTerminal(x)' \/ ~OnDisk(x)'
  BY <1>1, <1>3 DEF DueHandled, IsTerminal, OnDisk
<1>9. at'[p] \in {"idle", "unlink"} /\ at[p] \notin {"spawn", "write"} /\ due'[p] = due[p]
  BY <1>1 DEF TypeOK
<1> QED BY <1>1, <1>3, <1>4, <1>5, <1>6, <1>7, <1>8, <1>9, Elsewhere

LEMMA ChunkEndsKeeps ==
  ASSUME IInv, NEW p \in Procs, ChunkEnds(p)
  PROVE  IInv'
<1> USE DEF IInv
<1>1. /\ at[p] = "chunk" /\ at' = [at EXCEPT ![p] = "idle"]
      /\ UNCHANGED disk /\ owner' = owner /\ pid' = pid /\ phase' = phase /\ todo' = todo
      /\ seen' = seen /\ patch' = patch /\ aged' = aged /\ starts' = starts
      /\ early' = early /\ held' = held /\ settled' = settled /\ due' = due
  BY DEF ChunkEnds, history, runners
<1>2. DiskOK' /\ receipt' = receipt
  BY <1>1, DiskSame DEF TypeOK, DiskOK
<1>3. at'[p] = "idle" /\ Others(p)
  BY <1>1 DEF TypeOK, Others
<1>4. TypeOK'
  <2>1. at' \in [Procs -> {"down", "idle", "spawn", "write", "chunk", "unlink",
                       "probe", "mark", "settle"}]
    BY <1>1 DEF TypeOK
  <2>2. \A q \in Procs : at'[q] \notin {"down", "idle"} => todo'[q] # <<>>
    BY <1>1 DEF TypeOK
  <2> QED BY <1>1, <1>2, <2>1, <2>2 DEF TypeOK, DiskOK
<1>5. \A x \in due[p] : /\ owner[x] = Nobody /\ phase[x] # "none" /\ Gone(x)
                        /\ IsTerminal(x)' \/ ~OnDisk(x)'
  BY <1>1, <1>2 DEF DueHandled, IsTerminal, OnDisk
<1>6. \A x \in ToSet(todo'[p]) : phase[x] # "none"
  BY <1>1 DEF Begun
<1> QED BY <1>1, <1>2, <1>3, <1>4, <1>5, <1>6, Elsewhere

\* Without its head, the list of a process still holds only runs, and is empty
\* only if the process has become idle.
LEMMA ListGoesOn ==
  ASSUME TypeOK, NEW p \in Procs, at[p] \in {"unlink", "probe", "mark", "settle"},
         NEW next \in {"unlink", "probe"},
         todo' = [todo EXCEPT ![p] = Tail(@)],
         at' = [at EXCEPT ![p] = IF Len(todo[p]) = 1 THEN "idle" ELSE next]
  PROVE  /\ todo' \in [Procs -> Seq(Runs)]
         /\ at' \in [Procs -> {"down", "idle", "spawn", "write", "chunk", "unlink",
                               "probe", "mark", "settle"}]
         /\ \A q \in Procs : at'[q] \notin {"down", "idle"} => todo'[q] # <<>>
         /\ \A q \in Procs \ {p} : at'[q] = at[q] /\ todo'[q] = todo[q]
         /\ at'[p] \in {"idle", next} /\ ToSet(todo'[p]) \subseteq ToSet(todo[p])
         /\ \A x \in ToSet(todo[p]) \ {Hand(p)} : at'[p] = next /\ x \in ToSet(todo'[p])
<1>1. /\ todo[p] \in Seq(Runs) /\ todo[p] # <<>> /\ Tail(todo[p]) \in Seq(Runs)
      /\ todo'[p] = Tail(todo[p]) /\ at'[p] = IF Len(todo[p]) = 1 THEN "idle" ELSE next
      /\ \A q \in Procs \ {p} : at'[q] = at[q] /\ todo'[q] = todo[q]
  BY InHand DEF TypeOK
<1>2. /\ ToSet(Tail(todo[p])) \subseteq ToSet(todo[p])
      /\ ToSet(todo[p]) \subseteq ToSet(Tail(todo[p])) \cup {Hand(p)}
      /\ Len(todo[p]) # 1 => Tail(todo[p]) # <<>>
      /\ Len(todo[p]) = 1 => ToSet(todo[p]) = {Hand(p)}
  BY InHand
<1>3. todo' \in [Procs -> Seq(Runs)]
  BY <1>1 DEF TypeOK
<1>4. at' \in [Procs -> {"down", "idle", "spawn", "write", "chunk", "unlink",
                         "probe", "mark", "settle"}]
  BY DEF TypeOK
<1>5. ASSUME NEW q \in Procs, at'[q] \notin {"down", "idle"} PROVE todo'[q] # <<>>
  <2>1. CASE q = p
    BY <1>1, <1>2, <1>5, <2>1
  <2>2. CASE q # p
    BY <1>1, <1>5, <2>2 DEF TypeOK
  <2> QED BY <2>1, <2>2
<1> QED BY <1>1, <1>2, <1>3, <1>4, <1>5

LEMMA UnlinkKeeps ==
  ASSUME IInv, NEW p \in Procs, Unlink(p)
  PROVE  IInv'
<1> USE DEF IInv
<1>1. /\ at[p] = "unlink" /\ receipt' = [receipt EXCEPT ![Hand(p)] = NoReceipt]
      /\ order' = Filter(order, Runs \ {Hand(p)})
      /\ todo' = [todo EXCEPT ![p] = Tail(@)]
      /\ at' = [at EXCEPT ![p] = IF Len(todo[p]) = 1 THEN "idle" ELSE "unlink"]
      /\ owner' = owner /\ pid' = pid /\ phase' = phase
      /\ seen' = seen /\ patch' = patch /\ aged' = aged /\ starts' = starts
      /\ early' = early /\ held' = held /\ settled' = settled /\ due' = due
  BY DEF Unlink, history, runners, Hand
<1>2. Hand(p) \in Runs /\ Hand(p) \in ToSet(todo[p]) /\ (Ended(Hand(p)) \/ Hand(p) \in settled)
  BY <1>1, InHand DEF TerminalEnded
<1>3. /\ \A x \in Runs \ {Hand(p)} : receipt'[x] = receipt[x]
      /\ receipt'[Hand(p)] = NoReceipt
  BY <1>1, <1>2 DEF TypeOK
<1>4. DiskOK'
  <2>1. /\ order' \in Seq(Runs) /\ Once(order')
        /\ ToSet(order') = ToSet(order) \cap (Runs \ {Hand(p)})
    <3>1. order \in Seq(Runs) /\ Once(order)
      BY DEF TypeOK, Once
    <3> QED BY <1>1, <3>1, FilteredList
  <2>2. receipt' \in [Runs -> Receipt]
    <3>1. NoReceipt \in Receipt
      BY DEF Receipt, NoReceipt
    <3> QED BY <1>1, <3>1 DEF TypeOK
  <2>3. \A x \in Runs : x \in ToSet(order') <=> OnDisk(x)'
    BY <1>2, <1>3, <2>1 DEF TypeOK, OnDisk, NoReceipt
  <2> QED BY <2>1, <2>2, <2>3 DEF DiskOK, Once
<1>5. /\ todo' \in [Procs -> Seq(Runs)]
      /\ at' \in [Procs -> {"down", "idle", "spawn", "write", "chunk", "unlink",
                            "probe", "mark", "settle"}]
      /\ \A q \in Procs : at'[q] \notin {"down", "idle"} => todo'[q] # <<>>
      /\ \A q \in Procs \ {p} : at'[q] = at[q] /\ todo'[q] = todo[q]
      /\ at'[p] \in {"idle", "unlink"} /\ ToSet(todo'[p]) \subseteq ToSet(todo[p])
  BY <1>1, ListGoesOn
<1>6. TypeOK'
  BY <1>1, <1>4, <1>5 DEF TypeOK, DiskOK
<1>7. Others(p)
  BY <1>1, <1>5 DEF Others
<1>8. \A x \in Runs : \/ receipt'[x] = receipt[x]
                      \/ receipt'[x] = NoReceipt /\ (Ended(x) \/ x \in settled)
  BY <1>2, <1>3
<1>9. \A x \in ToSet(todo'[p]) : phase[x] # "none" /\ (x \notin settled => Ended(x))
  BY <1>1, <1>5 DEF Begun, TerminalEnded
<1>10. \A x \in due[p] : /\ owner[x] = Nobody /\ phase[x] # "none" /\ Gone(x)
                         /\ IsTerminal(x)' \/ ~OnDisk(x)'
  <2>1. due[p] \subseteq Runs
    BY DEF TypeOK
  <2> QED BY <1>1, <1>8, <2>1 DEF DueHandled, IsTerminal, OnDisk, NoReceipt
<1> QED BY <1>1, <1>5, <1>6, <1>7, <1>8, <1>9, <1>10, Elsewhere

LEMMA StartKeeps ==
  ASSUME IInv, NEW p \in Procs, Start(p)
  PROVE  IInv'
<1> USE DEF IInv
<1> DEFINE s == Filter(Listed(ListLimit), {r \in Runs : ~IsTerminal(r)})
<1>1. /\ at[p] = "down" /\ starts < MaxStarts /\ starts' = starts + 1
      /\ todo' = [todo EXCEPT ![p] = s]
      /\ at' = [at EXCEPT ![p] = IF s = <<>> THEN "idle" ELSE "probe"]
      /\ due' = [due EXCEPT ![p] = {r \in ToSet(s) : owner[r] = Nobody /\ Gone(r)}]
      /\ UNCHANGED disk /\ owner' = owner /\ pid' = pid /\ phase' = phase
      /\ seen' = seen /\ patch' = patch /\ aged' = aged
      /\ early' = early /\ held' = held /\ settled' = settled
  BY DEF Start, runners
<1>2. s \in Seq(Runs) /\ \A x \in ToSet(s) : x \in Runs /\ OnDisk(x)
  <2>1. order \in Seq(Runs) /\ ListLimit \in Nat
    BY LimitAssumption DEF TypeOK
  <2>2. /\ Reverse(order) \in Seq(Runs) /\ Len(Reverse(order)) = Len(order)
        /\ ToSet(Reverse(order)) \subseteq ToSet(order)
    BY <2>1, ReverseList, ReversedIn
  <2>3. (IF ListLimit < Len(order) THEN ListLimit ELSE Len(order)) \in 0 .. Len(Reverse(order))
    BY <2>1, <2>2
  <2>4. Listed(ListLimit) \in Seq(Runs) /\ ToSet(Listed(ListLimit)) \subseteq ToSet(order)
    BY <2>2, <2>3, FirstOf DEF Listed
  <2>5. s \in Seq(Runs) /\ ToSet(s) \subseteq ToSet(order)
    BY <2>4, FilteredList
  <2> QED BY <2>5, ListTyped DEF TypeOK
<1> HIDE DEF s
<1>3. DiskOK' /\ receipt' = receipt
  BY <1>1, DiskSame DEF TypeOK, DiskOK
<1>4. /\ todo'[p] = s /\ Others(p)
      /\ due'[p] = {r \in ToSet(s) : owner[r] = Nobody /\ Gone(r)}
      /\ \A q \in Procs \ {p} : due'[q] = due[q]
  BY <1>1 DEF TypeOK, Others
<1>5. at'[p] = IF s = <<>> THEN "idle" ELSE "probe"
  BY <1>1 DEF TypeOK
<1>6. TypeOK'
  <2>1. ASSUME NEW q \in Procs, at'[q] \notin {"down", "idle"} PROVE todo'[q] # <<>>
    <3>1. CASE q = p
      BY <1>4, <1>5, <2>1, <3>1
    <3>2. CASE q # p
      BY <1>4, <2>1, <3>2 DEF TypeOK, Others
    <3> QED BY <3>1, <3>2
  <2>2. /\ at' \in [Procs -> {"down", "idle", "spawn", "write", "chunk", "unlink",
                       "probe", "mark", "settle"}]
        /\ todo' \in [Procs -> Seq(Runs)]
    BY <1>1, <1>2 DEF TypeOK
  <2>3. due' \in [Procs -> SUBSET Runs]
    BY <1>1, <1>2 DEF TypeOK
  <2>4. starts' \in 0 .. MaxStarts
    BY <1>1, StartsAssumption DEF TypeOK
  <2> QED BY <1>1, <1>3, <2>1, <2>2, <2>3, <2>4 DEF TypeOK, DiskOK
<1>7. \A x \in ToSet(s) : phase[x] # "none"
  BY <1>2 DEF Begun
<1>8. ASSUME NEW x \in due'[p]
      PROVE  /\ owner[x] = Nobody /\ phase[x] # "none" /\ Gone(x)
             /\ at'[p] = "probe" /\ x \in ToSet(todo'[p])
  <2>1. s # <<>>
    BY <1>4, ListEmpty
  <2> QED BY <1>4, <1>5, <1>7, <2>1
<1>9. at'[p] \in {"idle", "probe"}
  BY <1>5
<1> QED BY <1>1, <1>3, <1>4, <1>6, <1>7, <1>8, <1>9, Elsewhere

LEMMA ProbeKeeps ==
  ASSUME IInv, NEW p \in Procs, Probe(p)
  PROVE  IInv'
<1> USE DEF IInv
<1>1. /\ at[p] = "probe" /\ early' = IF ~receipt[Hand(p)].pid THEN early \cup {Hand(p)} ELSE early
      /\ UNCHANGED disk /\ owner' = owner /\ pid' = pid /\ phase' = phase
      /\ seen' = seen /\ patch' = patch /\ aged' = aged /\ starts' = starts
      /\ held' = held /\ settled' = settled /\ due' = due
  BY DEF Probe, runners, Hand
<1>2. /\ Hand(p) \in Runs /\ Hand(p) \in ToSet(todo[p])
      /\ early' \in SUBSET Runs /\ early \subseteq early'
      /\ Hand(p) \notin early' => receipt[Hand(p)].pid
  BY <1>1, InHand DEF TypeOK
<1>3. DiskOK' /\ receipt' = receipt
  BY <1>1, DiskSame DEF TypeOK, DiskOK
<1>4. \A x \in due[p] : owner[x] = Nobody /\ phase[x] # "none" /\ Gone(x) /\ x \in Runs
  BY DEF DueHandled, TypeOK
<1>5. \A x \in due[p] : IsTerminal(x)' \/ ~OnDisk(x)' \/ x \in ToSet(todo[p])
  BY <1>3 DEF DueHandled, IsTerminal, OnDisk
<1>6. CASE MaySpare(Hand(p)) /\ Step(p)
  <2>1. /\ todo' \in [Procs -> Seq(Runs)]
        /\ at' \in [Procs -> {"down", "idle", "spawn", "write", "chunk", "unlink",
                              "probe", "mark", "settle"}]
        /\ \A q \in Procs : at'[q] \notin {"down", "idle"} => todo'[q] # <<>>
        /\ \A q \in Procs \ {p} : at'[q] = at[q] /\ todo'[q] = todo[q]
        /\ at'[p] \in {"idle", "probe"} /\ ToSet(todo'[p]) \subseteq ToSet(todo[p])
        /\ \A x \in ToSet(todo[p]) \ {Hand(p)} : at'[p] = "probe" /\ x \in ToSet(todo'[p])
    BY <1>1, <1>6, ListGoesOn DEF Step
  <2>2. TypeOK'
    BY <1>1, <1>2, <1>3, <2>1 DEF TypeOK, DiskOK
  <2>3. Others(p)
    BY <1>1, <2>1 DEF Others
  \* An orphan is not spared.
  <2>4. \A x \in due[p] : x # Hand(p)
    BY <1>4, <1>6 DEF MaySpare, Gone
  <2>5. \A x \in ToSet(todo'[p]) : phase[x] # "none"
    BY <2>1 DEF Begun
  <2>6. \A x \in due'[p] :
           /\ owner[x] = Nobody /\ phase[x] # "none" /\ Gone(x)
           /\ \/ IsTerminal(x)'
              \/ ~OnDisk(x)'
              \/ at'[p] \in {"probe", "mark", "settle"} /\ x \in ToSet(todo'[p])
    BY <1>1, <1>4, <1>5, <2>1, <2>4
  <2> QED BY <1>1, <1>2, <1>3, <2>1, <2>2, <2>3, <2>5, <2>6, Elsewhere
<1>7. CASE MayMark(Hand(p)) /\ at' = [at EXCEPT ![p] = "mark"] /\ UNCHANGED todo
  <2>1. at'[p] = "mark" /\ todo' = todo /\ Others(p) /\ Hand(p)' = Hand(p)
    BY <1>1, <1>7 DEF TypeOK, Others, Hand
  <2>2. TypeOK'
    <3>1. at' \in [Procs -> {"down", "idle", "spawn", "write", "chunk", "unlink",
                             "probe", "mark", "settle"}]
      BY <1>7 DEF TypeOK
    <3>2. ASSUME NEW q \in Procs, at'[q] \notin {"down", "idle"} PROVE todo'[q] # <<>>
      BY <1>1, <1>7, <2>1, <3>2 DEF TypeOK
    <3> QED BY <1>1, <1>2, <1>3, <2>1, <3>1, <3>2 DEF TypeOK, DiskOK
  <2>3. Hand(p) \notin early' => pid[Hand(p)] # "child" /\ Past(Hand(p))
    BY <1>2, <1>7 DEF MayMark, PidsNamed
  <2>4. \A x \in ToSet(todo'[p]) : phase[x] # "none"
    BY <2>1 DEF Begun
  <2>5. \A x \in due'[p] :
           /\ owner[x] = Nobody /\ phase[x] # "none" /\ Gone(x)
           /\ \/ IsTerminal(x)'
              \/ ~OnDisk(x)'
              \/ at'[p] \in {"probe", "mark", "settle"} /\ x \in ToSet(todo'[p])
    BY <1>1, <1>4, <1>5, <2>1
  <2> QED BY <1>1, <1>2, <1>3, <2>1, <2>2, <2>3, <2>4, <2>5, Elsewhere
<1> QED BY <1>6, <1>7 DEF Probe, Hand

LEMMA MarkKeeps ==
  ASSUME IInv, NEW p \in Procs, Mark(p)
  PROVE  IInv'
<1> USE DEF IInv
<1>1. /\ at[p] = "mark" /\ UNCHANGED disk /\ owner' = owner /\ pid' = pid /\ phase' = phase
      /\ patch' = patch /\ aged' = aged /\ starts' = starts
      /\ early' = early /\ held' = held /\ settled' = settled /\ due' = due
  BY DEF Mark, runners, history
<1>2. Hand(p) \in Runs /\ Hand(p) \in ToSet(todo[p])
  BY <1>1, InHand
<1>3. DiskOK' /\ receipt' = receipt
  BY <1>1, DiskSame DEF TypeOK, DiskOK
<1>4. \A x \in due[p] : owner[x] = Nobody /\ phase[x] # "none" /\ Gone(x) /\ x \in Runs
  BY DEF DueHandled, TypeOK
<1>5. \A x \in due[p] : IsTerminal(x)' \/ ~OnDisk(x)' \/ x \in ToSet(todo[p])
  BY <1>3 DEF DueHandled, IsTerminal, OnDisk
<1>6. CASE Refuses(receipt[Hand(p)], "crashed") /\ Step(p) /\ UNCHANGED seen
  <2>1. /\ todo' \in [Procs -> Seq(Runs)]
        /\ at' \in [Procs -> {"down", "idle", "spawn", "write", "chunk", "unlink",
                              "probe", "mark", "settle"}]
        /\ \A q \in Procs : at'[q] \notin {"down", "idle"} => todo'[q] # <<>>
        /\ \A q \in Procs \ {p} : at'[q] = at[q] /\ todo'[q] = todo[q]
        /\ at'[p] \in {"idle", "probe"} /\ ToSet(todo'[p]) \subseteq ToSet(todo[p])
        /\ \A x \in ToSet(todo[p]) \ {Hand(p)} : at'[p] = "probe" /\ x \in ToSet(todo'[p])
    BY <1>1, <1>6, ListGoesOn DEF Step
  <2>2. TypeOK'
    BY <1>1, <1>3, <1>6, <2>1 DEF TypeOK, DiskOK
  <2>3. Others(p)
    BY <1>1, <1>6, <2>1 DEF Others
  \* What cannot be settled is settled, or gone.
  <2>4. \A x \in Runs : x = Hand(p) => IsTerminal(x)' \/ ~OnDisk(x)'
    BY <1>3, <1>6 DEF Refuses, IsTerminal, OnDisk
  <2>5. \A x \in ToSet(todo'[p]) : phase[x] # "none"
    BY <2>1 DEF Begun
  <2>6. \A x \in due'[p] :
           /\ owner[x] = Nobody /\ phase[x] # "none" /\ Gone(x)
           /\ \/ IsTerminal(x)'
              \/ ~OnDisk(x)'
              \/ at'[p] \in {"probe", "mark", "settle"} /\ x \in ToSet(todo'[p])
    BY <1>1, <1>4, <1>5, <2>1, <2>4
  <2> QED BY <1>1, <1>2, <1>3, <2>1, <2>2, <2>3, <2>5, <2>6, Elsewhere
<1>7. CASE /\ ~Refuses(receipt[Hand(p)], "crashed")
           /\ seen' = [seen EXCEPT ![p] = receipt[Hand(p)].pid]
           /\ at' = [at EXCEPT ![p] = "settle"] /\ UNCHANGED todo
  <2>1. at'[p] = "settle" /\ todo' = todo /\ Others(p) /\ Hand(p)' = Hand(p)
    BY <1>1, <1>7 DEF TypeOK, Others, Hand
  <2>2. seen' \in [Procs -> BOOLEAN] /\ seen'[p] = receipt[Hand(p)].pid
    <3>1. receipt[Hand(p)].pid \in BOOLEAN
      BY <1>2 DEF TypeOK, Receipt
    <3> QED BY <1>7, <3>1 DEF TypeOK
  <2>3. TypeOK'
    <3>1. at' \in [Procs -> {"down", "idle", "spawn", "write", "chunk", "unlink",
                             "probe", "mark", "settle"}]
      BY <1>7 DEF TypeOK
    <3>2. ASSUME NEW q \in Procs, at'[q] \notin {"down", "idle"} PROVE todo'[q] # <<>>
      BY <1>1, <1>7, <2>1, <3>2 DEF TypeOK
    <3> QED BY <1>1, <1>2, <1>3, <2>1, <2>2, <3>1, <3>2 DEF TypeOK, DiskOK
  <2>4. Hand(p) \notin early => pid[Hand(p)] # "child" /\ Past(Hand(p))
    BY <1>1 DEF Marked
  <2>5. Hand(p) \notin held /\ (seen'[p] => Past(Hand(p)))
    BY <1>2, <1>7, <2>2 DEF HeldSafe, PidsNamed, Refuses, Terminal
  <2>6. \A x \in ToSet(todo'[p]) : phase[x] # "none"
    BY <2>1 DEF Begun
  <2>7. \A x \in due'[p] :
           /\ owner[x] = Nobody /\ phase[x] # "none" /\ Gone(x)
           /\ \/ IsTerminal(x)'
              \/ ~OnDisk(x)'
              \/ at'[p] \in {"probe", "mark", "settle"} /\ x \in ToSet(todo'[p])
    BY <1>1, <1>4, <1>5, <2>1
  <2> QED BY <1>1, <1>2, <1>3, <2>1, <2>3, <2>4, <2>5, <2>6, <2>7, Elsewhere
<1> QED BY <1>6, <1>7 DEF Mark, Hand

LEMMA SettleKeeps ==
  ASSUME IInv, NEW p \in Procs, Settle(p)
  PROVE  IInv'
<1> USE DEF IInv
<1>1. /\ at[p] = "settle" /\ Put(Hand(p), "crashed", seen[p]) /\ Step(p) /\ LetGo(p)
      /\ settled' = settled \cup {Hand(p)}
      /\ owner' = owner /\ pid' = pid /\ phase' = phase /\ aged' = aged /\ starts' = starts
      /\ early' = early /\ held' = held /\ due' = due
  BY DEF Settle, runners, Hand
<1>2. Hand(p) \in Runs /\ Hand(p) \in ToSet(todo[p]) /\ seen[p] \in BOOLEAN
  BY <1>1, InHand DEF TypeOK
<1>3. /\ DiskOK' /\ receipt'[Hand(p)].state = "crashed" /\ receipt'[Hand(p)].pid = seen[p]
      /\ \A x \in Runs \ {Hand(p)} : receipt'[x] = receipt[x]
  <2>1. "crashed" \in States /\ DiskOK
    BY DEF States, Terminal, DiskOK, TypeOK
  <2> QED BY <1>1, <1>2, <2>1, PutKeeps
<1>4. /\ todo' \in [Procs -> Seq(Runs)]
      /\ at' \in [Procs -> {"down", "idle", "spawn", "write", "chunk", "unlink",
                            "probe", "mark", "settle"}]
      /\ \A q \in Procs : at'[q] \notin {"down", "idle"} => todo'[q] # <<>>
      /\ \A q \in Procs \ {p} : at'[q] = at[q] /\ todo'[q] = todo[q]
      /\ at'[p] \in {"idle", "probe"} /\ ToSet(todo'[p]) \subseteq ToSet(todo[p])
      /\ \A x \in ToSet(todo[p]) \ {Hand(p)} : at'[p] = "probe" /\ x \in ToSet(todo'[p])
  BY <1>1, ListGoesOn DEF Step
<1>5. /\ seen' \in [Procs -> BOOLEAN] /\ patch' \in [Procs -> Receipt]
      /\ \A q \in Procs \ {p} : seen'[q] = seen[q] /\ patch'[q] = patch[q]
  <2>1. NoReceipt \in Receipt
    BY DEF Receipt, NoReceipt
  <2> QED BY <1>1, <2>1 DEF LetGo, TypeOK
<1>6. TypeOK'
  BY <1>1, <1>2, <1>3, <1>4, <1>5 DEF TypeOK, DiskOK
<1>7. Others(p)
  BY <1>4, <1>5 DEF Others
<1>8. /\ Hand(p) \notin held /\ phase[Hand(p)] # "none" /\ (seen[p] => Past(Hand(p)))
      /\ Hand(p) \notin early => pid[Hand(p)] # "child" /\ Past(Hand(p))
  BY <1>1, <1>2 DEF HeldSafe, Begun, PidsNamed, Marked
<1>9. \A x \in Runs :
        \/ receipt'[x] = receipt[x]
        \/ /\ receipt'[x].state = "crashed" /\ x \in settled' \ held /\ phase[x] # "none"
           /\ receipt'[x].pid => Past(x)
  BY <1>1, <1>3, <1>8
<1>10. \A x \in (settled' \ settled) \ early : pid[x] # "child" /\ Past(x)
  BY <1>1, <1>8
<1>11. \A x \in ToSet(todo'[p]) : phase[x] # "none"
  BY <1>4 DEF Begun
<1>12. ASSUME NEW x \in due'[p]
       PROVE  /\ owner[x] = Nobody /\ phase[x] # "none" /\ Gone(x)
              /\ \/ IsTerminal(x)'
                 \/ ~OnDisk(x)'
                 \/ at'[p] \in {"probe", "mark", "settle"} /\ x \in ToSet(todo'[p])
  <2>1. /\ owner[x] = Nobody /\ phase[x] # "none" /\ Gone(x) /\ x \in Runs
        /\ IsTerminal(x) \/ ~OnDisk(x) \/ x \in ToSet(todo[p])
    BY <1>1 DEF DueHandled, TypeOK
  <2>2. CASE x = Hand(p)
    BY <1>3, <2>1, <2>2 DEF IsTerminal, Terminal
  <2>3. CASE x # Hand(p)
    <3>1. receipt'[x] = receipt[x]
      BY <1>3, <2>1, <2>3
    <3> QED BY <1>4, <2>1, <2>3, <3>1 DEF IsTerminal, OnDisk
  <2> QED BY <2>2, <2>3
<1> QED BY <1>1, <1>4, <1>6, <1>7, <1>9, <1>10, <1>11, <1>12, Elsewhere

------------------------------------------------------------------------------
(* The world                                                               *)

\* The child, its pid and the age of a receipt: nothing that brings a child back.
LEMMA WorldKeeps ==
  ASSUME IInv, TypeOK', UNCHANGED <<disk, owner, phase, procs, early, held, settled>>,
         \A r \in Runs : pid'[r] = pid[r] \/ pid'[r] # "child",
         \A p \in Procs : \A r \in due'[p] : r \in due[p] /\ Gone(r)'
  PROVE  IInv'
<1> USE DEF IInv
<1>1. /\ receipt' = receipt /\ owner' = owner /\ phase' = phase /\ at' = at /\ todo' = todo
      /\ seen' = seen /\ patch' = patch /\ early' = early /\ held' = held /\ settled' = settled
  BY DEF disk, procs
<1>2. \A q \in Procs : /\ Hand(q)' = Hand(q)
                       /\ at[q] \notin {"down", "idle"} => Hand(q) \in Runs
  BY <1>1, Lists DEF Hand
<1>3. \A r \in Runs : /\ Past(r)' = Past(r) /\ Ended(r)' = Ended(r)
                      /\ OnDisk(r)' = OnDisk(r) /\ IsTerminal(r)' = IsTerminal(r)
  BY <1>1 DEF Past, Ended, OnDisk, IsTerminal
<1>4. OwnerActs' /\ Stages'
  BY <1>1, <1>2 DEF OwnerActs, Stages
<1>5. Begun'
  BY <1>1, <1>3 DEF Begun
<1>6. PidsNamed'
  BY <1>1, <1>2, <1>3 DEF PidsNamed
<1>7. Marked'
  BY <1>1, <1>2, <1>3 DEF Marked
<1>8. SettledDead'
  BY <1>1, <1>3 DEF SettledDead, TypeOK
<1>9. HeldSafe'
  BY <1>1, <1>2, <1>3 DEF HeldSafe, TypeOK
<1>10. TerminalEnded'
  <2>1. \A q \in Procs : ToSet(todo[q]) \subseteq Runs
    BY Lists
  <2> QED BY <1>1, <1>3, <2>1 DEF TerminalEnded
<1>11. ActiveKept'
  BY <1>1, <1>3 DEF ActiveKept
<1>12. DueHandled'
  <2>1. \A q \in Procs : due[q] \subseteq Runs
    BY DEF TypeOK
  <2> QED BY <1>1, <1>3, <2>1 DEF DueHandled
<1> QED BY <1>4, <1>5, <1>6, <1>7, <1>8, <1>9, <1>10, <1>11, <1>12

LEMMA ChildDiesKeeps == ASSUME IInv, NEW r \in Runs, ChildDies(r) PROVE IInv'
<1> USE DEF IInv
<1>1. /\ pid' = [pid EXCEPT ![r] = "gone"] /\ UNCHANGED <<disk, owner, phase, procs>>
      /\ aged' = aged /\ starts' = starts /\ early' = early /\ held' = held
      /\ settled' = settled /\ due' = due
  BY DEF ChildDies, history
<1>2. TypeOK'
  <2>1. pid' \in [Runs -> {"none", "child", "gone", "taken"}]
    BY <1>1 DEF TypeOK
  <2> QED BY <1>1, <2>1 DEF TypeOK, disk, procs, OnDisk
<1>3. \A x \in Runs : pid'[x] = pid[x] \/ pid'[x] = "gone"
  BY <1>1 DEF TypeOK
<1>4. \A p \in Procs : \A x \in due'[p] : x \in due[p] /\ Gone(x)'
  BY <1>1, <1>3 DEF DueHandled, Gone, TypeOK
<1> QED BY <1>1, <1>2, <1>3, <1>4, WorldKeeps

LEMMA RecycledKeeps == ASSUME IInv, NEW r \in Runs, Recycled(r) PROVE IInv'
<1> USE DEF IInv
<1>1. /\ pid' = [pid EXCEPT ![r] = "taken"] /\ UNCHANGED <<disk, owner, phase, procs>>
      /\ aged' = aged /\ starts' = starts /\ early' = early /\ held' = held
      /\ settled' = settled /\ due' = [p \in Procs |-> due[p] \ {r}]
  BY DEF Recycled
<1>2. TypeOK'
  <2>1. pid' \in [Runs -> {"none", "child", "gone", "taken"}]
    BY <1>1 DEF TypeOK
  <2>2. due' \in [Procs -> SUBSET Runs]
    BY <1>1 DEF TypeOK
  <2> QED BY <1>1, <2>1, <2>2 DEF TypeOK, disk, procs, OnDisk
<1>3. \A x \in Runs : pid'[x] = pid[x] \/ (x = r /\ pid'[x] = "taken")
  BY <1>1 DEF TypeOK
<1>4. \A p \in Procs : \A x \in due'[p] : x \in due[p] /\ Gone(x)'
  BY <1>1, <1>3 DEF DueHandled, Gone, TypeOK
<1> QED BY <1>1, <1>2, <1>3, <1>4, WorldKeeps

LEMMA AgeKeeps == ASSUME IInv, NEW r \in Runs, Age(r) PROVE IInv'
<1> USE DEF IInv
<1>1. /\ pid' = pid /\ UNCHANGED <<disk, owner, phase, procs>>
      /\ aged' \in SUBSET Aging /\ starts' = starts /\ early' = early /\ held' = held
      /\ settled' = settled /\ due' = due
  BY DEF Age, history, runners, TypeOK
<1>2. TypeOK'
  BY <1>1 DEF TypeOK, disk, procs, OnDisk
<1>3. \A p \in Procs : \A x \in due'[p] : x \in due[p] /\ Gone(x)'
  BY <1>1 DEF DueHandled, Gone, TypeOK
<1> QED BY <1>1, <1>2, <1>3, WorldKeeps

LEMMA StutterKeeps == ASSUME IInv, UNCHANGED vars PROVE IInv'
<1> USE DEF IInv
<1>1. /\ pid' = pid /\ UNCHANGED <<disk, owner, phase, procs>>
      /\ aged' = aged /\ starts' = starts /\ early' = early /\ held' = held
      /\ settled' = settled /\ due' = due
  BY DEF vars, history, runners
<1>2. TypeOK'
  BY <1>1 DEF TypeOK, disk, procs, OnDisk
<1>3. \A p \in Procs : \A x \in due'[p] : x \in due[p] /\ Gone(x)'
  BY <1>1 DEF DueHandled, Gone, TypeOK
<1> QED BY <1>1, <1>2, <1>3, WorldKeeps

LEMMA CrashKeeps == ASSUME IInv, NEW p \in Procs, Crash(p) PROVE IInv'
<1> USE DEF IInv
<1>1. /\ at' = [at EXCEPT ![p] = "down"] /\ todo' = [todo EXCEPT ![p] = <<>>]
      /\ owner' = [r \in Runs |-> IF owner[r] = p THEN Nobody ELSE owner[r]]
      /\ due' = [due EXCEPT ![p] = {}] /\ LetGo(p)
      /\ UNCHANGED disk /\ pid' = pid /\ phase' = phase /\ aged' = aged /\ starts' = starts
      /\ early' = early /\ held' = held /\ settled' = settled
  BY DEF Crash
<1>2. DiskOK' /\ receipt' = receipt
  BY <1>1, DiskSame DEF TypeOK, DiskOK
<1>3. /\ at'[p] = "down" /\ todo'[p] = <<>> /\ due'[p] = {}
      /\ \A q \in Procs \ {p} : /\ Hand(q)' = Hand(q) /\ at'[q] = at[q] /\ todo'[q] = todo[q]
                                /\ due'[q] = due[q]
  BY <1>1 DEF TypeOK, Hand
<1>4. /\ seen' \in [Procs -> BOOLEAN] /\ patch' \in [Procs -> Receipt]
      /\ \A q \in Procs \ {p} : seen'[q] = seen[q] /\ patch'[q] = patch[q]
  <2>1. NoReceipt \in Receipt
    BY DEF Receipt, NoReceipt
  <2> QED BY <1>1, <2>1 DEF LetGo, TypeOK
<1>5. \A r \in Runs : owner[r] # p => owner'[r] = owner[r]
  BY <1>1
<1>6. \A q \in Procs : /\ ToSet(todo[q]) \subseteq Runs /\ due[q] \subseteq Runs
                       /\ at[q] \notin {"down", "idle"} => Hand(q) \in Runs
  BY Lists DEF TypeOK
<1>7. \A r \in Runs : /\ Past(r)' = Past(r) /\ Ended(r)' = Ended(r) /\ Gone(r)' = Gone(r)
                      /\ OnDisk(r)' = OnDisk(r) /\ IsTerminal(r)' = IsTerminal(r)
  BY <1>1, <1>2 DEF Past, Ended, Gone, OnDisk, IsTerminal
<1>8. TypeOK'
  <2>1. ASSUME NEW q \in Procs, at'[q] \notin {"down", "idle"} PROVE todo'[q] # <<>>
    BY <1>3, <2>1 DEF TypeOK
  <2>2. /\ at' \in [Procs -> {"down", "idle", "spawn", "write", "chunk", "unlink",
                              "probe", "mark", "settle"}]
        /\ todo' \in [Procs -> Seq(Runs)] /\ due' \in [Procs -> SUBSET Runs]
    <3>1. <<>> \in Seq(Runs) /\ {} \in SUBSET Runs
      OBVIOUS
    <3> QED BY <1>1, <3>1 DEF TypeOK
  <2>3. owner' \in [Runs -> Procs \cup {Nobody}]
    BY <1>1 DEF TypeOK
  <2> QED BY <1>1, <1>2, <1>4, <2>1, <2>2, <2>3 DEF TypeOK, DiskOK
<1>9. OwnerActs'
  BY <1>3, <1>5, <1>6 DEF OwnerActs
<1>10. Stages'
  BY <1>1, <1>3, <1>4 DEF Stages
<1>11. Begun'
  <2>1. ASSUME NEW q \in Procs, NEW x \in ToSet(todo'[q]) PROVE phase[x] # "none"
    BY <1>3, ListEmpty DEF Begun
  <2> QED BY <1>1, <1>7, <2>1 DEF Begun
<1>12. PidsNamed'
  BY <1>2, <1>3, <1>4, <1>6, <1>7 DEF PidsNamed
<1>13. Marked'
  BY <1>1, <1>3, <1>6, <1>7 DEF Marked
<1>14. SettledDead'
  BY <1>1, <1>7 DEF SettledDead, TypeOK
<1>15. HeldSafe'
  BY <1>1, <1>2, <1>3, <1>7 DEF HeldSafe, TypeOK
<1>16. TerminalEnded'
  BY <1>1, <1>3, <1>6, <1>7 DEF TerminalEnded
<1>17. ActiveKept'
  BY <1>1, <1>7 DEF ActiveKept
<1>18. DueHandled'
  <2>1. ASSUME NEW q \in Procs, NEW x \in due'[q]
        PROVE  /\ owner'[x] = Nobody /\ phase'[x] # "none" /\ Gone(x)' /\ at'[q] # "down"
               /\ \/ IsTerminal(x)'
                  \/ ~OnDisk(x)'
                  \/ at'[q] \in {"probe", "mark", "settle"} /\ x \in ToSet(todo'[q])
    <3>1. q # p /\ x \in due[q] /\ x \in Runs
      BY <1>3, <1>6, <2>1
    <3>2. owner'[x] = Nobody
      BY <1>5, <3>1, NobodyAssumption DEF DueHandled
    <3> QED BY <1>1, <1>3, <1>7, <3>1, <3>2 DEF DueHandled
  <2> QED BY <2>1 DEF DueHandled
<1> QED BY <1>8, <1>9, <1>10, <1>11, <1>12, <1>13, <1>14, <1>15, <1>16, <1>17, <1>18

------------------------------------------------------------------------------
(* The invariant                                                           *)

LEMMA InitHolds == Init => IInv
<1> SUFFICES ASSUME Init PROVE IInv
  OBVIOUS
<1>1. \A r \in Runs : receipt[r] = NoReceipt /\ phase[r] = "none" /\ ~OnDisk(r)
  BY DEF Init, OnDisk, NoReceipt
<1>2. TypeOK
  <2>1. NoReceipt \in Receipt
    BY DEF Receipt, NoReceipt
  <2>2. order = <<>> /\ ToSet(order) = {}
    BY ListEmpty DEF Init
  <2>3. starts \in 0 .. MaxStarts
    BY StartsAssumption DEF Init
  <2>4. order \in Seq(Runs) /\ DOMAIN order = {}
    BY <2>2
  <2>5. todo \in [Procs -> Seq(Runs)] /\ \A p \in Procs : at[p] = "down"
    BY DEF Init
  <2> QED BY <1>1, <2>1, <2>2, <2>3, <2>4, <2>5 DEF Init, TypeOK
<1>3. \A p \in Procs : at[p] = "down" /\ ToSet(todo[p]) = {} /\ due[p] = {}
  BY ListEmpty DEF Init
<1>4. held = {} /\ settled = {}
  BY DEF Init
<1>5. \A r \in Runs : ~receipt[r].pid /\ ~IsTerminal(r)
  BY <1>1 DEF NoReceipt, IsTerminal, Terminal
<1>6. OwnerActs /\ Stages /\ Begun
  BY <1>1, <1>3 DEF OwnerActs, Stages, Begun
<1>7. PidsNamed /\ Marked /\ SettledDead
  BY <1>3, <1>4, <1>5 DEF PidsNamed, Marked, SettledDead
<1>8. HeldSafe /\ TerminalEnded /\ ActiveKept /\ DueHandled
  BY <1>1, <1>3, <1>4, <1>5 DEF HeldSafe, TerminalEnded, ActiveKept, DueHandled
<1> QED BY <1>2, <1>6, <1>7, <1>8 DEF IInv

LEMMA NextKeeps == IInv /\ [Next]_vars => IInv'
<1> SUFFICES ASSUME IInv, [Next]_vars PROVE IInv'
  OBVIOUS
<1>1. ASSUME NEW p \in Procs, Owner(p) PROVE IInv'
  <2>1. ASSUME NEW r \in Runs, Open(p, r) \/ Accepted(p, r) \/ Retain(p, r) PROVE IInv'
    BY <2>1, OpenKeeps, AcceptedKeeps, RetainKeeps
  <2>2. ASSUME NEW r \in Runs, NEW s \in Ends, Finish(p, r, s) PROVE IInv'
    BY <2>2, FinishKeeps
  <2>3. ASSUME NEW named \in BOOLEAN, Spawn(p, named) PROVE IInv'
    BY <2>3, SpawnKeeps
  <2>4. CASE SpawnFails(p) \/ Write(p) \/ AcceptedLate(p) \/ ChunkEnds(p) \/ Unlink(p)
    BY <2>4, SpawnFailsKeeps, WriteKeeps, AcceptedLateKeeps, ChunkEndsKeeps, UnlinkKeeps
  <2> QED BY <1>1, <2>1, <2>2, <2>3, <2>4 DEF Owner
<1>2. ASSUME NEW p \in Procs, Recovery(p) PROVE IInv'
  BY <1>2, StartKeeps, ProbeKeeps, MarkKeeps, SettleKeeps DEF Recovery
<1>3. CASE World
  BY <1>3, CrashKeeps, ChildDiesKeeps, RecycledKeeps, AgeKeeps DEF World
<1>4. CASE UNCHANGED vars
  BY <1>4, StutterKeeps
<1> QED BY <1>1, <1>2, <1>3, <1>4 DEF Next

\* Everything above, in every state of every behaviour.
THEOREM Invariance == Spec => []IInv
<1>1. Init => IInv
  BY InitHolds
<1>2. IInv /\ [Next]_vars => IInv'
  BY NextKeeps
<1> QED BY <1>1, <1>2, PTL DEF Spec

\* The variables keep their types, a process in the middle of something has a run
\* in hand, and the listing shows every receipt once: atomicWriteJson and unlink
\* never leave two entries, or none, for a receipt.
THEOREM TypeCorrect == Spec => []TypeOK
<1>1. IInv => TypeOK
  BY DEF IInv
<1> QED BY <1>1, Invariance, PTL

\* A success that was written while the child lived is never replaced: neither by a
\* recovery that had read the receipt before, nor by a late write of the owner.
THEOREM SuccessIsKept == Spec => []OutcomeKept
<1>1. IInv => OutcomeKept
  BY DEF IInv, HeldSafe, OutcomeKept
<1> QED BY <1>1, Invariance, PTL

\* What markOrphanedRuns settles has no living child, with the exception its table
\* makes (and the receipt that was removed under it).
THEOREM LivingAreSpared == Spec => []LiveChildSpared
<1>1. IInv => LiveChildSpared
  BY DEF IInv, SettledDead, LiveChildSpared
<1> QED BY <1>1, Invariance, PTL

\* enforceRetention leaves every run that is going on its receipt, also when it has
\* computed its list before the run's receipt changed.
THEOREM ActiveAreKept == Spec => []ActiveKept
<1>1. IInv => ActiveKept
  BY DEF IInv
<1> QED BY <1>1, Invariance, PTL

\* A start's recovery leaves no orphan unsettled that it has listed, whatever the
\* other processes do meanwhile.
THEOREM OrphansAreSettled == Spec => []OrphansSettled
<1>1. IInv => OrphansSettled
  BY DEF IInv, DueHandled, OrphansSettled
<1> QED BY <1>1, Invariance, PTL

------------------------------------------------------------------------------
(* What retention leaves                                                   *)

\* What some process is about to remove, and what there is.
Pending == {r \in Runs : \E p \in Procs : at[p] = "unlink" /\ r \in ToSet(todo[p])}
Stored == {r \in Runs : OnDisk(r)}
Newer(r) == {q \in Stored : Before(order, r, q)}

\* No receipt is too old, and no recovery has settled one.
Calm == aged = {} /\ settled = {}

Enough(S) == MaxRuns <= Cardinality(S)

\* When all that is pending is gone, maxRuns receipts are left, and every one that
\* is to go as terminal has maxRuns newer ones. (A receipt that its owner rewrites
\* late becomes the newest, and is removed all the same: hence both.)
RoomLeft == Pending # {} => Enough(Stored \ Pending)
NewerLeft == \A r \in Pending : IsTerminal(r) => Enough(Newer(r) \ Pending)

\* A receipt does not become terminal twice, nor when it is to be removed.
EndsOnce ==
  \A p \in Procs : at[p] = "write" /\ patch[p].state \in Terminal =>
    ~IsTerminal(Hand(p)) /\ Hand(p) \notin Pending

Spared == Calm => RoomLeft /\ NewerLeft /\ EndsOnce

LEMMA EnoughMore ==
  ASSUME NEW S, NEW T \in SUBSET Runs, S \subseteq T, Enough(S)
  PROVE  Enough(T)
<1>1. IsFiniteSet(T)
  BY RunsAssumption, FS_Subset
<1>2. IsFiniteSet(S) /\ Cardinality(S) <= Cardinality(T)
  BY <1>1, FS_Subset
<1>3. Cardinality(S) \in Nat /\ Cardinality(T) \in Nat /\ MaxRuns \in Nat
  BY <1>1, <1>2, FS_CardinalityType, LimitAssumption
<1> QED BY <1>2, <1>3 DEF Enough

LEMMA BeforeIsOrder ==
  ASSUME NEW s \in Seq(Runs), Once(s)
  PROVE  /\ \A a, b, c : Before(s, a, b) /\ Before(s, b, c) => Before(s, a, c)
         /\ \A a, b : Before(s, a, b) => a # b /\ ~Before(s, b, a)
<1>1. Len(s) \in Nat /\ DOMAIN s = 1 .. Len(s)
  OBVIOUS
<1>2. ASSUME NEW a, NEW b, NEW c, Before(s, a, b), Before(s, b, c) PROVE Before(s, a, c)
  <2>1. PICK i, j \in DOMAIN s : i < j /\ s[i] = a /\ s[j] = b
    BY <1>2 DEF Before
  <2>2. PICK k, l \in DOMAIN s : k < l /\ s[k] = b /\ s[l] = c
    BY <1>2 DEF Before
  <2>3. j = k
    BY <2>1, <2>2 DEF Once
  <2>4. i < l
    BY <1>1, <2>1, <2>2, <2>3
  <2> QED BY <2>1, <2>2, <2>4 DEF Before
<1>3. ASSUME NEW a, NEW b, Before(s, a, b), a = b PROVE FALSE
  <2>1. PICK i, j \in DOMAIN s : i < j /\ s[i] = a /\ s[j] = b
    BY <1>3 DEF Before
  <2>2. i = j
    BY <1>3, <2>1 DEF Once
  <2> QED BY <1>1, <2>1, <2>2
<1> QED BY <1>2, <1>3

\* No new removals, and nothing that is left becomes older: what was enough stays so.
LEMMA StillEnough ==
  ASSUME RoomLeft, NewerLeft, Pending' \subseteq Pending,
         Stored \ Pending \subseteq Stored' \ Pending',
         \A r \in Pending' : IsTerminal(r)' =>
           IsTerminal(r) /\ Newer(r) \ Pending \subseteq Newer(r)' \ Pending'
  PROVE  RoomLeft' /\ NewerLeft'
<1>1. Stored' \ Pending' \in SUBSET Runs /\ \A r : Newer(r)' \ Pending' \in SUBSET Runs
  BY DEF Stored, Newer
<1>2. RoomLeft'
  <2> SUFFICES ASSUME Pending' # {} PROVE Enough(Stored' \ Pending')
    BY DEF RoomLeft, Enough
  <2>1. Enough(Stored \ Pending)
    BY DEF RoomLeft
  <2> QED BY <1>1, <2>1, EnoughMore
<1>3. NewerLeft'
  <2> SUFFICES ASSUME NEW r \in Pending', IsTerminal(r)' PROVE Enough(Newer(r)' \ Pending')
    BY DEF NewerLeft, Enough
  <2>1. Enough(Newer(r) \ Pending) /\ Newer(r) \ Pending \subseteq Newer(r)' \ Pending'
    BY DEF NewerLeft
  <2> QED BY <1>1, <2>1, EnoughMore
<1> QED BY <1>2, <1>3

LEMMA Unlisted ==
  ASSUME NEW p \in Procs, Others(p), at'[p] # "unlink"
  PROVE  Pending' \subseteq Pending
BY DEF Pending, Others

\* A step that leaves the directory alone and lists nothing more.
LEMMA SameDisk ==
  ASSUME RoomLeft, NewerLeft, UNCHANGED disk, Pending' \subseteq Pending
  PROVE  RoomLeft' /\ NewerLeft' /\ \A r \in Runs : IsTerminal(r)' = IsTerminal(r)
<1>1. receipt' = receipt /\ order' = order
  BY DEF disk
<1>2. Stored' = Stored /\ \A r : Newer(r)' = Newer(r) /\ IsTerminal(r)' = IsTerminal(r)
  BY <1>1 DEF Stored, Newer, IsTerminal, OnDisk
<1> QED BY <1>2, StillEnough

\* A step of p that makes no other receipt terminal than the one it has in hand.
LEMMA EndsOnceKeeps ==
  ASSUME EndsOnce, NEW p \in Procs, Others(p), Pending' \subseteq Pending,
         (at'[p] = "write" /\ patch'[p].state \in Terminal) =>
           (~IsTerminal(Hand(p))' /\ Hand(p)' \notin Pending),
         \A q \in Procs \ {p} : at[q] = "write" =>
           (IsTerminal(Hand(q))' => IsTerminal(Hand(q)))
  PROVE  EndsOnce'
<1> SUFFICES ASSUME NEW q \in Procs, at'[q] = "write", patch'[q].state \in Terminal
             PROVE  ~IsTerminal(Hand(q))' /\ Hand(q)' \notin Pending
  BY DEF EndsOnce
<1>1. CASE q = p
  BY <1>1
<1>2. CASE q # p
  <2>1. at[q] = "write" /\ patch[q].state \in Terminal /\ Hand(q)' = Hand(q)
    BY <1>2 DEF Others, Hand
  <2> QED BY <1>2, <2>1 DEF EndsOnce
<1> QED BY <1>1, <1>2

\* The same, when the directory is left alone.
LEMMA SparedSameDisk ==
  ASSUME IInv, Spared, Calm, NEW p \in Procs, Others(p), at'[p] # "unlink", UNCHANGED disk,
         (at'[p] = "write" /\ patch'[p].state \in Terminal) =>
           (~IsTerminal(Hand(p)') /\ Hand(p)' \in Runs \ Pending)
  PROVE  Spared'
<1>1. RoomLeft /\ NewerLeft /\ EndsOnce /\ TypeOK /\ Pending' \subseteq Pending
  BY Unlisted DEF Spared, IInv
<1>2. RoomLeft' /\ NewerLeft' /\ \A r \in Runs : IsTerminal(r)' = IsTerminal(r)
  BY <1>1, SameDisk
<1>3. \A q \in Procs \ {p} : at[q] = "write" => Hand(q)' = Hand(q) /\ Hand(q) \in Runs
  BY <1>1, InHand DEF Others, Hand
<1>4. \A q \in Procs \ {p} : at[q] = "write" => (IsTerminal(Hand(q))' => IsTerminal(Hand(q)))
  BY <1>2, <1>3
<1>5. (at'[p] = "write" /\ patch'[p].state \in Terminal) =>
         (~IsTerminal(Hand(p))' /\ Hand(p)' \notin Pending)
  BY <1>2
<1>6. EndsOnce'
  BY <1>1, <1>4, <1>5, EndsOnceKeeps
<1> QED BY <1>2, <1>6 DEF Spared

\* An owner's read: of a state that ends the run, only while the run goes on.
LEMMA SparedReads ==
  ASSUME IInv, Spared, Calm, NEW p \in Procs, NEW r \in Runs, NEW state \in States,
         NEW named \in BOOLEAN, Reads(p, r, state, named),
         state \in Terminal => phase[r] \in {"opened", "live"}
  PROVE  Spared'
<1>1. /\ UNCHANGED disk /\ at'[p] \in {"write", "chunk", "idle"} /\ todo'[p] = <<r>>
      /\ at'[p] = "write" => patch'[p] = [state |-> state, pid |-> named]
      /\ Others(p)
  BY DEF Reads, AfterUpdate, Others, IInv, TypeOK
<1>2. Hand(p)' = r
  BY <1>1 DEF Hand
<1>3. state \in Terminal => ~IsTerminal(r) /\ r \notin Pending
  <2>1. phase[r] \in {"opened", "live"} => ~Ended(r)
    BY DEF Ended
  <2>2. settled = {}
    BY DEF Calm
  <2> QED BY <2>1, <2>2 DEF IInv, TerminalEnded, Pending
<1>4. at'[p] = "write" => patch'[p].state = state
  BY <1>1
<1> QED BY <1>1, <1>2, <1>3, <1>4, SparedSameDisk

\* A write: the receipt becomes the newest, so that every other one has as many newer
\* ones as before.
LEMMA SparedPut ==
  ASSUME IInv, Spared, Calm, NEW p \in Procs, NEW r \in Runs, NEW state \in States,
         NEW named \in BOOLEAN, Put(r, state, named), Others(p),
         at'[p] \notin {"unlink", "write"}, state \in Terminal => r \notin Pending,
         \A q \in Procs \ {p} : at[q] = "write" => Hand(q) # r
  PROVE  Spared'
<1>1. RoomLeft /\ NewerLeft /\ EndsOnce /\ TypeOK /\ DiskOK /\ Pending' \subseteq Pending
  BY Unlisted DEF Spared, IInv, TypeOK, DiskOK
<1>2. /\ receipt'[r].state = state
      /\ \A x \in Runs \ {r} : receipt'[x] = receipt[x]
  BY <1>1, PutKeeps
<1>3. /\ \A a, b \in Runs \ {r} : Before(order, a, b) => Before(order', a, b)
      /\ \A a \in ToSet(order) \ {r} : Before(order', a, r)
  <2>1. order \in Seq(Runs) /\ Once(order) /\ order' = Rewritten(order, r)
    BY <1>1 DEF DiskOK, Put, Once, Rewritten
  <2> QED BY <2>1, WrittenLast
<1>4. /\ \A x \in Runs \ {r} : OnDisk(x)' = OnDisk(x) /\ IsTerminal(x)' = IsTerminal(x)
      /\ OnDisk(r)'
  BY <1>2 DEF OnDisk, IsTerminal, States, Terminal
<1>5. Stored \ Pending \subseteq Stored' \ Pending'
  BY <1>1, <1>4 DEF Stored
<1>6. ASSUME NEW x \in Pending', IsTerminal(x)'
      PROVE  IsTerminal(x) /\ Newer(x) \ Pending \subseteq Newer(x)' \ Pending'
  <2>1. x \in Runs /\ x \in Pending
    BY <1>1 DEF Pending
  <2>2. x # r
    BY <1>2, <1>6, <2>1 DEF IsTerminal
  <2>3. IsTerminal(x) /\ x \in ToSet(order) \ {r}
    BY <1>1, <1>4, <1>6, <2>1, <2>2 DEF TypeOK, OnDisk, IsTerminal, Terminal
  <2>4. ASSUME NEW y \in Newer(x) \ Pending PROVE y \in Newer(x)' \ Pending'
    <3>1. y \in Runs /\ OnDisk(y) /\ Before(order, x, y)
      BY DEF Newer, Stored
    <3>2. OnDisk(y)' /\ Before(order', x, y)
      BY <1>3, <1>4, <2>1, <2>2, <2>3, <3>1
    <3> QED BY <1>1, <3>1, <3>2 DEF Newer, Stored
  <2> QED BY <2>3, <2>4
<1>7. RoomLeft' /\ NewerLeft'
  BY <1>1, <1>5, <1>6, StillEnough
<1>8. \A q \in Procs \ {p} : at[q] = "write" => (IsTerminal(Hand(q))' => IsTerminal(Hand(q)))
  <2> SUFFICES ASSUME NEW q \in Procs \ {p}, at[q] = "write", IsTerminal(Hand(q))'
               PROVE  IsTerminal(Hand(q))
    OBVIOUS
  <2>1. Hand(q)' = Hand(q) /\ Hand(q) \in Runs \ {r}
    BY <1>1, InHand DEF Others, Hand
  <2> QED BY <1>2, <2>1 DEF IsTerminal
<1>9. EndsOnce'
  BY <1>1, <1>8, EndsOnceKeeps
<1> QED BY <1>7, <1>9 DEF Spared

LEMMA SparedOpen ==
  ASSUME IInv, Spared, Calm, NEW p \in Procs, NEW r \in Runs, Open(p, r)
  PROVE  Spared'
<1>1. /\ phase[r] = "none" /\ Put(r, "created", FALSE)
      /\ at' = [at EXCEPT ![p] = "spawn"] /\ todo' = [todo EXCEPT ![p] = <<r>>]
      /\ seen' = seen /\ patch' = patch
  BY DEF Open
<1>2. at'[p] = "spawn" /\ Others(p)
  BY <1>1 DEF IInv, TypeOK, Others
<1>3. "created" \in States \ Terminal /\ FALSE \in BOOLEAN
  BY DEF States, Terminal
<1>4. \A q \in Procs \ {p} : at[q] = "write" => Hand(q) # r
  BY <1>1 DEF IInv, Stages
<1> QED BY <1>1, <1>2, <1>3, <1>4, SparedPut

LEMMA SparedWrite ==
  ASSUME IInv, Spared, Calm, NEW p \in Procs, Write(p)
  PROVE  Spared'
<1>1. /\ at[p] = "write" /\ Put(Hand(p), patch[p].state, seen[p] \/ patch[p].pid) /\ LetGo(p)
      /\ at' = [at EXCEPT ![p] = AfterUpdate(Hand(p), patch[p].state)] /\ todo' = todo
  BY DEF Write, Hand
<1>2. at'[p] \in {"chunk", "idle"} /\ Others(p)
  BY <1>1 DEF IInv, TypeOK, Others, AfterUpdate, LetGo
<1>3. Hand(p) \in Runs /\ owner[Hand(p)] = p /\ patch[p].state # "none"
  BY <1>1, InHand DEF IInv, OwnerActs, Stages
<1>4. patch[p].state \in States /\ (seen[p] \/ patch[p].pid) \in BOOLEAN
  BY <1>1, <1>3 DEF IInv, TypeOK, Receipt
<1>5. patch[p].state \in Terminal => Hand(p) \notin Pending
  BY <1>1 DEF Spared, EndsOnce
<1>6. \A q \in Procs \ {p} : at[q] = "write" => Hand(q) # Hand(p)
  BY <1>3 DEF IInv, OwnerActs
<1> QED BY <1>1, <1>2, <1>3, <1>4, <1>5, <1>6, SparedPut

\* A removal: what is removed was pending.
LEMMA SparedUnlink ==
  ASSUME IInv, Spared, Calm, NEW p \in Procs, Unlink(p)
  PROVE  Spared'
<1>1. RoomLeft /\ NewerLeft /\ EndsOnce /\ TypeOK
  BY DEF Spared, IInv
<1>2. PICK h \in Runs : h = Hand(p) /\ h \in ToSet(todo[p])
  BY <1>1, InHand DEF Unlink
<1>3. /\ at[p] = "unlink" /\ receipt' = [receipt EXCEPT ![h] = NoReceipt]
      /\ order' = Filter(order, Runs \ {h})
      /\ todo' = [todo EXCEPT ![p] = Tail(@)]
      /\ at' = [at EXCEPT ![p] = IF Len(todo[p]) = 1 THEN "idle" ELSE "unlink"]
      /\ seen' = seen /\ patch' = patch
  BY <1>2 DEF Unlink, Hand
<1>4. /\ \A x \in Runs \ {h} : receipt'[x] = receipt[x]
      /\ receipt'[h] = NoReceipt
  BY <1>1, <1>3 DEF TypeOK
<1>5. /\ \A q \in Procs \ {p} : at'[q] = at[q] /\ todo'[q] = todo[q]
      /\ at'[p] \in {"idle", "unlink"} /\ ToSet(todo'[p]) \subseteq ToSet(todo[p])
  BY <1>1, <1>3, ListGoesOn
<1>6. Pending' \subseteq Pending /\ h \in Pending
  BY <1>2, <1>3, <1>5 DEF Pending
<1>7. \A a, b \in Runs \ {h} : Before(order, a, b) => Before(order', a, b)
  <2>1. order \in Seq(Runs)
    BY <1>1 DEF TypeOK
  <2> QED BY <1>3, <2>1, FilteredList
<1>8. /\ \A x \in Runs \ {h} : OnDisk(x)' = OnDisk(x) /\ IsTerminal(x)' = IsTerminal(x)
      /\ ~IsTerminal(h)'
  BY <1>4 DEF OnDisk, IsTerminal, States, Terminal, NoReceipt
<1>9. Stored \ Pending \subseteq Stored' \ Pending'
  BY <1>6, <1>8 DEF Stored
<1>10. ASSUME NEW x \in Pending', IsTerminal(x)'
       PROVE  IsTerminal(x) /\ Newer(x) \ Pending \subseteq Newer(x)' \ Pending'
  <2>1. x \in Runs \ {h} /\ IsTerminal(x)
    BY <1>8, <1>10 DEF Pending
  <2>2. ASSUME NEW y \in Newer(x) \ Pending PROVE y \in Newer(x)' \ Pending'
    <3>1. y \in Runs \ {h} /\ OnDisk(y) /\ Before(order, x, y)
      BY <1>6 DEF Newer, Stored
    <3>2. OnDisk(y)' /\ Before(order', x, y)
      BY <1>7, <1>8, <2>1, <3>1
    <3> QED BY <1>6, <3>1, <3>2 DEF Newer, Stored
  <2> QED BY <2>1, <2>2
<1>11. RoomLeft' /\ NewerLeft'
  BY <1>1, <1>6, <1>9, <1>10, StillEnough
<1>12. EndsOnce'
  <2> SUFFICES ASSUME NEW q \in Procs, at'[q] = "write", patch'[q].state \in Terminal
               PROVE  ~IsTerminal(Hand(q))' /\ Hand(q)' \notin Pending
    BY <1>6 DEF EndsOnce
  <2>1. q # p
    BY <1>5
  <2>2. at[q] = "write" /\ patch[q].state \in Terminal /\ Hand(q)' = Hand(q)
    BY <1>3, <1>5, <2>1 DEF Hand
  <2>3. ~IsTerminal(Hand(q)) /\ Hand(q) \notin Pending /\ Hand(q) \in Runs
    BY <1>1, <2>2, InHand DEF EndsOnce
  <2> QED BY <1>8, <2>2, <2>3
<1> QED BY <1>11, <1>12 DEF Spared

\* The newest terminal receipts, when there are more of them than retention keeps.
LEMMA NewestOnes ==
  ASSUME TypeOK, Surplus # 0
  PROVE  \E T \in SUBSET Runs :
           /\ Enough(T)
           /\ \A t \in T : OnDisk(t) /\ IsTerminal(t)
           /\ \A r \in ToSet(SubSeq(Removable, 1, Surplus)) :
                /\ r \in Runs \ T /\ OnDisk(r) /\ IsTerminal(r)
                /\ \A t \in T : Before(order, r, t)
<1> DEFINE s == Removable
           n == Surplus
           T == {s[i] : i \in n + 1 .. Len(s)}
<1>1. /\ s \in Seq(Runs) /\ n \in 0 .. Len(s) /\ n = Len(s) - MaxRuns
      /\ ToSet(s) = {r \in Runs : OnDisk(r) /\ IsTerminal(r)}
  BY RemovableIs
<1>2. Once(s) /\ \A a, b : Before(s, a, b) => Before(order, a, b)
  <2>1. order \in Seq(Runs) /\ Once(order)
    BY DEF TypeOK, Once
  <2> QED BY <2>1, FilteredList DEF Removable
<1>3. ToSet(SubSeq(s, 1, n)) = {s[i] : i \in 1 .. n}
  <2>1. /\ SubSeq(s, 1, n) \in Seq(Runs) /\ Len(SubSeq(s, 1, n)) = n
        /\ \A i \in 1 .. n : SubSeq(s, 1, n)[i] = s[i]
    BY <1>1, FirstOf
  <2>2. \A x : x \in ToSet(SubSeq(s, 1, n)) <=> \E i \in 1 .. n : SubSeq(s, 1, n)[i] = x
    BY <2>1, InList
  <2> QED BY <2>1, <2>2
<1> HIDE DEF s, n
<1>4. /\ Len(s) \in Nat /\ n \in Nat /\ MaxRuns \in Nat /\ MaxRuns = Len(s) - n
      /\ DOMAIN s = 1 .. Len(s)
  BY <1>1, LimitAssumption
<1>5. \A i \in 1 .. Len(s) : s[i] \in Runs /\ OnDisk(s[i]) /\ IsTerminal(s[i])
  <2>1. \A i \in 1 .. Len(s) : s[i] \in ToSet(s)
    BY <1>1, InList
  <2> QED BY <1>1, <2>1
<1>6. T \in SUBSET Runs /\ \A t \in T : OnDisk(t) /\ IsTerminal(t)
  BY <1>4, <1>5
<1>7. Enough(T)
  <2> DEFINE f == [i \in 1 .. MaxRuns |-> s[n + i]]
  <2>1. \A i \in 1 .. MaxRuns : n + i \in n + 1 .. Len(s) /\ n + i \in 1 .. Len(s)
    BY <1>4
  <2>2. f \in [1 .. MaxRuns -> T]
    BY <2>1
  <2>3. \A i, j \in 1 .. MaxRuns : f[i] = f[j] => i = j
    <3> SUFFICES ASSUME NEW i \in 1 .. MaxRuns, NEW j \in 1 .. MaxRuns, f[i] = f[j] PROVE i = j
      OBVIOUS
    <3>1. n + i = n + j
      BY <1>2, <1>4, <2>1 DEF Once
    <3> QED BY <1>4, <3>1
  <2> HIDE DEF f
  <2>4. f \in Injection(1 .. MaxRuns, T)
    BY <2>2, <2>3 DEF Injection, IsInjective
  <2>5. IsFiniteSet(T)
    BY <1>6, RunsAssumption, FS_Subset
  <2>6. Cardinality(1 .. MaxRuns) <= Cardinality(T)
    BY <2>4, <2>5, FS_Injection
  <2>7. Cardinality(1 .. MaxRuns) = MaxRuns
    BY LimitAssumption, FS_Interval
  <2> QED BY <2>6, <2>7 DEF Enough
<1>8. ASSUME NEW r \in ToSet(SubSeq(s, 1, n))
      PROVE  /\ r \in Runs \ T /\ OnDisk(r) /\ IsTerminal(r)
             /\ \A t \in T : Before(order, r, t)
  <2>1. PICK i \in 1 .. n : r = s[i]
    BY <1>3, <1>8
  <2>2. i \in 1 .. Len(s)
    BY <1>1, <1>4
  <2>3. ASSUME NEW t \in T PROVE Before(order, r, t) /\ r # t
    <3>1. PICK j \in n + 1 .. Len(s) : t = s[j]
      OBVIOUS
    <3>2. i < j /\ j \in 1 .. Len(s)
      BY <1>4, <2>2
    <3>3. Before(s, r, t)
      BY <1>4, <2>1, <2>2, <3>1, <3>2 DEF Before
    <3>4. s[i] # s[j]
      BY <1>2, <1>4, <2>2, <3>2 DEF Once
    <3> QED BY <1>2, <2>1, <3>1, <3>3, <3>4
  <2> QED BY <1>5, <2>1, <2>2, <2>3
<1> HIDE DEF T
<1>9. \E U \in SUBSET Runs :
           /\ Enough(U)
           /\ \A t \in U : OnDisk(t) /\ IsTerminal(t)
           /\ \A r \in ToSet(SubSeq(s, 1, n)) :
                /\ r \in Runs \ U /\ OnDisk(r) /\ IsTerminal(r)
                /\ \A t \in U : Before(order, r, t)
  BY <1>6, <1>7, <1>8
<1> QED BY <1>9 DEF s, n

\* Retention lists the oldest of what is terminal: the newest are enough, or, if one
\* of those is to be removed already, what is newer than that one is.
LEMMA SparedRetain ==
  ASSUME IInv, Spared, Calm, NEW p \in Procs, NEW r \in Runs, Retain(p, r)
  PROVE  Spared'
<1> DEFINE L == ToSet(SubSeq(Removable, 1, Surplus))
<1>1. RoomLeft /\ NewerLeft /\ EndsOnce /\ TypeOK
  BY DEF Spared, IInv
<1>2. /\ at[p] = "idle" /\ receipt' = receipt /\ order' = order
      /\ seen' = seen /\ patch' = patch
      /\ \A q \in Procs \ {p} : at'[q] = at[q] /\ todo'[q] = todo[q]
      /\ at'[p] \in {"idle", "unlink"}
  BY <1>1 DEF Retain, TypeOK, disk
<1>3. L \subseteq Runs /\ (Surplus = 0 => L = {}) /\ \A x \in L : IsTerminal(x)
  <2>1. /\ Removable \in Seq(Runs) /\ Surplus \in 0 .. Len(Removable)
        /\ ToSet(Removable) = {x \in Runs : OnDisk(x) /\ IsTerminal(x)}
    BY <1>1, RemovableIs
  <2>2. L \subseteq ToSet(Removable)
    BY <2>1, FirstOf
  <2>3. Surplus = 0 => SubSeq(Removable, 1, Surplus) = <<>>
    BY <2>1
  <2> QED BY <2>1, <2>2, <2>3, ListEmpty
<1>4. ToSet(todo'[p]) \subseteq L
  <2> DEFINE first == SubSeq(Removable, 1, Surplus)
  <2>1. Removable \in Seq(Runs) /\ Surplus \in 0 .. Len(Removable)
    BY <1>1, RemovableIs
  <2>2. first \in Seq(Runs)
    BY <2>1, FirstOf
  <2>3. todo'[p] = Filter(Removable, aged) \o Filter(first, Runs \ aged)
    BY <1>1 DEF Retain, TypeOK
  <2> HIDE DEF first
  <2>4. Filter(Removable, aged) \in Seq(Runs) /\ ToSet(Filter(Removable, aged)) = {}
    BY <2>1, FilteredList DEF Calm
  <2>5. /\ Filter(first, Runs \ aged) \in Seq(Runs)
        /\ ToSet(Filter(first, Runs \ aged)) \subseteq ToSet(first)
    BY <2>2, FilteredList
  <2>6. ToSet(todo'[p]) = ToSet(Filter(Removable, aged)) \cup ToSet(Filter(first, Runs \ aged))
    BY ZenonT(60), <2>3, <2>4, <2>5, Joined
  <2> QED BY <2>4, <2>5, <2>6 DEF first
<1> HIDE DEF L
<1>5. Pending' \subseteq Pending \cup L /\ Pending' \subseteq Runs
  BY <1>2, <1>4 DEF Pending
<1>6. Stored' = Stored /\ \A x : Newer(x)' = Newer(x) /\ IsTerminal(x)' = IsTerminal(x)
  BY <1>2 DEF Stored, Newer, IsTerminal, OnDisk
<1>7. EndsOnce'
  <2> SUFFICES ASSUME NEW q \in Procs, at'[q] = "write", patch'[q].state \in Terminal
               PROVE  ~IsTerminal(Hand(q))' /\ Hand(q)' \notin Pending'
    BY DEF EndsOnce
  <2>1. q # p
    BY <1>2
  <2>2. at[q] = "write" /\ patch[q].state \in Terminal /\ Hand(q)' = Hand(q)
    BY <1>2, <2>1 DEF Hand
  <2>3. ~IsTerminal(Hand(q)) /\ Hand(q) \notin Pending
    BY <1>1, <2>2 DEF EndsOnce
  <2>4. IsTerminal(Hand(q))' = IsTerminal(Hand(q))
    BY <1>6, <2>2
  <2> QED BY <1>3, <1>5, <2>2, <2>3, <2>4
<1>8. CASE Surplus = 0
  <2>1. Pending' \subseteq Pending
    BY <1>3, <1>5, <1>8
  <2>2. RoomLeft' /\ NewerLeft'
    BY <1>1, <1>6, <2>1, StillEnough
  <2> QED BY <1>7, <2>2 DEF Spared
<1>9. CASE Surplus # 0
  <2>1. /\ \A a, b, c : Before(order, a, b) /\ Before(order, b, c) => Before(order, a, c)
        /\ \A a, b : Before(order, a, b) => ~Before(order, b, a)
    <3>1. order \in Seq(Runs) /\ Once(order)
      BY <1>1 DEF TypeOK, Once
    <3> QED BY <3>1, BeforeIsOrder
  <2>2. PICK T \in SUBSET Runs :
           /\ Enough(T)
           /\ \A t \in T : OnDisk(t) /\ IsTerminal(t)
           /\ \A x \in L : x \in Runs \ T /\ \A t \in T : Before(order, x, t)
    BY <1>1, <1>9, NewestOnes DEF L
  <2>3. PICK W \in SUBSET Runs : /\ Enough(W) /\ W \subseteq Stored \ Pending'
                                 /\ \A x \in L, w \in W : Before(order, x, w)
    <3>1. CASE T \cap Pending = {}
      <4>1. T \subseteq Stored \ Pending'
        BY <1>5, <2>2, <3>1 DEF Stored
      <4> QED BY <2>2, <4>1
    <3>2. CASE T \cap Pending # {}
      <4>1. PICK t \in T : t \in Pending
        BY <3>2
      <4>2. Enough(Newer(t) \ Pending)
        BY <1>1, <2>2, <4>1 DEF NewerLeft
      <4>3. ASSUME NEW w \in Newer(t) \ Pending
            PROVE  w \in Stored \ Pending' /\ \A x \in L : Before(order, x, w)
        <5>1. w \in Stored /\ Before(order, t, w)
          BY DEF Newer
        <5>2. w \notin L
          BY <2>1, <2>2, <4>1, <5>1
        <5>3. \A x \in L : Before(order, x, w)
          BY <2>1, <2>2, <4>1, <5>1
        <5> QED BY <1>5, <5>1, <5>2, <5>3
      <4>4. Newer(t) \ Pending \in SUBSET Runs
        BY DEF Newer, Stored
      <4> QED BY <4>2, <4>3, <4>4
    <3> QED BY <3>1, <3>2
  <2>4. RoomLeft'
    <3>1. Stored \ Pending' \in SUBSET Runs
      BY DEF Stored
    <3>2. Enough(Stored \ Pending')
      BY <2>3, <3>1, EnoughMore
    <3> QED BY <1>6, <3>2 DEF RoomLeft, Enough
  <2>5. NewerLeft'
    <3> SUFFICES ASSUME NEW x \in Pending', IsTerminal(x)' PROVE Enough(Newer(x) \ Pending')
      BY <1>6 DEF NewerLeft, Enough
    <3>1. Newer(x) \ Pending' \in SUBSET Runs /\ IsTerminal(x)
      BY <1>6 DEF Newer, Stored
    <3>2. CASE (\A w \in W : Before(order, x, w))
      <4>1. W \subseteq Newer(x) \ Pending'
        BY <2>3, <3>2 DEF Newer
      <4> QED BY <2>3, <3>1, <4>1, EnoughMore
    <3>3. CASE ~(\A w \in W : Before(order, x, w))
      <4>1. x \notin L /\ \A l \in L : ~Before(order, x, l)
        BY <2>1, <2>3, <3>3
      <4>2. Enough(Newer(x) \ Pending)
        BY <1>1, <1>5, <3>1, <4>1 DEF NewerLeft
      <4>3. Newer(x) \ Pending \subseteq Newer(x) \ Pending'
        BY <1>5, <4>1 DEF Newer
      <4> QED BY <3>1, <4>2, <4>3, EnoughMore
    <3> QED BY <3>2, <3>3
  <2> QED BY <1>7, <2>4, <2>5 DEF Spared
<1> QED BY <1>8, <1>9

LEMMA SparedKeeps == IInv /\ Spared /\ [Next]_vars => Spared'
<1> SUFFICES ASSUME IInv, Spared, [Next]_vars, Calm' PROVE Spared'
  BY DEF Spared
<1> USE DEF IInv
<1>1. ASSUME NEW p \in Procs, Owner(p) PROVE Spared'
  <2>1. ASSUME NEW r \in Runs, Open(p, r) PROVE Spared'
    <3>1. Calm
      BY <2>1 DEF Open, history, Calm
    <3> QED BY <2>1, <3>1, SparedOpen
  <2>2. ASSUME NEW r \in Runs, Accepted(p, r) PROVE Spared'
    <3>1. Calm /\ Reads(p, r, "running", FALSE)
      BY <2>2 DEF Accepted, Reads, history, Calm
    <3>2. "running" \in States \ Terminal /\ FALSE \in BOOLEAN
      BY DEF States, Terminal
    <3> QED BY <3>1, <3>2, SparedReads
  <2>3. ASSUME NEW r \in Runs, Retain(p, r) PROVE Spared'
    <3>1. Calm
      BY <2>3 DEF Retain, history, Calm
    <3> QED BY <2>3, <3>1, SparedRetain
  <2>4. ASSUME NEW r \in Runs, NEW s \in Ends, Finish(p, r, s) PROVE Spared'
    <3>1. Calm /\ Reads(p, r, s, FALSE) /\ phase[r] = "live"
      BY <2>4 DEF Finish, Reads, history, Calm
    <3>2. s \in States /\ FALSE \in BOOLEAN
      BY EndsAssumption DEF States, Terminal
    <3> QED BY <3>1, <3>2, SparedReads
  <2>5. ASSUME NEW named \in BOOLEAN, Spawn(p, named) PROVE Spared'
    <3>1. Calm /\ Reads(p, Hand(p), "starting", named) /\ Hand(p) \in Runs
      BY <2>5, InHand DEF Spawn, Reads, history, Calm, Hand
    <3>2. "starting" \in States \ Terminal
      BY DEF States, Terminal
    <3> QED BY <3>1, <3>2, SparedReads
  <2>6. CASE SpawnFails(p)
    <3>1. Calm /\ Reads(p, Hand(p), "failed", FALSE) /\ Hand(p) \in Runs
      BY <2>6, InHand DEF SpawnFails, Reads, history, Calm, Hand
    <3>2. "failed" \in States /\ FALSE \in BOOLEAN /\ phase[Hand(p)] = "opened"
      BY <2>6 DEF States, Terminal, SpawnFails, Stages
    <3> QED BY <3>1, <3>2, SparedReads
  <2>7. CASE AcceptedLate(p)
    <3>1. Calm /\ Reads(p, Hand(p), "running", FALSE) /\ Hand(p) \in Runs
      BY <2>7, InHand DEF AcceptedLate, Reads, history, Calm, Hand
    <3>2. "running" \in States \ Terminal /\ FALSE \in BOOLEAN
      BY DEF States, Terminal
    <3> QED BY <3>1, <3>2, SparedReads
  <2>8. CASE Write(p)
    <3>1. Calm
      BY <2>8 DEF Write, Calm
    <3> QED BY <2>8, <3>1, SparedWrite
  <2>9. CASE ChunkEnds(p)
    <3>1. /\ Calm /\ UNCHANGED disk /\ at'[p] = "idle" /\ Others(p)
      BY <2>9 DEF ChunkEnds, history, Calm, Others, TypeOK
    <3> QED BY <3>1, SparedSameDisk
  <2>10. CASE Unlink(p)
    <3>1. Calm
      BY <2>10 DEF Unlink, history, Calm
    <3> QED BY <2>10, <3>1, SparedUnlink
  <2> QED BY <1>1, <2>1, <2>2, <2>3, <2>4, <2>5, <2>6, <2>7, <2>8, <2>9, <2>10 DEF Owner
<1>2. ASSUME NEW p \in Procs, Recovery(p) PROVE Spared'
  <2>1. CASE Start(p)
    <3>1. /\ Calm /\ UNCHANGED disk /\ at'[p] \in {"idle", "probe"} /\ Others(p)
      BY <2>1 DEF Start, Calm, Others, TypeOK
    <3> QED BY <3>1, SparedSameDisk
  <2>2. CASE Probe(p)
    <3>1. /\ Calm /\ UNCHANGED disk /\ at'[p] \in {"idle", "probe", "mark"} /\ Others(p)
      BY <2>2 DEF Probe, Step, Calm, Others, TypeOK
    <3> QED BY <3>1, SparedSameDisk
  <2>3. CASE Mark(p)
    <3>1. /\ Calm /\ UNCHANGED disk /\ at'[p] \in {"idle", "probe", "settle"} /\ Others(p)
      BY <2>3 DEF Mark, Step, history, Calm, Others, TypeOK
    <3> QED BY <3>1, SparedSameDisk
  <2>4. CASE Settle(p)
    BY <2>4 DEF Settle, Calm
  <2> QED BY <1>2, <2>1, <2>2, <2>3, <2>4 DEF Recovery
<1>3. ASSUME NEW p \in Procs, Crash(p) PROVE Spared'
  <2>1. /\ Calm /\ UNCHANGED disk /\ at'[p] = "down" /\ Others(p)
    BY <1>3 DEF Crash, LetGo, Calm, Others, TypeOK
  <2> QED BY <2>1, SparedSameDisk
<1>4. ASSUME UNCHANGED <<disk, procs, settled>>, aged' = {} => aged = {} PROVE Spared'
  <2>1. /\ at' = at /\ todo' = todo /\ seen' = seen /\ patch' = patch
        /\ receipt' = receipt /\ order' = order /\ Calm
    BY <1>4 DEF disk, procs, Calm
  <2>2. Pending' = Pending /\ \A q \in Procs : Hand(q)' = Hand(q)
    BY <2>1 DEF Pending, Hand
  <2>3. RoomLeft' /\ NewerLeft' /\ \A x \in Runs : IsTerminal(x)' = IsTerminal(x)
    BY <1>4, <2>1, <2>2, SameDisk DEF Spared
  <2>4. EndsOnce'
    <3>1. \A q \in Procs : at[q] = "write" => Hand(q) \in Runs
      BY InHand
    <3> QED BY <2>1, <2>2, <2>3, <3>1 DEF Spared, EndsOnce
  <2> QED BY <2>3, <2>4 DEF Spared
<1>5. CASE World
  <2>1. ASSUME NEW r \in Runs, ChildDies(r) \/ Recycled(r) \/ Age(r) PROVE Spared'
    <3>1. UNCHANGED <<disk, procs, settled>> /\ (aged' = {} => aged = {})
      BY <2>1 DEF ChildDies, Recycled, Age, history
    <3> QED BY <1>4, <3>1
  <2> QED BY <1>3, <1>5, <2>1 DEF World
<1>6. CASE UNCHANGED vars
  <2>1. UNCHANGED <<disk, procs, settled>> /\ (aged' = {} => aged = {})
    BY <1>6 DEF vars, history
  <2> QED BY <1>4, <2>1
<1> QED BY <1>1, <1>2, <1>5, <1>6 DEF Next

LEMMA SparedInit == Init => Spared
<1> SUFFICES ASSUME Init PROVE Spared
  OBVIOUS
<1>1. \A p \in Procs : at[p] = "down"
  BY DEF Init
<1>2. Pending = {}
  BY <1>1 DEF Pending
<1> QED BY <1>1, <1>2 DEF Spared, RoomLeft, NewerLeft, EndsOnce

\* What has a receipt before a step but not after it.
LeavesEnough ==
  \A r \in Runs :
    aged = {} /\ settled = {} /\ OnDisk(r) /\ ~OnDisk(r)' =>
      Cardinality({q \in Runs : OnDisk(q)'}) >= MaxRuns

LEMMA OnlyUnlinkRemoves ==
  ASSUME IInv, [Next]_vars, NEW r \in Runs, OnDisk(r), ~OnDisk(r)'
  PROVE  \E p \in Procs : Unlink(p) /\ r = Hand(p)
<1> USE DEF IInv
<1>1. receipt' # receipt
  BY DEF OnDisk
<1>2. ASSUME NEW x \in Runs, NEW state \in States \ {"none"}, NEW named \in BOOLEAN,
             Put(x, state, named)
      PROVE  FALSE
  <2>1. DiskOK /\ state # "none"
    BY DEF TypeOK, DiskOK
  <2>2. receipt'[x].state = state /\ \A y \in Runs \ {x} : receipt'[y] = receipt[y]
    BY <1>2, <2>1, PutKeeps
  <2> QED BY <2>1, <2>2 DEF OnDisk
<1>3. ASSUME NEW p \in Procs, Owner(p) PROVE Unlink(p)
  <2>1. ASSUME NEW x \in Runs, Open(p, x) PROVE FALSE
    <3>1. Put(x, "created", FALSE) /\ "created" \in States \ {"none"} /\ FALSE \in BOOLEAN
      BY <2>1 DEF Open, States
    <3> QED BY <1>2, <3>1
  <2>2. CASE Write(p)
    <3>1. /\ Put(Hand(p), patch[p].state, seen[p] \/ patch[p].pid) /\ Hand(p) \in Runs
          /\ patch[p].state \in States \ {"none"}
          /\ (seen[p] \/ patch[p].pid) \in BOOLEAN
      BY <2>2, InHand DEF Write, Hand, Stages, TypeOK, Receipt
    <3> QED BY <1>2, <3>1
  <2>3. ASSUME UNCHANGED disk PROVE FALSE
    BY <1>1, <2>3 DEF disk
  <2> QED BY <1>3, <2>1, <2>2, <2>3 DEF Owner, Accepted, Retain, Finish, Spawn, SpawnFails,
               AcceptedLate, ChunkEnds, Reads
<1>4. ASSUME NEW p \in Procs, Recovery(p) PROVE FALSE
  <2>1. CASE Settle(p)
    <3>1. /\ Put(Hand(p), "crashed", seen[p]) /\ Hand(p) \in Runs
          /\ "crashed" \in States \ {"none"} /\ seen[p] \in BOOLEAN
      BY <2>1, InHand DEF Settle, Hand, TypeOK, States, Terminal
    <3> QED BY <1>2, <3>1
  <2> QED BY <1>1, <1>4, <2>1 DEF Recovery, Start, Probe, Mark, disk
<1>5. ~World /\ ~(UNCHANGED vars)
  BY <1>1 DEF World, Crash, ChildDies, Recycled, Age, vars, disk
<1>6. PICK p \in Procs : Unlink(p)
  BY <1>3, <1>4, <1>5 DEF Next
<1>7. Hand(p) \in Runs /\ \A x \in Runs \ {Hand(p)} : receipt'[x] = receipt[x]
  BY <1>6, InHand DEF Unlink, Hand, TypeOK
<1> QED BY <1>6, <1>7 DEF OnDisk

\* While nothing is too old, retention leaves maxRuns receipts, however many
\* processes enforce it at once on listings that are out of date.
THEOREM NewestAreKept == Spec => NewestKept
<1>1. Spec => []Spared
  <2>1. IInv /\ Spared /\ [Next]_vars => Spared'
    BY SparedKeeps
  <2> QED BY <2>1, SparedInit, Invariance, PTL DEF Spec
<1>2. IInv /\ Spared /\ [Next]_vars => LeavesEnough
  <2> SUFFICES ASSUME IInv, Spared, [Next]_vars, NEW r \in Runs,
                      aged = {}, settled = {}, OnDisk(r), ~OnDisk(r)'
               PROVE  Cardinality({q \in Runs : OnDisk(q)'}) >= MaxRuns
    BY DEF LeavesEnough
  <2>1. PICK p \in Procs : Unlink(p) /\ r = Hand(p)
    BY OnlyUnlinkRemoves
  <2>2. /\ r \in Pending /\ receipt' = [receipt EXCEPT ![r] = NoReceipt]
    BY <2>1, InHand DEF Unlink, Hand, Pending, IInv
  <2>3. Enough(Stored \ Pending)
    BY <2>2 DEF Spared, Calm, RoomLeft
  <2>4. Stored \ Pending \subseteq {q \in Runs : OnDisk(q)'}
    BY <2>2 DEF Stored, OnDisk, IInv, TypeOK
  <2>5. Enough({q \in Runs : OnDisk(q)'})
    BY <2>3, <2>4, EnoughMore
  <2>6. Cardinality({q \in Runs : OnDisk(q)'}) \in Nat /\ MaxRuns \in Nat
    BY RunsAssumption, FS_Subset, FS_CardinalityType, LimitAssumption
  <2> QED BY <2>5, <2>6 DEF Enough
<1>3. IInv /\ Spared /\ [Next]_vars =>
        [\A r \in Runs :
           aged = {} /\ settled = {} /\ OnDisk(r) /\ ~OnDisk(r)' =>
             Cardinality({q \in Runs : OnDisk(q)'}) >= MaxRuns]_vars
  BY <1>2 DEF LeavesEnough
<1> QED BY <1>1, <1>3, Invariance, PTL DEF Spec, NewestKept
=============================================================================
