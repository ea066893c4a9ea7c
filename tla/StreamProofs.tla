---------------------------- MODULE StreamProofs ----------------------------
(***************************************************************************)
(* Theorems about Stream, for every set of records and line ends, every    *)
(* bound, threshold and capacity.                                          *)
(*                                                                         *)
(* The argument: what the child wrote is a sequence of lines (Wires), and  *)
(* the parser is somewhere in it (Reading): the records before that place  *)
(* are in the transcript, and what it holds back, with what it has not     *)
(* read, is again a sequence of lines. Reading is kept byte by byte.       *)
(***************************************************************************)
EXTENDS Stream, FiniteSetTheorems, SequenceTheorems, WellFoundedInduction, TLAPS

------------------------------------------------------------------------------
(* Recursion, and induction over numbers and sequences                     *)

\* Every set of natural numbers has a least element.
LEMMA LeastNumber ==
  ASSUME NEW T \in SUBSET Nat, T # {}
  PROVE  \E m \in T : \A n \in T : m <= n
<1> DEFINE R == OpToRel(<, Nat)
<1>1. IsWellFoundedOn(R, Nat)
  BY NatLessThanWellFounded
<1>2. \A x, y \in Nat : <<x, y>> \in R <=> x < y
  BY DEF OpToRel
<1>3. PICK m \in T : \A n \in T : ~ (<<n, m>> \in R)
  <2> HIDE DEF R
  <2> QED BY <1>1, WFMin
<1>4. ASSUME NEW n \in T PROVE m <= n
  <2>1. m \in Nat /\ n \in Nat /\ ~ (<<n, m>> \in R)
    BY <1>3
  <2> HIDE DEF R
  <2> QED BY <1>2, <2>1
<1> HIDE DEF R
<1> QED BY <1>4

\* Induction over the numbers up to N.
LEMMA InductionUpTo ==
  ASSUME NEW N \in Nat, NEW T, 0 \in T,
         \A n \in 0 .. N : n \in T /\ n < N => n + 1 \in T
  PROVE  \A n \in 0 .. N : n \in T
<1> SUFFICES ASSUME (0 .. N) \ T # {} PROVE FALSE
  OBVIOUS
<1> DEFINE U == (0 .. N) \ T
<1>0. U \in SUBSET Nat /\ U # {}
  OBVIOUS
<1>1. PICK m \in U : \A n \in U : m <= n
  <2> HIDE DEF U
  <2> QED BY <1>0, LeastNumber
<1>2. m # 0 /\ m - 1 \in 0 .. N /\ m - 1 < N
  BY <1>1
<1>3. m - 1 \in T
  BY <1>1, <1>2
<1>4. (m - 1) + 1 \in T
  BY <1>2, <1>3
<1> QED BY <1>1, <1>2, <1>4

\* A function that is defined by recursion over the numbers up to N exists.
Recursive(g, N, X, base, step) ==
  g \in [0 .. N -> X] /\ g[0] = base /\ \A n \in 1 .. N : g[n] = step[n][g[n - 1]]

\* ... and there is one for every bound, start and step.
LEMMA Recursion ==
  ASSUME NEW N \in Nat, NEW X, NEW base \in X, NEW step \in [1 .. N -> [X -> X]]
  PROVE  \E g : Recursive(g, N, X, base, step)
<1> DEFINE Upto(M, g) == g[0] = base /\ \A n \in 1 .. M : g[n] = step[n][g[n - 1]]
           T == {M \in 0 .. N : \E g \in [0 .. M -> X] : Upto(M, g)}
<1>1. 0 \in T
  <2> DEFINE z == [n \in 0 .. 0 |-> base]
  <2>1. z \in [0 .. 0 -> X] /\ z[0] = base
    OBVIOUS
  <2>2. \A n \in 1 .. 0 : FALSE
    OBVIOUS
  <2> HIDE DEF z
  <2>3. Upto(0, z)
    BY <2>1, <2>2
  <2> QED BY <2>1, <2>3
<1>2. ASSUME NEW M \in 0 .. N, M \in T, M < N PROVE M + 1 \in T
  <2>1. PICK g \in [0 .. M -> X] : Upto(M, g)
    BY <1>2
  <2> DEFINE h == [n \in 0 .. M + 1 |-> IF n = M + 1 THEN step[M + 1][g[M]] ELSE g[n]]
  <2>2. /\ h = [n \in 0 .. M + 1 |-> h[n]] /\ h[M + 1] = step[M + 1][g[M]]
        /\ \A n \in 0 .. M : h[n] = g[n]
    OBVIOUS
  <2> HIDE DEF h
  <2>3. step[M + 1][g[M]] \in X
    <3>1. M + 1 \in 1 .. N /\ g[M] \in X
      BY <1>2
    <3> QED BY <3>1
  <2>4. h \in [0 .. M + 1 -> X]
    <3>1. \A n \in 0 .. M + 1 : n = M + 1 \/ n \in 0 .. M
      OBVIOUS
    <3>2. \A n \in 0 .. M + 1 : h[n] \in X
      BY <2>2, <2>3, <3>1
    <3> QED BY <2>2, <3>2
  <2>5. ASSUME NEW n \in 1 .. M + 1 PROVE h[n] = step[n][h[n - 1]]
    <3>1. CASE n = M + 1
      <4>1. M \in 0 .. M /\ n - 1 = M
        BY <3>1
      <4>2. h[M] = g[M]
        BY <2>2, <4>1
      <4> QED BY <2>2, <3>1, <4>1, <4>2
    <3>2. CASE n # M + 1
      <4>1. n \in 1 .. M /\ n \in 0 .. M /\ n - 1 \in 0 .. M
        BY <3>2
      <4>2. h[n] = g[n] /\ h[n - 1] = g[n - 1] /\ g[n] = step[n][g[n - 1]]
        BY <2>1, <2>2, <4>1
      <4> QED BY <4>2
    <3> QED BY <3>1, <3>2
  <2>6. h[0] = base
    <3>1. 0 \in 0 .. M
      OBVIOUS
    <3> QED BY <2>1, <2>2, <3>1
  <2>7. Upto(M + 1, h) /\ M + 1 \in 0 .. N
    BY <1>2, <2>5, <2>6
  <2> QED BY <2>4, <2>7
<1>3. N \in T
  <2> HIDE DEF T
  <2>1. \A n \in 0 .. N : n \in T
    BY <1>1, <1>2, InductionUpTo
  <2> QED BY <2>1
<1> QED BY <1>3 DEF Recursive

\* ... and has its values in X.
LEMMA RecursionIn ==
  ASSUME NEW N \in Nat, NEW X, NEW h, h[0] \in X,
         \A n \in 1 .. N : h[n - 1] \in X => h[n] \in X
  PROVE  \A n \in 0 .. N : h[n] \in X
<1> DEFINE T == {n \in 0 .. N : h[n] \in X}
<1>1. 0 \in T
  OBVIOUS
<1>2. ASSUME NEW n \in 0 .. N, n \in T, n < N PROVE n + 1 \in T
  <2>1. n + 1 \in 1 .. N /\ (n + 1) - 1 = n
    BY <1>2
  <2> QED BY <1>2, <2>1
<1>3. \A n \in 0 .. N : n \in T
  <2> HIDE DEF T
  <2> QED BY <1>1, <1>2, InductionUpTo
<1> QED BY <1>3

\* What the recursive function in Flat is.
Joining(parts, g) ==
  g = [n \in 0 .. Len(parts) |-> IF n = 0 THEN <<>> ELSE g[n - 1] \o parts[n]]

\* Flat is the last value of its recursion.
LEMMA FlatRec ==
  ASSUME NEW T, NEW parts \in Seq(Seq(T))
  PROVE  \E g \in [0 .. Len(parts) -> Seq(T)] :
           /\ g[0] = <<>> /\ \A n \in 1 .. Len(parts) : g[n] = g[n - 1] \o parts[n]
           /\ Flat(parts) = g[Len(parts)]
<1> DEFINE N == Len(parts)
           X == Seq(T)
           step == [n \in 1 .. N |-> [v \in X |-> v \o parts[n]]]
<1>0. N \in Nat /\ <<>> \in X /\ \A n \in 1 .. N : \A v \in X : v \o parts[n] \in X
  OBVIOUS
<1> HIDE DEF N, X
<1>1. step \in [1 .. N -> [X -> X]]
  BY <1>0
<1>2. \A n \in 1 .. N : \A v \in X : step[n][v] = v \o parts[n]
  OBVIOUS
<1> HIDE DEF step
<1>3. PICK g : Recursive(g, N, X, <<>>, step)
  BY <1>0, <1>1, Recursion
<1>4. Joining(parts, g)
  <2>1. \A n \in 0 .. N : g[n] = IF n = 0 THEN <<>> ELSE g[n - 1] \o parts[n]
    <3> TAKE n \in 0 .. N
    <3>1. CASE n = 0
      BY <1>3, <3>1 DEF Recursive
    <3>2. CASE n # 0
      <4>1. n \in 1 .. N /\ n - 1 \in 0 .. N
        BY <1>0, <3>2
      <4> QED BY <1>2, <1>3, <3>2, <4>1 DEF Recursive
    <3> QED BY <3>1, <3>2
  <2>2. g = [n \in 0 .. N |-> g[n]]
    BY <1>3 DEF Recursive
  <2> QED BY <2>1, <2>2 DEF Joining, N
<1> DEFINE h == CHOOSE f : Joining(parts, f)
<1>5. Joining(parts, h) /\ Flat(parts) = h[N]
  BY <1>4 DEF Flat, Joining, N
<1> HIDE DEF h
<1>6. /\ h = [n \in 0 .. N |-> h[n]] /\ h[0] = <<>>
      /\ \A n \in 1 .. N : h[n] = h[n - 1] \o parts[n]
  <2>1. h = [n \in 0 .. N |-> IF n = 0 THEN <<>> ELSE h[n - 1] \o parts[n]]
    BY <1>5 DEF Joining, N
  <2>2. \A n \in 0 .. N : h[n] = IF n = 0 THEN <<>> ELSE h[n - 1] \o parts[n]
    BY <2>1
  <2>3. 0 \in 0 .. N /\ \A n \in 1 .. N : n \in 0 .. N /\ n # 0
    BY <1>0
  <2>4. h = [n \in 0 .. N |-> h[n]]
    BY <2>1
  <2> QED BY <2>2, <2>3, <2>4
<1>7. \A n \in 0 .. N : h[n] \in X
  <2>1. \A n \in 1 .. N : h[n - 1] \in X => h[n] \in X
    BY <1>0, <1>6
  <2>2. h[0] \in X
    BY <1>0, <1>6
  <2> QED BY <1>0, <2>1, <2>2, RecursionIn
<1>8. h \in [0 .. N -> X]
  BY <1>6, <1>7
<1> QED BY <1>5, <1>6, <1>8 DEF N, X

\* Two functions that begin alike and go on alike are alike.
LEMMA RecursionSame ==
  ASSUME NEW N \in Nat, NEW g, NEW h, g[0] = h[0],
         \A n \in 1 .. N : g[n - 1] = h[n - 1] => g[n] = h[n]
  PROVE  g[N] = h[N]
<1> DEFINE T == {n \in 0 .. N : g[n] = h[n]}
<1>1. 0 \in T
  OBVIOUS
<1>2. ASSUME NEW n \in 0 .. N, n \in T, n < N PROVE n + 1 \in T
  <2>1. n + 1 \in 1 .. N /\ (n + 1) - 1 = n
    BY <1>2
  <2> QED BY <1>2, <2>1
<1>3. \A n \in 0 .. N : n \in T
  <2> HIDE DEF T
  <2> QED BY <1>1, <1>2, InductionUpTo
<1> QED BY <1>3

\* Induction over sequences, for a set of them.
LEMMA SeqInduction ==
  ASSUME NEW S, NEW U, <<>> \in U,
         \A s \in Seq(S) : \A e \in S : s \in U => Append(s, e) \in U
  PROVE  Seq(S) \subseteq U
<1> SUFFICES ASSUME NEW q \in Seq(S) PROVE q \in U
  OBVIOUS
<1> DEFINE T == {n \in 0 .. Len(q) : SubSeq(q, 1, n) \in U}
<1>0. Len(q) \in Nat
  OBVIOUS
<1>a. \A n : n \in T <=> n \in 0 .. Len(q) /\ SubSeq(q, 1, n) \in U
  OBVIOUS
<1> HIDE DEF T
<1>1. 0 \in T
  <2>1. SubSeq(q, 1, 0) = <<>>
    BY SubSeqEmpty
  <2>2. SubSeq(q, 1, 0) \in U
    BY <2>1
  <2> QED BY <1>0, <1>a, <2>2
<1>2. ASSUME NEW n \in 0 .. Len(q), n \in T, n < Len(q) PROVE n + 1 \in T
  <2>1. n + 1 \in 1 .. Len(q) /\ q[n + 1] \in S /\ SubSeq(q, 1, n) \in Seq(S)
    BY <1>2
  <2>2. SubSeq(q, 1, n + 1) = Append(SubSeq(q, 1, n), q[n + 1])
    BY <1>0, <1>2, <2>1
  <2>3. SubSeq(q, 1, n) \in U
    BY <1>2, <1>a
  <2>4. Append(SubSeq(q, 1, n), q[n + 1]) \in U
    BY <2>1, <2>3
  <2>5. SubSeq(q, 1, n + 1) \in U
    BY <2>2, <2>4
  <2> QED BY <1>0, <1>2, <1>a, <2>5
<1>3. Len(q) \in T
  <2>1. \A n \in 0 .. Len(q) : n \in T
    BY <1>0, <1>1, <1>2, InductionUpTo
  <2> QED BY <1>0, <2>1
<1>4. SubSeq(q, 1, Len(q)) = q
  BY SubSeqFull
<1> QED BY <1>3, <1>4, <1>a

\* Nothing is flat.
LEMMA FlatEmpty == Flat(<<>>) = <<>>
<1>1. <<>> \in Seq(Seq({}))
  OBVIOUS
<1>2. PICK g : g[0] = <<>> /\ Flat(<<>>) = g[Len(<<>>)]
  BY <1>1, FlatRec
<1> QED BY <1>2

\* One more part comes at the end.
LEMMA FlatAppend ==
  ASSUME NEW T, NEW parts \in Seq(Seq(T)), NEW x \in Seq(T)
  PROVE  Flat(parts) \in Seq(T) /\ Flat(Append(parts, x)) = Flat(parts) \o x
<1> DEFINE N == Len(parts)
           more == Append(parts, x)
<1>1. /\ N \in Nat /\ more \in Seq(Seq(T)) /\ Len(more) = N + 1 /\ more[N + 1] = x
      /\ \A n \in 1 .. N : more[n] = parts[n]
  OBVIOUS
<1>2. PICK g \in [0 .. N -> Seq(T)] :
        /\ g[0] = <<>> /\ \A n \in 1 .. N : g[n] = g[n - 1] \o parts[n]
        /\ Flat(parts) = g[N]
  BY FlatRec
<1>3. PICK h : /\ h[0] = <<>> /\ \A n \in 1 .. Len(more) : h[n] = h[n - 1] \o more[n]
               /\ Flat(more) = h[Len(more)]
  <2> HIDE DEF more
  <2> QED BY <1>1, FlatRec
<1> HIDE DEF N, more
<1>4. ASSUME NEW n \in 1 .. N, g[n - 1] = h[n - 1] PROVE g[n] = h[n]
  <2>1. g[n] = g[n - 1] \o parts[n]
    BY <1>2
  <2>2. h[n] = h[n - 1] \o more[n]
    <3>1. n \in 1 .. Len(more)
      BY <1>1
    <3> QED BY <1>3, <3>1
  <2> QED BY <1>1, <1>4, <2>1, <2>2
<1>5. g[N] = h[N]
  <2>1. g[0] = h[0]
    BY <1>2, <1>3
  <2> QED BY <1>1, <1>4, <2>1, RecursionSame
<1>6. h[N + 1] = h[N] \o x
  <2>1. N + 1 \in 1 .. Len(more) /\ (N + 1) - 1 = N
    BY <1>1
  <2>2. h[N + 1] = h[(N + 1) - 1] \o more[N + 1]
    BY <1>3, <2>1
  <2> QED BY <1>1, <2>1, <2>2
<1>7. Flat(parts) \in Seq(T)
  BY <1>1, <1>2
<1> QED BY <1>1, <1>2, <1>3, <1>5, <1>6, <1>7 DEF more

\* Flat gives a sequence of what the parts hold.
LEMMA FlatIn ==
  ASSUME NEW T, NEW parts \in Seq(Seq(T))
  PROVE  Flat(parts) \in Seq(T)
<1>1. <<>> \in Seq(T)
  OBVIOUS
<1> QED BY <1>1, FlatAppend

\* Flat of two lists of parts is one after the other.
LEMMA FlatCat ==
  ASSUME NEW T, NEW a \in Seq(Seq(T)), NEW b \in Seq(Seq(T))
  PROVE  Flat(a \o b) = Flat(a) \o Flat(b)
<1> DEFINE S == Seq(T)
           U == {c \in Seq(S) : Flat(a \o c) = Flat(a) \o Flat(c)}
<1>1. <<>> \in U
  <2>1. a \o <<>> = a /\ Flat(a) \o <<>> = Flat(a) /\ <<>> \in Seq(S)
    BY FlatIn, ConcatEmptySeq
  <2> QED BY <2>1, FlatEmpty
<1>2. ASSUME NEW c \in Seq(S), NEW e \in S, c \in U PROVE Append(c, e) \in U
  <2>1. a \o Append(c, e) = Append(a \o c, e) /\ a \o c \in Seq(S) /\ Append(c, e) \in Seq(S)
    OBVIOUS
  <2>2. Flat(Append(a \o c, e)) = Flat(a \o c) \o e /\ Flat(Append(c, e)) = Flat(c) \o e
    BY <2>1, FlatAppend
  <2>3. /\ Flat(a) \in S /\ Flat(c) \in S
        /\ (Flat(a) \o Flat(c)) \o e = Flat(a) \o (Flat(c) \o e)
    BY SMTT(60), FlatIn, ConcatAssociative
  <2>4. Flat(a \o c) = Flat(a) \o Flat(c)
    BY <1>2
  <2>5. Flat(a \o Append(c, e)) = Flat(a) \o Flat(Append(c, e))
    BY <2>1, <2>2, <2>3, <2>4
  <2> QED BY <2>1, <2>5
<1>3. Seq(S) \subseteq U
  <2> HIDE DEF U, S
  <2> QED BY <1>1, <1>2, SeqInduction
<1> QED BY <1>3

\* One part alone.
LEMMA FlatOne ==
  ASSUME NEW T, NEW x \in Seq(T)
  PROVE  Flat(<<x>>) = x
<1>1. <<>> \in Seq(Seq(T)) /\ Append(<<>>, x) = <<x>> /\ <<>> \o x = x
  OBVIOUS
<1> QED BY <1>1, FlatAppend, FlatEmpty

------------------------------------------------------------------------------
(* The parser and the ring as recursions                                   *)

\* Strip gives bytes.
LEMMA StripIn ==
  ASSUME NEW B, NEW line \in Seq(B)
  PROVE  Strip(line) \in Seq(B)
<1>1. Len(line) \in Nat /\ \A i \in 1 .. Len(line) : line[i] \in B
  OBVIOUS
<1>2. \A i \in 1 .. (Len(line) - 1) : line[i] \in B
  BY <1>1
<1>3. SubSeq(line, 1, Len(line) - 1) \in Seq(B)
  BY <1>1, <1>2, SubSeqProperties
<1> QED BY <1>3 DEF Strip, Front

\* What the parser has of some bytes.
Got(B) == [raws : Seq(Seq(B)), rest : Seq(B)]
Nothing == [raws |-> <<>>, rest |-> <<>>]

\* One byte more keeps the type of what the parser has.
LEMMA TakeIn ==
  ASSUME NEW B, NEW got \in Got(B), NEW b \in B
  PROVE  Take(got, b) \in Got(B)
<1>1. got.raws \in Seq(Seq(B)) /\ got.rest \in Seq(B)
  BY DEF Got
<1>2. Strip(got.rest) \in Seq(B)
  BY <1>1, StripIn
<1>3. /\ Append(got.raws, Strip(got.rest)) \in Seq(Seq(B))
      /\ Append(got.rest, b) \in Seq(B) /\ <<>> \in Seq(B)
  BY <1>1, <1>2
<1> QED BY <1>1, <1>3 DEF Take, Got

\* What the recursive function in Feed is.
Feeding(bytes, g) ==
  g = [n \in 0 .. Len(bytes) |->
         IF n = 0 THEN [raws |-> <<>>, rest |-> <<>>] ELSE Take(g[n - 1], bytes[n])]

\* Feed is the last value of its recursion.
LEMMA FeedRec ==
  ASSUME NEW B, NEW bytes \in Seq(B)
  PROVE  \E g \in [0 .. Len(bytes) -> Got(B)] :
           /\ g[0] = Nothing /\ \A n \in 1 .. Len(bytes) : g[n] = Take(g[n - 1], bytes[n])
           /\ Feed(bytes) = g[Len(bytes)]
<1> DEFINE N == Len(bytes)
           X == Got(B)
           step == [n \in 1 .. N |-> [v \in X |-> Take(v, bytes[n])]]
<1>0. N \in Nat /\ Nothing \in X /\ \A n \in 1 .. N : \A v \in X : Take(v, bytes[n]) \in X
  <2>1. N \in Nat /\ Nothing \in X /\ \A n \in 1 .. N : bytes[n] \in B
    BY DEF Got, Nothing
  <2> QED BY <2>1, TakeIn
<1> HIDE DEF N, X
<1>1. step \in [1 .. N -> [X -> X]]
  BY <1>0
<1>2. \A n \in 1 .. N : \A v \in X : step[n][v] = Take(v, bytes[n])
  OBVIOUS
<1> HIDE DEF step
<1>3. PICK g : Recursive(g, N, X, Nothing, step)
  BY <1>0, <1>1, Recursion
<1>4. Feeding(bytes, g)
  <2>1. \A n \in 0 .. N : g[n] = IF n = 0 THEN Nothing ELSE Take(g[n - 1], bytes[n])
    <3> TAKE n \in 0 .. N
    <3>1. CASE n = 0
      BY <1>3, <3>1 DEF Recursive
    <3>2. CASE n # 0
      <4>1. n \in 1 .. N /\ n - 1 \in 0 .. N
        BY <1>0, <3>2
      <4> QED BY <1>2, <1>3, <3>2, <4>1 DEF Recursive
    <3> QED BY <3>1, <3>2
  <2>2. g = [n \in 0 .. N |-> g[n]]
    BY <1>3 DEF Recursive
  <2> QED BY <2>1, <2>2 DEF Feeding, N, Nothing
<1> DEFINE h == CHOOSE f : Feeding(bytes, f)
<1>5. Feeding(bytes, h) /\ Feed(bytes) = h[N]
  BY <1>4 DEF Feed, Feeding, N
<1> HIDE DEF h
<1>6. /\ h = [n \in 0 .. N |-> h[n]] /\ h[0] = Nothing
      /\ \A n \in 1 .. N : h[n] = Take(h[n - 1], bytes[n])
  <2>1. h = [n \in 0 .. N |-> IF n = 0 THEN Nothing ELSE Take(h[n - 1], bytes[n])]
    BY <1>5 DEF Feeding, N, Nothing
  <2>2. \A n \in 0 .. N : h[n] = IF n = 0 THEN Nothing ELSE Take(h[n - 1], bytes[n])
    BY <2>1
  <2>3. 0 \in 0 .. N /\ \A n \in 1 .. N : n \in 0 .. N /\ n # 0
    BY <1>0
  <2>4. h = [n \in 0 .. N |-> h[n]]
    BY <2>1
  <2> QED BY <2>2, <2>3, <2>4
<1>7. \A n \in 0 .. N : h[n] \in X
  <2>1. \A n \in 1 .. N : h[n - 1] \in X => h[n] \in X
    BY <1>0, <1>6
  <2>2. h[0] \in X
    BY <1>0, <1>6
  <2> QED BY <1>0, <2>1, <2>2, RecursionIn
<1>8. h \in [0 .. N -> X]
  BY <1>6, <1>7
<1> QED BY <1>5, <1>6, <1>8 DEF N, X

\* No bytes, nothing.
LEMMA FeedEmpty == Feed(<<>>) = Nothing
<1>1. <<>> \in Seq({})
  OBVIOUS
<1>2. PICK g : g[0] = Nothing /\ Feed(<<>>) = g[Len(<<>>)]
  BY <1>1, FeedRec
<1> QED BY <1>2

\* A piece is read byte by byte.
LEMMA FeedAppend ==
  ASSUME NEW B, NEW bytes \in Seq(B), NEW b \in B
  PROVE  Feed(bytes) \in Got(B) /\ Feed(Append(bytes, b)) = Take(Feed(bytes), b)
<1> DEFINE N == Len(bytes)
           more == Append(bytes, b)
<1>1. /\ N \in Nat /\ more \in Seq(B) /\ Len(more) = N + 1 /\ more[N + 1] = b
      /\ \A n \in 1 .. N : more[n] = bytes[n]
  OBVIOUS
<1>2. PICK g \in [0 .. N -> Got(B)] :
        /\ g[0] = Nothing /\ \A n \in 1 .. N : g[n] = Take(g[n - 1], bytes[n])
        /\ Feed(bytes) = g[N]
  BY FeedRec
<1>3. PICK h : /\ h[0] = Nothing /\ \A n \in 1 .. Len(more) : h[n] = Take(h[n - 1], more[n])
               /\ Feed(more) = h[Len(more)]
  <2> HIDE DEF more
  <2> QED BY <1>1, FeedRec
<1> HIDE DEF N, more
<1>4. ASSUME NEW n \in 1 .. N, g[n - 1] = h[n - 1] PROVE g[n] = h[n]
  <2>1. g[n] = Take(g[n - 1], bytes[n])
    BY <1>2
  <2>2. h[n] = Take(h[n - 1], more[n])
    <3>1. n \in 1 .. Len(more)
      BY <1>1
    <3> QED BY <1>3, <3>1
  <2> QED BY <1>1, <1>4, <2>1, <2>2
<1>5. g[N] = h[N]
  <2>1. g[0] = h[0]
    BY <1>2, <1>3
  <2> QED BY <1>1, <1>4, <2>1, RecursionSame
<1>6. h[N + 1] = Take(h[N], b)
  <2>1. N + 1 \in 1 .. Len(more) /\ (N + 1) - 1 = N
    BY <1>1
  <2>2. h[N + 1] = Take(h[(N + 1) - 1], more[N + 1])
    BY <1>3, <2>1
  <2> QED BY <1>1, <2>1, <2>2
<1>7. Feed(bytes) \in Got(B)
  BY <1>1, <1>2
<1> QED BY <1>1, <1>2, <1>3, <1>5, <1>6, <1>7 DEF more

\* What the recursive function in PushAll is.
Pushing(news, g) ==
  g = [n \in 0 .. Len(news) |-> IF n = 0 THEN ring ELSE Push(g[n - 1], news[n])]

\* Push keeps the type of the ring.
LEMMA PushIn ==
  ASSUME NEW events \in Seq(Event), NEW event \in Event
  PROVE  Push(events, event) \in Seq(Event)
<1>1. Append(events, event) \in Seq(Event)
  OBVIOUS
<1>2. ASSUME ~ Len(events) < Capacity PROVE Append(Tail(events), event) \in Seq(Event)
  <2>1. events # <<>>
    BY <1>2, LimitAssumption
  <2>2. Tail(events) \in Seq(Event)
    BY <2>1, HeadTailProperties
  <2> QED BY <2>2
<1> QED BY <1>1, <1>2 DEF Push

\* PushAll is the last value of its recursion.
LEMMA PushRec ==
  ASSUME ring \in Seq(Event), NEW news \in Seq(Event)
  PROVE  \E g \in [0 .. Len(news) -> Seq(Event)] :
           /\ g[0] = ring /\ \A n \in 1 .. Len(news) : g[n] = Push(g[n - 1], news[n])
           /\ PushAll(news) = g[Len(news)]
<1> DEFINE N == Len(news)
           X == Seq(Event)
           step == [n \in 1 .. N |-> [v \in X |-> Push(v, news[n])]]
<1>0. N \in Nat /\ ring \in X /\ \A n \in 1 .. N : \A v \in X : Push(v, news[n]) \in X
  <2>1. N \in Nat /\ ring \in X /\ \A n \in 1 .. N : news[n] \in Event
    OBVIOUS
  <2> QED BY <2>1, PushIn
<1> HIDE DEF N, X
<1>1. step \in [1 .. N -> [X -> X]]
  BY <1>0
<1>2. \A n \in 1 .. N : \A v \in X : step[n][v] = Push(v, news[n])
  OBVIOUS
<1> HIDE DEF step
<1>3. PICK g : Recursive(g, N, X, ring, step)
  BY <1>0, <1>1, Recursion
<1>4. Pushing(news, g)
  <2>1. \A n \in 0 .. N : g[n] = IF n = 0 THEN ring ELSE Push(g[n - 1], news[n])
    <3> TAKE n \in 0 .. N
    <3>1. CASE n = 0
      BY <1>3, <3>1 DEF Recursive
    <3>2. CASE n # 0
      <4>1. n \in 1 .. N /\ n - 1 \in 0 .. N
        BY <1>0, <3>2
      <4> QED BY <1>2, <1>3, <3>2, <4>1 DEF Recursive
    <3> QED BY <3>1, <3>2
  <2>2. g = [n \in 0 .. N |-> g[n]]
    BY <1>3 DEF Recursive
  <2> QED BY <2>1, <2>2 DEF Pushing, N
<1> DEFINE h == CHOOSE f : Pushing(news, f)
<1>5. Pushing(news, h) /\ PushAll(news) = h[N]
  BY <1>4 DEF PushAll, Pushing, N
<1> HIDE DEF h
<1>6. /\ h = [n \in 0 .. N |-> h[n]] /\ h[0] = ring
      /\ \A n \in 1 .. N : h[n] = Push(h[n - 1], news[n])
  <2>1. h = [n \in 0 .. N |-> IF n = 0 THEN ring ELSE Push(h[n - 1], news[n])]
    BY <1>5 DEF Pushing, N
  <2>2. \A n \in 0 .. N : h[n] = IF n = 0 THEN ring ELSE Push(h[n - 1], news[n])
    BY <2>1
  <2>3. 0 \in 0 .. N /\ \A n \in 1 .. N : n \in 0 .. N /\ n # 0
    BY <1>0
  <2>4. h = [n \in 0 .. N |-> h[n]]
    BY <2>1
  <2> QED BY <2>2, <2>3, <2>4
<1>7. \A n \in 0 .. N : h[n] \in X
  <2>1. \A n \in 1 .. N : h[n - 1] \in X => h[n] \in X
    BY <1>0, <1>6
  <2>2. h[0] \in X
    BY <1>0, <1>6
  <2> QED BY <1>0, <2>1, <2>2, RecursionIn
<1>8. h \in [0 .. N -> X]
  BY <1>6, <1>7
<1> QED BY <1>5, <1>6, <1>8 DEF N, X

\* To push onto the end of a history is to have the end of the longer one.
LEMMA PushLast ==
  ASSUME NEW s \in Seq(Event), NEW e \in Event
  PROVE  Push(LastOf(Capacity, s), e) = LastOf(Capacity, Append(s, e))
<1> DEFINE L == Len(s)
           more == Append(s, e)
<1>0. /\ L \in Nat /\ Capacity \in Nat \ {0} /\ \A i \in 1 .. L : s[i] \in Event
      /\ more \in Seq(Event) /\ Len(more) = L + 1 /\ more[L + 1] = e
      /\ \A i \in 1 .. L : more[i] = s[i]
  BY LimitAssumption
<1> HIDE DEF L, more
<1>1. CASE L < Capacity
  <2>1. LastOf(Capacity, s) = s
    <3>1. ~ (Len(s) > Capacity)
      BY <1>0, <1>1 DEF L
    <3> QED BY <3>1, SubSeqFull DEF LastOf
  <2>2. LastOf(Capacity, more) = more
    <3>1. ~ (Len(more) > Capacity)
      BY <1>0, <1>1
    <3> QED BY <1>0, <3>1, SubSeqFull DEF LastOf
  <2> QED BY <1>1, <2>1, <2>2 DEF Push, L, more
<1>2. CASE L >= Capacity
  <2> DEFINE a == L - Capacity + 1
             last == LastOf(Capacity, s)
  <2>1. a \in 1 .. L /\ last = SubSeq(s, a, L) /\ a + 1 \in Int /\ a + 1 >= 1
    <3>1. a \in 1 .. L /\ a + 1 \in Int /\ a + 1 >= 1
      BY <1>0, <1>2
    <3>2. CASE L > Capacity
      BY <3>1, <3>2 DEF LastOf, L
    <3>3. CASE L = Capacity
      <4>1. a = 1 /\ ~ (L > Capacity)
        BY <1>0, <3>3
      <4> HIDE DEF a
      <4> QED BY <3>1, <4>1 DEF LastOf, L
    <3>4. L > Capacity \/ L = Capacity
      BY <1>0, <1>2
    <3> QED BY <3>1, <3>2, <3>3, <3>4
  <2>2. /\ last \in Seq(Event) /\ Len(last) = Capacity
        /\ \A i \in 1 .. Capacity : last[i] = s[a + i - 1]
    <3>1. \A i \in a .. L : s[i] \in Event
      BY <1>0, <2>1
    <3>2. L - a + 1 = Capacity /\ a <= L
      BY <1>0, <1>2
    <3> HIDE DEF a, last
    <3> QED BY <1>0, <2>1, <3>1, <3>2, SubSeqProperties
  <2> HIDE DEF last
  <2>3. last # <<>>
    BY <1>0, <2>2
  <2>4. Push(last, e) = Append(Tail(last), e)
    BY <1>0, <2>2 DEF Push
  <2>5. /\ Tail(last) \in Seq(Event) /\ Len(Tail(last)) = Capacity - 1
        /\ \A i \in 1 .. Capacity - 1 : Tail(last)[i] = last[i + 1]
    BY <2>2, <2>3, HeadTailProperties
  <2>6. /\ Push(last, e) \in Seq(Event) /\ Len(Push(last, e)) = Capacity
        /\ \A i \in 1 .. Capacity - 1 : Push(last, e)[i] = s[a + i]
        /\ Push(last, e)[Capacity] = e
    <3> DEFINE t == Tail(last)
    <3>1. /\ t \in Seq(Event) /\ Len(t) = Capacity - 1
          /\ \A i \in 1 .. Capacity - 1 : t[i] = s[a + i]
      <4>1. \A i \in 1 .. Capacity - 1 : i + 1 \in 1 .. Capacity /\ a + (i + 1) - 1 = a + i
        BY <1>0, <2>1
      <4> HIDE DEF a
      <4> QED BY <1>0, <2>2, <2>5, <4>1
    <3> HIDE DEF t, a
    <3>2. /\ Append(t, e) \in Seq(Event) /\ Len(Append(t, e)) = Capacity
          /\ \A i \in 1 .. Capacity - 1 : Append(t, e)[i] = t[i]
          /\ Append(t, e)[Capacity] = e
      BY <1>0, <3>1
    <3> QED BY <2>4, <3>1, <3>2 DEF t
  <2> DEFINE fresh == LastOf(Capacity, more)
  <2>7. fresh = SubSeq(more, a + 1, L + 1)
    BY <1>0, <1>2 DEF LastOf
  <2>8. /\ fresh \in Seq(Event) /\ Len(fresh) = Capacity
        /\ \A i \in 1 .. Capacity : fresh[i] = more[a + i]
    <3>1. \A i \in a + 1 .. L + 1 : more[i] \in Event
      BY <1>0, <2>1
    <3>2. (L + 1) - (a + 1) + 1 = Capacity /\ a + 1 <= L + 1 /\ L + 1 \in Int
      BY <1>0, <1>2
    <3>3. \A i \in 1 .. Capacity : (a + 1) + i - 1 = a + i
      BY <1>0, <2>1
    <3> HIDE DEF a, fresh
    <3> QED BY <1>0, <2>1, <2>7, <3>1, <3>2, <3>3, SubSeqProperties
  <2> HIDE DEF fresh
  <2>9. ASSUME NEW i \in 1 .. Capacity PROVE Push(last, e)[i] = fresh[i]
    <3>1. CASE i = Capacity
      <4>1. a + i = L + 1
        BY <1>0, <3>1
      <4> QED BY <1>0, <2>6, <2>8, <3>1, <4>1
    <3>2. CASE i # Capacity
      <4>1. i \in 1 .. Capacity - 1 /\ a + i \in 1 .. L
        BY <1>0, <1>2, <3>2
      <4> HIDE DEF a
      <4> QED BY <1>0, <2>6, <2>8, <4>1
    <3> QED BY <3>1, <3>2
  <2> QED BY <2>6, <2>8, <2>9, SeqEqual DEF last, fresh, more
<1> QED BY <1>0, <1>1, <1>2

\* The ring has the end of what was told.
LEMMA RingIs ==
  ASSUME NEW s \in Seq(Event), ring = LastOf(Capacity, s), ring \in Seq(Event), NEW news \in Seq(Event)
  PROVE  PushAll(news) = LastOf(Capacity, s \o news) /\ PushAll(news) \in Seq(Event)
<1> DEFINE N == Len(news)
<1>0. N \in Nat
  OBVIOUS
<1>1. PICK g \in [0 .. N -> Seq(Event)] :
        /\ g[0] = ring /\ \A n \in 1 .. N : g[n] = Push(g[n - 1], news[n])
        /\ PushAll(news) = g[N]
  BY PushRec
<1> DEFINE T == {n \in 0 .. N : g[n] = LastOf(Capacity, s \o SubSeq(news, 1, n))}
<1>a. \A n : n \in T <=> n \in 0 .. N /\ g[n] = LastOf(Capacity, s \o SubSeq(news, 1, n))
  OBVIOUS
<1> HIDE DEF T
<1>2. 0 \in T
  <2>1. SubSeq(news, 1, 0) = <<>> /\ s \o <<>> = s
    BY SubSeqEmpty, ConcatEmptySeq
  <2>2. g[0] = LastOf(Capacity, s \o SubSeq(news, 1, 0))
    BY <1>1, <2>1
  <2> QED BY <1>0, <1>a, <2>2
<1>3. ASSUME NEW n \in 0 .. N, n \in T, n < N PROVE n + 1 \in T
  <2> DEFINE q == SubSeq(news, 1, n)
             x == news[n + 1]
  <2>1. q \in Seq(Event) /\ x \in Event /\ SubSeq(news, 1, n + 1) = Append(q, x)
    BY <1>0, <1>3
  <2>2. s \o q \in Seq(Event) /\ s \o Append(q, x) = Append(s \o q, x)
    BY <2>1
  <2>3. g[n + 1] = Push(g[n], x)
    <3>1. n + 1 \in 1 .. N /\ (n + 1) - 1 = n
      BY <1>0, <1>3
    <3> QED BY <1>1, <3>1
  <2>4. g[n] = LastOf(Capacity, s \o q)
    BY <1>3, <1>a
  <2> HIDE DEF q, x
  <2>5. g[n + 1] = LastOf(Capacity, s \o Append(q, x))
    BY <2>1, <2>2, <2>3, <2>4, PushLast
  <2>6. n + 1 \in 0 .. N /\ g[n + 1] = LastOf(Capacity, s \o SubSeq(news, 1, n + 1))
    <3>1. n + 1 \in 0 .. N
      BY <1>0, <1>3
    <3>2. g[n + 1] = LastOf(Capacity, s \o SubSeq(news, 1, n + 1))
      BY <2>1, <2>5
    <3> QED BY <3>1, <3>2
  <2> QED BY <1>a, <2>6
<1>4. N \in T
  <2>1. \A n \in 0 .. N : n \in T
    BY <1>0, <1>2, <1>3, InductionUpTo
  <2> QED BY <1>0, <2>1
<1>5. SubSeq(news, 1, N) = news
  BY SubSeqFull
<1>6. g[N] \in Seq(Event)
  BY <1>0, <1>1
<1> QED BY <1>1, <1>4, <1>5, <1>6, <1>a

------------------------------------------------------------------------------
(* What the child writes: records as lines of bytes                        *)

\* The records that the child has written: what follows is about any list of them, so
\* that it can be used before and after a step.
ByteOf(recs) == (0 .. Len(recs)) \X (1 .. 4)
RecordsOK(recs) ==
  /\ recs \in Seq([kind : Kinds, ending : Endings \cup {<<>>}])
  /\ \A i \in 1 .. Len(recs) : recs[i].ending = <<>> => i = Len(recs)
WireOf(recs, i) == BodyOf(i, recs[i].kind) \o recs[i].ending
RawOf(recs, i) ==
  BodyOf(i, recs[i].kind) \o IF recs[i].ending = <<CR, CR, LF>> THEN <<CR>> ELSE <<>>

\* The bytes of the line ends.
LEMMA ByteIs ==
  ASSUME NEW recs, RecordsOK(recs)
  PROVE  CR \in ByteOf(recs) /\ LF \in ByteOf(recs) /\ CR # LF
<1>1. Len(recs) \in Nat
  BY DEF RecordsOK
<1> QED BY <1>1 DEF ByteOf, CR, LF

\* A body has no byte of a line end.
LEMMA BodyIs ==
  ASSUME NEW recs, RecordsOK(recs), NEW i \in 1 .. Len(recs)
  PROVE  /\ BodyOf(i, recs[i].kind) \in Seq(ByteOf(recs))
         /\ Len(BodyOf(i, recs[i].kind)) \in {0, 2, 4}
         /\ \A n \in 1 .. Len(BodyOf(i, recs[i].kind)) :
              /\ BodyOf(i, recs[i].kind)[n] = <<i, n>>
              /\ BodyOf(i, recs[i].kind)[n] # LF /\ BodyOf(i, recs[i].kind)[n] # CR
<1> DEFINE body == BodyOf(i, recs[i].kind)
<1>1. PICK m \in {0, 2, 4} : body = [n \in 1 .. m |-> <<i, n>>]
  BY DEF BodyOf
<1> HIDE DEF body
<1>2. Len(recs) \in Nat
  BY DEF RecordsOK
<1>3. \A n \in 1 .. m : <<i, n>> \in ByteOf(recs) /\ <<i, n>> # LF /\ <<i, n>> # CR
  BY <1>1, <1>2 DEF ByteOf, CR, LF
<1>4. body \in [1 .. m -> ByteOf(recs)] /\ m \in Nat
  BY <1>1, <1>3
<1>5. body \in Seq(ByteOf(recs)) /\ Len(body) = m
  BY <1>4
<1> QED BY <1>1, <1>3, <1>5 DEF body

\* A record has one of the three line ends, or none.
LEMMA EndingIs ==
  ASSUME NEW recs, RecordsOK(recs), NEW i \in 1 .. Len(recs)
  PROVE  /\ recs[i].ending \in {<<>>, <<LF>>, <<CR, LF>>, <<CR, CR, LF>>}
         /\ recs[i].kind \in Kinds
<1>1. recs[i] \in [kind : Kinds, ending : Endings \cup {<<>>}]
  BY ElementOfSeq DEF RecordsOK
<1>2. recs[i].ending \in Endings \cup {<<>>} /\ recs[i].kind \in Kinds
  BY <1>1
<1> QED BY <1>2, EndingsAssumption

\* A line has one LF, at its end.
LEMMA WireIs ==
  ASSUME NEW recs, RecordsOK(recs), NEW i \in 1 .. Len(recs)
  PROVE  /\ WireOf(recs, i) \in Seq(ByteOf(recs)) /\ Len(WireOf(recs, i)) \in Nat
         /\ \A n \in 1 .. Len(WireOf(recs, i)) : WireOf(recs, i)[n] = LF =>
              n = Len(WireOf(recs, i)) /\ recs[i].ending # <<>>
         /\ recs[i].ending # <<>> =>
              Len(WireOf(recs, i)) >= 1 /\ WireOf(recs, i)[Len(WireOf(recs, i))] = LF
<1> DEFINE B == ByteOf(recs)
           body == BodyOf(i, recs[i].kind)
           ending == recs[i].ending
           w == WireOf(recs, i)
           L == Len(body)
<1>1. /\ body \in Seq(B) /\ L \in Nat /\ \A n \in 1 .. L : body[n] # LF
  BY BodyIs
<1>2. ending \in {<<>>, <<LF>>, <<CR, LF>>, <<CR, CR, LF>>} /\ CR \in B /\ LF \in B /\ CR # LF
  BY ByteIs, EndingIs
<1>3. w = body \o ending
  BY DEF WireOf
<1> HIDE DEF B, body, ending, w, L
<1>4. /\ ending \in Seq(B) /\ Len(ending) \in Nat
      /\ \A n \in 1 .. Len(ending) : ending[n] = LF <=> n = Len(ending)
      /\ ending # <<>> => Len(ending) >= 1
  <2>1. CASE ending = <<>>
    BY <2>1
  <2>2. CASE ending = <<LF>>
    BY <1>2, <2>2
  <2>3. CASE ending = <<CR, LF>>
    BY <1>2, <2>3
  <2>4. CASE ending = <<CR, CR, LF>>
    BY <1>2, <2>4
  <2> QED BY <1>2, <2>1, <2>2, <2>3, <2>4
<1>5. /\ w \in Seq(B) /\ Len(w) = L + Len(ending)
      /\ \A n \in 1 .. L + Len(ending) : w[n] = IF n <= L THEN body[n] ELSE ending[n - L]
  BY <1>1, <1>3, <1>4, ConcatProperties DEF L
<1>6. ASSUME NEW n \in 1 .. Len(w), w[n] = LF PROVE n = Len(w) /\ ending # <<>>
  <2>1. ~ (n <= L)
    BY <1>1, <1>4, <1>5, <1>6
  <2>2. n - L \in 1 .. Len(ending) /\ w[n] = ending[n - L]
    BY <1>1, <1>4, <1>5, <2>1
  <2>3. n - L = Len(ending)
    BY <1>4, <1>6, <2>2
  <2>4. ending # <<>>
    BY <2>2
  <2> QED BY <1>1, <1>4, <1>5, <2>3, <2>4
<1>7. ASSUME ending # <<>> PROVE Len(w) >= 1 /\ w[Len(w)] = LF
  <2>1. Len(ending) >= 1
    BY <1>4, <1>7
  <2>2. Len(w) \in 1 .. L + Len(ending) /\ ~ (Len(w) <= L) /\ Len(w) - L = Len(ending)
    BY <1>1, <1>4, <1>5, <2>1
  <2>3. w[Len(w)] = ending[Len(ending)]
    BY <1>5, <2>2
  <2>4. ending[Len(ending)] = LF
    BY <1>4, <2>1
  <2> QED BY <1>1, <1>4, <2>2, <2>3, <2>4
<1> QED BY <1>1, <1>4, <1>5, <1>6, <1>7 DEF B, ending, w

\* All but the last.
LEMMA FrontOfAppend ==
  ASSUME NEW B, NEW s \in Seq(B), NEW x \in B
  PROVE  SubSeq(Append(s, x), 1, Len(Append(s, x)) - 1) = s
<1>1. Len(Append(s, x)) - 1 = Len(s) /\ Len(s) \in Nat
  OBVIOUS
<1>2. SubSeq(Append(s, x), 1, Len(s)) = s
  OBVIOUS
<1> QED BY <1>1, <1>2

\* Strip takes the one CR.
LEMMA StripCR ==
  ASSUME NEW B, NEW s \in Seq(B), CR \in B
  PROVE  Strip(Append(s, CR)) = s
<1>1. Append(s, CR) # <<>> /\ Last(Append(s, CR)) = CR
  BY AppendProperties DEF Last
<1>2. Front(Append(s, CR)) = s
  BY FrontOfAppend DEF Front
<1> QED BY <1>1, <1>2 DEF Strip

\* ... and without its end it is the raw record.
LEMMA RawIs ==
  ASSUME NEW recs, RecordsOK(recs), NEW i \in 1 .. Len(recs), recs[i].ending # <<>>
  PROVE  Strip(SubSeq(WireOf(recs, i), 1, Len(WireOf(recs, i)) - 1)) = RawOf(recs, i)
<1> DEFINE B == ByteOf(recs)
           body == BodyOf(i, recs[i].kind)
           ending == recs[i].ending
           L == Len(body)
<1>1. /\ body \in Seq(B) /\ L \in Nat /\ \A n \in 1 .. L : body[n] # CR
  BY BodyIs
<1>2. ending \in {<<>>, <<LF>>, <<CR, LF>>, <<CR, CR, LF>>} /\ CR \in B /\ LF \in B /\ CR # LF
  BY ByteIs, EndingIs
<1>3. WireOf(recs, i) = body \o ending /\ ending # <<>>
  BY DEF WireOf
<1>4. RawOf(recs, i) = body \o IF ending = <<CR, CR, LF>> THEN <<CR>> ELSE <<>>
  BY DEF RawOf
<1> HIDE DEF B, body, ending
<1>5. CASE ending = <<LF>>
  <2>1. SubSeq(body \o <<LF>>, 1, Len(body \o <<LF>>) - 1) = body
    BY <1>1, <1>2
  <2>2. Strip(body) = body
    <3>1. body # <<>> => Last(body) # CR
      BY <1>1 DEF Last
    <3> QED BY <3>1 DEF Strip
  <2>3. RawOf(recs, i) = body
    BY <1>1, <1>4, <1>5
  <2> QED BY <1>3, <1>5, <2>1, <2>2, <2>3
<1>6. CASE ending = <<CR, LF>>
  <2>0. body \o <<CR, LF>> = Append(Append(body, CR), LF) /\ Append(body, CR) \in Seq(B)
    BY <1>1, <1>2
  <2>1. SubSeq(body \o <<CR, LF>>, 1, Len(body \o <<CR, LF>>) - 1) = Append(body, CR)
    BY <1>2, <2>0, FrontOfAppend
  <2>2. Strip(Append(body, CR)) = body
    BY <1>1, <1>2, StripCR
  <2>3. RawOf(recs, i) = body
    BY <1>1, <1>4, <1>6
  <2> QED BY <1>3, <1>6, <2>1, <2>2, <2>3
<1>7. CASE ending = <<CR, CR, LF>>
  <2>0. /\ body \o <<CR, CR, LF>> = Append(Append(Append(body, CR), CR), LF)
        /\ Append(body, CR) \in Seq(B) /\ Append(Append(body, CR), CR) \in Seq(B)
    BY <1>1, <1>2
  <2>1. SubSeq(body \o <<CR, CR, LF>>, 1, Len(body \o <<CR, CR, LF>>) - 1)
          = Append(Append(body, CR), CR)
    BY <1>2, <2>0, FrontOfAppend
  <2>2. Strip(Append(Append(body, CR), CR)) = Append(body, CR)
    BY <1>2, <2>0, StripCR
  <2>3. RawOf(recs, i) = Append(body, CR)
    BY <1>1, <1>2, <1>4, <1>7
  <2> QED BY <1>3, <1>7, <2>1, <2>2, <2>3
<1> QED BY <1>2, <1>3, <1>5, <1>6, <1>7

\* w is the line of the i-th record, or, when that has no end, the beginning of it.
Begins(w, s) == Len(w) <= Len(s) /\ \A n \in 1 .. Len(w) : w[n] = s[n]
Line(recs, w, i) ==
  Begins(w, WireOf(recs, i)) /\ (recs[i].ending # <<>> => w = WireOf(recs, i))

\* s is the lines of the records from the k-th on: "from" says where each begins.
Wires(recs, s, k) ==
  \E line \in [k .. Len(recs) -> Seq(ByteOf(recs))], from \in [k .. Len(recs) + 1 -> Nat] :
    /\ from[k] = 0 /\ from[Len(recs) + 1] = Len(s)
    /\ \A i \in k .. Len(recs) :
         /\ Line(recs, line[i], i) /\ from[i + 1] = from[i] + Len(line[i])
         /\ \A n \in 1 .. Len(line[i]) : s[from[i] + n] = line[i][n]
    /\ \A i, j \in k .. Len(recs) + 1 : i <= j => from[i] <= from[j]

\* After the last record there is nothing.
LEMMA WiresNone ==
  ASSUME NEW recs, RecordsOK(recs), NEW s, Wires(recs, s, Len(recs) + 1)
  PROVE  Len(s) = 0
BY DEF Wires

\* The first line, and the rest.
LEMMA WiresHead ==
  ASSUME NEW recs, RecordsOK(recs), NEW s \in Seq(ByteOf(recs)), NEW k \in 1 .. Len(recs),
         Wires(recs, s, k)
  PROVE  \E w \in Seq(ByteOf(recs)) :
           /\ Line(recs, w, k) /\ Begins(w, s)
           /\ Wires(recs, SubSeq(s, Len(w) + 1, Len(s)), k + 1)
<1> DEFINE B == ByteOf(recs)
           N == Len(recs)
<1>0. N \in Nat /\ Len(s) \in Nat /\ \A n \in 1 .. Len(s) : s[n] \in B
  BY DEF RecordsOK
<1>1. PICK line \in [k .. N -> Seq(B)], from \in [k .. N + 1 -> Nat] :
        /\ from[k] = 0 /\ from[N + 1] = Len(s)
        /\ \A i \in k .. N :
             /\ Line(recs, line[i], i) /\ from[i + 1] = from[i] + Len(line[i])
             /\ \A n \in 1 .. Len(line[i]) : s[from[i] + n] = line[i][n]
        /\ \A i, j \in k .. N + 1 : i <= j => from[i] <= from[j]
  BY DEF Wires
<1> DEFINE w == line[k]
           m == Len(w)
           rest == SubSeq(s, m + 1, Len(s))
           after == [i \in k + 1 .. N |-> line[i]]
           past == [i \in k + 1 .. N + 1 |-> from[i] - m]
<1> HIDE DEF N, B
<1>2. /\ k \in k .. N /\ k \in Nat /\ k + 1 \in k .. N + 1 /\ N + 1 \in k .. N + 1
      /\ \A i \in k + 1 .. N : i \in k .. N /\ i \in k .. N + 1 /\ i + 1 \in k + 1 .. N + 1
      /\ \A i \in k + 1 .. N + 1 : i \in k .. N + 1 /\ k + 1 <= i
  BY <1>0 DEF N
<1>3. w \in Seq(B) /\ m \in Nat /\ from[k + 1] = m /\ Line(recs, w, k)
      /\ \A n \in 1 .. m : s[n] = w[n]
  <2>1. w \in Seq(B) /\ m \in Nat
    BY SMTT(60), <1>1, <1>2
  <2>2. from[k + 1] = from[k] + m /\ Line(recs, w, k)
    BY <1>1, <1>2
  <2>3. \A n \in 1 .. m : s[from[k] + n] = w[n]
    BY <1>1, <1>2
  <2> QED BY <1>1, <2>1, <2>2, <2>3
<1>4. \A i \in k + 1 .. N + 1 : from[i] \in Nat /\ m <= from[i] /\ from[i] <= Len(s)
  <2> TAKE i \in k + 1 .. N + 1
  <2>1. i \in k .. N + 1 /\ k + 1 <= i /\ i <= N + 1 /\ from[i] \in Nat
    BY <1>0, <1>1, <1>2
  <2>2. from[k + 1] <= from[i] /\ from[i] <= from[N + 1]
    BY <1>1, <1>2, <2>1
  <2> QED BY <1>1, <1>3, <2>1, <2>2
<1>5. m <= Len(s) /\ Begins(w, s)
  <2>1. m <= Len(s)
    BY <1>0, <1>1, <1>2, <1>3, <1>4
  <2> QED BY <1>3, <2>1 DEF Begins
<1> HIDE DEF m
<1>6. /\ Len(rest) = Len(s) - m
      /\ \A n \in 1 .. Len(s) - m : rest[n] = s[m + n]
  <2>1. \A n \in m + 1 .. Len(s) : s[n] \in B
    BY <1>0, <1>3
  <2>2. /\ Len(SubSeq(s, m + 1, Len(s))) = IF m + 1 <= Len(s) THEN Len(s) - (m + 1) + 1 ELSE 0
        /\ \A n \in 1 .. Len(s) - (m + 1) + 1 : SubSeq(s, m + 1, Len(s))[n] = s[(m + 1) + n - 1]
    <3>1. m + 1 \in Int /\ Len(s) \in Int
      BY <1>0, <1>3
    <3> QED BY <2>1, <3>1, SubSeqProperties
  <2>3. /\ Len(s) - (m + 1) + 1 = Len(s) - m /\ (~ (m + 1 <= Len(s)) => Len(s) - m = 0)
        /\ \A n \in 1 .. Len(s) - m : (m + 1) + n - 1 = m + n
    BY <1>0, <1>3, <1>5
  <2> QED BY <2>2, <2>3
<1>7. /\ after \in [k + 1 .. N -> Seq(B)] /\ past \in [k + 1 .. N + 1 -> Nat]
      /\ \A i \in k + 1 .. N : after[i] = line[i]
      /\ \A i \in k + 1 .. N + 1 : past[i] = from[i] - m
  BY <1>1, <1>2, <1>3, <1>4
<1> HIDE DEF after, past, rest, w
<1>8. past[k + 1] = 0 /\ past[N + 1] = Len(rest)
  BY <1>1, <1>2, <1>3, <1>4, <1>6, <1>7
<1>9. ASSUME NEW i \in k + 1 .. N
      PROVE  /\ Line(recs, after[i], i) /\ past[i + 1] = past[i] + Len(after[i])
             /\ \A n \in 1 .. Len(after[i]) : rest[past[i] + n] = after[i][n]
  <2>1. /\ Line(recs, line[i], i) /\ from[i + 1] = from[i] + Len(line[i])
        /\ \A n \in 1 .. Len(line[i]) : s[from[i] + n] = line[i][n]
    BY <1>1, <1>2
  <2>2. /\ i \in k + 1 .. N + 1 /\ i + 1 \in k + 1 .. N + 1
        /\ Len(line[i]) \in Nat /\ after[i] = line[i]
    <3>0. i \in k .. N /\ i \in k + 1 .. N + 1
      BY <1>0, <1>2
    <3>1. line[i] \in Seq(B)
      BY <1>1, <3>0
    <3> QED BY <1>2, <1>7, <3>0, <3>1
  <2>3. past[i + 1] = past[i] + Len(after[i])
    BY <1>3, <1>4, <1>7, <2>1, <2>2
  <2>4. ASSUME NEW n \in 1 .. Len(line[i]) PROVE rest[past[i] + n] = line[i][n]
    <3>1. past[i] + n \in 1 .. Len(s) - m /\ m + (past[i] + n) = from[i] + n
      <4>1. past[i] = from[i] - m /\ from[i] \in Nat /\ m <= from[i] /\ from[i + 1] <= Len(s)
        BY <1>4, <1>7, <2>2
      <4>2. from[i] + Len(line[i]) <= Len(s) /\ n \in Nat /\ 1 <= n /\ n <= Len(line[i])
        BY <2>1, <2>2, <4>1
      <4>3. Len(line[i]) \in Nat
        BY <2>2
      <4>4. m \in Nat /\ Len(s) \in Nat
        BY <1>0, <1>3
      <4> QED BY <4>1, <4>2, <4>3, <4>4
    <3> QED BY <1>6, <2>1, <3>1
  <2> QED BY <2>1, <2>2, <2>3, <2>4
<1>10. \A i, j \in k + 1 .. N + 1 : i <= j => past[i] <= past[j]
  <2> TAKE i, j \in k + 1 .. N + 1
  <2>1. i <= j => from[i] <= from[j]
    BY <1>1, <1>2
  <2> QED BY <1>3, <1>4, <1>7, <2>1
<1>11. Wires(recs, rest, k + 1)
  BY <1>7, <1>8, <1>9, <1>10 DEF Wires, N, B
<1> QED BY <1>3, <1>5, <1>11 DEF rest, m, B

------------------------------------------------------------------------------
(* Where the parser is in them                                             *)

\* What is left of the bytes: of a record c that was flushed, of the next r, and p.
Ahead(c, r, p) == (c \o r) \o p

\* A byte moves from what is not read to the record that is being read.
LEMMA CatShift ==
  ASSUME NEW B, NEW c \in Seq(B), NEW r \in Seq(B), NEW p \in Seq(B), p # <<>>
  PROVE  /\ p[1] \in B /\ Tail(p) \in Seq(B)
         /\ Ahead(c, Append(r, p[1]), Tail(p)) = Ahead(c, r, p)
<1>1. p[1] \in B /\ Tail(p) \in Seq(B) /\ p = <<p[1]>> \o Tail(p)
  OBVIOUS
<1>2. c \o Append(r, p[1]) = (c \o r) \o <<p[1]>> /\ c \o r \in Seq(B) /\ <<p[1]>> \in Seq(B)
  BY <1>1
<1>3. ((c \o r) \o <<p[1]>>) \o Tail(p) = (c \o r) \o (<<p[1]>> \o Tail(p))
  BY SMTT(60), <1>1, <1>2, ConcatAssociative
<1> QED BY <1>1, <1>2, <1>3 DEF Ahead

\* Where the parser is when the transcript is t, its incomplete record r and the bytes
\* it has not read p, after an exit that flushed line f, or none: what of the record
\* that it reads was flushed, which record that is, and how many are in t as a whole
\* before the flushed one.
Carried(f, t) == IF f # 0 /\ Len(t) = f THEN t[f] ELSE <<>>
Upcoming(f, t) == IF f = 0 THEN Len(t) + 1 ELSE Len(t)
Full(f, t) == IF f = 0 THEN Len(t) ELSE f - 1

\* The transcript has the records before that one, and with what is left to read the
\* others are complete.
Reading(recs, f, t, r, p) ==
  /\ t \in Seq(Seq(ByteOf(recs))) /\ r \in Seq(ByteOf(recs)) /\ p \in Seq(ByteOf(recs))
  /\ f \in 0 .. Len(t) /\ f <= Len(recs) /\ Upcoming(f, t) \in 1 .. Len(recs) + 1
  /\ \A n \in 1 .. Len(r) : r[n] # LF
  /\ \A n \in 1 .. Len(Carried(f, t)) : Carried(f, t)[n] # LF
  /\ Wires(recs, Ahead(Carried(f, t), r, p), Upcoming(f, t))
  /\ \A i \in 1 .. Upcoming(f, t) - 1 : recs[i].ending # <<>>
  /\ \A i \in 1 .. Full(f, t) : t[i] = RawOf(recs, i)
  /\ f # 0 => /\ Begins(t[f], WireOf(recs, f))
              /\ \A i \in f + 2 .. Len(t) : t[i] = RawOf(recs, i - 1)

\* What was flushed is bytes.
LEMMA CarriedIn ==
  ASSUME NEW recs, NEW f, NEW t, NEW r, NEW p, Reading(recs, f, t, r, p)
  PROVE  Carried(f, t) \in Seq(ByteOf(recs))
<1>1. t \in Seq(Seq(ByteOf(recs))) /\ f \in 0 .. Len(t)
  BY DEF Reading
<1>2. f # 0 => t[f] \in Seq(ByteOf(recs))
  BY <1>1
<1>3. <<>> \in Seq(ByteOf(recs))
  OBVIOUS
<1> QED BY <1>2, <1>3 DEF Carried

\* A byte that is not the LF.
LEMMA ReadOther ==
  ASSUME NEW recs, RecordsOK(recs), NEW f, NEW t, NEW r, NEW p, Reading(recs, f, t, r, p),
         p # <<>>, p[1] # LF
  PROVE  Reading(recs, f, t, Append(r, p[1]), Tail(p))
<1> DEFINE B == ByteOf(recs)
           more == Append(r, p[1])
<1>1. r \in Seq(B) /\ p \in Seq(B) /\ Carried(f, t) \in Seq(B)
  BY CarriedIn DEF Reading
<1>2. /\ p[1] \in B /\ Tail(p) \in Seq(B)
      /\ Ahead(Carried(f, t), more, Tail(p)) = Ahead(Carried(f, t), r, p)
  <2> HIDE DEF B
  <2> QED BY <1>1, CatShift
<1>3. more \in Seq(B) /\ \A n \in 1 .. Len(more) : more[n] # LF
  <2>1. \A n \in 1 .. Len(r) : r[n] # LF
    BY DEF Reading
  <2>2. /\ more \in Seq(B) /\ Len(more) = Len(r) + 1 /\ Len(r) \in Nat
        /\ \A n \in 1 .. Len(r) : more[n] = r[n] 
        /\ more[Len(r) + 1] = p[1]
    BY <1>1, <1>2
  <2>3. \A n \in 1 .. Len(more) : n \in 1 .. Len(r) \/ n = Len(r) + 1
    BY <2>2
  <2> QED BY <2>1, <2>2, <2>3
<1> HIDE DEF more
<1>4. Wires(recs, Ahead(Carried(f, t), more, Tail(p)), Upcoming(f, t))
  BY <1>2 DEF Reading
<1>5. Reading(recs, f, t, more, Tail(p))
  BY <1>2, <1>3, <1>4 DEF Reading
<1> QED BY <1>5 DEF more

\* The LF ends the record that is read.
LEMMA LineEnds ==
  ASSUME NEW recs, RecordsOK(recs), NEW k \in 1 .. Len(recs) + 1,
         NEW h \in Seq(ByteOf(recs)), NEW p \in Seq(ByteOf(recs)),
         Wires(recs, h \o p, k), \A n \in 1 .. Len(h) : h[n] # LF, p # <<>>, p[1] = LF
  PROVE  /\ k \in 1 .. Len(recs) /\ recs[k].ending # <<>> /\ Wires(recs, Tail(p), k + 1)
         /\ h = SubSeq(WireOf(recs, k), 1, Len(WireOf(recs, k)) - 1)
<1> DEFINE B == ByteOf(recs)
           s == h \o p
           N == Len(recs)
<1>0. N \in Nat /\ \A i \in 1 .. N : recs[i].ending = <<>> => i = N
  BY DEF RecordsOK
<1>1. /\ s \in Seq(B) /\ Len(s) = Len(h) + Len(p) /\ Len(h) \in Nat /\ Len(p) \in Nat \ {0}
      /\ s[Len(h) + 1] = LF /\ \A n \in 1 .. Len(h) : s[n] # LF
  <2>1. Len(h) \in Nat /\ Len(p) \in Nat \ {0}
    OBVIOUS
  <2>2. /\ s \in Seq(B) /\ Len(s) = Len(h) + Len(p)
        /\ \A i \in 1 .. Len(h) + Len(p) : s[i] = IF i <= Len(h) THEN h[i] ELSE p[i - Len(h)]
    BY ConcatProperties
  <2> HIDE DEF s
  <2>3. s[Len(h) + 1] = LF
    <3>1. Len(h) + 1 \in 1 .. Len(h) + Len(p) /\ ~ (Len(h) + 1 <= Len(h)) /\ (Len(h) + 1) - Len(h) = 1
      BY <2>1
    <3> QED BY <2>2, <3>1
  <2>4. ASSUME NEW n \in 1 .. Len(h) PROVE s[n] # LF
    <3>1. n \in 1 .. Len(h) + Len(p) /\ n <= Len(h)
      BY <2>1
    <3> QED BY <2>2, <3>1
  <2> QED BY <2>1, <2>2, <2>3, <2>4
<1> HIDE DEF s
<1>2. k \in 1 .. N
  <2>1. CASE k = N + 1
    <3>1. Len(s) = 0
      BY <2>1, WiresNone DEF s
    <3> QED BY <1>1, <3>1
  <2> QED BY <1>0, <2>1
<1>3. PICK w \in Seq(B) :
        /\ Line(recs, w, k) /\ Begins(w, s) /\ Wires(recs, SubSeq(s, Len(w) + 1, Len(s)), k + 1)
  BY <1>1, <1>2, WiresHead DEF s
<1> DEFINE wire == WireOf(recs, k)
<1>4. /\ wire \in Seq(B) /\ Len(wire) \in Nat
      /\ \A n \in 1 .. Len(wire) : wire[n] = LF => n = Len(wire) /\ recs[k].ending # <<>>
      /\ recs[k].ending # <<>> => Len(wire) >= 1 /\ wire[Len(wire)] = LF
  BY <1>2, WireIs
<1> HIDE DEF wire
<1>5. /\ Len(w) \in Nat /\ Len(w) <= Len(wire) /\ Len(w) <= Len(s)
      /\ \A n \in 1 .. Len(w) : w[n] = wire[n] /\ w[n] = s[n]
      /\ recs[k].ending # <<>> => w = wire
  BY <1>3 DEF Line, Begins, wire
<1>6. recs[k].ending # <<>>
  <2> SUFFICES ASSUME recs[k].ending = <<>> PROVE FALSE
    OBVIOUS
  <2>1. k + 1 = N + 1
    BY <1>0, <1>2
  <2>2. Len(SubSeq(s, Len(w) + 1, Len(s))) = 0
    BY <1>3, <2>1, WiresNone
  <2>3. Len(w) = Len(s)
    BY <1>1, <1>5, <2>2
  <2>4. Len(h) + 1 \in 1 .. Len(w) /\ Len(h) + 1 \in 1 .. Len(wire)
    BY <1>1, <1>4, <1>5, <2>3
  <2> QED BY <1>1, <1>4, <1>5, <2>4
<1>7. w = wire /\ Len(wire) = Len(h) + 1
  <2>1. w = wire /\ Len(wire) >= 1 /\ wire[Len(wire)] = LF
    BY <1>4, <1>5, <1>6
  <2>2. ~ (Len(wire) <= Len(h))
    BY SMTT(60), <1>1, <1>4, <1>5, <2>1
  <2>3. Len(h) + 1 \in 1 .. Len(wire)
    BY <1>1, <1>4, <2>2
  <2> QED BY <1>1, <1>4, <1>5, <2>1, <2>3
<1>8. SubSeq(s, Len(wire) + 1, Len(s)) = Tail(p)
  <2>1. SubSeq(h \o p, Len(h) + 2, Len(h) + Len(p)) = Tail(p)
    BY SMTT(60), <1>1
  <2> QED BY <1>1, <1>7, <2>1 DEF s
<1>9. h = SubSeq(wire, 1, Len(wire) - 1)
  <2>1. Len(wire) - 1 = Len(h)
    BY <1>1, <1>7
  <2>2. \A n \in 1 .. Len(h) : wire[n] = h[n]
    <3> TAKE n \in 1 .. Len(h)
    <3>1. wire[n] = s[n]
      BY <1>1, <1>4, <1>5, <1>7
    <3>2. s[n] = h[n]
      BY <1>1 DEF s
    <3> QED BY <3>1, <3>2
  <2>3. \A n \in 1 .. Len(h) : wire[n] \in B
    BY <1>1, <1>4, <1>7
  <2>4. /\ SubSeq(wire, 1, Len(h)) \in Seq(B) /\ Len(SubSeq(wire, 1, Len(h))) = Len(h)
        /\ \A n \in 1 .. Len(h) : SubSeq(wire, 1, Len(h))[n] = wire[n]
    BY <1>1, <1>4, <2>3
  <2>5. h = SubSeq(wire, 1, Len(h))
    BY <2>2, <2>4, SeqEqual
  <2> QED BY <2>1, <2>5
<1> QED BY <1>2, <1>3, <1>6, <1>7, <1>8, <1>9 DEF wire

\* The byte is the LF.
LEMMA ReadLF ==
  ASSUME NEW recs, RecordsOK(recs), NEW f, NEW t, NEW r, NEW p, Reading(recs, f, t, r, p),
         p # <<>>, p[1] = LF
  PROVE  Reading(recs, f, Append(t, Strip(r)), <<>>, Tail(p))
<1> DEFINE B == ByteOf(recs)
           u == Append(t, Strip(r))
           k == Upcoming(f, t)
           h == Carried(f, t) \o r
           N == Len(recs)
<1>1. r \in Seq(B) /\ p \in Seq(B) /\ Carried(f, t) \in Seq(B) /\ t \in Seq(Seq(B))
  BY CarriedIn DEF Reading
<1>2. /\ k \in 1 .. N + 1 /\ f \in 0 .. Len(t) /\ Len(t) \in Nat /\ f <= N
      /\ Wires(recs, h \o p, k)
  BY <1>1 DEF Reading, Ahead
<1>3. h \in Seq(B) /\ \A n \in 1 .. Len(h) : h[n] # LF
  <2>1. /\ \A n \in 1 .. Len(r) : r[n] # LF
        /\ \A n \in 1 .. Len(Carried(f, t)) : Carried(f, t)[n] # LF
    BY DEF Reading
  <2> DEFINE c == Carried(f, t)
  <2> HIDE DEF c
  <2>2. c \o r \in Seq(B) /\ \A n \in 1 .. Len(c \o r) : (c \o r)[n] # LF
    BY <1>1, <2>1 DEF c
  <2> QED BY <2>2 DEF c
<1> HIDE DEF h, k
<1>4. /\ k \in 1 .. N /\ recs[k].ending # <<>> /\ Wires(recs, Tail(p), k + 1)
      /\ h = SubSeq(WireOf(recs, k), 1, Len(WireOf(recs, k)) - 1)
  BY <1>1, <1>2, <1>3, LineEnds
<1>5. Carried(f, t) = <<>> => Strip(r) = RawOf(recs, k)
  <2>1. <<>> \o r = r
    BY <1>1, ConcatEmptySeq
  <2>2. Carried(f, t) = <<>> => h = r
    BY <2>1 DEF h
  <2> QED BY <1>4, <2>2, RawIs
<1>6. /\ Strip(r) \in Seq(B) /\ u \in Seq(Seq(B)) /\ Len(u) = Len(t) + 1 /\ u[Len(t) + 1] = Strip(r)
      /\ \A i \in 1 .. Len(t) : u[i] = t[i]
      /\ Tail(p) \in Seq(B) /\ <<>> \in Seq(B)
  <2>1. Strip(r) \in Seq(B)
    BY <1>1, StripIn
  <2> QED BY <1>1, <2>1
<1> HIDE DEF u
<1>7. f \in 0 .. Len(u) /\ Carried(f, u) = <<>> /\ Upcoming(f, u) = k + 1
  BY <1>2, <1>6 DEF Carried, Upcoming, k
<1>8. N \in Nat /\ k + 1 \in 1 .. N + 1
  BY <1>2, <1>4 DEF RecordsOK
<1>9. Wires(recs, Ahead(Carried(f, u), <<>>, Tail(p)), Upcoming(f, u))
  <2>1. (<<>> \o <<>>) \o Tail(p) = Tail(p)
    BY <1>6, ConcatEmptySeq
  <2> QED BY <1>4, <1>7, <2>1 DEF Ahead
<1>10. \A i \in 1 .. Upcoming(f, u) - 1 : recs[i].ending # <<>>
  <2>1. \A i \in 1 .. k - 1 : recs[i].ending # <<>>
    BY DEF Reading, k
  <2>2. \A i \in 1 .. (k + 1) - 1 : i \in 1 .. k - 1 \/ i = k
    BY <1>4
  <2> QED BY <1>4, <1>7, <2>1, <2>2
<1>11. ASSUME NEW i \in 1 .. Full(f, u) PROVE u[i] = RawOf(recs, i)
  <2>1. \A j \in 1 .. Full(f, t) : t[j] = RawOf(recs, j)
    BY DEF Reading
  <2>2. CASE f # 0
    <3>1. i \in 1 .. Full(f, t) /\ i \in 1 .. Len(t)
      BY <1>2, <2>2 DEF Full
    <3> QED BY <1>6, <2>1, <3>1
  <2>3. CASE f = 0 /\ i # Len(t) + 1
    <3>1. i \in 1 .. Full(f, t) /\ i \in 1 .. Len(t)
      BY <1>2, <1>6, <2>3 DEF Full
    <3> QED BY <1>6, <2>1, <3>1
  <2>4. CASE f = 0 /\ i = Len(t) + 1
    <3>1. Carried(f, t) = <<>> /\ k = i
      BY <2>4 DEF Carried, Upcoming, k
    <3> QED BY <1>5, <1>6, <2>4, <3>1
  <2> QED BY <2>2, <2>3, <2>4
<1>12. ASSUME f # 0
       PROVE  Begins(u[f], WireOf(recs, f)) /\ \A i \in f + 2 .. Len(u) : u[i] = RawOf(recs, i - 1)
  <2>1. /\ Begins(t[f], WireOf(recs, f))
        /\ \A i \in f + 2 .. Len(t) : t[i] = RawOf(recs, i - 1)
    BY <1>12 DEF Reading
  <2>2. u[f] = t[f]
    BY <1>2, <1>6, <1>12
  <2>3. ASSUME NEW i \in f + 2 .. Len(u) PROVE u[i] = RawOf(recs, i - 1)
    <3>1. CASE i = Len(t) + 1
      <4>1. Carried(f, t) = <<>> /\ k = i - 1
        BY <1>2, <1>12, <2>3, <3>1 DEF Carried, Upcoming, k
      <4> QED BY <1>5, <1>6, <3>1, <4>1
    <3>2. CASE i # Len(t) + 1
      <4>1. i \in f + 2 .. Len(t) /\ i \in 1 .. Len(t)
        BY <1>2, <1>6, <3>2
      <4> QED BY <1>6, <2>1, <4>1
    <3> QED BY <3>1, <3>2
  <2> QED BY <2>1, <2>2, <2>3
<1>13. /\ \A n \in 1 .. Len(<<>>) : <<>>[n] # LF
       /\ \A n \in 1 .. Len(Carried(f, u)) : Carried(f, u)[n] # LF
  BY <1>7
<1>14. Reading(recs, f, u, <<>>, Tail(p))
  BY <1>2, <1>6, <1>7, <1>8, <1>9, <1>10, <1>11, <1>12, <1>13 DEF Reading
<1> QED BY <1>14 DEF u

------------------------------------------------------------------------------
(* The child writes on, or exits                                           *)

\* The child has written one more record.
Grown(recs, x) ==
  /\ RecordsOK(recs) /\ \A i \in 1 .. Len(recs) : recs[i].ending # <<>>
  /\ x \in [kind : Kinds, ending : Endings \cup {<<>>}]

\* The longer list is one of records too.
LEMMA GrownIs ==
  ASSUME NEW recs, NEW x, Grown(recs, x)
  PROVE  /\ RecordsOK(Append(recs, x)) /\ Len(Append(recs, x)) = Len(recs) + 1 /\ Len(recs) \in Nat
         /\ Append(recs, x)[Len(recs) + 1] = x
         /\ \A i \in 1 .. Len(recs) : Append(recs, x)[i] = recs[i]
<1> DEFINE R == [kind : Kinds, ending : Endings \cup {<<>>}]
           more == Append(recs, x)
<1>1. recs \in Seq(R) /\ x \in R /\ \A i \in 1 .. Len(recs) : recs[i].ending # <<>>
  BY DEF Grown, RecordsOK
<1> HIDE DEF R
<1>2. /\ more \in Seq(R) /\ Len(more) = Len(recs) + 1 /\ Len(recs) \in Nat /\ more[Len(recs) + 1] = x
      /\ \A i \in 1 .. Len(recs) : more[i] = recs[i]
  BY <1>1
<1>3. \A i \in 1 .. Len(more) : more[i].ending = <<>> => i = Len(more)
  <2> HIDE DEF more
  <2>1. \A i \in 1 .. Len(more) : i \in 1 .. Len(recs) \/ i = Len(more)
    BY <1>2
  <2>2. \A i \in 1 .. Len(recs) : more[i].ending # <<>>
    BY <1>1, <1>2
  <2> QED BY <2>1, <2>2
<1> QED BY <1>2, <1>3 DEF RecordsOK, R

\* ... and its old records are the same.
LEMMA GrownSame ==
  ASSUME NEW recs, NEW x, Grown(recs, x)
  PROVE  /\ ByteOf(recs) \subseteq ByteOf(Append(recs, x))
         /\ \A i \in 1 .. Len(recs) : /\ WireOf(Append(recs, x), i) = WireOf(recs, i)
                                      /\ RawOf(Append(recs, x), i) = RawOf(recs, i)
<1>1. /\ Len(Append(recs, x)) = Len(recs) + 1 /\ Len(recs) \in Nat
      /\ \A i \in 1 .. Len(recs) : Append(recs, x)[i] = recs[i]
  BY GrownIs
<1> DEFINE more == Append(recs, x)
<1>2. 0 .. Len(recs) \subseteq 0 .. Len(recs) + 1
  BY <1>1
<1> HIDE DEF more
<1>3. ByteOf(recs) \subseteq ByteOf(more)
  BY <1>1, <1>2 DEF ByteOf, more
<1>4. ASSUME NEW i \in 1 .. Len(recs)
      PROVE  WireOf(more, i) = WireOf(recs, i) /\ RawOf(more, i) = RawOf(recs, i)
  <2>1. more[i] = recs[i]
    BY <1>1 DEF more
  <2> QED BY <2>1 DEF WireOf, RawOf
<1> QED BY <1>3, <1>4 DEF more

\* The line of the new record comes at the end.
LEMMA WiresGrow ==
  ASSUME NEW recs, NEW x, Grown(recs, x), NEW k \in 1 .. Len(recs) + 1,
         NEW s \in Seq(ByteOf(recs)), NEW w \in Seq(ByteOf(Append(recs, x))),
         Wires(recs, s, k), Line(Append(recs, x), w, Len(recs) + 1)
  PROVE  Wires(Append(recs, x), s \o w, k)
<1> DEFINE N == Len(recs)
           more == Append(recs, x)
           B == ByteOf(recs)
           C == ByteOf(more)
           L == Len(s)
           M == Len(w)
<1>1. /\ RecordsOK(more) /\ Len(more) = N + 1 /\ N \in Nat
      /\ \A i \in 1 .. N : more[i] = recs[i] /\ WireOf(more, i) = WireOf(recs, i)
      /\ B \subseteq C
  BY GrownIs, GrownSame
<1>2. PICK line \in [k .. N -> Seq(B)], from \in [k .. N + 1 -> Nat] :
        /\ from[k] = 0 /\ from[N + 1] = L
        /\ \A i \in k .. N :
             /\ Line(recs, line[i], i) /\ from[i + 1] = from[i] + Len(line[i])
             /\ \A n \in 1 .. Len(line[i]) : s[from[i] + n] = line[i][n]
        /\ \A i, j \in k .. N + 1 : i <= j => from[i] <= from[j]
  BY DEF Wires
<1>3. /\ w \in Seq(C) /\ s \in Seq(C) /\ L \in Nat /\ M \in Nat /\ Line(more, w, N + 1)
      /\ \A q : q \in Seq(B) => q \in Seq(C)
  <2> HIDE DEF B, C
  <2>1. \A q : q \in Seq(B) => q \in Seq(C)
    BY <1>1
  <2> QED BY <2>1 DEF B, C
<1> HIDE DEF more, N
<1>4. /\ Len(s \o w) = L + M
      /\ \A n \in 1 .. L + M : (s \o w)[n] = IF n <= L THEN s[n] ELSE w[n - L]
  <2> HIDE DEF C
  <2> QED BY <1>3, ConcatProperties
<1> HIDE DEF B, C, L, M
<1> DEFINE line2 == [i \in k .. N + 1 |-> IF i = N + 1 THEN w ELSE line[i]]
           from2 == [i \in k .. N + 2 |-> IF i = N + 2 THEN L + M ELSE from[i]]
<1>5. /\ k \in Nat /\ k <= N + 1 /\ k \in k .. N + 1 /\ N + 1 \in k .. N + 1
      /\ k \in k .. N + 2 /\ N + 1 \in k .. N + 2 /\ N + 2 \in k .. N + 2
      /\ k # N + 2 /\ N + 1 # N + 2
      /\ \A i \in k .. N + 1 : i \in k .. N \/ i = N + 1
      /\ \A i \in k .. N : i \in k .. N + 1 /\ i + 1 \in k .. N + 1 /\ i # N + 1 /\ i \in 1 .. N
      /\ \A i \in k .. N + 2 : i \in k .. N + 1 \/ i = N + 2
      /\ \A i \in k .. N + 1 : i \in k .. N + 2 /\ i # N + 2 /\ i <= N + 1
  <2>1. k \in Nat /\ k <= N + 1 /\ N \in Nat /\ k >= 1
    BY <1>1 DEF N
  <2>2. /\ k \in k .. N + 1 /\ N + 1 \in k .. N + 1
        /\ k \in k .. N + 2 /\ N + 1 \in k .. N + 2 /\ N + 2 \in k .. N + 2
        /\ k # N + 2 /\ N + 1 # N + 2
    BY <2>1
  <2>3. /\ \A i \in k .. N + 1 : i \in k .. N \/ i = N + 1
        /\ \A i \in k .. N : i \in k .. N + 1 /\ i + 1 \in k .. N + 1 /\ i # N + 1 /\ i \in 1 .. N
    BY <2>1
  <2>4. /\ \A i \in k .. N + 2 : i \in k .. N + 1 \/ i = N + 2
        /\ \A i \in k .. N + 1 : i \in k .. N + 2 /\ i # N + 2 /\ i <= N + 1
    BY <2>1
  <2> QED BY <2>1, <2>2, <2>3, <2>4
<1>6. /\ line2 \in [k .. N + 1 -> Seq(C)] /\ line2[N + 1] = w
      /\ \A i \in k .. N : line2[i] = line[i] /\ line[i] \in Seq(C)
  <2>1. \A i \in k .. N : line[i] \in Seq(C)
    BY <1>2, <1>3
  <2> QED BY <1>3, <1>5, <2>1
<1>7. /\ from2 \in [k .. N + 2 -> Nat] /\ from2[N + 2] = L + M
      /\ \A i \in k .. N + 1 : from2[i] = from[i] /\ from[i] \in Nat
  <2>1. L + M \in Nat
    BY <1>3
  <2> QED BY <1>2, <1>5, <2>1
<1> HIDE DEF line2, from2
<1>8. from2[k] = 0 /\ from2[N + 2] = Len(s \o w)
  BY <1>2, <1>4, <1>5, <1>7
<1>9. \A i \in k .. N + 1 : from[i] <= L
  BY <1>2, <1>5
<1>10. \A i, j \in k .. N + 2 : i <= j => from2[i] <= from2[j]
  <2> SUFFICES ASSUME NEW i \in k .. N + 2, NEW j \in k .. N + 2, i <= j PROVE from2[i] <= from2[j]
    OBVIOUS
  <2>1. CASE j = N + 2
    <3>1. from2[i] <= L + M
      <4>1. CASE i = N + 2
        BY <1>3, <1>7, <4>1
      <4>2. CASE i # N + 2
        <5>1. i \in k .. N + 1
          BY <1>5, <4>2
        <5>2. from2[i] = from[i] /\ from[i] \in Nat /\ from[i] <= L
          BY <1>7, <1>9, <5>1
        <5> QED BY <1>3, <5>2
      <4> QED BY <4>1, <4>2
    <3> QED BY <1>7, <2>1, <3>1
  <2>2. CASE j # N + 2
    <3>1. i \in k .. N + 1 /\ j \in k .. N + 1
      BY <1>1, <1>5, <2>2 DEF N
    <3> QED BY <1>2, <1>7, <3>1
  <2> QED BY <2>1, <2>2
<1>11. ASSUME NEW i \in k .. N + 1
       PROVE  /\ Line(more, line2[i], i) /\ from2[i + 1] = from2[i] + Len(line2[i])
              /\ \A n \in 1 .. Len(line2[i]) : (s \o w)[from2[i] + n] = line2[i][n]
  <2>1. CASE i = N + 1
    <3>1. line2[i] = w /\ from2[i] = L /\ from2[i + 1] = L + M
      <4>1. i + 1 = N + 2
        BY <1>1, <2>1 DEF N
      <4> QED BY <1>2, <1>5, <1>6, <1>7, <2>1, <4>1
    <3>2. \A n \in 1 .. M : L + n \in 1 .. L + M /\ ~ (L + n <= L) /\ (L + n) - L = n
      BY <1>3
    <3>3. \A n \in 1 .. M : (s \o w)[L + n] = w[n]
      BY <1>4, <3>2
    <3> QED BY <1>3, <2>1, <3>1, <3>3 DEF M
  <2>2. CASE i # N + 1
    <3>1. i \in k .. N
      BY <1>5, <2>2
    <3>2. /\ line2[i] = line[i] /\ from2[i] = from[i] /\ from2[i + 1] = from[i + 1]
      BY <1>5, <1>6, <1>7, <3>1
    <3>3. /\ Line(recs, line[i], i) /\ from[i + 1] = from[i] + Len(line[i])
          /\ \A n \in 1 .. Len(line[i]) : s[from[i] + n] = line[i][n]
      BY <1>2, <3>1
    <3>4. Line(more, line[i], i)
      <4>1. more[i] = recs[i] /\ WireOf(more, i) = WireOf(recs, i)
        BY <1>1, <1>5, <3>1
      <4> QED BY <3>3, <4>1 DEF Line
    <3>5. ASSUME NEW n \in 1 .. Len(line[i]) PROVE (s \o w)[from[i] + n] = line[i][n]
      <4>0. Len(line[i]) \in Nat
        BY <1>6, <3>1
      <4>1. from[i + 1] <= L /\ from[i] \in Nat
        BY <1>5, <1>7, <1>9, <3>1
      <4>2. from[i] + n <= L /\ from[i] + n \in 1 .. L + M
        BY SMTT(60), <1>3, <3>3, <4>0, <4>1
      <4> QED BY <1>4, <3>3, <4>2
    <3> QED BY <3>2, <3>3, <3>4, <3>5
  <2> QED BY <2>1, <2>2
<1>12. Len(more) = N + 1 /\ Len(more) + 1 = N + 2
  BY <1>1 DEF N
<1>13. Wires(more, s \o w, k)
  <2> DEFINE K == Len(more)
  <2>1. /\ line2 \in [k .. K -> Seq(C)] /\ from2 \in [k .. K + 1 -> Nat]
        /\ from2[k] = 0 /\ from2[K + 1] = Len(s \o w)
    BY <1>6, <1>7, <1>8, <1>12
  <2>2. \A i \in k .. K :
          /\ Line(more, line2[i], i) /\ from2[i + 1] = from2[i] + Len(line2[i])
          /\ \A n \in 1 .. Len(line2[i]) : (s \o w)[from2[i] + n] = line2[i][n]
    BY <1>11, <1>12
  <2>3. \A i, j \in k .. K + 1 : i <= j => from2[i] <= from2[j]
    BY <1>10, <1>12
  <2> HIDE DEF K
  <2>4. \E line3 \in [k .. K -> Seq(C)], from3 \in [k .. K + 1 -> Nat] :
          /\ from3[k] = 0 /\ from3[K + 1] = Len(s \o w)
          /\ \A i \in k .. K :
               /\ Line(more, line3[i], i) /\ from3[i + 1] = from3[i] + Len(line3[i])
               /\ \A n \in 1 .. Len(line3[i]) : (s \o w)[from3[i] + n] = line3[i][n]
          /\ \A i, j \in k .. K + 1 : i <= j => from3[i] <= from3[j]
    <3> USE <2>1, <2>2, <2>3
    <3> WITNESS line2 \in [k .. K -> Seq(C)], from2 \in [k .. K + 1 -> Nat]
    <3> QED OBVIOUS
  <2> QED BY <2>4 DEF Wires, C, K
<1> QED BY <1>13 DEF more

\* Until the exit: more to read.
LEMMA ReadingGrows ==
  ASSUME NEW recs, NEW x, Grown(recs, x), NEW t, NEW r, NEW p, Reading(recs, 0, t, r, p),
         NEW w \in Seq(ByteOf(Append(recs, x))), Line(Append(recs, x), w, Len(recs) + 1)
  PROVE  Reading(Append(recs, x), 0, t, r, p \o w)
<1> DEFINE N == Len(recs)
           more == Append(recs, x)
           B == ByteOf(recs)
           C == ByteOf(more)
<1>1. /\ Len(more) = N + 1 /\ N \in Nat /\ \A i \in 1 .. N : more[i] = recs[i]
      /\ \A i \in 1 .. N : RawOf(more, i) = RawOf(recs, i)
      /\ B \subseteq C
  BY GrownIs, GrownSame
<1>2. /\ t \in Seq(Seq(B)) /\ r \in Seq(B) /\ p \in Seq(B) /\ Upcoming(0, t) \in 1 .. N + 1
      /\ \A i \in 1 .. Upcoming(0, t) - 1 : recs[i].ending # <<>>
      /\ \A i \in 1 .. Full(0, t) : t[i] = RawOf(recs, i)
      /\ \A n \in 1 .. Len(r) : r[n] # LF
      /\ Wires(recs, Ahead(Carried(0, t), r, p), Upcoming(0, t))
  BY DEF Reading
<1>3. Carried(0, t) = <<>> /\ Upcoming(0, t) = Len(t) + 1 /\ Full(0, t) = Len(t)
  BY DEF Carried, Upcoming, Full
<1>4. t \in Seq(Seq(C)) /\ r \in Seq(C) /\ p \in Seq(C) /\ w \in Seq(C)
  <2> HIDE DEF B, C
  <2>1. \A q : q \in Seq(B) => q \in Seq(C)
    BY <1>1
  <2>2. Seq(B) \subseteq Seq(C)
    BY <2>1
  <2> DEFINE SB == Seq(B)
             SC == Seq(C)
  <2>3. SB \subseteq SC /\ t \in Seq(SB)
    BY <1>2, <2>2
  <2> HIDE DEF SB, SC
  <2>4. t \in Seq(SC)
    BY <2>3
  <2> QED BY <1>2, <2>1, <2>4 DEF SC, C
<1> HIDE DEF more, N, B, C
<1>5. /\ Ahead(<<>>, r, p) = r \o p /\ r \o p \in Seq(B)
      /\ Ahead(<<>>, r, p \o w) = (r \o p) \o w /\ p \o w \in Seq(C)
  <2>1. <<>> \o r = r
    BY <1>4, ConcatEmptySeq
  <2>2. r \o (p \o w) = (r \o p) \o w
    BY SMTT(60), <1>4, ConcatAssociative
  <2>3. r \o p \in Seq(B) /\ p \o w \in Seq(C)
    BY <1>2, <1>4
  <2> QED BY <2>1, <2>2, <2>3 DEF Ahead
<1>6. Wires(more, (r \o p) \o w, Len(t) + 1)
  BY <1>2, <1>3, <1>5, WiresGrow DEF more, N, B, C
<1>7. /\ Upcoming(0, t) \in 1 .. Len(more) + 1 /\ 0 \in 0 .. Len(t) /\ 0 <= Len(more)
      /\ Len(t) \in Nat
  BY <1>1, <1>2, <1>3
<1>8. \A i \in 1 .. Len(t) : i \in 1 .. N
  BY <1>1, <1>2, <1>3, <1>7
<1>9. /\ \A i \in 1 .. Upcoming(0, t) - 1 : more[i].ending # <<>>
      /\ \A i \in 1 .. Full(0, t) : t[i] = RawOf(more, i)
  <2>1. Upcoming(0, t) - 1 = Len(t)
    BY <1>3, <1>7
  <2>2. \A i \in 1 .. Len(t) : more[i] = recs[i] /\ RawOf(more, i) = RawOf(recs, i)
    BY <1>1, <1>8
  <2> QED BY <1>2, <1>3, <2>1, <2>2
<1>10. \A n \in 1 .. Len(Carried(0, t)) : Carried(0, t)[n] # LF
  BY <1>3
<1>11. Wires(more, Ahead(Carried(0, t), r, p \o w), Upcoming(0, t))
  BY <1>3, <1>5, <1>6
<1>12. Reading(more, 0, t, r, p \o w)
  BY <1>2, <1>4, <1>5, <1>7, <1>9, <1>10, <1>11 DEF Reading, C
<1> QED BY <1>12 DEF more

\* The exit flushes what the parser has of the next record.
LEMMA ReadExit ==
  ASSUME NEW recs, RecordsOK(recs), NEW t, NEW r, NEW p, Reading(recs, 0, t, r, p), r # <<>>
  PROVE  Reading(recs, Len(t) + 1, Append(t, r), <<>>, p)
<1> DEFINE B == ByteOf(recs)
           N == Len(recs)
           f == Len(t) + 1
           u == Append(t, r)
<1>1. /\ t \in Seq(Seq(B)) /\ r \in Seq(B) /\ p \in Seq(B) /\ Upcoming(0, t) \in 1 .. N + 1
      /\ \A i \in 1 .. Upcoming(0, t) - 1 : recs[i].ending # <<>>
      /\ \A i \in 1 .. Full(0, t) : t[i] = RawOf(recs, i)
      /\ \A n \in 1 .. Len(r) : r[n] # LF
      /\ Wires(recs, Ahead(Carried(0, t), r, p), Upcoming(0, t))
  BY DEF Reading
<1>2. Carried(0, t) = <<>> /\ Upcoming(0, t) = f /\ Full(0, t) = Len(t)
  BY DEF Carried, Upcoming, Full
<1>3. /\ u \in Seq(Seq(B)) /\ Len(u) = f /\ Len(t) \in Nat /\ u[f] = r
      /\ \A i \in 1 .. Len(t) : u[i] = t[i]
  BY <1>1
<1>4. N \in Nat /\ Len(r) \in Nat \ {0}
  BY <1>1 DEF RecordsOK
<1> HIDE DEF u
<1>5. /\ Ahead(<<>>, r, p) = r \o p /\ r \o p \in Seq(B)
      /\ Ahead(r, <<>>, p) = r \o p
  <2>1. <<>> \o r = r /\ r \o <<>> = r
    BY <1>1, ConcatEmptySeq
  <2> QED BY <1>1, <2>1 DEF Ahead
<1>6. /\ Len(r \o p) = Len(r) + Len(p) /\ Len(p) \in Nat
      /\ \A n \in 1 .. Len(r) : (r \o p)[n] = r[n]
  BY <1>1
<1>7. f \in 1 .. N
  <2> SUFFICES ASSUME f = N + 1 PROVE FALSE
    BY <1>1, <1>2, <1>4
  <2>1. Len(r \o p) = 0
    BY <1>1, <1>2, <1>5, WiresNone
  <2> QED BY <1>4, <1>6, <2>1
<1>8. Begins(r, WireOf(recs, f))
  <2> DEFINE s == r \o p
             wire == WireOf(recs, f)
  <2>1. Wires(recs, s, f) /\ s \in Seq(B)
    BY <1>1, <1>2, <1>5
  <2> HIDE DEF s, f, wire
  <2>2. PICK w \in Seq(B) :
          /\ Line(recs, w, f) /\ Begins(w, s) /\ Wires(recs, SubSeq(s, Len(w) + 1, Len(s)), f + 1)
    BY <1>7, <2>1, WiresHead
  <2>3. /\ Begins(w, wire) /\ (recs[f].ending # <<>> => w = wire) /\ Begins(w, s)
    BY <2>2 DEF Line, wire
  <2>4. /\ Len(s) = Len(r) + Len(p) /\ \A n \in 1 .. Len(r) : s[n] = r[n]
    BY <1>6 DEF s
  <2>5. Len(w) \in Nat /\ Len(wire) \in Nat
    BY <1>7, <2>2, WireIs DEF wire
  <2>6. Len(r) <= Len(w)
    <3>1. CASE recs[f].ending # <<>>
      <4>1. w = wire /\ Len(wire) >= 1 /\ wire[Len(wire)] = LF
        BY <1>7, <2>3, <3>1, WireIs DEF wire
      <4>2. s[Len(w)] = LF
        BY <2>3, <2>5, <4>1 DEF Begins
      <4>3. ~ (Len(w) \in 1 .. Len(r))
        BY <1>1, <2>4, <4>2
      <4> QED BY <1>4, <2>5, <4>1, <4>3
    <3>2. CASE recs[f].ending = <<>>
      <4>1. f = N
        BY <1>7, <3>2 DEF RecordsOK
      <4>2. Len(SubSeq(s, Len(w) + 1, Len(s))) = 0
        BY <2>2, <4>1, WiresNone
      <4>3. Len(w) = Len(s)
        <5>1. Len(s) \in Nat /\ Len(w) <= Len(s)
          BY <1>4, <1>6, <2>3, <2>4 DEF Begins
        <5> QED BY <2>1, <2>5, <4>2, <5>1
      <4> QED BY <1>4, <1>6, <2>4, <4>3
    <3> QED BY <3>1, <3>2
  <2>7. \A n \in 1 .. Len(r) : r[n] = wire[n]
    <3> TAKE n \in 1 .. Len(r)
    <3>1. n \in 1 .. Len(w)
      BY <1>4, <2>5, <2>6
    <3> QED BY <2>3, <2>4, <3>1 DEF Begins
  <2>8. Len(r) <= Len(wire)
    BY <1>4, <2>3, <2>5, <2>6 DEF Begins
  <2> QED BY <2>7, <2>8 DEF Begins, wire
<1>9. Carried(f, u) = r /\ Upcoming(f, u) = f /\ Full(f, u) = Len(t)
  BY <1>3 DEF Carried, Upcoming, Full
<1>10. /\ f \in 0 .. Len(u) /\ f <= N /\ Upcoming(f, u) \in 1 .. N + 1
       /\ Upcoming(f, u) = Upcoming(0, t)
  BY <1>1, <1>2, <1>3, <1>4, <1>7, <1>9
<1>11. Wires(recs, Ahead(Carried(f, u), <<>>, p), Upcoming(f, u))
  BY <1>1, <1>2, <1>5, <1>9
<1>12. \A i \in 1 .. Full(f, u) : u[i] = RawOf(recs, i)
  BY <1>1, <1>2, <1>3, <1>9
<1>13. /\ Begins(u[f], WireOf(recs, f))
       /\ \A i \in f + 2 .. Len(u) : u[i] = RawOf(recs, i - 1)
  <2>1. f + 2 .. Len(u) = {}
    BY <1>3
  <2> QED BY <1>3, <1>8, <2>1
<1>14. <<>> \in Seq(B) /\ \A n \in 1 .. Len(<<>>) : <<>>[n] # LF
  OBVIOUS
<1>15. \A n \in 1 .. Len(Carried(f, u)) : Carried(f, u)[n] # LF
  BY <1>1, <1>9
<1>16. \A i \in 1 .. Upcoming(f, u) - 1 : recs[i].ending # <<>>
  BY <1>1, <1>10
<1> HIDE DEF f
<1>17. Reading(recs, f, u, <<>>, p)
  BY <1>1, <1>3, <1>10, <1>11, <1>12, <1>13, <1>14, <1>15, <1>16 DEF Reading
<1> QED BY <1>17 DEF f, u

------------------------------------------------------------------------------
(* A piece is read                                                         *)

\* Without an LF there is no record.
LEMMA FeedOpen ==
  ASSUME NEW B, NEW r \in Seq(B), \A n \in 1 .. Len(r) : r[n] # LF
  PROVE  Feed(r) = [raws |-> <<>>, rest |-> r]
<1> DEFINE U == {s \in Seq(B) : (\A n \in 1 .. Len(s) : s[n] # LF) =>
                                 Feed(s) = [raws |-> <<>>, rest |-> s]}
<1>a. \A s : s \in U <=> s \in Seq(B) /\ ((\A n \in 1 .. Len(s) : s[n] # LF) =>
                                           Feed(s) = [raws |-> <<>>, rest |-> s])
  OBVIOUS
<1> HIDE DEF U
<1>1. <<>> \in U
  <2>1. <<>> \in Seq(B) /\ Feed(<<>>) = [raws |-> <<>>, rest |-> <<>>]
    BY FeedEmpty DEF Nothing
  <2> QED BY <1>a, <2>1
<1>2. ASSUME NEW s \in Seq(B), NEW e \in B, s \in U PROVE Append(s, e) \in U
  <2> DEFINE more == Append(s, e)
  <2>1. /\ more \in Seq(B) /\ Len(more) = Len(s) + 1 /\ Len(s) \in Nat /\ more[Len(s) + 1] = e
        /\ \A n \in 1 .. Len(s) : more[n] = s[n]
    OBVIOUS
  <2>2. Feed(more) = Take(Feed(s), e)
    BY FeedAppend
  <2> HIDE DEF more
  <2>3. ASSUME \A n \in 1 .. Len(more) : more[n] # LF PROVE Feed(more) = [raws |-> <<>>, rest |-> more]
    <3>1. \A n \in 1 .. Len(s) : n \in 1 .. Len(more)
      BY <2>1
    <3>2. e # LF /\ \A n \in 1 .. Len(s) : s[n] # LF
      BY <2>1, <2>3, <3>1
    <3>3. Feed(s) = [raws |-> <<>>, rest |-> s]
      BY <1>2, <1>a, <3>2
    <3> QED BY <2>2, <3>2, <3>3 DEF Take, more
  <2> QED BY <1>a, <2>1, <2>3 DEF more
<1>3. Seq(B) \subseteq U
  BY <1>1, <1>2, SeqInduction
<1> QED BY <1>3, <1>a

\* One byte further into a piece.
LEMMA Moving ==
  ASSUME NEW B, NEW p \in Seq(B), NEW m \in 0 .. Len(p), m < Len(p)
  PROVE  /\ SubSeq(p, 1, m) \in Seq(B) /\ p[m + 1] \in B
         /\ SubSeq(p, 1, m + 1) = Append(SubSeq(p, 1, m), p[m + 1])
         /\ SubSeq(p, m + 1, Len(p)) # <<>> /\ SubSeq(p, m + 1, Len(p))[1] = p[m + 1]
         /\ Tail(SubSeq(p, m + 1, Len(p))) = SubSeq(p, m + 2, Len(p))
<1>1. m \in Nat /\ Len(p) \in Nat /\ m + 1 \in 1 .. Len(p)
  OBVIOUS
<1>2. SubSeq(p, 1, m) \in Seq(B) /\ p[m + 1] \in B
  BY <1>1
<1>3. SubSeq(p, 1, m + 1) = Append(SubSeq(p, 1, m), p[m + 1])
  BY <1>1
<1>4. SubSeq(p, m + 1, Len(p)) # <<>> /\ SubSeq(p, m + 1, Len(p))[1] = p[m + 1]
  <2> DEFINE q == SubSeq(p, m + 1, Len(p))
  <2>1. Len(q) = Len(p) - m /\ \A i \in 1 .. Len(p) - m : q[i] = p[m + i]
    BY <1>1
  <2> HIDE DEF q
  <2>2. 1 \in 1 .. Len(p) - m
    BY <1>1
  <2>3. q # <<>> /\ q[1] = p[m + 1]
    BY <2>1, <2>2
  <2> QED BY <2>3 DEF q
<1>5. Tail(SubSeq(p, m + 1, Len(p))) = SubSeq(p, m + 2, Len(p))
  BY <1>1
<1> QED BY <1>2, <1>3, <1>4, <1>5

\* One piece of the output.
LEMMA ReadPiece ==
  ASSUME NEW recs, RecordsOK(recs), NEW f, NEW t, NEW r, NEW p, Reading(recs, f, t, r, p),
         NEW n \in 1 .. Len(p)
  PROVE  /\ Feed(r \o SubSeq(p, 1, n)) \in Got(ByteOf(recs))
         /\ Reading(recs, f, t \o Feed(r \o SubSeq(p, 1, n)).raws, Feed(r \o SubSeq(p, 1, n)).rest,
                    SubSeq(p, n + 1, Len(p)))
<1> DEFINE B == ByteOf(recs)
           N == Len(p)
           all(m) == r \o SubSeq(p, 1, m)
           T == {m \in 0 .. N : /\ all(m) \in Seq(B) /\ Feed(all(m)) \in Got(B)
                                /\ Reading(recs, f, t \o Feed(all(m)).raws, Feed(all(m)).rest,
                                           SubSeq(p, m + 1, N))}
<1>0. /\ r \in Seq(B) /\ p \in Seq(B) /\ N \in Nat /\ t \in Seq(Seq(B))
      /\ \A m \in 1 .. Len(r) : r[m] # LF
  BY DEF Reading
<1> HIDE DEF B
<1>a. \A m : m \in T <=> /\ m \in 0 .. N /\ all(m) \in Seq(B) /\ Feed(all(m)) \in Got(B)
                         /\ Reading(recs, f, t \o Feed(all(m)).raws, Feed(all(m)).rest,
                                    SubSeq(p, m + 1, N))
  OBVIOUS
<1> HIDE DEF T
<1>1. 0 \in T
  <2>1. all(0) = r
    <3>1. SubSeq(p, 1, 0) = <<>> /\ r \o <<>> = r
      BY <1>0, SubSeqEmpty, ConcatEmptySeq
    <3> QED BY <3>1
  <2>2. SubSeq(p, 0 + 1, N) = p
    BY <1>0, SubSeqFull
  <2>3. Feed(r) = [raws |-> <<>>, rest |-> r]
    BY <1>0, FeedOpen
  <2>4. t \o <<>> = t /\ <<>> \in Seq(Seq(B))
    BY <1>0, ConcatEmptySeq
  <2>5. Feed(r) \in Got(B)
    BY <1>0, <2>3, <2>4 DEF Got
  <2> HIDE DEF all
  <2>6. Feed(all(0)) = Feed(r) /\ all(0) \in Seq(B)
    BY <1>0, <2>1
  <2>7. t \o Feed(all(0)).raws = t /\ Feed(all(0)).rest = r
    <3>1. Feed(all(0)).raws = <<>> /\ Feed(all(0)).rest = r
      BY <2>3, <2>6
    <3> QED BY <2>4, <3>1
  <2>8. Reading(recs, f, t \o Feed(all(0)).raws, Feed(all(0)).rest, SubSeq(p, 0 + 1, N))
    BY <2>2, <2>7
  <2>9. 0 \in 0 .. N /\ all(0) \in Seq(B) /\ Feed(all(0)) \in Got(B)
    BY <1>0, <2>5, <2>6
  <2> QED BY <1>a, <2>8, <2>9, Zenon
<1>2. ASSUME NEW m \in 0 .. N, m \in T, m < N PROVE m + 1 \in T
  <2> DEFINE got == Feed(all(m))
             b == p[m + 1]
             next == SubSeq(p, m + 1, N)
  <2>1. all(m) \in Seq(B) /\ got \in Got(B) /\ Reading(recs, f, t \o got.raws, got.rest, next)
    BY <1>2, <1>a
  <2>2. /\ SubSeq(p, 1, m) \in Seq(B) /\ b \in B
        /\ SubSeq(p, 1, m + 1) = Append(SubSeq(p, 1, m), b)
        /\ next # <<>> /\ next[1] = b /\ Tail(next) = SubSeq(p, m + 2, N)
    BY <1>0, <1>2, Moving
  <2>3. all(m + 1) = Append(all(m), b)
    <3> DEFINE q == SubSeq(p, 1, m)
    <3>1. q \in Seq(B) /\ SubSeq(p, 1, m + 1) = Append(q, b)
      BY <2>2
    <3> HIDE DEF q, b
    <3>2. r \o Append(q, b) = Append(r \o q, b)
      BY SMTT(60), <1>0, <2>2, <3>1
    <3> QED BY <3>1, <3>2 DEF q
  <2> HIDE DEF all, b, next
  <2>4. Feed(all(m + 1)) = Take(got, b) /\ Take(got, b) \in Got(B) /\ all(m + 1) \in Seq(B)
    <3>1. Append(all(m), b) \in Seq(B)
      BY <2>1, <2>2
    <3> QED BY <2>1, <2>2, <2>3, <3>1, FeedAppend, TakeIn
  <2> HIDE DEF got
  <2>5. got.raws \in Seq(Seq(B)) /\ got.rest \in Seq(B)
    BY <2>1 DEF Got
  <2>6. Reading(recs, f, t \o Take(got, b).raws, Take(got, b).rest, Tail(next))
    <3>1. CASE b = LF
      <4>1. Reading(recs, f, Append(t \o got.raws, Strip(got.rest)), <<>>, Tail(next))
        BY <2>1, <2>2, <3>1, ReadLF
      <4>2. t \o Append(got.raws, Strip(got.rest)) = Append(t \o got.raws, Strip(got.rest))
        <5> DEFINE x == Strip(got.rest)
        <5>1. x \in Seq(B)
          BY <2>5, StripIn
        <5> HIDE DEF x
        <5>2. t \o Append(got.raws, x) = Append(t \o got.raws, x)
          BY SMTT(60), <1>0, <2>5, <5>1
        <5> QED BY <5>2 DEF x
      <4> QED BY <3>1, <4>1, <4>2 DEF Take
    <3>2. CASE b # LF
      <4>1. Reading(recs, f, t \o got.raws, Append(got.rest, b), Tail(next))
        BY <2>1, <2>2, <3>2, ReadOther
      <4> QED BY <3>2, <4>1 DEF Take
    <3> QED BY <3>1, <3>2
  <2>7. m + 1 \in 0 .. N /\ (m + 1) + 1 = m + 2
    BY <1>0, <1>2
  <2> QED BY <1>a, <2>2, <2>4, <2>6, <2>7
<1>3. n \in T
  <2>1. \A m \in 0 .. N : m \in T
    BY <1>0, <1>1, <1>2, InductionUpTo
  <2> QED BY <1>0, <2>1
<1> QED BY <1>3, <1>a DEF B

------------------------------------------------------------------------------
(* What the records are, and what is told of them                          *)

\* What the records of a list are, as Parsed and Malformed say it of sent.
WholeIn(recs, raw, i) ==
  /\ i # 0 /\ IsPrefix(BodyOf(i, recs[i].kind), raw)
  /\ \A n \in DOMAIN raw : n > Len(BodyOf(i, recs[i].kind)) => raw[n] = CR
ParsedIn(recs, raw) ==
  IF raw # <<>> /\ WholeIn(recs, raw, raw[1][1]) THEN recs[raw[1][1]].kind ELSE "blank"
MalformedIn(recs, raw) == ~ TooLarge(raw) /\ ParsedIn(recs, raw) \in {"junk", "blank"}
DecodedIn(recs, raw) == IF TooLarge(raw) THEN "other" ELSE ParsedIn(recs, raw)

\* Which records of a transcript are malformed, and what the feed tells of it.
Bad(recs, t) == {k \in 1 .. Len(t) : MalformedIn(recs, t[k])}
Masked(f, t) == [k \in 1 .. Len(t) |-> IF k = f THEN <<>> ELSE t[k]]
Tales(recs, t) == [k \in 1 .. Len(t) |-> Live(DecodedIn(recs, t[k]))]

\* To write more changes nothing of what was written.
LEMMA ParsedGrows ==
  ASSUME NEW recs, NEW x, Grown(recs, x), NEW raw \in Seq(ByteOf(recs))
  PROVE  ParsedIn(Append(recs, x), raw) = ParsedIn(recs, raw)
<1>1. \A i \in 1 .. Len(recs) : Append(recs, x)[i] = recs[i]
  BY GrownIs
<1> DEFINE more == Append(recs, x)
           i == raw[1][1]
<1> HIDE DEF more
<1>2. CASE raw = <<>> \/ i = 0
  BY <1>2 DEF ParsedIn, WholeIn
<1>3. CASE raw # <<>> /\ i # 0
  <2>1. raw[1] \in ByteOf(recs)
    BY <1>3
  <2>2. i \in 1 .. Len(recs)
    <3>1. i \in 0 .. Len(recs)
      BY <2>1 DEF ByteOf
    <3>2. Len(recs) \in Nat
      BY DEF Grown, RecordsOK
    <3> HIDE DEF i
    <3> QED BY <1>3, <3>1, <3>2
  <2>3. more[i] = recs[i]
    BY <1>1, <2>2 DEF more
  <2>4. WholeIn(more, raw, i) <=> WholeIn(recs, raw, i)
    <3> HIDE DEF i
    <3> QED BY <2>3 DEF WholeIn
  <2>5. ParsedIn(more, raw) = IF WholeIn(more, raw, i) THEN more[i].kind ELSE "blank"
    BY <1>3 DEF ParsedIn
  <2>6. ParsedIn(recs, raw) = IF WholeIn(recs, raw, i) THEN recs[i].kind ELSE "blank"
    BY <1>3 DEF ParsedIn
  <2> HIDE DEF i
  <2>7. CASE WholeIn(recs, raw, i)
    BY <2>3, <2>4, <2>5, <2>6, <2>7 DEF more
  <2>8. CASE ~ WholeIn(recs, raw, i)
    BY <2>4, <2>5, <2>6, <2>8 DEF more
  <2> QED BY <2>7, <2>8
<1> QED BY <1>2, <1>3 DEF more

\* ... not which records are malformed,
LEMMA BadGrows ==
  ASSUME NEW recs, NEW x, Grown(recs, x), NEW t \in Seq(Seq(ByteOf(recs)))
  PROVE  Bad(Append(recs, x), t) = Bad(recs, t)
<1> DEFINE more == Append(recs, x)
<1>1. \A k \in 1 .. Len(t) : ParsedIn(more, t[k]) = ParsedIn(recs, t[k])
  <2> TAKE k \in 1 .. Len(t)
  <2>1. t[k] \in Seq(ByteOf(recs))
    BY ElementOfSeq
  <2> QED BY <2>1, ParsedGrows
<1> HIDE DEF more
<1> QED BY <1>1 DEF Bad, MalformedIn, more

\* ... nor what is told of them.
LEMMA TalesGrow ==
  ASSUME NEW recs, NEW x, Grown(recs, x), NEW t \in Seq(Seq(ByteOf(recs)))
  PROVE  Tales(Append(recs, x), t) = Tales(recs, t)
<1> DEFINE more == Append(recs, x)
<1>1. \A k \in 1 .. Len(t) : ParsedIn(more, t[k]) = ParsedIn(recs, t[k])
  <2> TAKE k \in 1 .. Len(t)
  <2>1. t[k] \in Seq(ByteOf(recs))
    BY ElementOfSeq
  <2> QED BY <2>1, ParsedGrows
<1> HIDE DEF more
<1> QED BY <1>1 DEF Tales, DecodedIn, more

\* The malformed records of two transcripts, one after the other.
LEMMA BadCat ==
  ASSUME NEW recs, NEW S, NEW t \in Seq(S), NEW u \in Seq(S)
  PROVE  /\ IsFiniteSet(Bad(recs, t)) /\ IsFiniteSet(Bad(recs, t \o u))
         /\ Cardinality(Bad(recs, t \o u)) = Cardinality(Bad(recs, t)) + Cardinality(Bad(recs, u))
<1> DEFINE L == Len(t)
           M == Len(u)
           v == t \o u
           A == Bad(recs, t)
           C == Bad(recs, u)
           D == {k \in L + 1 .. L + M : MalformedIn(recs, v[k])}
<1>1. /\ L \in Nat /\ M \in Nat /\ Len(v) = L + M
      /\ \A k \in 1 .. L : v[k] = t[k]
      /\ \A k \in 1 .. M : v[L + k] = u[k]
  <2>1. /\ L \in Nat /\ M \in Nat /\ Len(v) = L + M
        /\ \A k \in 1 .. L + M : v[k] = IF k <= L THEN t[k] ELSE u[k - L]
    BY ConcatProperties
  <2> HIDE DEF L, M, v
  <2>2. \A k \in 1 .. L : k \in 1 .. L + M /\ k <= L
    BY <2>1
  <2>3. \A k \in 1 .. M : L + k \in 1 .. L + M /\ ~ (L + k <= L) /\ (L + k) - L = k
    BY <2>1
  <2> QED BY <2>1, <2>2, <2>3
<1> HIDE DEF v, L, M
<1>2. /\ A = {k \in 1 .. L : MalformedIn(recs, t[k])}
      /\ C = {k \in 1 .. M : MalformedIn(recs, u[k])}
      /\ Bad(recs, v) = {k \in 1 .. L + M : MalformedIn(recs, v[k])}
  BY <1>1 DEF Bad, L, M
<1> HIDE DEF A, C, D
<1>3. /\ \A k \in 1 .. L + M : k \in 1 .. L \/ k \in L + 1 .. L + M
      /\ \A k \in 1 .. L : k \in 1 .. L + M /\ k \notin L + 1 .. L + M
      /\ \A k \in L + 1 .. L + M : k \in 1 .. L + M /\ k \notin 1 .. L
  BY <1>1
<1>4. Bad(recs, v) = A \cup D /\ A \cap D = {}
  BY <1>1, <1>2, <1>3 DEF D
<1>5. IsFiniteSet(1 .. L) /\ IsFiniteSet(1 .. M) /\ IsFiniteSet(L + 1 .. L + M)
  BY <1>1, FS_Interval
<1>6. IsFiniteSet(A) /\ IsFiniteSet(C) /\ IsFiniteSet(D)
  <2>1. A \subseteq 1 .. L /\ C \subseteq 1 .. M /\ D \subseteq L + 1 .. L + M
    BY <1>2 DEF D
  <2> QED BY <1>5, <2>1, FS_Subset
<1>7. Cardinality(D) = Cardinality(C)
  <2> DEFINE g == [k \in C |-> L + k]
  <2>0. \A k \in 1 .. M : k \in Nat /\ L + k \in L + 1 .. L + M /\ v[L + k] = u[k]
    BY <1>1
  <2>1. g \in [C -> D] /\ \A k \in C : g[k] = L + k
    BY <1>2, <2>0 DEF D
  <2>2. \A j, k \in C : g[j] = g[k] => j = k
    <3> TAKE j, k \in C
    <3>1. j \in Nat /\ k \in Nat
      BY <1>2, <2>0
    <3> QED BY <1>1, <2>1, <3>1
  <2>3. \A d \in D : \E k \in C : g[k] = d
    <3> TAKE d \in D
    <3>1. d \in L + 1 .. L + M /\ MalformedIn(recs, v[d])
      BY DEF D
    <3>2. d - L \in 1 .. M /\ L + (d - L) = d
      BY <1>1, <3>1
    <3>3. d - L \in C
      BY <1>1, <1>2, <3>1, <3>2
    <3> QED BY <2>1, <3>2, <3>3
  <2> HIDE DEF g
  <2>4. g \in Bijection(C, D)
    BY <2>1, <2>2, <2>3 DEF Bijection, Injection, Surjection, IsInjective
  <2>5. ExistsBijection(C, D)
    BY <2>4 DEF ExistsBijection
  <2> QED BY <1>6, <2>5, FS_Bijection
<1>8. Cardinality(A \cup D) = Cardinality(A) + Cardinality(D) - Cardinality(A \cap D)
  BY <1>6, FS_Union
<1>9. Cardinality(A \cap D) = 0 /\ Cardinality(A) \in Nat /\ Cardinality(D) \in Nat
  BY <1>4, <1>6, FS_EmptySet, FS_CardinalityType
<1>10. Cardinality(Bad(recs, v)) = Cardinality(A) + Cardinality(C)
  BY <1>4, <1>7, <1>8, <1>9
<1>11. IsFiniteSet(Bad(recs, v))
  BY <1>4, <1>6, FS_Union
<1> QED BY <1>6, <1>10, <1>11 DEF A, C, v

\* One record.
LEMMA BadOne ==
  ASSUME NEW recs, NEW raw
  PROVE  Cardinality(Bad(recs, <<raw>>)) = IF MalformedIn(recs, raw) THEN 1 ELSE 0
<1>1. Bad(recs, <<raw>>) = IF MalformedIn(recs, raw) THEN {1} ELSE {}
  BY DEF Bad
<1>2. Cardinality({1}) = 1 /\ Cardinality({}) = 0
  BY FS_Singleton, FS_EmptySet
<1> QED BY <1>1, <1>2

\* Live tells events.
LEMMA LiveIn == \A kind : Live(kind) \in Seq(Event)
<1> SUFFICES ASSUME NEW kind PROVE Live(kind) \in Seq(Event)
  OBVIOUS
<1>1. Live(kind) \in {<<"tool_start">>, <<"tool_end">>, <<"tool_end", "handoff">>, <<"assistant">>,
                      <<"provider_error">>, <<"settled">>, <<>>}
  BY DEF Live
<1>2. /\ <<"tool_start">> \in Seq(Event) /\ <<"tool_end">> \in Seq(Event)
      /\ <<"tool_end", "handoff">> \in Seq(Event) /\ <<"assistant">> \in Seq(Event)
      /\ <<"provider_error">> \in Seq(Event) /\ <<"settled">> \in Seq(Event) /\ <<>> \in Seq(Event)
  BY DEF Event
<1> QED BY <1>1, <1>2

\* What is told is a list of events for each record.
LEMMA TalesIn ==
  ASSUME NEW recs, NEW S, NEW t \in Seq(S)
  PROVE  /\ Tales(recs, t) \in Seq(Seq(Event)) /\ Len(Tales(recs, t)) = Len(t)
         /\ \A k \in 1 .. Len(t) : Tales(recs, t)[k] = Live(DecodedIn(recs, t[k]))
<1> DEFINE E == Seq(Event)
<1>1. \A k \in 1 .. Len(t) : Live(DecodedIn(recs, t[k])) \in E
  BY LiveIn
<1>2. Len(t) \in Nat
  OBVIOUS
<1> HIDE DEF E
<1>3. Tales(recs, t) \in [1 .. Len(t) -> E]
  BY <1>1 DEF Tales
<1>4. Tales(recs, t) \in Seq(E) /\ Len(Tales(recs, t)) = Len(t)
  BY <1>2, <1>3
<1> QED BY <1>4 DEF Tales, E

\* ... and for two transcripts one after the other.
LEMMA TalesCat ==
  ASSUME NEW recs, NEW S, NEW t \in Seq(S), NEW u \in Seq(S)
  PROVE  Tales(recs, t \o u) = Tales(recs, t) \o Tales(recs, u)
<1> DEFINE L == Len(t)
           M == Len(u)
           v == t \o u
           a == Tales(recs, t)
           b == Tales(recs, u)
           c == Tales(recs, v)
           E == Seq(Event)
           d == a \o b
<1>1. /\ v \in Seq(S) /\ L \in Nat /\ M \in Nat /\ Len(v) = L + M
      /\ \A k \in 1 .. L + M : v[k] = IF k <= L THEN t[k] ELSE u[k - L]
  BY ConcatProperties
<1> HIDE DEF v
<1>2. /\ a \in Seq(E) /\ Len(a) = L /\ \A k \in 1 .. L : a[k] = Live(DecodedIn(recs, t[k]))
      /\ b \in Seq(E) /\ Len(b) = M /\ \A k \in 1 .. M : b[k] = Live(DecodedIn(recs, u[k]))
  BY TalesIn
<1>3. c \in Seq(E) /\ Len(c) = L + M /\ \A k \in 1 .. L + M : c[k] = Live(DecodedIn(recs, v[k]))
  BY <1>1, TalesIn
<1> HIDE DEF a, b, c, E, L, M
<1>4. /\ d \in Seq(E) /\ Len(d) = L + M
      /\ \A k \in 1 .. L + M : d[k] = IF k <= L THEN a[k] ELSE b[k - L]
  BY <1>2, ConcatProperties
<1> HIDE DEF d
<1>5. ASSUME NEW k \in 1 .. L + M PROVE c[k] = d[k]
  <2>1. CASE k <= L
    <3>1. k \in 1 .. L
      BY <1>1, <2>1
    <3> QED BY <1>1, <1>2, <1>3, <1>4, <2>1, <3>1
  <2>2. CASE ~ (k <= L)
    <3>1. k - L \in 1 .. M
      BY <1>1, <2>2
    <3>2. c[k] = Live(DecodedIn(recs, u[k - L])) /\ d[k] = b[k - L]
      BY <1>1, <1>3, <1>4, <2>2
    <3> QED BY <1>2, <3>1, <3>2
  <2> QED BY <2>1, <2>2
<1>6. c = d
  BY <1>3, <1>4, <1>5, SeqEqual
<1> QED BY <1>6 DEF a, b, c, d, v

\* Without the flushed record it is a transcript still.
LEMMA MaskedIn ==
  ASSUME NEW S, NEW f, NEW t \in Seq(Seq(S))
  PROVE  /\ Masked(f, t) \in Seq(Seq(S)) /\ Len(Masked(f, t)) = Len(t)
         /\ \A k \in 1 .. Len(t) : Masked(f, t)[k] = IF k = f THEN <<>> ELSE t[k]
<1> DEFINE Z == Seq(S)
<1>0. t \in Seq(Z) /\ <<>> \in Z /\ Len(t) \in Nat
  OBVIOUS
<1> HIDE DEF Z
<1>1. Masked(f, t) \in [1 .. Len(t) -> Z]
  BY <1>0, ElementOfSeq DEF Masked
<1>2. Masked(f, t) \in Seq(Z) /\ Len(Masked(f, t)) = Len(t)
  BY <1>0, <1>1
<1> QED BY <1>2 DEF Masked, Z

\* What comes later was not flushed.
LEMMA MaskedCat ==
  ASSUME NEW S, NEW t \in Seq(Seq(S)), NEW u \in Seq(Seq(S)), NEW f \in 0 .. Len(t)
  PROVE  Masked(f, t \o u) = Masked(f, t) \o u
<1>9. ASSUME NEW w \in Seq(Seq(S))
      PROVE  /\ Masked(f, w) \in Seq(Seq(S)) /\ Len(Masked(f, w)) = Len(w)
             /\ \A k \in 1 .. Len(w) : Masked(f, w)[k] = IF k = f THEN <<>> ELSE w[k]
  BY MaskedIn
<1>0. t \o u \in Seq(Seq(S))
  <2> DEFINE Z == Seq(S)
  <2> HIDE DEF Z
  <2>1. t \in Seq(Z) /\ u \in Seq(Z)
    BY DEF Z
  <2>2. t \o u \in Seq(Z)
    BY <2>1, ConcatProperties
  <2> QED BY <2>2 DEF Z
<1> SUFFICES ASSUME NEW v \in Seq(Seq(S)), v = t \o u
             PROVE  Masked(f, v) = Masked(f, t) \o u
  BY <1>0
<1> DEFINE L == Len(t)
           M == Len(u)
           Z == Seq(S)
           a == Masked(f, t)
           b == Masked(f, v)
           c == a \o u
<1>1. /\ v \in Seq(Z) /\ L \in Nat /\ M \in Nat /\ Len(v) = L + M
      /\ \A k \in 1 .. L + M : v[k] = IF k <= L THEN t[k] ELSE u[k - L]
  <2> HIDE DEF Z
  <2> QED BY ConcatProperties DEF Z
<1>2. a \in Seq(Z) /\ Len(a) = L /\ \A k \in 1 .. L : a[k] = IF k = f THEN <<>> ELSE t[k]
  BY MaskedIn
<1>8. /\ b \in Seq(Z) /\ Len(b) = Len(v)
      /\ \A k \in 1 .. Len(v) : b[k] = IF k = f THEN <<>> ELSE v[k]
  BY <1>9
<1> HIDE DEF L, M
<1>5. f \in Nat /\ f <= L /\ Len(t) = L /\ Len(u) = M
  BY <1>1 DEF L, M
<1> HIDE DEF a, b, Z
<1>3. /\ b \in Seq(Z) /\ Len(b) = L + M
      /\ \A k \in 1 .. L + M : b[k] = IF k = f THEN <<>> ELSE v[k]
  BY <1>1, <1>8
<1>4. /\ c \in Seq(Z) /\ Len(c) = L + M
      /\ \A k \in 1 .. L + M : c[k] = IF k <= L THEN a[k] ELSE u[k - L]
  <2>1. u \in Seq(Z)
    BY DEF Z
  <2>2. /\ a \o u \in Seq(Z) /\ Len(a \o u) = Len(a) + Len(u)
        /\ \A k \in 1 .. Len(a) + Len(u) :
             (a \o u)[k] = IF k <= Len(a) THEN a[k] ELSE u[k - Len(a)]
    BY <1>2, <2>1, ConcatProperties
  <2> QED BY <1>2, <1>5, <2>2
<1> HIDE DEF c
<1>6. ASSUME NEW k \in 1 .. L + M PROVE b[k] = c[k]
  <2>1. CASE k <= L
    <3>1. k \in 1 .. L
      BY <1>1, <2>1
    <3> QED BY <1>1, <1>2, <1>3, <1>4, <2>1, <3>1
  <2>2. CASE ~ (k <= L)
    <3>1. k # f
      BY <1>5, <2>2
    <3> QED BY <1>1, <1>3, <1>4, <2>2, <3>1
  <2> QED BY <2>1, <2>2
<1>7. b = c
  BY <1>3, <1>4, <1>6, SeqEqual
<1> QED BY <1>7 DEF a, b, c

\* When nothing was flushed.
LEMMA MaskedNone ==
  ASSUME NEW S, NEW t \in Seq(Seq(S))
  PROVE  Masked(0, t) = t
<1>1. /\ Masked(0, t) \in Seq(Seq(S)) /\ Len(Masked(0, t)) = Len(t)
      /\ \A k \in 1 .. Len(t) : Masked(0, t)[k] = IF k = 0 THEN <<>> ELSE t[k]
  BY MaskedIn
<1>2. \A k \in 1 .. Len(t) : Masked(0, t)[k] = t[k]
  BY <1>1
<1> DEFINE Z == Seq(S)
<1> HIDE DEF Z
<1>3. t \in Seq(Z) /\ Masked(0, t) \in Seq(Z)
  BY <1>1 DEF Z
<1> QED BY <1>1, <1>2, <1>3, SeqEqual

\* When the last one was.
LEMMA MaskedLast ==
  ASSUME NEW S, NEW t \in Seq(Seq(S)), NEW r \in Seq(S)
  PROVE  Masked(Len(t) + 1, Append(t, r)) = Append(t, <<>>)
<1> DEFINE Z == Seq(S)
           u == Append(t, r)
           a == Masked(Len(t) + 1, u)
           b == Append(t, <<>>)
<1>0. r \in Z /\ <<>> \in Z /\ t \in Seq(Z) /\ Len(t) \in Nat
  OBVIOUS
<1>1. /\ u \in Seq(Z) /\ Len(u) = Len(t) + 1 /\ \A k \in 1 .. Len(t) : u[k] = t[k]
      /\ b \in Seq(Z) /\ Len(b) = Len(t) + 1 /\ \A k \in 1 .. Len(t) : b[k] = t[k]
      /\ b[Len(t) + 1] = <<>>
  <2> HIDE DEF Z
  <2> QED BY <1>0
<1> HIDE DEF u
<1>2. /\ a \in Seq(Z) /\ Len(a) = Len(u)
      /\ \A k \in 1 .. Len(u) : a[k] = IF k = Len(t) + 1 THEN <<>> ELSE u[k]
  BY <1>1, MaskedIn
<1> HIDE DEF Z, a, b
<1>3. \A k \in 1 .. Len(t) + 1 : a[k] = b[k]
  <2> TAKE k \in 1 .. Len(t) + 1
  <2>1. CASE k = Len(t) + 1
    BY <1>1, <1>2, <2>1
  <2>2. CASE k # Len(t) + 1
    <3>1. k \in 1 .. Len(t)
      BY <1>0, <2>2
    <3> QED BY <1>1, <1>2, <2>2, <3>1
  <2> QED BY <2>1, <2>2
<1>4. a = b
  BY <1>1, <1>2, <1>3, SeqEqual
<1> QED BY <1>4 DEF a, b, u

\* What the live feed has to tell of a transcript, in which f was flushed.
StoryOf(recs, f, t) == Flat(Tales(recs, Masked(f, t)))

\* The story is events.
LEMMA StoryIn ==
  ASSUME NEW recs, NEW S, NEW f, NEW t \in Seq(Seq(S))
  PROVE  StoryOf(recs, f, t) \in Seq(Event)
<1>1. Masked(f, t) \in Seq(Seq(S))
  BY MaskedIn
<1>2. Tales(recs, Masked(f, t)) \in Seq(Seq(Event))
  BY <1>1, TalesIn
<1> QED BY <1>2, FlatIn DEF StoryOf

\* It grows at its end.
LEMMA StoryCat ==
  ASSUME NEW recs, NEW S, NEW t \in Seq(Seq(S)), NEW u \in Seq(Seq(S)), NEW f \in 0 .. Len(t)
  PROVE  StoryOf(recs, f, t \o u) = StoryOf(recs, f, t) \o StoryOf(recs, 0, u)
<1> DEFINE a == Masked(f, t)
<1>1. Masked(f, t \o u) = a \o u /\ a \in Seq(Seq(S)) /\ Masked(0, u) = u
  BY MaskedCat, MaskedIn, MaskedNone
<1> HIDE DEF a
<1>2. /\ Tales(recs, a \o u) = Tales(recs, a) \o Tales(recs, u)
      /\ Tales(recs, a) \in Seq(Seq(Event)) /\ Tales(recs, u) \in Seq(Seq(Event))
  BY <1>1, TalesCat, TalesIn
<1>3. Flat(Tales(recs, a) \o Tales(recs, u)) = Flat(Tales(recs, a)) \o Flat(Tales(recs, u))
  BY <1>2, FlatCat
<1> QED BY <1>1, <1>2, <1>3 DEF StoryOf, a

\* What is flushed at the exit is not told.
LEMMA StoryExit ==
  ASSUME NEW recs, NEW S, NEW t \in Seq(Seq(S)), NEW r \in Seq(S)
  PROVE  StoryOf(recs, Len(t) + 1, Append(t, r)) = StoryOf(recs, 0, t)
<1>1. Masked(Len(t) + 1, Append(t, r)) = t \o <<<<>>>> /\ Masked(0, t) = t /\ <<<<>>>> \in Seq(Seq(S))
  <2>1. <<>> \in Seq(S)
    OBVIOUS
  <2>2. Append(t, <<>>) = t \o <<<<>>>>
    BY <2>1
  <2>3. <<<<>>>> \in Seq(Seq(S))
    BY <2>1
  <2>4. Masked(Len(t) + 1, Append(t, r)) = Append(t, <<>>) /\ Masked(0, t) = t
    BY MaskedLast, MaskedNone
  <2> QED BY <2>2, <2>3, <2>4
<1>2. Tales(recs, t \o <<<<>>>>) = Tales(recs, t) \o Tales(recs, <<<<>>>>)
  BY <1>1, TalesCat
<1>3. DecodedIn(recs, <<>>) = "blank"
  BY RecordAssumption DEF DecodedIn, TooLarge, ParsedIn
<1>4. Tales(recs, <<<<>>>>) = <<<<>>>>
  <2> DEFINE x == Tales(recs, <<<<>>>>)
  <2>1. /\ x \in Seq(Seq(Event)) /\ Len(x) = Len(<<<<>>>>)
        /\ \A k \in 1 .. Len(<<<<>>>>) : x[k] = Live(DecodedIn(recs, <<<<>>>>[k]))
    BY <1>1, TalesIn
  <2>2. Len(x) = 1 /\ x[1] = Live("blank")
    BY <1>3, <2>1
  <2>3. Live("blank") = <<>>
    BY DEF Live
  <2> HIDE DEF x
  <2>4. x = <<<<>>>>
    BY <2>1, <2>2, <2>3
  <2> QED BY <2>4 DEF x
<1>5. Flat(Tales(recs, t) \o <<<<>>>>) = Flat(Tales(recs, t))
  <2> DEFINE y == Tales(recs, t)
  <2>1. y \in Seq(Seq(Event)) /\ <<>> \in Seq(Event)
    BY TalesIn
  <2> HIDE DEF y
  <2>2. y \o <<<<>>>> = Append(y, <<>>)
    BY <2>1
  <2>3. Flat(y) \in Seq(Event) /\ Flat(Append(y, <<>>)) = Flat(y) \o <<>>
    BY <2>1, FlatAppend
  <2>4. Flat(y) \o <<>> = Flat(y)
    BY <2>3, ConcatEmptySeq
  <2> QED BY <2>2, <2>3, <2>4 DEF y
<1> QED BY <1>1, <1>2, <1>4, <1>5 DEF StoryOf

\* What the child writes does not change it.
LEMMA StoryGrows ==
  ASSUME NEW recs, NEW x, Grown(recs, x), NEW f, NEW t \in Seq(Seq(ByteOf(recs)))
  PROVE  StoryOf(Append(recs, x), f, t) = StoryOf(recs, f, t)
<1>1. Masked(f, t) \in Seq(Seq(ByteOf(recs)))
  BY MaskedIn
<1> QED BY <1>1, TalesGrow DEF StoryOf

------------------------------------------------------------------------------
(* The inductive invariant                                                 *)

\* IsPrefix of the community modules, by element.
LEMMA PrefixIs ==
  ASSUME NEW S, NEW s \in Seq(S), NEW t \in Seq(S)
  PROVE  IsPrefix(s, t) <=> Begins(s, t)
<1>1. Len(s) \in Nat /\ Len(t) \in Nat /\ SubSeq(s, 1, Len(s)) = s
  BY SubSeqFull
<1>2. ASSUME Len(s) <= Len(t)
      PROVE  SubSeq(t, 1, Len(s)) = s <=> \A n \in 1 .. Len(s) : s[n] = t[n]
  <2> DEFINE q == SubSeq(t, 1, Len(s))
  <2>1. q \in Seq(S) /\ Len(q) = Len(s) /\ \A n \in 1 .. Len(s) : q[n] = t[n]
    BY <1>1, <1>2
  <2> HIDE DEF q
  <2>2. (\A n \in 1 .. Len(s) : s[n] = t[n]) => q = s
    BY <2>1, SeqEqual
  <2> QED BY <2>1, <2>2 DEF q
<1> QED BY <1>1, <1>2 DEF IsPrefix, Begins

\* A prefix of the longer one.
LEMMA PrefixCat ==
  ASSUME NEW S, NEW s \in Seq(S), NEW t \in Seq(S), NEW u \in Seq(S), IsPrefix(s, t)
  PROVE  IsPrefix(s, t \o u)
<1>1. Begins(s, t)
  BY PrefixIs
<1>2. t \o u \in Seq(S) /\ Len(t \o u) = Len(t) + Len(u) /\ \A n \in 1 .. Len(t) : (t \o u)[n] = t[n]
  OBVIOUS
<1>3. Begins(s, t \o u)
  <2> DEFINE v == t \o u
  <2> HIDE DEF v
  <2>1. Len(v) = Len(t) + Len(u) /\ \A n \in 1 .. Len(t) : v[n] = t[n]
    BY <1>2 DEF v
  <2>2. Len(s) \in Nat /\ Len(t) \in Nat /\ Len(u) \in Nat
    OBVIOUS
  <2>3. Begins(s, v)
    BY <1>1, <2>1, <2>2 DEF Begins
  <2> QED BY <2>3 DEF v
<1> QED BY <1>2, <1>3, PrefixIs

\* ... and of itself.
LEMMA PrefixSelf ==
  ASSUME NEW S, NEW s \in Seq(S)
  PROVE  IsPrefix(s, s)
<1>1. Len(s) \in Nat
  OBVIOUS
<1> QED BY <1>1 DEF IsPrefix

\* The model's operators say it of sent.
LEMMA ParsedIs == \A raw : Parsed(raw) = ParsedIn(sent, raw)
BY DEF Parsed, ParsedIn, Whole, WholeIn, Body

\* ... Malformed,
LEMMA MalformedIs == \A raw : Malformed(raw) <=> MalformedIn(sent, raw)
BY ParsedIs DEF Malformed, MalformedIn

\* ... Decoded,
LEMMA DecodedIs == \A raw : Decoded(raw) = DecodedIn(sent, raw)
BY ParsedIs DEF Decoded, DecodedIn

\* ... and Story of the live feed.
LEMMA StoryIs ==
  ASSUME NEW S, NEW raws \in Seq(S)
  PROVE  Story(raws, Live) = Flat(Tales(sent, raws))
<1>1. DOMAIN raws = 1 .. Len(raws)
  OBVIOUS
<1>2. [k \in DOMAIN raws |-> Live(Decoded(raws[k]))] = Tales(sent, raws)
  BY <1>1, DecodedIs DEF Tales
<1> QED BY <1>2 DEF Story

\* What holds after every step.
Telling(recs, f, t, failed, whole, last) ==
  /\ IsPrefix(whole, StoryOf(recs, f, t)) /\ (~ failed => whole = StoryOf(recs, f, t))
  /\ last = LastOf(Capacity, whole)

Typed ==
  /\ child \in {"alive", "dead", "reaped"}
  /\ malformed \in Nat /\ oversized \in BOOLEAN /\ settled \in BOOLEAN /\ finalizing \in BOOLEAN
  /\ ring \in Seq(Event) /\ told \in Seq(Event)

IInv ==
  /\ Typed /\ RecordsOK(sent)
  /\ child = "alive" => \A i \in 1 .. Len(sent) : sent[i].ending # <<>>
  /\ flushed # 0 => child = "reaped"
  /\ Reading(sent, flushed, transcript, buffer, pipe)
  /\ malformed = Cardinality(Bad(sent, transcript))
  /\ oversized <=> \E k \in 1 .. Len(transcript) : TooLarge(transcript[k])
  /\ Failed => finalizing \/ flushed # 0
  /\ Telling(sent, flushed, transcript, Failed, told, ring)

\* It holds at the start.
LEMMA IInit == Init => IInv
<1> SUFFICES ASSUME Init PROVE IInv
  OBVIOUS
<1> USE DEF Init
<1>1. Typed /\ RecordsOK(sent) /\ child = "alive" /\ flushed = 0
  <2>1. <<>> \in Seq(Event) /\ <<>> \in Seq([kind : Kinds, ending : Endings \cup {<<>>}])
    OBVIOUS
  <2>2. Typed
    BY <2>1 DEF Typed
  <2>3. RecordsOK(sent)
    BY <2>1 DEF RecordsOK
  <2> QED BY <2>2, <2>3
<1>2. Reading(sent, flushed, transcript, buffer, pipe)
  <2>1. Ahead(Carried(flushed, transcript), buffer, pipe) = <<>> /\ Upcoming(flushed, transcript) = 1
    BY DEF Ahead, Carried, Upcoming
  <2>2. Wires(sent, <<>>, 1)
    <3>1. 1 .. Len(sent) = {} /\ 1 .. Len(sent) + 1 = {1} /\ Len(<<>>) = 0
      OBVIOUS
    <3> DEFINE line == [i \in {} |-> <<>>]
               from == [i \in {1} |-> 0]
    <3>2. line \in [1 .. Len(sent) -> Seq(ByteOf(sent))] /\ from \in [1 .. Len(sent) + 1 -> Nat]
      BY <3>1
    <3>3. from[1] = 0 /\ from[Len(sent) + 1] = Len(<<>>)
      OBVIOUS
    <3>4. \A i, j \in 1 .. Len(sent) + 1 : i <= j => from[i] <= from[j]
      BY <3>1, <3>3
    <3> HIDE DEF line, from
    <3> QED BY <3>1, <3>2, <3>3, <3>4 DEF Wires
  <2>3. Carried(flushed, transcript) = <<>> /\ Full(flushed, transcript) = 0
    BY DEF Carried, Full
  <2> QED BY <2>1, <2>2, <2>3 DEF Reading
<1>3. malformed = Cardinality(Bad(sent, transcript))
  BY FS_EmptySet DEF Bad
<1>4. ~ oversized /\ ~ \E k \in 1 .. Len(transcript) : TooLarge(transcript[k])
  OBVIOUS
<1>5. ~ Failed
  BY LimitAssumption DEF Failed
<1>6. StoryOf(sent, flushed, transcript) = <<>>
  <2>1. Masked(0, <<>>) = <<>> /\ Tales(sent, <<>>) = <<>>
    BY DEF Masked, Tales
  <2> QED BY <2>1, FlatEmpty DEF StoryOf
<1>7. Telling(sent, flushed, transcript, Failed, told, ring)
  <2>1. IsPrefix(<<>>, <<>>) /\ LastOf(Capacity, <<>>) = <<>>
    BY LimitAssumption DEF IsPrefix, LastOf
  <2> QED BY <1>6, <2>1 DEF Telling
<1> QED BY <1>1, <1>2, <1>3, <1>4, <1>5, <1>7 DEF IInv

\* The child writes one more record, or the beginning of it.
LEMMA WriteStep ==
  ASSUME IInv, NEW x, Grown(sent, x), child = "alive",
         NEW w \in Seq(ByteOf(Append(sent, x))), Line(Append(sent, x), w, Len(sent) + 1),
         sent' = Append(sent, x), pipe' = pipe \o w,
         child' \in {"alive", "dead"}, child' = "alive" => x.ending # <<>>,
         UNCHANGED <<parser, runner, feed>>
  PROVE  IInv'
<1> USE DEF parser, runner, feed
<1>1. flushed = 0 /\ Reading(sent, 0, transcript, buffer, pipe)
  BY DEF IInv
<1>2. Reading(sent', flushed', transcript', buffer', pipe')
  BY <1>1, ReadingGrows
<1>3. transcript \in Seq(Seq(ByteOf(sent)))
  BY <1>1 DEF Reading
<1>4. RecordsOK(sent') /\ (child' = "alive" => \A i \in 1 .. Len(sent') : sent'[i].ending # <<>>)
  <2>1. /\ RecordsOK(sent') /\ Len(sent') = Len(sent) + 1 /\ sent'[Len(sent) + 1] = x
        /\ \A i \in 1 .. Len(sent) : sent'[i] = sent[i]
        /\ Len(sent) \in Nat
    BY GrownIs
  <2>2. \A i \in 1 .. Len(sent') : i \in 1 .. Len(sent) \/ i = Len(sent) + 1
    BY <2>1
  <2>3. \A i \in 1 .. Len(sent) : sent[i].ending # <<>>
    BY DEF Grown
  <2> QED BY <2>1, <2>2, <2>3
<1>5. Bad(sent', transcript') = Bad(sent, transcript)
  BY <1>3, BadGrows
<1>6. StoryOf(sent', flushed', transcript') = StoryOf(sent, flushed, transcript)
  BY <1>3, StoryGrows
<1>7. Failed' <=> Failed
  BY DEF Failed
<1>8. Typed' /\ (flushed' # 0 => child' = "reaped")
  BY <1>1 DEF IInv, Typed
<1>9. Telling(sent', flushed', transcript', Failed', told', ring')
  <2>1. Telling(sent, flushed, transcript, Failed, told, ring)
    BY DEF IInv
  <2> QED BY <1>6, <1>7, <2>1 DEF Telling
<1>10. /\ malformed' = Cardinality(Bad(sent', transcript'))
       /\ oversized' <=> \E k \in 1 .. Len(transcript') : TooLarge(transcript'[k])
       /\ Failed' => finalizing' \/ flushed' # 0
  BY <1>5, <1>7 DEF IInv
<1> QED BY <1>2, <1>4, <1>8, <1>9, <1>10 DEF IInv

------------------------------------------------------------------------------
(* Every step keeps it                                                     *)

\* The bytes of a record that is being written, or of the beginning of it.
LEMMA LineIs ==
  ASSUME NEW recs, NEW x, Grown(recs, x)
  PROVE  /\ BodyOf(Len(recs) + 1, x.kind) \o x.ending \in Seq(ByteOf(Append(recs, x)))
         /\ Line(Append(recs, x), BodyOf(Len(recs) + 1, x.kind) \o x.ending, Len(recs) + 1)
         /\ BodyOf(Len(recs) + 1, x.kind) \in Seq(ByteOf(Append(recs, x)))
         /\ x.ending \in Seq(ByteOf(Append(recs, x)))
<1> DEFINE more == Append(recs, x)
           k == Len(recs) + 1
<1>1. RecordsOK(more) /\ Len(more) = k /\ more[k] = x /\ Len(recs) \in Nat
  BY GrownIs
<1>2. k \in 1 .. Len(more)
  BY <1>1
<1> HIDE DEF more, k
<1>3. WireOf(more, k) \in Seq(ByteOf(more)) /\ Len(WireOf(more, k)) \in Nat
  BY <1>1, <1>2, WireIs
<1>4. WireOf(more, k) = BodyOf(k, x.kind) \o x.ending
  BY <1>1 DEF WireOf
<1>5. Line(more, WireOf(more, k), k)
  BY <1>3 DEF Line, Begins
<1>6. BodyOf(k, x.kind) \in Seq(ByteOf(more))
  BY <1>1, <1>2, BodyIs
<1>7. x.ending \in Seq(ByteOf(more))
  <2>1. x.ending \in {<<>>, <<LF>>, <<CR, LF>>, <<CR, CR, LF>>} /\ CR \in ByteOf(more) /\ LF \in ByteOf(more)
    BY <1>1, <1>2, ByteIs, EndingIs
  <2> DEFINE C == ByteOf(more)
  <2> HIDE DEF C
  <2>2. CR \in C /\ LF \in C
    BY <2>1 DEF C
  <2>3. <<>> \in Seq(C) /\ <<LF>> \in Seq(C) /\ <<CR, LF>> \in Seq(C) /\ <<CR, CR, LF>> \in Seq(C)
    BY <2>2
  <2> QED BY <2>1, <2>3 DEF C
<1> QED BY <1>3, <1>4, <1>5, <1>6, <1>7 DEF more, k

\* The child writes a record.
LEMMA WriteRecordStep ==
  ASSUME IInv, NEW kind \in Kinds, NEW ending \in Endings, WriteRecord(kind, ending)
  PROVE  IInv'
<1> DEFINE x == [kind |-> kind, ending |-> ending]
           B == ByteOf(Append(sent, x))
           body == BodyOf(Len(sent) + 1, kind)
           w == body \o ending
<1>0. child = "alive" /\ sent' = Append(sent, x) /\ pipe' = (pipe \o body) \o ending
  BY DEF WriteRecord
<1>1. Grown(sent, x) /\ x.kind = kind /\ x.ending = ending /\ ending # <<>>
  <2>1. RecordsOK(sent) /\ \A i \in 1 .. Len(sent) : sent[i].ending # <<>>
    BY <1>0 DEF IInv
  <2>2. ending # <<>>
    BY EndingsAssumption
  <2> QED BY <2>1, <2>2 DEF Grown
<1> HIDE DEF x
<1>2. /\ w \in Seq(B) /\ body \in Seq(B) /\ ending \in Seq(B)
      /\ Line(Append(sent, x), w, Len(sent) + 1)
  BY <1>1, LineIs
<1>3. pipe' = pipe \o w
  <2>1. pipe \in Seq(B)
    <3>1. pipe \in Seq(ByteOf(sent))
      BY DEF IInv, Reading
    <3>2. ByteOf(sent) \subseteq B
      BY <1>1, GrownSame
    <3> HIDE DEF B
    <3> QED BY <3>1, <3>2
  <2> HIDE DEF B, body
  <2> QED BY <1>0, <1>2, <2>1, ConcatAssociative
<1> HIDE DEF w
<1>4. UNCHANGED <<parser, runner, feed>> /\ child' = "alive"
  BY <1>0 DEF WriteRecord
<1> QED BY <1>0, <1>1, <1>2, <1>3, <1>4, WriteStep

\* It dies, perhaps in the middle of one.
LEMMA DieStep ==
  ASSUME IInv, NEW kind \in Kinds, Die(kind)
  PROVE  IInv'
<1>0. child = "alive" /\ child' = "dead" /\ UNCHANGED <<parser, runner, feed>>
  BY DEF Die
<1>1. CASE UNCHANGED <<sent, pipe>>
  <2>1. Typed' /\ (flushed' # 0 => child' = "reaped")
    BY <1>0 DEF IInv, Typed, parser, runner, feed
  <2>2. Failed' <=> Failed
    BY <1>0 DEF Failed, parser
  <2>3. Telling(sent', flushed', transcript', Failed', told', ring')
    <3>1. Telling(sent, flushed, transcript, Failed, told, ring)
      BY DEF IInv
    <3> QED BY <1>0, <1>1, <2>2, <3>1 DEF Telling, feed
  <2> QED BY <1>0, <1>1, <2>1, <2>2, <2>3 DEF IInv, parser, runner, feed
<1>2. ASSUME sent' = Append(sent, [kind |-> kind, ending |-> <<>>]),
             NEW n \in DOMAIN BodyOf(Len(sent) + 1, kind),
             pipe' = pipe \o SubSeq(BodyOf(Len(sent) + 1, kind), 1, n)
      PROVE  IInv'
  <2> DEFINE x == [kind |-> kind, ending |-> <<>>]
             B == ByteOf(Append(sent, x))
             body == BodyOf(Len(sent) + 1, kind)
             w == SubSeq(body, 1, n)
  <2>1. Grown(sent, x) /\ x.kind = kind /\ x.ending = <<>>
    <3>1. RecordsOK(sent) /\ \A i \in 1 .. Len(sent) : sent[i].ending # <<>>
      BY <1>0 DEF IInv
    <3> QED BY <3>1 DEF Grown
  <2>2. sent' = Append(sent, x) /\ pipe' = pipe \o w
    BY <1>2
  <2> HIDE DEF x
  <2>3. body \in Seq(B) /\ Line(Append(sent, x), body, Len(sent) + 1)
    <3>1. body \in Seq(B) /\ Line(Append(sent, x), body \o <<>>, Len(sent) + 1)
      BY <2>1, LineIs
    <3>2. body \o <<>> = body
      BY <3>1, ConcatEmptySeq
    <3> QED BY <3>1, <3>2
  <2>4. w \in Seq(B) /\ Line(Append(sent, x), w, Len(sent) + 1)
    <3>1. Append(sent, x)[Len(sent) + 1] = x
      BY <2>1, GrownIs
    <3>2. Begins(body, WireOf(Append(sent, x), Len(sent) + 1))
      BY <2>3 DEF Line
    <3>3. n \in 1 .. Len(body) /\ Len(body) \in Nat
      BY <2>3
    <3> HIDE DEF B, body
    <3>4. w \in Seq(B) /\ Len(w) = n /\ \A i \in 1 .. n : w[i] = body[i]
      BY <2>3, <3>3
    <3>5. Begins(w, WireOf(Append(sent, x), Len(sent) + 1))
      <4> DEFINE wire == WireOf(Append(sent, x), Len(sent) + 1)
      <4>1. Len(wire) \in Nat
        <5>1. RecordsOK(Append(sent, x)) /\ Len(sent) + 1 \in 1 .. Len(Append(sent, x))
          BY <2>1, GrownIs
        <5> QED BY <5>1, WireIs
      <4> HIDE DEF wire, w
      <4> QED BY <3>2, <3>3, <3>4, <4>1 DEF Begins, wire
    <3> QED BY <2>1, <3>1, <3>4, <3>5 DEF Line
  <2> HIDE DEF w
  <2> QED BY <1>0, <2>1, <2>2, <2>4, WriteStep
<1> QED BY <1>1, <1>2 DEF Die

\* A timer or a cancellation ends the run.
LEMMA StopStep ==
  ASSUME IInv, Stop
  PROVE  IInv'
<1> USE DEF Stop, world, parser, feed
<1>1. Typed'
  BY DEF IInv, Typed
<1>2. Failed' <=> Failed
  BY DEF Failed
<1>3. Telling(sent', flushed', transcript', Failed', told', ring')
  <2>1. Telling(sent, flushed, transcript, Failed, told, ring)
    BY DEF IInv
  <2> QED BY <1>2, <2>1 DEF Telling
<1> QED BY <1>1, <1>2, <1>3 DEF IInv

\* The exit event, and the flush.
LEMMA ExitStep ==
  ASSUME IInv, Exit
  PROVE  IInv'
<1>0. /\ child = "dead" /\ ~ finalizing /\ child' = "reaped" /\ buffer' = <<>>
      /\ finalizing' \in BOOLEAN /\ UNCHANGED <<sent, pipe, settled, ring, told>>
  BY DEF Exit
<1>1. flushed = 0 /\ Reading(sent, 0, transcript, buffer, pipe) /\ RecordsOK(sent)
  BY <1>0 DEF IInv
<1>2. ~ Failed
  BY <1>0, <1>1 DEF IInv
<1>3. transcript \in Seq(Seq(ByteOf(sent))) /\ buffer \in Seq(ByteOf(sent)) /\ Len(transcript) \in Nat
  BY <1>1 DEF Reading
<1>4. Telling(sent, flushed, transcript, Failed, told, ring)
  BY DEF IInv
<1>5. CASE buffer = <<>>
  <2>1. UNCHANGED <<malformed, oversized, transcript, flushed>>
    BY <1>5 DEF Exit
  <2>2. Typed'
    BY <1>0, <2>1 DEF IInv, Typed
  <2>3. Failed' <=> Failed
    BY <2>1 DEF Failed
  <2>4. Telling(sent', flushed', transcript', Failed', told', ring')
    BY <1>0, <1>4, <2>1, <2>3 DEF Telling
  <2> QED BY <1>0, <1>2, <1>5, <2>1, <2>2, <2>3, <2>4 DEF IInv
<1>6. CASE buffer # <<>>
  <2>1. /\ transcript' = Append(transcript, buffer) /\ flushed' = Len(transcript) + 1
        /\ malformed' = malformed + IF Malformed(buffer) THEN 1 ELSE 0
        /\ oversized' = (oversized \/ TooLarge(buffer))
    BY <1>6 DEF Exit
  <2>2. Typed'
    <3>1. malformed' \in Nat
      BY <2>1 DEF IInv, Typed
    <3> QED BY <1>0, <2>1, <3>1 DEF IInv, Typed
  <2>3. Reading(sent', flushed', transcript', buffer', pipe')
    BY <1>0, <1>1, <1>6, <2>1, ReadExit
  <2>4. malformed' = Cardinality(Bad(sent', transcript'))
    <3> DEFINE S == Seq(ByteOf(sent))
    <3>1. transcript \in Seq(S) /\ <<buffer>> \in Seq(S) /\ transcript' = transcript \o <<buffer>>
      <4>1. transcript \in Seq(S) /\ buffer \in S
        BY <1>3
      <4> HIDE DEF S
      <4> QED BY <2>1, <4>1
    <3> HIDE DEF S
    <3>2. /\ Cardinality(Bad(sent, transcript \o <<buffer>>))
               = Cardinality(Bad(sent, transcript)) + Cardinality(Bad(sent, <<buffer>>))
      BY <3>1, BadCat
    <3>3. Cardinality(Bad(sent, <<buffer>>)) = IF MalformedIn(sent, buffer) THEN 1 ELSE 0
      BY BadOne
    <3>4. malformed = Cardinality(Bad(sent, transcript))
      BY DEF IInv
    <3>5. CASE MalformedIn(sent, buffer)
      <4>1. Malformed(buffer)
        BY <3>5, MalformedIs
      <4> QED BY <1>0, <2>1, <3>1, <3>2, <3>3, <3>4, <3>5, <4>1
    <3>6. CASE ~ MalformedIn(sent, buffer)
      <4>1. ~ Malformed(buffer)
        BY <3>6, MalformedIs
      <4> QED BY <1>0, <2>1, <3>1, <3>2, <3>3, <3>4, <3>6, <4>1
    <3> QED BY <3>5, <3>6
  <2>5. oversized' <=> \E k \in 1 .. Len(transcript') : TooLarge(transcript'[k])
    <3>1. /\ Len(transcript') = Len(transcript) + 1 /\ transcript'[Len(transcript) + 1] = buffer
          /\ \A k \in 1 .. Len(transcript) : transcript'[k] = transcript[k]
      BY <1>3, <2>1
    <3>2. /\ \A k \in 1 .. Len(transcript') : k \in 1 .. Len(transcript) \/ k = Len(transcript) + 1
          /\ \A k \in 1 .. Len(transcript) : k \in 1 .. Len(transcript')
          /\ Len(transcript) + 1 \in 1 .. Len(transcript')
      BY <1>3, <3>1
    <3>3. oversized <=> \E k \in 1 .. Len(transcript) : TooLarge(transcript[k])
      BY DEF IInv
    <3>4. oversized' <=> (oversized \/ TooLarge(buffer))
      BY <2>1
    <3> QED BY <3>1, <3>2, <3>3, <3>4
  <2>6. flushed' # 0
    BY <1>3, <2>1
  <2>7. Telling(sent', flushed', transcript', Failed', told', ring')
    <3>1. StoryOf(sent, Len(transcript) + 1, Append(transcript, buffer)) = StoryOf(sent, 0, transcript)
      BY <1>3, StoryExit
    <3> QED BY <1>0, <1>1, <1>2, <1>4, <2>1, <3>1 DEF Telling
  <2> QED BY <1>0, <1>1, <2>2, <2>3, <2>4, <2>5, <2>6, <2>7 DEF IInv
<1> QED BY <1>5, <1>6

\* What Data does with one piece, where raws are its records.
DataIs(n, got, raws, news) ==
  /\ got = Feed(buffer \o SubSeq(pipe, 1, n)) /\ raws = got.raws
  /\ ~ finalizing /\ pipe' = SubSeq(pipe, n + 1, Len(pipe)) /\ buffer' = got.rest
  /\ malformed' = malformed + Cardinality({k \in DOMAIN raws : Malformed(raws[k])})
  /\ oversized' = (oversized \/ \E k \in DOMAIN raws : TooLarge(raws[k]))
  /\ news = IF raws # <<>> /\ Failed' THEN <<>> ELSE Story(raws, Live)
  /\ transcript' = transcript \o raws /\ told' = told \o news /\ ring' = PushAll(news)
  /\ settled' \in BOOLEAN /\ finalizing' \in BOOLEAN
  /\ raws # <<>> /\ Failed' => finalizing' = TRUE
  /\ UNCHANGED <<sent, child, flushed>>

\* Data does that.
LEMMA DataOf ==
  ASSUME IInv, NEW n \in DOMAIN pipe, Data(n)
  PROVE  \E got, raws, news : DataIs(n, got, raws, news)
<1> DEFINE all == buffer \o SubSeq(pipe, 1, n)
           got == Feed(all)
           raws == Records(all)
           count == malformed + Cardinality({k \in DOMAIN raws : Malformed(raws[k])})
           large == oversized \/ \E k \in DOMAIN raws : TooLarge(raws[k])
           fatal == raws # <<>> /\ Fatal(count, large)
           kinds == IF fatal THEN {} ELSE {Parsed(raws[k]) : k \in DOMAIN raws}
           news == IF fatal THEN <<>> ELSE Story(raws, Live)
<1>1. /\ ~ finalizing /\ pipe' = SubSeq(pipe, n + 1, Len(pipe)) /\ buffer' = Rest(all)
      /\ malformed' = count /\ oversized' = large
      /\ transcript' = transcript \o raws /\ told' = told \o news /\ ring' = PushAll(news)
      /\ settled' = (settled \/ "settled" \in kinds) /\ finalizing' \in Ends(kinds, fatal)
      /\ UNCHANGED <<sent, child, flushed>>
  BY DEF Data
<1>2. raws = got.raws /\ Rest(all) = got.rest
  BY DEF Records, Rest
<1> HIDE DEF raws, got, kinds
<1>3. Fatal(count, large) <=> Failed'
  BY <1>1 DEF Fatal, Failed
<1> HIDE DEF count, large
<1>4. fatal <=> raws # <<>> /\ Failed'
  BY <1>3
<1> HIDE DEF fatal
<1>5. settled' \in BOOLEAN /\ finalizing' \in BOOLEAN /\ (fatal => finalizing' = TRUE)
  BY <1>1 DEF Ends
<1>6. news = IF raws # <<>> /\ Failed' THEN <<>> ELSE Story(raws, Live)
  BY <1>4
<1> HIDE DEF news
<1>7. /\ malformed' = malformed + Cardinality({k \in DOMAIN raws : Malformed(raws[k])})
      /\ oversized' = (oversized \/ \E k \in DOMAIN raws : TooLarge(raws[k]))
  BY <1>1 DEF count, large
<1>8. got = Feed(buffer \o SubSeq(pipe, 1, n))
  BY DEF got
<1>9. DataIs(n, got, raws, news)
  BY <1>1, <1>2, <1>4, <1>5, <1>6, <1>7, <1>8 DEF DataIs
<1> QED BY <1>9

\* One piece is read.
LEMMA DataStep ==
  ASSUME IInv, NEW n \in DOMAIN pipe, Data(n)
  PROVE  IInv'
<1>1. PICK got, raws, news : DataIs(n, got, raws, news)
  BY DataOf
<1> DEFINE S == Seq(ByteOf(sent))
           t == transcript
<1>2. /\ RecordsOK(sent) /\ Reading(sent, flushed, t, buffer, pipe)
      /\ n \in 1 .. Len(pipe) /\ t \in Seq(S) /\ flushed \in 0 .. Len(t) /\ Typed
      /\ Telling(sent, flushed, t, Failed, told, ring)
      /\ malformed = Cardinality(Bad(sent, t))
      /\ oversized <=> \E k \in 1 .. Len(t) : TooLarge(t[k])
      /\ Failed => finalizing \/ flushed # 0
  BY DEF IInv, Reading
<1>3. /\ ~ finalizing /\ pipe' = SubSeq(pipe, n + 1, Len(pipe)) /\ buffer' = got.rest
      /\ malformed' = malformed + Cardinality({k \in DOMAIN raws : Malformed(raws[k])})
      /\ oversized' = (oversized \/ \E k \in DOMAIN raws : TooLarge(raws[k]))
      /\ news = IF raws # <<>> /\ Failed' THEN <<>> ELSE Story(raws, Live)
      /\ transcript' = transcript \o raws /\ told' = told \o news /\ ring' = PushAll(news)
      /\ settled' \in BOOLEAN /\ finalizing' \in BOOLEAN
      /\ (raws # <<>> /\ Failed' => finalizing' = TRUE)
      /\ UNCHANGED <<sent, child, flushed>>
      /\ got = Feed(buffer \o SubSeq(pipe, 1, n)) /\ raws = got.raws
  BY <1>1 DEF DataIs
<1>4. raws \in Seq(S) /\ Reading(sent, flushed, t \o raws, got.rest, SubSeq(pipe, n + 1, Len(pipe)))
  <2>1. /\ Feed(buffer \o SubSeq(pipe, 1, n)) \in Got(ByteOf(sent))
        /\ Reading(sent, flushed, t \o Feed(buffer \o SubSeq(pipe, 1, n)).raws,
                   Feed(buffer \o SubSeq(pipe, 1, n)).rest, SubSeq(pipe, n + 1, Len(pipe)))
    BY <1>2, ReadPiece
  <2>2. got \in Got(ByteOf(sent)) /\ Reading(sent, flushed, t \o got.raws, got.rest, SubSeq(pipe, n + 1, Len(pipe)))
    BY <1>3, <2>1
  <2> QED BY <1>3, <2>2 DEF Got
<1> HIDE DEF S
<1>5. Reading(sent', flushed', transcript', buffer', pipe')
  BY <1>3, <1>4
<1>6. Cardinality(Bad(sent, t \o raws)) = Cardinality(Bad(sent, t)) + Cardinality(Bad(sent, raws))
      /\ IsFiniteSet(Bad(sent, raws)) /\ IsFiniteSet(Bad(sent, t))
  BY <1>2, <1>4, BadCat
<1>7. {k \in DOMAIN raws : Malformed(raws[k])} = Bad(sent, raws)
  <2>1. DOMAIN raws = 1 .. Len(raws)
    BY <1>4
  <2> QED BY <2>1, MalformedIs DEF Bad
<1>8. /\ malformed' = Cardinality(Bad(sent', transcript')) /\ malformed' \in Nat
      /\ malformed' >= malformed /\ malformed \in Nat
  <2>1. Cardinality(Bad(sent, raws)) \in Nat /\ Cardinality(Bad(sent, t)) \in Nat
    BY <1>6, FS_CardinalityType
  <2>2. malformed' = Cardinality(Bad(sent, t \o raws))
    BY <1>2, <1>3, <1>6, <1>7
  <2>3. malformed' = malformed + Cardinality(Bad(sent, raws))
    BY <1>3, <1>7
  <2> QED BY SMTT(60), <1>2, <1>3, <2>1, <2>2, <2>3
<1>9. oversized' <=> \E k \in 1 .. Len(transcript') : TooLarge(transcript'[k])
  <2> DEFINE L == Len(t)
             M == Len(raws)
             v == t \o raws
  <2>1. /\ L \in Nat /\ M \in Nat /\ Len(v) = L + M
        /\ \A k \in 1 .. L + M : v[k] = IF k <= L THEN t[k] ELSE raws[k - L]
    BY <1>2, <1>4, ConcatProperties
  <2> HIDE DEF v
  <2>2. DOMAIN raws = 1 .. M
    BY <1>4
  <2> HIDE DEF L, M
  <2>3. ASSUME NEW k \in 1 .. L + M, TooLarge(v[k])
        PROVE  (\E j \in 1 .. L : TooLarge(t[j])) \/ (\E j \in 1 .. M : TooLarge(raws[j]))
    <3>1. CASE k <= L
      <4>1. k \in 1 .. L /\ v[k] = t[k]
        BY <2>1, <3>1
      <4> QED BY <2>3, <4>1
    <3>2. CASE ~ (k <= L)
      <4>1. k - L \in 1 .. M /\ v[k] = raws[k - L]
        BY <2>1, <3>2
      <4> QED BY <2>3, <4>1
    <3> QED BY <3>1, <3>2
  <2>4. ASSUME NEW j \in 1 .. L, TooLarge(t[j]) PROVE \E k \in 1 .. L + M : TooLarge(v[k])
    <3>1. j \in 1 .. L + M /\ v[j] = t[j]
      BY <2>1
    <3> QED BY <2>4, <3>1
  <2>5. ASSUME NEW j \in 1 .. M, TooLarge(raws[j]) PROVE \E k \in 1 .. L + M : TooLarge(v[k])
    <3>1. L + j \in 1 .. L + M /\ ~ (L + j <= L) /\ (L + j) - L = j
      BY <2>1
    <3>2. v[L + j] = raws[j]
      BY <2>1, <3>1
    <3> QED BY <2>5, <3>1, <3>2
  <2>6. oversized <=> \E j \in 1 .. L : TooLarge(t[j])
    BY <1>2 DEF L
  <2>7. oversized' <=> oversized \/ \E j \in 1 .. M : TooLarge(raws[j])
    BY <1>3, <2>2
  <2>8. oversized' <=> \E k \in 1 .. L + M : TooLarge(v[k])
    BY <2>3, <2>4, <2>5, <2>6, <2>7
  <2>9. transcript' = v /\ Len(transcript') = L + M
    BY <1>3, <2>1 DEF v
  <2> QED BY <2>8, <2>9
<1>10. Failed => Failed'
  <2>1. Threshold \in Nat /\ (oversized => oversized')
    BY <1>3, LimitAssumption
  <2>2. malformed > Threshold => malformed' > Threshold
    BY <1>8, <2>1
  <2> QED BY <2>1, <2>2 DEF Failed
<1>11. raws = <<>> => transcript' = transcript /\ (Failed' <=> Failed) /\ Story(raws, Live) = <<>>
  <2> SUFFICES ASSUME raws = <<>>
               PROVE  transcript' = transcript /\ (Failed' <=> Failed) /\ Story(raws, Live) = <<>>
    OBVIOUS
  <2>1. t \o <<>> = t
    BY <1>2, ConcatEmptySeq
  <2>2. malformed' = malformed
    <3>1. Bad(sent, raws) = {}
      BY DEF Bad
    <3>2. Cardinality(Bad(sent, raws)) = 0
      BY <3>1, FS_EmptySet
    <3>3. malformed' = malformed + Cardinality(Bad(sent, raws))
      BY <1>3, <1>7
    <3> QED BY <1>8, <3>2, <3>3
  <2>3. oversized' <=> oversized
    <3>1. DOMAIN raws = {}
      OBVIOUS
    <3> QED BY <1>3, <3>1
  <2>4. Story(raws, Live) = <<>>
    <3>1. Tales(sent, <<>>) = <<>>
      BY DEF Tales
    <3> QED BY <1>4, <3>1, StoryIs, FlatEmpty
  <2> QED BY <1>3, <2>1, <2>2, <2>3, <2>4 DEF Failed
<1>12. Failed' => finalizing' \/ flushed' # 0
  BY <1>2, <1>3, <1>11
<1>13. /\ StoryOf(sent, flushed, t \o raws) = StoryOf(sent, flushed, t) \o StoryOf(sent, 0, raws)
       /\ StoryOf(sent, 0, raws) = Story(raws, Live)
       /\ StoryOf(sent, 0, raws) \in Seq(Event) /\ StoryOf(sent, flushed, t) \in Seq(Event)
  <2>1. Masked(0, raws) = raws
    BY <1>4, MaskedNone DEF S
  <2> QED BY ZenonT(60), <1>2, <1>4, <2>1, StoryCat, StoryIs, StoryIn DEF StoryOf, S
<1>14. news \in Seq(Event) /\ <<>> \in Seq(Event)
  BY <1>3, <1>13
<1>15. told \in Seq(Event) /\ ring \in Seq(Event) /\ ring = LastOf(Capacity, told)
  BY <1>2 DEF Typed, Telling
<1>16. told' \in Seq(Event) /\ ring' = LastOf(Capacity, told') /\ ring' \in Seq(Event)
  <2>1. told \o news \in Seq(Event)
    BY <1>14, <1>15
  <2> QED BY <1>3, <1>14, <1>15, <2>1, RingIs
<1>17. /\ IsPrefix(told', StoryOf(sent', flushed', transcript'))
       /\ ~ Failed' => told' = StoryOf(sent', flushed', transcript')
  <2> DEFINE story == StoryOf(sent, flushed, t)
             more == StoryOf(sent, 0, raws)
  <2>1. /\ IsPrefix(told, story) /\ (~ Failed => told = story)
        /\ StoryOf(sent', flushed', transcript') = story \o more
        /\ story \in Seq(Event) /\ more \in Seq(Event)
    BY <1>2, <1>3, <1>13 DEF Telling
  <2>2. news = IF raws # <<>> /\ Failed' THEN <<>> ELSE more
    BY <1>3, <1>13
  <2>3. raws = <<>> => more = <<>>
    BY <1>11, <1>13
  <2> HIDE DEF story, more
  <2>4. CASE Failed'
    <3>1. news = <<>>
      BY <2>2, <2>3, <2>4
    <3>2. told' = told
      BY <1>3, <1>15, <3>1, ConcatEmptySeq
    <3> QED BY <1>15, <2>1, <2>4, <3>2, PrefixCat
  <2>5. CASE ~ Failed'
    <3>1. told = story /\ news = more
      BY <1>10, <2>1, <2>2, <2>5
    <3>2. told' = story \o more /\ story \o more \in Seq(Event)
      <4>1. story \o more \in Seq(Event)
        BY <2>1
      <4>2. told' = told \o news
        BY <1>3
      <4> QED BY <3>1, <4>1, <4>2
    <3> QED BY <2>1, <3>2, PrefixSelf
  <2> QED BY <2>4, <2>5
<1>18. Typed'
  <2>1. oversized' \in BOOLEAN
    BY <1>3
  <2> QED BY <1>2, <1>3, <1>8, <1>16, <2>1 DEF Typed
<1>19. Telling(sent', flushed', transcript', Failed', told', ring')
  BY <1>16, <1>17 DEF Telling
<1>20. /\ RecordsOK(sent')
       /\ (child' = "alive" => \A i \in 1 .. Len(sent') : sent'[i].ending # <<>>)
       /\ (flushed' # 0 => child' = "reaped")
  BY <1>2, <1>3 DEF IInv
<1> HIDE DEF t
<1> QED BY <1>5, <1>8, <1>9, <1>12, <1>18, <1>19, <1>20 DEF IInv

\* Nothing happens.
LEMMA StutterStep ==
  ASSUME IInv, UNCHANGED vars
  PROVE  IInv'
<1> USE DEF vars, world, parser, runner, feed
<1>1. Typed'
  BY DEF IInv, Typed
<1>2. Failed' <=> Failed
  BY DEF Failed
<1>3. Telling(sent', flushed', transcript', Failed', told', ring')
  <2>1. Telling(sent, flushed, transcript, Failed, told, ring)
    BY DEF IInv
  <2> QED BY <1>2, <2>1 DEF Telling
<1> QED BY <1>1, <1>2, <1>3 DEF IInv

\* After every step the parser is in one place of the child's output, and what it counted,
\* what the feed told and what the transcript has are what was read up to there: onStdout,
\* feed, acceptRecord and finalizeOnExit (runner.ts, rpc-jsonl.ts).
THEOREM StreamInductive == Spec => []IInv
<1>1. Init => IInv
  BY IInit
<1>2. IInv /\ [Next]_vars => IInv'
  <2> SUFFICES ASSUME IInv, [Next]_vars PROVE IInv'
    OBVIOUS
  <2>1. CASE \E kind \in Kinds, ending \in Endings : WriteRecord(kind, ending)
    BY <2>1, WriteRecordStep
  <2>2. CASE \E kind \in Kinds : Die(kind)
    BY <2>2, DieStep
  <2>3. CASE \E n \in DOMAIN pipe : Data(n)
    BY <2>3, DataStep
  <2>4. CASE Exit
    BY <2>4, ExitStep
  <2>5. CASE Stop
    BY <2>5, StopStep
  <2>6. CASE UNCHANGED vars
    BY <2>6, StutterStep
  <2> QED BY <2>1, <2>2, <2>3, <2>4, <2>5, <2>6 DEF Next
<1> QED BY <1>1, <1>2, PTL DEF Spec

------------------------------------------------------------------------------
(* The invariants of the runs                                              *)

\* The types,
LEMMA TypeOf == IInv => TypeOK
<1> SUFFICES ASSUME IInv PROVE TypeOK
  OBVIOUS
<1>1. Typed /\ RecordsOK(sent) /\ Reading(sent, flushed, transcript, buffer, pipe)
  BY DEF IInv
<1>2. flushed \in 0 .. Len(transcript) /\ \A k \in DOMAIN buffer : buffer[k] # LF
  <2>1. buffer \in Seq(ByteOf(sent))
    BY <1>1 DEF Reading
  <2>2. DOMAIN buffer = 1 .. Len(buffer)
    BY <2>1
  <2> QED BY <1>1, <2>2 DEF Reading
<1> QED BY <1>1, <1>2 DEF TypeOK, Typed, RecordsOK

\* the protocol failures,
LEMMA CountOf == IInv => ProtocolFailureEnds
<1> SUFFICES ASSUME IInv PROVE ProtocolFailureEnds
  OBVIOUS
<1>1. /\ malformed = Cardinality(Bad(sent, transcript))
      /\ oversized <=> \E k \in 1 .. Len(transcript) : TooLarge(transcript[k])
      /\ Failed => finalizing \/ flushed # 0
      /\ transcript \in Seq(Seq(ByteOf(sent)))
  BY DEF IInv, Reading
<1>2. DOMAIN transcript = 1 .. Len(transcript)
  BY <1>1
<1>3. {k \in DOMAIN transcript : Malformed(transcript[k])} = Bad(sent, transcript)
  BY <1>2, MalformedIs DEF Bad
<1> QED BY <1>1, <1>2, <1>3, TypeOf DEF ProtocolFailureEnds

\* and the live feed, from the invariant.
LEMMA ToldOf == IInv => ToldAsRead
<1> SUFFICES ASSUME IInv PROVE ToldAsRead
  OBVIOUS
<1> DEFINE seen == [k \in DOMAIN transcript |-> IF k = flushed THEN <<>> ELSE transcript[k]]
<1>1. transcript \in Seq(Seq(ByteOf(sent))) /\ Telling(sent, flushed, transcript, Failed, told, ring)
  BY DEF IInv, Reading
<1>2. seen = Masked(flushed, transcript)
  <2>1. DOMAIN transcript = 1 .. Len(transcript)
    BY <1>1
  <2> QED BY <2>1 DEF Masked
<1> HIDE DEF seen
<1>3. Story(seen, Live) = StoryOf(sent, flushed, transcript)
  <2>1. seen \in Seq(Seq(ByteOf(sent)))
    BY <1>1, <1>2, MaskedIn
  <2> QED BY <1>2, <2>1, StoryIs DEF StoryOf
<1> QED BY <1>1, <1>3 DEF ToldAsRead, Telling, seen

\* When all is read, the record that is read next is the last, without an end.
LEMMA NoneLeft ==
  ASSUME NEW recs, RecordsOK(recs), NEW t, NEW r, Reading(recs, 0, t, r, <<>>)
  PROVE  Cardinality({k \in 1 .. Len(recs) : recs[k].ending # <<>>}) = Len(t)
<1> DEFINE N == Len(recs)
           k == Len(t) + 1
           B == ByteOf(recs)
<1>1. /\ t \in Seq(Seq(B)) /\ r \in Seq(B) /\ N \in Nat /\ Len(t) \in Nat /\ k \in 1 .. N + 1
      /\ \A n \in 1 .. Len(r) : r[n] # LF
      /\ \A i \in 1 .. Len(t) : recs[i].ending # <<>>
      /\ \A i \in 1 .. N : recs[i].ending = <<>> => i = N
      /\ Wires(recs, Ahead(Carried(0, t), r, <<>>), k)
  <2>1. Upcoming(0, t) = k
    BY DEF Upcoming
  <2>2. t \in Seq(Seq(B)) /\ Len(t) \in Nat /\ N \in Nat
    BY DEF Reading, RecordsOK
  <2>3. k - 1 = Len(t)
    BY <2>2
  <2> QED BY <2>1, <2>2, <2>3 DEF Reading, RecordsOK
<1>2. Ahead(Carried(0, t), r, <<>>) = r
  <2>1. <<>> \o r = r /\ r \o <<>> = r
    BY <1>1, ConcatEmptySeq
  <2> QED BY <2>1 DEF Ahead, Carried
<1>3. k \in 1 .. N => recs[k].ending = <<>>
  <2> SUFFICES ASSUME k \in 1 .. N, recs[k].ending # <<>> PROVE FALSE
    OBVIOUS
  <2> HIDE DEF k
  <2>1. PICK w \in Seq(B) : Line(recs, w, k) /\ Begins(w, r)
    BY <1>1, <1>2, WiresHead
  <2>2. /\ w = WireOf(recs, k) /\ Len(w) \in Nat /\ Len(w) >= 1 /\ w[Len(w)] = LF
    BY <2>1, WireIs DEF Line
  <2>3. Len(w) \in 1 .. Len(r) /\ Len(w) \in 1 .. Len(w)
    BY <1>1, <2>1, <2>2 DEF Begins
  <2>4. r[Len(w)] = LF
    BY <2>1, <2>2, <2>3 DEF Begins
  <2> QED BY <1>1, <2>3, <2>4
<1>4. \A i \in 1 .. N : recs[i].ending # <<>> <=> i \in 1 .. Len(t)
  <2> TAKE i \in 1 .. N
  <2>1. i \notin 1 .. Len(t) => i >= k
    BY <1>1
  <2>2. i \notin 1 .. Len(t) => k \in 1 .. N
    BY <1>1, <2>1
  <2>3. i \notin 1 .. Len(t) => k = N /\ i = k
    <3>1. k \in 1 .. N => k = N
      BY <1>1, <1>3
    <3> QED BY <1>1, <2>1, <2>2, <3>1
  <2> QED BY <1>1, <1>3, <2>2, <2>3
<1>5. {i \in 1 .. N : recs[i].ending # <<>>} = 1 .. Len(t)
  <2>1. \A i \in 1 .. Len(t) : i \in 1 .. N
    BY <1>1
  <2> QED BY <1>4, <2>1
<1>6. Cardinality(1 .. Len(t)) = Len(t)
  <2>1. Len(t) \in Nat /\ Len(t) \in Int /\ 1 \in Int
    BY <1>1
  <2> DEFINE m == Len(t)
  <2> HIDE DEF m
  <2>2. m \in Nat /\ m \in Int /\ 1 \in Int
    BY <2>1 DEF m
  <2>3. Cardinality(1 .. m) = IF 1 > m THEN 0 ELSE m - 1 + 1
    BY <2>2, FS_Interval
  <2>4. Cardinality(1 .. m) = m
    BY <2>2, <2>3
  <2> QED BY <2>4 DEF m
<1> QED BY <1>5, <1>6

\* The transcript, from the invariant.
LEMMA FaithfulOf == IInv => TranscriptFaithful
<1> SUFFICES ASSUME IInv PROVE TranscriptFaithful
  OBVIOUS
<1> DEFINE B == ByteOf(sent)
           t == transcript
           full == IF flushed = 0 THEN Len(t) ELSE flushed - 1
<1>1. /\ RecordsOK(sent) /\ Reading(sent, flushed, t, buffer, pipe) /\ Len(sent) \in Nat
      /\ t \in Seq(Seq(B)) /\ flushed \in 0 .. Len(t) /\ flushed <= Len(sent)
      /\ Upcoming(flushed, t) \in 1 .. Len(sent) + 1
      /\ \A i \in 1 .. full : t[i] = RawOf(sent, i)
      /\ flushed # 0 => /\ Begins(t[flushed], WireOf(sent, flushed))
                        /\ \A i \in flushed + 2 .. Len(t) : t[i] = RawOf(sent, i - 1)
  BY DEF IInv, Reading, RecordsOK, Full
<1>2. \A k : Raw(k) = RawOf(sent, k)
  BY DEF Raw, RawOf, Body
<1>3. full <= Len(sent)
  <2>1. Len(t) \in Nat
    BY <1>1
  <2> QED BY <1>1, <2>1 DEF Upcoming
<1>4. ASSUME flushed # 0
      PROVE  IsPrefix(t[flushed], Body(flushed) \o sent[flushed].ending)
  <2>1. flushed \in 1 .. Len(t) /\ flushed \in 1 .. Len(sent)
    BY <1>1, <1>4
  <2>2. t[flushed] \in Seq(B) /\ WireOf(sent, flushed) \in Seq(B)
    BY <1>1, <2>1, ElementOfSeq, WireIs
  <2>3. IsPrefix(t[flushed], WireOf(sent, flushed))
    BY <1>1, <1>4, <2>2, PrefixIs
  <2> QED BY <2>3 DEF WireOf, Body
<1>5. ASSUME pipe = <<>>, flushed = 0
      PROVE  Cardinality({k \in DOMAIN sent : sent[k].ending # <<>>}) = Len(t)
  <2>1. DOMAIN sent = 1 .. Len(sent)
    BY <1>1 DEF RecordsOK
  <2>2. Reading(sent, 0, t, buffer, <<>>)
    BY <1>1, <1>5
  <2> QED BY <1>1, <2>1, <2>2, NoneLeft
<1> QED BY <1>1, <1>2, <1>3, <1>4, <1>5 DEF TranscriptFaithful

\* Every variable keeps its type, and the parser never holds an LF back.
THEOREM StreamTypes == Spec => []TypeOK
BY StreamInductive, TypeOf, PTL

\* The parser's count is that of the malformed records in the transcript, and a protocol
\* failure has ended the run (RpcJsonlParser.acceptRecord, onStdout).
THEOREM ProtocolFailures == Spec => []ProtocolFailureEnds
BY StreamInductive, CountOf, PTL

\* However the output was cut into pieces, and whenever the child exits, the transcript has
\* its records, each once, in order and to the byte (RpcJsonlParser.feed and close).
THEOREM TranscriptIsFaithful == Spec => []TranscriptFaithful
BY StreamInductive, FaithfulOf, PTL

\* The live feed tells the records of the transcript, each once and in order, until a protocol
\* failure, and the ring has the end of it (handleRecord, FeedRing.push).
THEOREM ToldIsRead == Spec => []ToldAsRead
BY StreamInductive, ToldOf, PTL

------------------------------------------------------------------------------
(* The replay                                                              *)

\* A sequence is its first m elements and the others.
LEMMA CutAt ==
  ASSUME NEW S, NEW s \in Seq(S), NEW m \in 0 .. Len(s)
  PROVE  /\ SubSeq(s, 1, m) \in Seq(S) /\ Len(SubSeq(s, 1, m)) = m
         /\ \A i \in 1 .. m : SubSeq(s, 1, m)[i] = s[i]
         /\ SubSeq(s, m + 1, Len(s)) \in Seq(S) /\ Len(SubSeq(s, m + 1, Len(s))) = Len(s) - m
         /\ \A i \in 1 .. Len(s) - m : SubSeq(s, m + 1, Len(s))[i] = s[m + i]
         /\ s = SubSeq(s, 1, m) \o SubSeq(s, m + 1, Len(s))
<1> DEFINE L == Len(s)
           a == SubSeq(s, 1, m)
           b == SubSeq(s, m + 1, L)
           c == a \o b
<1>0. L \in Nat /\ m \in Nat /\ m <= L
  OBVIOUS
<1>1. a \in Seq(S) /\ Len(a) = m /\ \A i \in 1 .. m : a[i] = s[i]
  BY <1>0
<1>2. b \in Seq(S) /\ Len(b) = L - m /\ \A i \in 1 .. L - m : b[i] = s[m + i]
  BY <1>0
<1> HIDE DEF a, b, L
<1>3. /\ c \in Seq(S) /\ Len(c) = m + (L - m)
      /\ \A i \in 1 .. m + (L - m) : c[i] = IF i <= m THEN a[i] ELSE b[i - m]
  <2>1. /\ c \in Seq(S) /\ Len(c) = Len(a) + Len(b)
        /\ \A i \in 1 .. Len(a) + Len(b) : c[i] = IF i <= Len(a) THEN a[i] ELSE b[i - Len(a)]
    BY <1>1, <1>2, ConcatProperties
  <2> QED BY <1>1, <1>2, <2>1
<1> HIDE DEF c
<1>4. m + (L - m) = L /\ Len(s) = L
  BY <1>0 DEF L
<1>5. \A i \in 1 .. L : s[i] = c[i]
  <2> TAKE i \in 1 .. L
  <2>1. CASE i <= m
    <3>1. i \in 1 .. m
      BY <1>0, <2>1
    <3> QED BY <1>1, <1>3, <1>4, <2>1, <3>1
  <2>2. CASE ~ (i <= m)
    <3>1. i - m \in 1 .. L - m /\ m + (i - m) = i
      BY <1>0, <2>2
    <3> QED BY <1>2, <1>3, <1>4, <2>2, <3>1
  <2> QED BY <2>1, <2>2
<1>6. s = c
  BY <1>3, <1>4, <1>5, SeqEqual
<1> QED BY <1>1, <1>2, <1>6 DEF a, b, c, L

\* IsSuffix of the community modules.
LEMMA SuffixIs ==
  ASSUME NEW S, NEW x \in Seq(S), NEW s \in Seq(S)
  PROVE  IsSuffix(s, x \o s)
<1> DEFINE t == x \o s
           a == Reverse(s)
           b == Reverse(t)
           L == Len(s)
           M == Len(x)
<1>1. /\ t \in Seq(S) /\ L \in Nat /\ M \in Nat /\ Len(t) = M + L
      /\ \A i \in 1 .. M + L : t[i] = IF i <= M THEN x[i] ELSE s[i - M]
      /\ \A i \in 1 .. L : s[i] \in S
      /\ Len(s) = L
  BY ConcatProperties
<1> HIDE DEF t, L, M
<1>2. a = [i \in 1 .. L |-> s[(L - i) + 1]] /\ b = [i \in 1 .. M + L |-> t[(M + L - i) + 1]]
  BY <1>1 DEF Reverse
<1>3. \A i \in 1 .. L : (L - i) + 1 \in 1 .. L
  BY <1>1
<1>4. \A i \in 1 .. M + L : (M + L - i) + 1 \in 1 .. M + L
  BY <1>1
<1>5. \A i \in 1 .. M + L : t[i] \in S
  BY <1>1
<1> HIDE DEF a, b
<1>6. a \in [1 .. L -> S] /\ b \in [1 .. M + L -> S]
  BY <1>1, <1>2, <1>3, <1>4, <1>5
<1>7. a \in Seq(S) /\ Len(a) = L /\ b \in Seq(S) /\ Len(b) = M + L
  BY <1>1, <1>6
<1>8. \A i \in 1 .. L : a[i] = b[i]
  <2> TAKE i \in 1 .. L
  <2>1. i \in 1 .. M + L /\ (M + L - i) + 1 \in 1 .. M + L /\ ~ ((M + L - i) + 1 <= M)
        /\ ((M + L - i) + 1) - M = (L - i) + 1
    BY <1>1
  <2>2. b[i] = s[(L - i) + 1]
    BY <1>1, <1>2, <2>1
  <2> QED BY <1>2, <2>2
<1>9. Begins(a, b)
  BY <1>1, <1>7, <1>8 DEF Begins
<1>10. IsPrefix(a, b)
  BY <1>7, <1>9, PrefixIs
<1> QED BY <1>10 DEF IsSuffix, a, b, t

\* Empty parts.
LEMMA FlatNothing ==
  ASSUME NEW E, NEW parts \in Seq(Seq(E)), \A k \in 1 .. Len(parts) : parts[k] = <<>>
  PROVE  Flat(parts) = <<>>
<1> DEFINE S == Seq(E)
           U == {c \in Seq(S) : (\A k \in 1 .. Len(c) : c[k] = <<>>) => Flat(c) = <<>>}
<1>a. \A c : c \in U <=> c \in Seq(S) /\ ((\A k \in 1 .. Len(c) : c[k] = <<>>) => Flat(c) = <<>>)
  OBVIOUS
<1> HIDE DEF U
<1>1. <<>> \in U
  <2>1. <<>> \in Seq(S)
    OBVIOUS
  <2> QED BY <1>a, <2>1, FlatEmpty
<1>2. ASSUME NEW c \in Seq(S), NEW e \in S, c \in U PROVE Append(c, e) \in U
  <2> DEFINE d == Append(c, e)
  <2>1. Flat(d) = Flat(c) \o e
    BY FlatAppend
  <2> HIDE DEF S
  <2>2. /\ d \in Seq(S) /\ Len(d) = Len(c) + 1 /\ Len(c) \in Nat /\ d[Len(c) + 1] = e
        /\ \A k \in 1 .. Len(c) : d[k] = c[k]
    OBVIOUS
  <2> HIDE DEF d
  <2>3. ASSUME \A k \in 1 .. Len(d) : d[k] = <<>> PROVE Flat(d) = <<>>
    <3>1. e = <<>> /\ \A k \in 1 .. Len(c) : c[k] = <<>>
      <4>1. Len(c) + 1 \in 1 .. Len(d) /\ \A k \in 1 .. Len(c) : k \in 1 .. Len(d)
        BY <2>2
      <4> QED BY <2>2, <2>3, <4>1
    <3>2. Flat(c) = <<>>
      BY <1>2, <1>a, <3>1
    <3>3. <<>> \o <<>> = <<>>
      OBVIOUS
    <3> QED BY <2>1, <3>1, <3>2, <3>3
  <2> QED BY <1>a, <2>2, <2>3 DEF d
<1>3. parts \in U
  <2>1. Seq(S) \subseteq U
    BY <1>1, <1>2, SeqInduction
  <2> QED BY <2>1
<1> QED BY <1>3, <1>a

\* Without the first m parts: the end of the whole.
LEMMA FlatSuffix ==
  ASSUME NEW E, NEW a \in Seq(Seq(E)), NEW b \in Seq(Seq(E)), Len(a) = Len(b),
         NEW m \in 0 .. Len(a),
         \A k \in 1 .. Len(a) : b[k] = IF k <= m THEN <<>> ELSE a[k]
  PROVE  IsSuffix(Flat(b), Flat(a))
<1> DEFINE S == Seq(E)
           L == Len(a)
           a1 == SubSeq(a, 1, m)
           a2 == SubSeq(a, m + 1, L)
           b1 == SubSeq(b, 1, m)
           b2 == SubSeq(b, m + 1, L)
<1>0. a \in Seq(S) /\ b \in Seq(S) /\ L \in Nat /\ m \in Nat /\ m <= L /\ Len(b) = L
  OBVIOUS
<1>1. /\ a1 \in Seq(S) /\ a2 \in Seq(S) /\ a = a1 \o a2 /\ Len(a2) = L - m
      /\ \A i \in 1 .. L - m : a2[i] = a[m + i]
  <2> HIDE DEF S
  <2> QED BY ZenonT(60), <1>0, CutAt
<1>2. /\ b1 \in Seq(S) /\ b2 \in Seq(S) /\ b = b1 \o b2 /\ Len(b2) = L - m /\ Len(b1) = m
      /\ \A i \in 1 .. L - m : b2[i] = b[m + i]
      /\ \A i \in 1 .. m : b1[i] = b[i]
  <2> HIDE DEF S
  <2>1. m \in 0 .. Len(b)
    BY <1>0
  <2> DEFINE K == Len(b)
             c1 == SubSeq(b, 1, m)
             c2 == SubSeq(b, m + 1, K)
  <2>2. /\ c1 \in Seq(S) /\ c2 \in Seq(S) /\ b = c1 \o c2 /\ Len(c2) = K - m /\ Len(c1) = m
        /\ \A i \in 1 .. K - m : c2[i] = b[m + i]
        /\ \A i \in 1 .. m : c1[i] = b[i]
    BY ZenonT(60), <1>0, <2>1, CutAt
  <2>3. K = L
    BY <1>0
  <2>4. b1 = c1 /\ b2 = c2
    BY <2>3
  <2> HIDE DEF c1, c2, b1, b2, K, L
  <2> QED BY <2>2, <2>3, <2>4
<1> HIDE DEF a1, a2, b1, b2
<1>3. a2 = b2
  <2>1. \A i \in 1 .. L - m : m + i \in 1 .. L /\ ~ (m + i <= m)
    BY <1>0
  <2>2. \A i \in 1 .. L - m : a2[i] = b2[i]
    BY <1>1, <1>2, <2>1
  <2> HIDE DEF S
  <2> QED BY <1>1, <1>2, <2>2, SeqEqual
<1>4. Flat(b1) = <<>>
  <2>1. \A i \in 1 .. m : i \in 1 .. L /\ i <= m
    BY <1>0
  <2>2. \A i \in 1 .. Len(b1) : b1[i] = <<>>
    BY <1>2, <2>1
  <2> QED BY <1>2, <2>2, FlatNothing
<1>5. /\ Flat(a1) \in Seq(E) /\ Flat(a2) \in Seq(E)
      /\ Flat(a) = Flat(a1) \o Flat(a2)
      /\ Flat(b) = Flat(b1) \o Flat(a2)
  BY <1>1, <1>2, <1>3, FlatCat, FlatIn
<1>6. Flat(b) = Flat(a2)
  BY <1>4, <1>5, ConcatEmptySeq
<1>7. IsSuffix(Flat(a2), Flat(a1) \o Flat(a2))
  BY <1>5, SuffixIs
<1> QED BY <1>5, <1>6, <1>7

\* An event that the replay knows.
Kept(event) == IF event = "handoff" THEN <<>> ELSE <<event>>
KeptOf(events) == [k \in 1 .. Len(events) |-> Kept(events[k])]

\* Common as a list of parts.
LEMMA KeptIs ==
  ASSUME NEW events \in Seq(Event)
  PROVE  /\ KeptOf(events) \in Seq(Seq(Event)) /\ Len(KeptOf(events)) = Len(events)
         /\ Common(events) = Flat(KeptOf(events)) /\ Common(events) \in Seq(Event)
<1> DEFINE S == Seq(Event)
<1>1. \A k \in 1 .. Len(events) : Kept(events[k]) \in S
  <2> TAKE k \in 1 .. Len(events)
  <2>1. events[k] \in Event
    BY ElementOfSeq
  <2>2. <<>> \in S /\ <<events[k]>> \in S
    BY <2>1
  <2> QED BY <2>2 DEF Kept
<1>2. Len(events) \in Nat /\ DOMAIN events = 1 .. Len(events)
  OBVIOUS
<1> HIDE DEF S
<1>3. KeptOf(events) \in [1 .. Len(events) -> S]
  BY <1>1 DEF KeptOf
<1>4. KeptOf(events) \in Seq(S) /\ Len(KeptOf(events)) = Len(events)
  BY <1>2, <1>3
<1>5. Common(events) = Flat(KeptOf(events))
  BY <1>2 DEF Common, KeptOf, Kept
<1>6. Flat(KeptOf(events)) \in Seq(Event)
  BY <1>4, FlatIn DEF S
<1> QED BY <1>4, <1>5, <1>6 DEF S

\* Common of nothing,
LEMMA CommonEmpty == Common(<<>>) = <<>>
<1>1. <<>> \in Seq(Event)
  OBVIOUS
<1>2. KeptOf(<<>>) = <<>>
  BY DEF KeptOf
<1> QED BY <1>1, <1>2, KeptIs, FlatEmpty

\* of one event more,
LEMMA CommonAppend ==
  ASSUME NEW events \in Seq(Event), NEW e \in Event
  PROVE  Common(Append(events, e)) = Common(events) \o Kept(e)
<1> DEFINE S == Seq(Event)
           more == Append(events, e)
           a == KeptOf(events)
           b == KeptOf(more)
           c == Append(a, Kept(e))
<1>1. /\ more \in Seq(Event) /\ Len(more) = Len(events) + 1 /\ more[Len(events) + 1] = e
      /\ \A k \in 1 .. Len(events) : more[k] = events[k]
      /\ Len(events) \in Nat
  OBVIOUS
<1> HIDE DEF more
<1>2. Kept(e) \in S
  <2>1. <<>> \in S /\ <<e>> \in S
    OBVIOUS
  <2> QED BY <2>1 DEF Kept
<1>3. a \in Seq(S) /\ Len(a) = Len(events) /\ b \in Seq(S) /\ Len(b) = Len(events) + 1
  BY <1>1, KeptIs
<1>4. /\ \A k \in 1 .. Len(events) : a[k] = Kept(events[k])
      /\ \A k \in 1 .. Len(more) : b[k] = Kept(more[k])
  BY DEF KeptOf
<1> HIDE DEF a, b, S
<1>5. /\ c \in Seq(S) /\ Len(c) = Len(events) + 1 /\ c[Len(events) + 1] = Kept(e)
      /\ \A k \in 1 .. Len(events) : c[k] = a[k]
  BY <1>1, <1>2, <1>3
<1> HIDE DEF c
<1>6. \A k \in 1 .. Len(events) + 1 : b[k] = c[k]
  <2> TAKE k \in 1 .. Len(events) + 1
  <2>1. CASE k = Len(events) + 1
    BY <1>1, <1>4, <1>5, <2>1
  <2>2. CASE k # Len(events) + 1
    <3>1. k \in 1 .. Len(events)
      BY <1>1, <2>2
    <3> QED BY <1>1, <1>4, <1>5, <3>1
  <2> QED BY <2>1, <2>2
<1>7. b = c
  BY <1>3, <1>5, <1>6, SeqEqual
<1>8. Flat(c) = Flat(a) \o Kept(e)
  BY <1>2, <1>3, FlatAppend DEF c, S
<1>9. Common(more) = Flat(b) /\ Common(events) = Flat(a)
  BY <1>1, KeptIs DEF a, b
<1> QED BY <1>7, <1>8, <1>9 DEF more

\* and of two sequences.
LEMMA CommonCat ==
  ASSUME NEW a \in Seq(Event), NEW b \in Seq(Event)
  PROVE  Common(a \o b) = Common(a) \o Common(b)
<1> DEFINE U == {c \in Seq(Event) : Common(a \o c) = Common(a) \o Common(c)}
<1>a. \A c : c \in U <=> c \in Seq(Event) /\ Common(a \o c) = Common(a) \o Common(c)
  OBVIOUS
<1> HIDE DEF U
<1>1. <<>> \in U
  <2>1. a \o <<>> = a /\ Common(a) \in Seq(Event) /\ <<>> \in Seq(Event)
    BY ConcatEmptySeq, KeptIs
  <2>2. Common(a) \o <<>> = Common(a)
    BY <2>1, ConcatEmptySeq
  <2> QED BY <1>a, <2>1, <2>2, CommonEmpty
<1>2. ASSUME NEW c \in Seq(Event), NEW e \in Event, c \in U PROVE Append(c, e) \in U
  <2>1. a \o c \in Seq(Event) /\ a \o Append(c, e) = Append(a \o c, e) /\ Append(c, e) \in Seq(Event)
    OBVIOUS
  <2>2. Common(Append(a \o c, e)) = Common(a \o c) \o Kept(e)
    BY <2>1, CommonAppend
  <2>3. Common(Append(c, e)) = Common(c) \o Kept(e)
    BY CommonAppend
  <2>4. Common(a \o c) = Common(a) \o Common(c)
    BY <1>2, <1>a
  <2>5. Common(a) \in Seq(Event) /\ Common(c) \in Seq(Event) /\ Kept(e) \in Seq(Event)
    <3>1. <<>> \in Seq(Event) /\ <<e>> \in Seq(Event)
      OBVIOUS
    <3> QED BY <3>1, KeptIs DEF Kept
  <2>6. (Common(a) \o Common(c)) \o Kept(e) = Common(a) \o (Common(c) \o Kept(e))
    BY SMTT(60), <2>5, ConcatAssociative
  <2>7. Common(a \o Append(c, e)) = Common(a) \o Common(Append(c, e))
    BY <2>1, <2>2, <2>3, <2>4, <2>6
  <2> QED BY <1>a, <2>1, <2>7
<1>3. Seq(Event) \subseteq U
  BY <1>1, <1>2, SeqInduction
<1> QED BY <1>3, <1>a

AllCommon(c) == [k \in 1 .. Len(c) |-> Common(c[k])]

\* Common of each part is a list of parts.
LEMMA AllCommonIn ==
  ASSUME NEW c \in Seq(Seq(Event))
  PROVE  /\ AllCommon(c) \in Seq(Seq(Event)) /\ Len(AllCommon(c)) = Len(c)
         /\ \A k \in 1 .. Len(c) : AllCommon(c)[k] = Common(c[k])
<1> DEFINE S == Seq(Event)
<1>1. \A k \in 1 .. Len(c) : Common(c[k]) \in S
  <2> TAKE k \in 1 .. Len(c)
  <2>1. c[k] \in Seq(Event)
    BY ElementOfSeq
  <2> QED BY <2>1, KeptIs
<1>2. Len(c) \in Nat
  OBVIOUS
<1> HIDE DEF S
<1>3. AllCommon(c) \in [1 .. Len(c) -> S]
  BY <1>1 DEF AllCommon
<1>4. AllCommon(c) \in Seq(S) /\ Len(AllCommon(c)) = Len(c)
  BY SMTT(60), <1>2, <1>3
<1> QED BY <1>4 DEF AllCommon, S

\* ... also of one part more.
LEMMA AllCommonAppend ==
  ASSUME NEW c \in Seq(Seq(Event)), NEW e \in Seq(Event)
  PROVE  AllCommon(Append(c, e)) = Append(AllCommon(c), Common(e))
<1> DEFINE S == Seq(Event)
           d == Append(c, e)
           a == AllCommon(d)
           b == Append(AllCommon(c), Common(e))
<1>0. c \in Seq(S) /\ e \in S
  OBVIOUS
<1>1. /\ d \in Seq(S) /\ Len(d) = Len(c) + 1 /\ Len(c) \in Nat /\ d[Len(c) + 1] = e
      /\ \A k \in 1 .. Len(c) : d[k] = c[k]
  <2> HIDE DEF S
  <2> QED BY <1>0
<1> HIDE DEF d
<1>2. a \in Seq(S) /\ Len(a) = Len(c) + 1 /\ \A k \in 1 .. Len(d) : a[k] = Common(d[k])
  BY <1>1, AllCommonIn
<1>3. /\ AllCommon(c) \in Seq(S) /\ Len(AllCommon(c)) = Len(c) /\ Common(e) \in S
      /\ \A k \in 1 .. Len(c) : AllCommon(c)[k] = Common(c[k])
  BY AllCommonIn, KeptIs
<1> HIDE DEF S, a
<1>4. /\ b \in Seq(S) /\ Len(b) = Len(c) + 1 /\ b[Len(c) + 1] = Common(e)
      /\ \A k \in 1 .. Len(c) : b[k] = AllCommon(c)[k]
  BY <1>1, <1>3
<1> HIDE DEF b
<1>5. \A k \in 1 .. Len(c) + 1 : a[k] = b[k]
  <2> TAKE k \in 1 .. Len(c) + 1
  <2>1. CASE k = Len(c) + 1
    BY <1>1, <1>2, <1>4, <2>1
  <2>2. CASE k # Len(c) + 1
    <3>1. k \in 1 .. Len(c) /\ k \in 1 .. Len(d)
      BY <1>1, <2>2
    <3> QED BY <1>1, <1>2, <1>3, <1>4, <3>1
  <2> QED BY <2>1, <2>2
<1>6. a = b
  BY <1>2, <1>4, <1>5, SeqEqual
<1> QED BY <1>6 DEF a, b, d

\* Common of the whole is that of the parts.
LEMMA CommonFlat ==
  ASSUME NEW parts \in Seq(Seq(Event))
  PROVE  Common(Flat(parts)) = Flat(AllCommon(parts))
<1> DEFINE S == Seq(Event)
           U == {c \in Seq(S) : Common(Flat(c)) = Flat(AllCommon(c))}
<1>a. \A c : c \in U <=> c \in Seq(S) /\ Common(Flat(c)) = Flat(AllCommon(c))
  OBVIOUS
<1> HIDE DEF U
<1>1. <<>> \in U
  <2>1. <<>> \in Seq(S) /\ AllCommon(<<>>) = <<>>
    BY DEF AllCommon
  <2> QED BY <1>a, <2>1, FlatEmpty, CommonEmpty
<1>2. ASSUME NEW c \in Seq(S), NEW e \in S, c \in U PROVE Append(c, e) \in U
  <2>1. /\ Flat(c) \in Seq(Event) /\ Flat(Append(c, e)) = Flat(c) \o e
    BY FlatAppend
  <2>2. Common(Flat(c) \o e) = Common(Flat(c)) \o Common(e)
    BY <2>1, CommonCat
  <2>3. AllCommon(Append(c, e)) = Append(AllCommon(c), Common(e))
    BY AllCommonAppend
  <2>4. AllCommon(c) \in Seq(S) /\ Common(e) \in Seq(Event)
    BY AllCommonIn, KeptIs
  <2>5. Flat(Append(AllCommon(c), Common(e))) = Flat(AllCommon(c)) \o Common(e)
    BY <2>4, FlatAppend
  <2>6. Common(Flat(c)) = Flat(AllCommon(c))
    BY <1>2, <1>a
  <2> HIDE DEF S
  <2>7. Append(c, e) \in Seq(S)
    OBVIOUS
  <2> QED BY <1>a, <2>1, <2>2, <2>3, <2>5, <2>6, <2>7
<1>3. parts \in U
  <2>1. Seq(S) \subseteq U
    BY <1>1, <1>2, SeqInduction
  <2> QED BY <2>1
<1> QED BY <1>3, <1>a

\* Two elements.
LEMMA PairIs ==
  ASSUME NEW S, NEW x \in S, NEW y \in S
  PROVE  <<x>> \in Seq(S) /\ Append(<<x>>, y) = <<x, y>>
<1> DEFINE a == Append(<<x>>, y)
           b == <<x, y>>
<1>1. <<x>> \in Seq(S) /\ Len(<<x>>) = 1
  OBVIOUS
<1>2. a \in Seq(S) /\ Len(a) = 2 /\ a[1] = x /\ a[2] = y
  BY <1>1, AppendProperties
<1>3. b \in Seq(S) /\ Len(b) = 2 /\ b[1] = x /\ b[2] = y
  OBVIOUS
<1> HIDE DEF a, b
<1>4. \A i \in 1 .. 2 : a[i] = b[i]
  <2>1. \A i \in 1 .. 2 : i = 1 \/ i = 2
    OBVIOUS
  <2> QED BY <1>2, <1>3, <2>1
<1>5. a = b
  BY <1>2, <1>3, <1>4, SeqEqual
<1> QED BY <1>1, <1>5 DEF a, b

\* A handoff apart, the replay tells of a record what the live feed told of it.
LEMMA ReplayIs ==
  ASSUME NEW kind, kind # "unnamed"
  PROVE  Common(Live(kind)) = Replay(kind)
<1>1. ASSUME NEW e \in Event, e # "handoff" PROVE Common(<<e>>) = <<e>>
  <2>1. <<>> \in Seq(Event) /\ Append(<<>>, e) = <<e>> /\ <<e>> \in Seq(Event)
    OBVIOUS
  <2>2. Common(<<e>>) = Common(<<>>) \o Kept(e)
    BY <2>1, CommonAppend
  <2>3. Kept(e) = <<e>> /\ <<>> \o <<e>> = <<e>>
    BY <1>1, <2>1, ConcatEmptySeq DEF Kept
  <2> QED BY <2>2, <2>3, CommonEmpty
<1>2. /\ "tool_start" \in Event /\ "tool_end" \in Event /\ "handoff" \in Event
      /\ "assistant" \in Event /\ "provider_error" \in Event /\ "settled" \in Event
  BY DEF Event
<1>3. CASE kind = "start"
  BY <1>1, <1>2, <1>3 DEF Live, Replay
<1>4. CASE kind = "end"
  BY <1>1, <1>2, <1>4 DEF Live, Replay
<1>5. CASE kind = "handoff"
  <2>1. <<"tool_end">> \in Seq(Event) /\ Append(<<"tool_end">>, "handoff") = <<"tool_end", "handoff">>
    BY <1>2, PairIs
  <2>2. Common(<<"tool_end", "handoff">>) = Common(<<"tool_end">>) \o Kept("handoff")
    BY <1>2, <2>1, CommonAppend
  <2>3. Common(<<"tool_end">>) = <<"tool_end">>
    BY <1>1, <1>2
  <2>4. <<"tool_end">> \o <<>> = <<"tool_end">>
    BY <2>1, ConcatEmptySeq
  <2> QED BY <1>5, <2>2, <2>3, <2>4 DEF Live, Replay, Kept
<1>6. CASE kind = "text"
  BY <1>1, <1>2, <1>6 DEF Live, Replay
<1>7. CASE kind = "error"
  BY <1>1, <1>2, <1>7 DEF Live, Replay
<1>8. CASE kind = "settled"
  BY <1>1, <1>2, <1>8 DEF Live, Replay
<1>9. CASE kind \notin {"start", "end", "handoff", "text", "error", "settled"}
  BY <1>9, CommonEmpty DEF Live, Replay
<1> QED BY <1>3, <1>4, <1>5, <1>6, <1>7, <1>8, <1>9

\* Replay tells events.
LEMMA ReplayIn == \A kind : Replay(kind) \in Seq(Event)
<1> SUFFICES ASSUME NEW kind PROVE Replay(kind) \in Seq(Event)
  OBVIOUS
<1>1. Replay(kind) \in {<<"tool_start">>, <<"tool_end">>, <<"assistant">>, <<"provider_error">>,
                        <<"settled">>, <<>>}
  BY DEF Replay
<1>2. /\ <<"tool_start">> \in Seq(Event) /\ <<"tool_end">> \in Seq(Event)
      /\ <<"assistant">> \in Seq(Event) /\ <<"provider_error">> \in Seq(Event)
      /\ <<"settled">> \in Seq(Event) /\ <<>> \in Seq(Event)
  BY DEF Event
<1> QED BY <1>1, <1>2

\* Where the lines of the transcript start.
LineOf(n) == Append(Append(transcript[n], Brace), LF)
LinesBefore(k) == [n \in 1 .. k - 1 |-> LineOf(n)]

\* The bytes of a line are those of its record and two more.
LEMMA LineIn ==
  ASSUME NEW B, transcript \in Seq(Seq(B)), NEW n \in 1 .. Len(transcript)
  PROVE  /\ LineOf(n) \in Seq(B \cup {Brace, LF}) /\ Len(transcript[n]) \in Nat
         /\ Len(LineOf(n)) = Len(transcript[n]) + 2
<1> DEFINE C == B \cup {Brace, LF}
           t == transcript[n]
<1>1. t \in Seq(B)
  BY ElementOfSeq
<1>2. B \subseteq C /\ Brace \in C /\ LF \in C
  OBVIOUS
<1> HIDE DEF C, t
<1>3. t \in Seq(C) /\ Len(t) \in Nat
  BY <1>1, <1>2
<1>4. Append(t, Brace) \in Seq(C) /\ Len(Append(t, Brace)) = Len(t) + 1
  BY <1>2, <1>3
<1>5. Append(Append(t, Brace), LF) \in Seq(C) /\ Len(Append(Append(t, Brace), LF)) = Len(t) + 2
  BY <1>2, <1>3, <1>4
<1> QED BY <1>3, <1>5 DEF LineOf, C, t

\* The next line starts behind the LF of this one.
LEMMA StartNext ==
  ASSUME NEW B, transcript \in Seq(Seq(B)), NEW k \in 1 .. Len(transcript)
  PROVE  Start(k) \in Nat /\ Start(k + 1) = Start(k) + Len(transcript[k]) + 2
         /\ Len(transcript[k]) \in Nat
<1> DEFINE C == B \cup {Brace, LF}
           S == Seq(C)
           N == Len(transcript)
           a == LinesBefore(k)
           b == LinesBefore(k + 1)
           c == Append(a, LineOf(k))
<1>0. N \in Nat /\ k \in Nat /\ k - 1 \in Nat /\ (k + 1) - 1 = k /\ k >= 1 /\ k <= N
  OBVIOUS
<1>1. \A n \in 1 .. N : LineOf(n) \in S /\ Len(LineOf(n)) = Len(transcript[n]) + 2 /\ Len(transcript[n]) \in Nat
  BY LineIn
<1> HIDE DEF C, S
<1>2. a = [n \in 1 .. k - 1 |-> LineOf(n)] /\ b = [n \in 1 .. k |-> LineOf(n)]
  BY <1>0 DEF LinesBefore
<1>3. a \in [1 .. k - 1 -> S] /\ b \in [1 .. k -> S]
  <2>1. \A n \in 1 .. k : n \in 1 .. N
    BY <1>0
  <2>2. \A n \in 1 .. k - 1 : n \in 1 .. k
    BY <1>0
  <2> QED BY <1>1, <1>2, <2>1, <2>2
<1> HIDE DEF N
<1>4. a \in Seq(S) /\ Len(a) = k - 1 /\ b \in Seq(S) /\ Len(b) = k
  BY <1>0, <1>3
<1>5. LineOf(k) \in S /\ Len(LineOf(k)) = Len(transcript[k]) + 2 /\ Len(transcript[k]) \in Nat
  BY <1>1 DEF N
<1> HIDE DEF a, b
<1>6. /\ c \in Seq(S) /\ Len(c) = k /\ c[k] = LineOf(k)
      /\ \A n \in 1 .. k - 1 : c[n] = a[n]
  <2>1. Len(a) + 1 = k
    BY <1>0, <1>4
  <2> QED BY <1>0, <1>4, <1>5, <2>1
<1> HIDE DEF c
<1>7. \A n \in 1 .. k : b[n] = c[n]
  <2> TAKE n \in 1 .. k
  <2>1. CASE n = k
    BY <1>0, <1>2, <1>6, <2>1
  <2>2. CASE n # k
    <3>1. n \in 1 .. k - 1
      BY <1>0, <2>2
    <3> QED BY <1>2, <1>6, <3>1
  <2> QED BY <2>1, <2>2
<1>8. b = c
  BY <1>4, <1>6, <1>7, SeqEqual
<1>9. Flat(a) \in Seq(C) /\ Flat(c) = Flat(a) \o LineOf(k)
  BY <1>4, <1>5, FlatAppend DEF c, S
<1>10. LineOf(k) \in Seq(C)
  BY <1>5 DEF S
<1>11. Len(Flat(c)) = Len(Flat(a)) + Len(LineOf(k)) /\ Len(Flat(a)) \in Nat
  BY <1>9, <1>10
<1>12. Start(k) = Len(Flat(a)) /\ Start(k + 1) = Len(Flat(b))
  BY DEF Start, LinesBefore, LineOf, a, b
<1> QED BY <1>5, <1>8, <1>11, <1>12

\* Later lines start later.
LEMMA StartOrder ==
  ASSUME NEW B, transcript \in Seq(Seq(B)),
         NEW k \in 1 .. Len(transcript) + 1, NEW j \in 1 .. Len(transcript) + 1, k <= j
  PROVE  Start(k) \in Nat /\ Start(j) \in Nat /\ Start(k) <= Start(j)
<1> DEFINE N == Len(transcript)
<1>0. N \in Nat /\ \A i \in 1 .. N : /\ Start(i) \in Nat /\ Start(i + 1) = Start(i) + Len(transcript[i]) + 2
                                     /\ Len(transcript[i]) \in Nat
  BY StartNext
<1> HIDE DEF N
<1>1. Start(k) \in Nat
  <2>1. CASE k \in 1 .. N
    BY <1>0, <2>1
  <2>2. CASE k = N + 1 /\ N # 0
    <3>1. N \in 1 .. N
      BY <1>0, <2>2
    <3>2. Start(N + 1) \in Nat
      <4>1. /\ Start(N) \in Nat /\ Start(N + 1) = Start(N) + Len(transcript[N]) + 2
            /\ Len(transcript[N]) \in Nat
        BY <1>0, <3>1
      <4> QED BY <4>1
    <3> QED BY <2>2, <3>2
  <2>3. CASE k = N + 1 /\ N = 0
    <3>1. k = 1
      BY <2>3
    <3>2. [n \in 1 .. k - 1 |-> Append(Append(transcript[n], Brace), LF)] = <<>>
      BY <3>1
    <3>3. Start(k) = Len(<<>>)
      BY <3>2, FlatEmpty DEF Start
    <3> QED BY <3>3
  <2> QED BY <1>0, <2>1, <2>2, <2>3 DEF N
<1> DEFINE M == j - k
           T == {d \in 0 .. M : Start(k + d) \in Nat /\ Start(k) <= Start(k + d)}
<1>a. \A d : d \in T <=> d \in 0 .. M /\ Start(k + d) \in Nat /\ Start(k) <= Start(k + d)
  OBVIOUS
<1>2. M \in Nat /\ k + M = j /\ k + M <= N + 1 /\ k \in Nat /\ k >= 1
  BY <1>0 DEF N
<1> HIDE DEF T, M
<1>3. 0 \in T
  <2>1. 0 \in 0 .. M /\ k + 0 = k
    BY <1>2
  <2> QED BY <1>a, <1>1, <2>1
<1>4. ASSUME NEW d \in 0 .. M, d \in T, d < M PROVE d + 1 \in T
  <2>1. k + d \in 1 .. N /\ k + (d + 1) = (k + d) + 1 /\ d + 1 \in 0 .. M
    BY <1>0, <1>2, <1>4
  <2>2. Start((k + d) + 1) = Start(k + d) + Len(transcript[k + d]) + 2 /\ Len(transcript[k + d]) \in Nat
    BY <1>0, <2>1
  <2>3. Start(k + d) \in Nat /\ Start(k) <= Start(k + d)
    BY <1>4, <1>a
  <2>4. Start((k + d) + 1) \in Nat /\ Start(k) <= Start((k + d) + 1)
    <3> DEFINE first == Start(k)
               here == Start(k + d)
               next == Start((k + d) + 1)
               length == Len(transcript[k + d])
    <3>1. first \in Nat /\ here \in Nat /\ first <= here /\ next = here + length + 2 /\ length \in Nat
      BY <1>1, <2>2, <2>3
    <3> HIDE DEF first, here, next, length
    <3>2. next \in Nat /\ first <= next
      BY <3>1
    <3> QED BY <3>2 DEF first, next
  <2> QED BY <1>a, <2>1, <2>4
<1>5. M \in T
  <2>1. \A d \in 0 .. M : d \in T
    BY <1>2, <1>3, <1>4, InductionUpTo
  <2> QED BY <1>2, <2>1
<1> QED BY <1>1, <1>2, <1>5, <1>a

\* What is read back, when the lines in T are read.
Heard(T) ==
  [k \in 1 .. Len(transcript) |-> IF k \in T THEN Replay(Decoded(transcript[k])) ELSE <<>>]

\* What is read back is a list of events for each record.
LEMMA HeardIn ==
  ASSUME NEW S, transcript \in Seq(S), NEW T
  PROVE  /\ Heard(T) \in Seq(Seq(Event)) /\ Len(Heard(T)) = Len(transcript)
         /\ \A k \in 1 .. Len(transcript) :
              Heard(T)[k] = IF k \in T THEN Replay(Decoded(transcript[k])) ELSE <<>>
<1> DEFINE E == Seq(Event)
<1>1. <<>> \in E /\ \A k \in 1 .. Len(transcript) : Replay(Decoded(transcript[k])) \in E
  BY ReplayIn
<1>2. Len(transcript) \in Nat
  OBVIOUS
<1> HIDE DEF E
<1>3. Heard(T) \in [1 .. Len(transcript) -> E]
  BY <1>1 DEF Heard
<1>4. Heard(T) \in Seq(E) /\ Len(Heard(T)) = Len(transcript)
  BY <1>2, <1>3
<1> QED BY <1>4 DEF Heard, E

\* Peek reads the lines of the tail.
LEMMA PeekIs ==
  ASSUME NEW S, transcript \in Seq(S), NEW bytes
  PROVE  Peek(bytes) = Flat(Heard(TailLines(bytes)))
<1> DEFINE T == TailLines(bytes)
           read == [k \in DOMAIN transcript |-> IF k \in T THEN transcript[k] ELSE <<>>]
           N == Len(transcript)
<1>1. DOMAIN transcript = 1 .. N
  OBVIOUS
<1> HIDE DEF T
<1>2. Replay(Decoded(<<>>)) = <<>>
  <2>1. Decoded(<<>>) = "blank"
    BY RecordAssumption DEF Decoded, TooLarge, Parsed
  <2> QED BY <2>1 DEF Replay
<1>3. [k \in DOMAIN read |-> Replay(Decoded(read[k]))] = Heard(T)
  <2>1. DOMAIN read = 1 .. N /\ \A k \in 1 .. N : read[k] = IF k \in T THEN transcript[k] ELSE <<>>
    BY <1>1
  <2> HIDE DEF read
  <2>2. \A k \in 1 .. N : Replay(Decoded(read[k])) = IF k \in T THEN Replay(Decoded(transcript[k])) ELSE <<>>
    BY <1>2, <2>1
  <2> QED BY <2>1, <2>2 DEF Heard
<1>4. Peek(bytes) = Flat([k \in DOMAIN read |-> Replay(Decoded(read[k]))])
  BY DEF Peek, Story, T
<1> QED BY <1>3, <1>4 DEF T

\* The lines of which the tail has more than the LF.
Touched(bytes) ==
  {k \in 1 .. Len(transcript) : Start(k + 1) + bytes > Start(Len(transcript) + 1) + 1}

\* The order of the lines, as the tail sees it.
LEMMA TouchedIs ==
  ASSUME NEW B, transcript \in Seq(Seq(B)), NEW bytes \in 0 .. Start(Len(transcript) + 1)
  PROVE  /\ Start(Len(transcript) + 1) \in Nat
         /\ \A k \in 1 .. Len(transcript) :
              k \in TailLines(bytes) <=>
                /\ k \in Touched(bytes)
                /\ \/ Start(Len(transcript) + 1) <= bytes
                   \/ \E j \in Touched(bytes) : j < k
         /\ \A k \in 1 .. Len(transcript) :
              k \in InTail(bytes) <=> Start(k) + bytes >= Start(Len(transcript) + 1)
         /\ InTail(bytes) \subseteq Touched(bytes)
         /\ \A j \in Touched(bytes), k \in 1 .. Len(transcript) :
              j < k => k \in Touched(bytes) /\ k \in InTail(bytes)
         /\ Start(Len(transcript) + 1) <= bytes => Touched(bytes) = 1 .. Len(transcript)
<1> DEFINE N == Len(transcript)
           size == Start(N + 1)
<1>0. N \in Nat /\ DOMAIN transcript = 1 .. N
  OBVIOUS
<1>1. \A k, j \in 1 .. N + 1 : k <= j => Start(k) \in Nat /\ Start(j) \in Nat /\ Start(k) <= Start(j)
  BY StartOrder
<1>2. \A k \in 1 .. N : Start(k) \in Nat /\ Start(k + 1) \in Nat /\ Start(k + 1) >= Start(k) + 2
  <2> TAKE k \in 1 .. N
  <2> DEFINE here == Start(k)
             next == Start(k + 1)
             length == Len(transcript[k])
  <2>1. here \in Nat /\ next = here + length + 2 /\ length \in Nat
    BY StartNext
  <2> HIDE DEF here, next, length
  <2>2. here \in Nat /\ next \in Nat /\ next >= here + 2
    BY <2>1
  <2> QED BY <2>2 DEF here, next
<1>3. size \in Nat /\ bytes \in Nat
  <2>1. N + 1 \in 1 .. N + 1 /\ N + 1 <= N + 1
    BY <1>0
  <2>2. size \in Nat
    BY <1>1, <2>1
  <2> QED BY <2>2
<1>4. Touched(bytes) = {k \in 1 .. N : Start(k + 1) + bytes > size + 1}
  BY DEF Touched
<1>5. TailLines(bytes) = {k \in Touched(bytes) : size <= bytes \/ \E j \in Touched(bytes) : j < k}
  BY <1>0, <1>4 DEF TailLines
<1>6. InTail(bytes) = {k \in 1 .. N : Start(k) + bytes >= size}
  BY <1>0 DEF InTail
<1> HIDE DEF N, size
<1>7. ASSUME NEW k \in InTail(bytes) PROVE k \in Touched(bytes)
  <2>1. k \in 1 .. N /\ Start(k) + bytes >= size
    BY <1>6
  <2>2. Start(k) \in Nat /\ Start(k + 1) \in Nat /\ Start(k + 1) >= Start(k) + 2
    BY <1>2, <2>1
  <2> QED BY <1>3, <1>4, <2>1, <2>2
<1>8. ASSUME NEW j \in Touched(bytes), NEW k \in 1 .. N, j < k
      PROVE  k \in Touched(bytes) /\ k \in InTail(bytes)
  <2>1. j \in 1 .. N /\ Start(j + 1) + bytes > size + 1
    BY <1>4
  <2>2. j + 1 \in 1 .. N + 1 /\ k \in 1 .. N + 1 /\ j + 1 <= k
    BY <1>0, <1>8, <2>1
  <2>3. Start(j + 1) \in Nat /\ Start(k) \in Nat /\ Start(j + 1) <= Start(k)
    BY <1>1, <2>2
  <2>4. Start(k) + bytes >= size
    BY <1>3, <2>1, <2>3
  <2>5. k \in InTail(bytes)
    BY <1>6, <2>4
  <2> QED BY <1>7, <2>5
<1>9. ASSUME size <= bytes PROVE Touched(bytes) = 1 .. N
  <2>1. ASSUME NEW k \in 1 .. N PROVE Start(k + 1) + bytes > size + 1
    <3>1. Start(k) \in Nat /\ Start(k + 1) \in Nat /\ Start(k + 1) >= Start(k) + 2
      BY <1>2
    <3> QED BY <1>3, <1>9, <3>1
  <2> QED BY <1>4, <2>1
<1>10. /\ \A k \in 1 .. N : k \in TailLines(bytes) <=>
            k \in Touched(bytes) /\ (size <= bytes \/ \E j \in Touched(bytes) : j < k)
       /\ \A k \in 1 .. N : k \in InTail(bytes) <=> Start(k) + bytes >= size
  BY <1>5, <1>6
<1> QED BY <1>3, <1>7, <1>8, <1>9, <1>10 DEF N, size

\* The lines that are read are the last ones.
LEMMA TailIs ==
  ASSUME NEW B, transcript \in Seq(Seq(B)), NEW bytes \in 0 .. Start(Len(transcript) + 1)
  PROVE  \E m \in 0 .. Len(transcript) :
           \A k \in 1 .. Len(transcript) : k \in TailLines(bytes) <=> m < k
<1> DEFINE N == Len(transcript)
           size == Start(N + 1)
           T == Touched(bytes)
<1>0. N \in Nat
  OBVIOUS
<1>1. /\ \A k \in 1 .. N : k \in TailLines(bytes) <=>
            k \in T /\ (size <= bytes \/ \E j \in T : j < k)
      /\ \A j \in T, k \in 1 .. N : j < k => k \in T
      /\ size <= bytes => T = 1 .. N
  BY TouchedIs
<1>2. T \in SUBSET Nat /\ T \subseteq 1 .. N
  BY DEF Touched
<1> HIDE DEF N, size, T
<1>3. CASE size <= bytes
  <2>1. \A k \in 1 .. N : k \in TailLines(bytes) <=> 0 < k
    BY <1>1, <1>3
  <2>2. 0 \in 0 .. N
    BY <1>0
  <2> QED BY <2>1, <2>2 DEF N
<1>4. CASE ~ (size <= bytes) /\ T = {}
  <2>1. \A k \in 1 .. N : k \in TailLines(bytes) <=> N < k
    BY <1>0, <1>1, <1>4
  <2>2. N \in 0 .. N
    BY <1>0
  <2> QED BY <2>1, <2>2 DEF N
<1>5. CASE ~ (size <= bytes) /\ T # {}
  <2>1. PICK p \in T : \A n \in T : p <= n
    BY <1>2, <1>5, LeastNumber
  <2>2. p \in 1 .. N /\ p \in Nat
    BY <1>2
  <2>3. ASSUME NEW k \in 1 .. N PROVE k \in TailLines(bytes) <=> p < k
    <3>1. p < k => k \in TailLines(bytes)
      BY <1>1, <1>5, <2>1
    <3>2. ASSUME k \in TailLines(bytes) PROVE p < k
      <4>1. PICK j \in T : j < k
        BY <1>1, <1>5, <3>2
      <4>2. j \in 1 .. N /\ p <= j
        BY <1>2, <2>1
      <4> QED BY <1>0, <2>2, <4>1, <4>2
    <3> QED BY <3>1, <3>2
  <2>4. p \in 0 .. N
    BY <1>0, <2>2
  <2> QED BY <2>3, <2>4 DEF N
<1> QED BY <1>3, <1>4, <1>5

\* Live feed and replay, from the invariant.
LEMMA PeekOf == IInv => PeekAgrees
<1> SUFFICES ASSUME IInv PROVE PeekAgrees
  OBVIOUS
<1> DEFINE B == ByteOf(sent)
           N == Len(transcript)
           all == Start(N + 1)
           full == Heard(TailLines(all))
           same == flushed = 0 /\ \A k \in DOMAIN transcript : Parsed(transcript[k]) # "unnamed"
<1>1. /\ transcript \in Seq(Seq(B)) /\ LF \in B /\ N \in Nat /\ DOMAIN transcript = 1 .. N
      /\ Telling(sent, flushed, transcript, Failed, told, ring) /\ told \in Seq(Event)
  <2>1. transcript \in Seq(Seq(B)) /\ RecordsOK(sent)
    BY DEF IInv, Reading
  <2> QED BY <2>1, ByteIs DEF IInv, Typed
<1>2. all \in Nat
  <2>1. N + 1 \in 1 .. N + 1 /\ N + 1 <= N + 1
    BY <1>1
  <2> QED BY <1>1, <2>1, StartOrder
<1> HIDE DEF B, N
<1>3. \A k \in 1 .. N : k \in TailLines(all)
  <2>1. all \in 0 .. Start(Len(transcript) + 1) /\ Start(Len(transcript) + 1) <= all
    BY <1>2 DEF all, N
  <2>2. \A k \in 1 .. N : k \in TailLines(all) <=>
          k \in Touched(all) /\ (Start(Len(transcript) + 1) <= all \/ \E j \in Touched(all) : j < k)
    BY <1>1, <2>1, TouchedIs DEF N
  <2>3. Touched(all) = 1 .. N
    BY <1>1, <2>1, TouchedIs DEF N
  <2> QED BY <2>1, <2>2, <2>3
<1> HIDE DEF all
<1>4. /\ full \in Seq(Seq(Event)) /\ Len(full) = N
      /\ \A k \in 1 .. N : full[k] = Replay(Decoded(transcript[k]))
  <2>1. /\ full \in Seq(Seq(Event)) /\ Len(full) = N
        /\ \A k \in 1 .. N : full[k] = IF k \in TailLines(all) THEN Replay(Decoded(transcript[k])) ELSE <<>>
    BY <1>1, HeardIn DEF N
  <2> QED BY <1>3, <2>1
<1>5. Peek(all) = Flat(full) /\ Flat(full) \in Seq(Event)
  BY <1>1, <1>4, PeekIs, FlatIn
<1>6. ASSUME NEW bytes \in 0 .. all PROVE IsSuffix(Peek(bytes), Peek(all))
  <2>1. PICK m \in 0 .. N : \A k \in 1 .. N : k \in TailLines(bytes) <=> m < k
    BY <1>1, <1>6, TailIs DEF all, N
  <2> DEFINE part == Heard(TailLines(bytes))
  <2>2. /\ part \in Seq(Seq(Event)) /\ Len(part) = N
        /\ \A k \in 1 .. N : part[k] = IF k \in TailLines(bytes) THEN Replay(Decoded(transcript[k])) ELSE <<>>
    BY <1>1, HeardIn DEF N
  <2>3. Peek(bytes) = Flat(part)
    BY <1>1, PeekIs
  <2> HIDE DEF part, full
  <2>4. \A k \in 1 .. N : part[k] = IF k <= m THEN <<>> ELSE full[k]
    <3> TAKE k \in 1 .. N
    <3>1. m < k <=> ~ (k <= m)
      BY <1>1
    <3> QED BY <1>4, <2>1, <2>2, <3>1
  <2>5. IsSuffix(Flat(part), Flat(full))
    BY <1>4, <2>2, <2>4, FlatSuffix
  <2> QED BY <1>5, <2>3, <2>5
<1>7. ASSUME NEW bytes \in 0 .. all
      PROVE  /\ TailLines(bytes) \subseteq InTail(bytes)
             /\ \A j, k \in InTail(bytes) : j < k => k \in TailLines(bytes)
  <2> DEFINE size == Start(Len(transcript) + 1)
             T == Touched(bytes)
             R == TailLines(bytes)
             W == InTail(bytes)
  <2>1. /\ size \in Nat /\ bytes \in Nat
        /\ \A k \in 1 .. N : k \in R <=> k \in T /\ (size <= bytes \/ \E j \in T : j < k)
        /\ \A k \in 1 .. N : k \in W <=> Start(k) + bytes >= size
        /\ W \subseteq T
        /\ \A j \in T, k \in 1 .. N : j < k => k \in W
    BY <1>1, <1>7, TouchedIs DEF all, N
  <2>2. R \subseteq 1 .. N /\ W \subseteq 1 .. N
    BY <1>1 DEF TailLines, InTail
  <2>3. \A k \in 1 .. N : Start(k) \in Nat
    BY <1>1, StartNext DEF N
  <2> HIDE DEF size, T, R, W
  <2>4. ASSUME NEW k \in R PROVE k \in W
    <3>1. CASE size <= bytes
      BY <2>1, <2>2, <2>3, <3>1
    <3>2. CASE ~ (size <= bytes)
      BY <2>1, <2>2, <3>2
    <3> QED BY <3>1, <3>2
  <2>5. ASSUME NEW j \in W, NEW k \in W, j < k PROVE k \in R
    BY <2>1, <2>2, <2>5
  <2> QED BY <2>4, <2>5 DEF R, W
<1>8. ASSUME same PROVE /\ IsPrefix(Common(told), Peek(all))
                        /\ ~ Failed => Common(told) = Peek(all)
  <2> DEFINE tales == Tales(sent, transcript)
             story == Flat(tales)
  <2>1. flushed = 0 /\ \A k \in 1 .. N : Parsed(transcript[k]) # "unnamed"
    BY <1>1, <1>8
  <2>2. StoryOf(sent, flushed, transcript) = story
    BY <1>1, <2>1, MaskedNone DEF StoryOf
  <2>3. /\ tales \in Seq(Seq(Event)) /\ Len(tales) = N
        /\ \A k \in 1 .. N : tales[k] = Live(DecodedIn(sent, transcript[k]))
    BY <1>1, TalesIn DEF N
  <2> HIDE DEF full, tales, same
  <2>4. story \in Seq(Event) /\ IsPrefix(told, story) /\ (~ Failed => told = story)
    BY <1>1, <2>2, <2>3, FlatIn DEF Telling
  <2>5. AllCommon(tales) = full
    <3>1. /\ AllCommon(tales) \in Seq(Seq(Event)) /\ Len(AllCommon(tales)) = N
          /\ \A k \in 1 .. N : AllCommon(tales)[k] = Common(tales[k])
      BY <2>3, AllCommonIn
    <3>2. ASSUME NEW k \in 1 .. N PROVE AllCommon(tales)[k] = full[k]
      <4>1. Decoded(transcript[k]) # "unnamed"
        BY <2>1 DEF Decoded
      <4>2. tales[k] = Live(Decoded(transcript[k]))
        BY <2>3, DecodedIs
      <4>3. Common(Live(Decoded(transcript[k]))) = Replay(Decoded(transcript[k]))
        BY <4>1, ReplayIs
      <4> QED BY <1>4, <3>1, <4>2, <4>3
    <3> DEFINE x == AllCommon(tales)
    <3> HIDE DEF x
    <3>3. x \in Seq(Seq(Event)) /\ Len(x) = N /\ \A k \in 1 .. N : x[k] = full[k]
      BY <3>1, <3>2 DEF x
    <3> DEFINE S == Seq(Event)
    <3>4. x \in Seq(S) /\ full \in Seq(S)
      BY <1>4, <3>3
    <3> HIDE DEF S
    <3>5. x = full
      BY <1>4, <3>3, <3>4, SeqEqual
    <3> QED BY <3>5 DEF x
  <2>6. Common(story) = Peek(all)
    BY <1>5, <2>3, <2>5, CommonFlat
  <2> HIDE DEF story
  <2>7. IsPrefix(Common(told), Common(story))
    <3> DEFINE n == Len(told)
               rest == SubSeq(story, n + 1, Len(story))
    <3>1. Begins(told, story)
      BY <1>1, <2>4, PrefixIs
    <3>2. n \in 0 .. Len(story) /\ n \in Nat /\ Len(story) \in Nat
      BY <1>1, <2>4, <3>1 DEF Begins
    <3>3. /\ SubSeq(story, 1, n) \in Seq(Event) /\ Len(SubSeq(story, 1, n)) = n
          /\ \A i \in 1 .. n : SubSeq(story, 1, n)[i] = story[i]
          /\ rest \in Seq(Event) /\ story = SubSeq(story, 1, n) \o rest
      BY <2>4, <3>2, CutAt
    <3>4. told = SubSeq(story, 1, n)
      <4> DEFINE q == SubSeq(story, 1, n)
      <4>1. q \in Seq(Event) /\ Len(q) = n /\ \A i \in 1 .. n : told[i] = q[i]
        BY <3>1, <3>3 DEF Begins
      <4> HIDE DEF q
      <4>2. told = q
        BY <1>1, <4>1, SeqEqual
      <4> QED BY <4>2 DEF q
    <3> HIDE DEF rest, n
    <3>5. Common(story) = Common(told) \o Common(rest)
      BY <1>1, <3>3, <3>4, CommonCat
    <3>6. Common(told) \in Seq(Event) /\ Common(rest) \in Seq(Event)
      BY <1>1, <3>3, KeptIs
    <3> QED BY <3>5, <3>6, PrefixSelf, PrefixCat
  <2> QED BY <2>4, <2>6, <2>7
<1> QED BY <1>6, <1>7, <1>8 DEF PeekAgrees, all, N

\* What is read back from the transcript is what was told live, and to read back less of the
\* file is to see less of the beginning only (feedEventsFromTranscript, readTranscriptTail).
THEOREM PeekIsAgreed == Spec => []PeekAgrees
BY StreamInductive, PeekOf, PTL
=============================================================================
