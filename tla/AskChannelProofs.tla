-------------------------- MODULE AskChannelProofs --------------------------
(***************************************************************************)
(* Theorems about AskChannel, for every set of runs and calls and all the  *)
(* budgets. What the parent knows of a call lags behind the child by the   *)
(* records in the pipe: the invariant says which they can be.              *)
(***************************************************************************)
EXTENDS AskChannel, FiniteSetTheorems, TLAPS

Record == [call : Calls, phase : {"start", "end"}]

\* The types alone.
Typed ==
  /\ alive \subseteq Runs /\ done \subseteq Runs /\ current \subseteq Runs /\ lapsed \subseteq Runs
  /\ kind \in [Calls -> {"none", "question", "note"}] /\ status \in [Calls -> Statuses]
  /\ late \subseteq Calls /\ askOpenIds \subseteq Calls
  /\ questionsAsked \in [Runs -> Nat] /\ notesFiled \in [Runs -> 0..MaxNotes]
  /\ pipe \in [Runs -> Seq(Record)]
  /\ session \in {"open", "tree", "closed"}
  /\ pending \in [Runs -> Calls \cup {NoCall}] /\ registered \in [Runs -> Calls \cup {NoCall}]
  /\ buffer \subseteq Calls /\ shown \subseteq Calls
  /\ answer \in [Calls -> Calls \cup {NoCall}] /\ moves \in 0..MaxMoves

Has(s, x) == \E i \in 1..Len(s) : s[i] = x

\* Records of one run, each once, a call's start before its end.
Ordered(s, r) ==
  \A i, j \in 1..Len(s) :
    /\ RunOf[s[i].call] = r
    /\ s[i] = s[j] => i = j
    /\ (s[i].call = s[j].call /\ s[i].phase = "start" /\ s[j].phase = "end") => i < j

PipeOrdered == \A r \in Runs : Ordered(pipe[r], r)

\* The start, or the end, of a call is still to be read.
Starts(c) == Has(pipe[RunOf[c]], Start(c))
Ends(c) == Has(pipe[RunOf[c]], End(c))

\* What a call has written, by its status.
WrittenBy(c) ==
  /\ status[c] = "unmade" <=> kind[c] = "none"
  /\ status[c] = "unmade" => ~Starts(c) /\ ~Ends(c) /\ c \notin askOpenIds
  /\ status[c] \in Blocked =>
       kind[c] = "question" /\ ~Ends(c) /\ (Starts(c) \/ c \in askOpenIds)
  /\ status[c] \notin Blocked \cup {"dead"} => (Starts(c) => Ends(c))
  /\ status[c] = "dead" => RunOf[c] \notin alive

Written == \A c \in Calls : WrittenBy(c)

\* What the runner has open: questions whose start it has read, and whose end it
\* has not.
OpenIsRead ==
  \A c \in askOpenIds :
    /\ kind[c] = "question" /\ ~Starts(c)
    /\ status[c] \in Blocked \cup {"dead"} \/ Ends(c)

\* Only a question whose start was read is pending, or answered.
PendingIsRead ==
  /\ \A r \in Runs : pending[r] # NoCall => answer[pending[r]] = NoCall
  /\ \A r \in Runs, c \in Calls :
       c \in {pending[r], registered[r]} => RunOf[c] = r /\ kind[c] = "question" /\ ~Starts(c)
  /\ \A c \in Calls : Starts(c) \/ kind[c] = "none" => answer[c] = NoCall

\* A run is stale only after a session was closed.
StaleIsLapsed ==
  /\ Runs \ lapsed \subseteq current
  /\ session = "closed" => lapsed = Runs

\* The questions of a run that ever blocked, against its counter.
BudgetKept ==
  \A r \in Runs :
    /\ Cardinality(Waited \cap CallsOf(r)) <= MaxQuestions
    /\ Cardinality(Waited \cap CallsOf(r)) <= questionsAsked[r]

\* The inductive invariant.
IInv ==
  /\ Typed /\ PipeOrdered /\ Written /\ OpenIsRead /\ PendingIsRead /\ StaleIsLapsed
  /\ BudgetKept /\ LatestStaysPending /\ PendingIsOpen

------------------------------------------------------------------------------
(* Records and pipes                                                       *)

\* The records of the calls are told apart.
LEMMA RecordsDiffer ==
  ASSUME NEW c \in Calls, NEW d \in Calls
  PROVE  /\ Start(c) \in Record /\ End(c) \in Record
         /\ Start(c) # End(d)
         /\ Start(c) = Start(d) <=> c = d
         /\ End(c) = End(d) <=> c = d
         /\ Start(c).call = c /\ Start(c).phase = "start"
         /\ End(c).call = c /\ End(c).phase = "end"
BY DEF Start, End, Record

\* A record is the start or the end of its call.
LEMMA RecordIs ==
  ASSUME NEW x \in Record
  PROVE  x.call \in Calls /\ (x = Start(x.call) \/ x = End(x.call))
         /\ (x.phase = "start" => x = Start(x.call)) /\ (x.phase = "end" => x = End(x.call))
BY DEF Start, End, Record

\* Writing one record.
LEMMA WriteOne ==
  ASSUME NEW s \in Seq(Record), NEW x \in Record
  PROVE  /\ s \o <<x>> \in Seq(Record)
         /\ \A y : Has(s \o <<x>>, y) <=> (Has(s, y) \/ y = x)
<1> DEFINE t == s \o <<x>>
<1>1. /\ t \in Seq(Record) /\ Len(t) = Len(s) + 1
      /\ \A i \in 1..Len(s) : t[i] = s[i]
      /\ t[Len(s) + 1] = x
  OBVIOUS
<1>2. Len(s) \in Nat
  OBVIOUS
<1> HIDE DEF t
<1>3. ASSUME NEW y, Has(t, y) PROVE Has(s, y) \/ y = x
  <2>1. PICK i \in 1..Len(t) : t[i] = y
    BY <1>3 DEF Has
  <2>2. CASE i = Len(s) + 1
    BY <1>1, <2>1, <2>2
  <2>3. CASE i # Len(s) + 1
    <3>1. i \in 1..Len(s)
      BY <1>1, <1>2, <2>3
    <3> QED BY <1>1, <2>1, <3>1 DEF Has
  <2> QED BY <2>2, <2>3
<1>4. ASSUME NEW y, Has(s, y) \/ y = x PROVE Has(t, y)
  <2>1. 1..Len(s) \subseteq 1..Len(t) /\ Len(s) + 1 \in 1..Len(t)
    BY <1>1, <1>2
  <2> QED BY <1>1, <1>4, <2>1 DEF Has
<1> QED BY <1>1, <1>3, <1>4 DEF t

\* ... keeps the order, if it is not there yet, and no start comes after its end.
LEMMA WriteOneOrdered ==
  ASSUME NEW r, NEW s \in Seq(Record), Ordered(s, r),
         NEW x \in Record, RunOf[x.call] = r, ~Has(s, x),
         x.phase = "start" => ~Has(s, End(x.call))
  PROVE  Ordered(s \o <<x>>, r)
<1> DEFINE t == s \o <<x>>
           n == Len(s)
<1>1. /\ t \in Seq(Record) /\ Len(t) = n + 1 /\ n \in Nat
      /\ \A i \in 1..n : t[i] = s[i]
      /\ t[n + 1] = x
  OBVIOUS
<1> HIDE DEF t
<1>2. ASSUME NEW i \in 1..n
      PROVE  s[i] \in Record /\ s[i] # x
             /\ ~(x.phase = "start" /\ s[i].call = x.call /\ s[i].phase = "end")
  <2>1. s[i] \in Record
    OBVIOUS
  <2>2. s[i] # x
    BY <2>1 DEF Has
  <2>3. s[i].phase = "end" => s[i] = End(s[i].call)
    BY <2>1, RecordIs
  <2> QED BY <2>1, <2>2, <2>3 DEF Has
<1> SUFFICES ASSUME NEW i \in 1..Len(t), NEW j \in 1..Len(t)
             PROVE  /\ RunOf[t[i].call] = r
                    /\ t[i] = t[j] => i = j
                    /\ (t[i].call = t[j].call /\ t[i].phase = "start" /\ t[j].phase = "end") => i < j
  BY DEF Ordered, t
<1>3. (i \in 1..n \/ i = n + 1) /\ (j \in 1..n \/ j = n + 1)
  BY <1>1
<1>4. CASE i \in 1..n /\ j \in 1..n
  BY <1>1, <1>4 DEF Ordered
<1>5. CASE i \in 1..n /\ j = n + 1
  <2>1. RunOf[t[i].call] = r
    BY <1>1, <1>5 DEF Ordered
  <2>2. t[i] # t[j] /\ i < j
    BY <1>1, <1>2, <1>5
  <2> QED BY <2>1, <2>2
<1>6. CASE i = n + 1 /\ j \in 1..n
  BY <1>1, <1>2, <1>6
<1>7. CASE i = n + 1 /\ j = n + 1
  BY <1>1, <1>7, RecordIs
<1> QED BY <1>3, <1>4, <1>5, <1>6, <1>7

\* Writing the start and the end of a call that has written nothing.
LEMMA WriteBoth ==
  ASSUME NEW r, NEW s \in Seq(Record), Ordered(s, r),
         NEW c \in Calls, RunOf[c] = r, ~Has(s, Start(c)), ~Has(s, End(c))
  PROVE  /\ s \o <<Start(c), End(c)>> \in Seq(Record)
         /\ \A y : Has(s \o <<Start(c), End(c)>>, y) <=> (Has(s, y) \/ y \in {Start(c), End(c)})
         /\ Ordered(s \o <<Start(c), End(c)>>, r)
<1> DEFINE t == s \o <<Start(c)>>
<1>1. /\ t \in Seq(Record) /\ Ordered(t, r)
      /\ \A y : Has(t, y) <=> (Has(s, y) \/ y = Start(c))
  BY RecordsDiffer, WriteOne, WriteOneOrdered
<1>2. s \o <<Start(c), End(c)>> = t \o <<End(c)>>
  BY RecordsDiffer
<1> HIDE DEF t
<1>3. ~Has(t, End(c))
  BY <1>1, RecordsDiffer
<1>4. /\ t \o <<End(c)>> \in Seq(Record) /\ Ordered(t \o <<End(c)>>, r)
      /\ \A y : Has(t \o <<End(c)>>, y) <=> (Has(t, y) \/ y = End(c))
  BY <1>1, <1>3, RecordsDiffer, WriteOne, WriteOneOrdered
<1> QED BY <1>1, <1>2, <1>4

\* Reading one record.
LEMMA ReadOne ==
  ASSUME NEW r, NEW s \in Seq(Record), Ordered(s, r), s # <<>>
  PROVE  /\ Head(s) \in Record /\ Has(s, Head(s)) /\ RunOf[Head(s).call] = r
         /\ Tail(s) \in Seq(Record) /\ Ordered(Tail(s), r)
         /\ \A y : Has(Tail(s), y) <=> (Has(s, y) /\ y # Head(s))
         /\ Head(s).phase = "end" => ~Has(s, Start(Head(s).call))
<1> DEFINE t == Tail(s)
           n == Len(t)
<1>1. /\ t \in Seq(Record) /\ n \in Nat /\ Len(s) = n + 1
      /\ \A i \in 1..n : t[i] = s[i + 1]
      /\ Head(s) = s[1] /\ s[1] \in Record
  OBVIOUS
<1> HIDE DEF t
<1>2. 1 \in 1..Len(s) /\ \A i \in 1..n : i + 1 \in 1..Len(s) /\ i + 1 # 1
  BY <1>1
<1>3. Has(s, Head(s)) /\ RunOf[Head(s).call] = r
  BY <1>1, <1>2 DEF Has, Ordered
<1>4. Ordered(t, r)
  BY <1>1, <1>2 DEF Ordered
<1>5. ASSUME NEW y, Has(t, y) PROVE Has(s, y) /\ y # Head(s)
  BY <1>1, <1>2, <1>5 DEF Has, Ordered
<1>6. ASSUME NEW y, Has(s, y), y # Head(s) PROVE Has(t, y)
  <2>1. PICK i \in 1..Len(s) : s[i] = y
    BY <1>6 DEF Has
  <2>2. i # 1
    BY <1>1, <1>6, <2>1
  <2>3. i - 1 \in 1..n /\ (i - 1) + 1 = i
    BY <1>1, <2>2
  <2> QED BY <1>1, <2>1, <2>3 DEF Has
<1>7. ASSUME Head(s).phase = "end" PROVE ~Has(s, Start(Head(s).call))
  <2> SUFFICES ASSUME NEW i \in 1..Len(s), s[i] = Start(s[1].call) PROVE FALSE
    BY <1>1 DEF Has
  <2>1. s[i].call = s[1].call /\ s[i].phase = "start"
    BY <1>1, RecordIs, RecordsDiffer
  <2>2. i < 1
    BY <1>1, <1>2, <1>7, <2>1 DEF Ordered
  <2> QED BY <2>2
<1> QED BY <1>1, <1>3, <1>4, <1>5, <1>6, <1>7 DEF t

------------------------------------------------------------------------------
(* The budget                                                              *)

\* Nothing new blocks: the counts stand.
LEMMA NoNewQuestion ==
  ASSUME Typed, BudgetKept, questionsAsked' \in [Runs -> Nat],
         \A r \in Runs : questionsAsked[r] <= questionsAsked'[r],
         Waited' \subseteq Waited
  PROVE  BudgetKept'
<1> SUFFICES ASSUME NEW r \in Runs
             PROVE  /\ Cardinality(Waited' \cap CallsOf(r)) <= MaxQuestions
                    /\ Cardinality(Waited' \cap CallsOf(r)) <= questionsAsked'[r]
  BY DEF BudgetKept, CallsOf
<1>1. IsFiniteSet(Waited \cap CallsOf(r))
  <2>1. Waited \cap CallsOf(r) \subseteq Calls
    BY DEF CallsOf
  <2> QED BY <2>1, CallsAssumption, FS_Subset
<1>2. /\ Cardinality(Waited' \cap CallsOf(r)) <= Cardinality(Waited \cap CallsOf(r))
      /\ Cardinality(Waited' \cap CallsOf(r)) \in Nat
      /\ Cardinality(Waited \cap CallsOf(r)) \in Nat
  <2>1. Waited' \cap CallsOf(r) \subseteq Waited \cap CallsOf(r)
    OBVIOUS
  <2> QED BY <1>1, <2>1, FS_Subset, FS_CardinalityType
<1>3. /\ Cardinality(Waited \cap CallsOf(r)) <= MaxQuestions
      /\ Cardinality(Waited \cap CallsOf(r)) <= questionsAsked[r]
  BY DEF BudgetKept
<1>4. questionsAsked[r] \in Nat /\ questionsAsked'[r] \in Nat /\ questionsAsked[r] <= questionsAsked'[r]
  BY DEF Typed
<1> QED BY <1>2, <1>3, <1>4, BudgetAssumption

\* One question more blocks, and is counted.
LEMMA OneNewQuestion ==
  ASSUME Typed, BudgetKept, NEW c \in Calls,
         questionsAsked' = [questionsAsked EXCEPT ![RunOf[c]] = @ + 1],
         ~OverBudget(questionsAsked[RunOf[c]] + 1),
         Waited' \subseteq Waited \cup {c}
  PROVE  BudgetKept'
<1> SUFFICES ASSUME NEW r \in Runs
             PROVE  /\ Cardinality(Waited' \cap CallsOf(r)) <= MaxQuestions
                    /\ Cardinality(Waited' \cap CallsOf(r)) <= questionsAsked'[r]
  BY DEF BudgetKept, CallsOf
<1> DEFINE W == Waited \cap CallsOf(r)
<1>1. IsFiniteSet(W)
  <2>1. W \subseteq Calls
    BY DEF CallsOf
  <2> QED BY <2>1, CallsAssumption, FS_Subset
<1>2. /\ Cardinality(W) <= MaxQuestions /\ Cardinality(W) <= questionsAsked[r]
      /\ Cardinality(W) \in Nat /\ questionsAsked[r] \in Nat
  BY <1>1, FS_CardinalityType DEF BudgetKept, Typed
<1>3. CASE RunOf[c] = r
  <2>1. Waited' \cap CallsOf(r) \subseteq W \cup {c}
    OBVIOUS
  <2>2. /\ IsFiniteSet(W \cup {c})
        /\ Cardinality(W \cup {c}) = Cardinality(W) \/ Cardinality(W \cup {c}) = Cardinality(W) + 1
    BY <1>1, FS_AddElement
  <2>3. /\ Cardinality(Waited' \cap CallsOf(r)) <= Cardinality(W \cup {c})
        /\ Cardinality(Waited' \cap CallsOf(r)) \in Nat
    BY <2>1, <2>2, FS_Subset, FS_CardinalityType
  <2>4. questionsAsked'[r] = questionsAsked[r] + 1 /\ questionsAsked[r] + 1 <= MaxQuestions
    BY <1>2, <1>3, BudgetAssumption DEF Typed, OverBudget
  <2> QED BY <1>2, <2>2, <2>3, <2>4, BudgetAssumption
<1>4. CASE RunOf[c] # r
  <2>1. Waited' \cap CallsOf(r) \subseteq W
    BY <1>4 DEF CallsOf
  <2>2. Cardinality(Waited' \cap CallsOf(r)) <= Cardinality(W)
        /\ Cardinality(Waited' \cap CallsOf(r)) \in Nat
    BY <1>1, <2>1, FS_Subset, FS_CardinalityType
  <2>3. questionsAsked'[r] = questionsAsked[r]
    BY <1>4, CallsAssumption DEF Typed
  <2> QED BY <1>2, <2>2, <2>3, BudgetAssumption
<1> QED BY <1>3, <1>4

------------------------------------------------------------------------------
(* The steps of the child                                                  *)

\* Nothing was asked yet.
LEMMA InitInvariant == Init => IInv
<1> SUFFICES ASSUME Init PROVE IInv
  OBVIOUS
<1> USE CallsAssumption, BudgetAssumption DEF Init
<1>1. Typed
  BY DEF Typed, Statuses, Blocked
<1>2. \A r \in Runs : pipe[r] = <<>> /\ Len(pipe[r]) = 0
  OBVIOUS
<1>3. PipeOrdered
  BY <1>2 DEF PipeOrdered, Ordered
<1>4. \A c \in Calls : ~Starts(c) /\ ~Ends(c)
  BY <1>2 DEF Starts, Ends, Has
<1>5. Written
  BY <1>4 DEF Written, WrittenBy, Blocked
<1>6. OpenIsRead /\ PendingIsRead /\ StaleIsLapsed
  BY <1>4 DEF OpenIsRead, PendingIsRead, StaleIsLapsed
<1>7. BudgetKept
  <2>1. \A r \in Runs : Waited \cap CallsOf(r) = {}
    BY DEF Waited, Questions
  <2>2. Cardinality({}) = 0
    BY FS_EmptySet
  <2>3. \A r \in Runs : questionsAsked[r] = 0
    OBVIOUS
  <2>4. \A r \in Runs : Cardinality(Waited \cap CallsOf(r)) = 0
    BY <2>1, <2>2, Zenon
  <2>5. MaxQuestions >= 0
    OBVIOUS
  <2> HIDE DEF Init
  <2> QED BY <2>3, <2>4, <2>5 DEF BudgetKept
<1>8. LatestStaysPending /\ PendingIsOpen
  BY DEF LatestStaysPending, PendingIsOpen
<1> QED BY <1>1, <1>3, <1>5, <1>6, <1>7, <1>8 DEF IInv

\* A call that returns at once: rejected, or a note that is filed.
LEMMA ReturnsAtOnce ==
  ASSUME IInv, NEW c \in Calls, NEW k \in {"question", "note"}, NEW as \in {"rejected", "noted"},
         MakesAndReturns(c, k, as),
         questionsAsked' \in [Runs -> Nat], notesFiled' \in [Runs -> 0..MaxNotes],
         \A r \in Runs : questionsAsked[r] <= questionsAsked'[r]
  PROVE  IInv'
<1> USE CallsAssumption DEF IInv, Typed
<1> DEFINE q == RunOf[c]
<1>1. /\ q \in Runs /\ q \in alive /\ kind[c] = "none" /\ status[c] = "unmade"
      /\ kind' = [kind EXCEPT ![c] = k] /\ status' = [status EXCEPT ![c] = as]
      /\ pipe' = [pipe EXCEPT ![q] = pipe[q] \o <<Start(c), End(c)>>]
      /\ UNCHANGED <<alive, late, askOpenIds, managerVars, answer, history>>
  BY DEF MakesAndReturns, Makes, Emit, Written, WrittenBy
<1>2. /\ pipe[q] \in Seq(Record) /\ Ordered(pipe[q], q)
      /\ ~Has(pipe[q], Start(c)) /\ ~Has(pipe[q], End(c)) /\ c \notin askOpenIds /\ answer[c] = NoCall
  BY <1>1 DEF PipeOrdered, Written, WrittenBy, Starts, Ends, PendingIsRead
<1>3. /\ pipe'[q] \in Seq(Record) /\ Ordered(pipe'[q], q)
      /\ \A y : Has(pipe'[q], y) <=> (Has(pipe[q], y) \/ y \in {Start(c), End(c)})
      /\ \A r \in Runs \ {q} : pipe'[r] = pipe[r]
  BY <1>1, <1>2, WriteBoth
<1>4. /\ \A d \in Calls \ {c} : (Starts(d)' <=> Starts(d)) /\ (Ends(d)' <=> Ends(d))
      /\ Starts(c)' /\ Ends(c)'
  <2>1. ASSUME NEW d \in Calls \ {c}
        PROVE  (Starts(d)' <=> Starts(d)) /\ (Ends(d)' <=> Ends(d))
    <3>1. RunOf[d] \in Runs /\ Start(d) \notin {Start(c), End(c)} /\ End(d) \notin {Start(c), End(c)}
      BY RecordsDiffer
    <3> QED BY <1>3, <3>1 DEF Starts, Ends
  <2> QED BY <1>3, <2>1 DEF Starts, Ends
<1>5. /\ \A d \in Calls \ {c} : status'[d] = status[d] /\ kind'[d] = kind[d]
      /\ status'[c] = as /\ kind'[c] = k
  BY <1>1
<1>6. Typed'
  <2>1. pipe' \in [Runs -> Seq(Record)]
    BY <1>1, <1>3
  <2> QED BY <1>1, <2>1 DEF Statuses, Blocked, managerVars, history
<1>7. PipeOrdered'
  BY <1>3 DEF PipeOrdered
<1>8. Written'
  <2>1. WrittenBy(c)'
    BY <1>1, <1>2, <1>4, <1>5 DEF WrittenBy, Blocked
  <2>2. ASSUME NEW d \in Calls \ {c} PROVE WrittenBy(d)'
    <3>1. WrittenBy(d)
      BY DEF Written
    <3> QED BY <1>1, <1>4, <1>5, <3>1 DEF WrittenBy, Blocked
  <2> QED BY <2>1, <2>2 DEF Written
<1>9. OpenIsRead'
  BY <1>1, <1>2, <1>4, <1>5 DEF OpenIsRead
<1>10. PendingIsRead'
  <2>1. \A r \in Runs : c \notin {pending[r], registered[r]}
    BY <1>1 DEF PendingIsRead
  <2>2. UNCHANGED <<pending, registered, answer>>
    BY <1>1 DEF managerVars, history
  <2>3. \A d \in Calls : Starts(d)' \/ kind'[d] = "none" => answer'[d] = NoCall
    BY <1>2, <1>4, <1>5, <2>2 DEF PendingIsRead
  <2>4. ASSUME NEW r \in Runs, NEW d \in Calls, d \in {pending[r], registered[r]}
        PROVE  RunOf[d] = r /\ kind'[d] = "question" /\ ~Starts(d)'
    <3>1. RunOf[d] = r /\ kind[d] = "question" /\ ~Starts(d)
      BY <2>4 DEF PendingIsRead
    <3>2. d \in Calls \ {c}
      BY <2>1, <2>4
    <3> QED BY <1>4, <1>5, <3>1, <3>2
  <2> QED BY <2>2, <2>3, <2>4 DEF PendingIsRead
<1>11. StaleIsLapsed' /\ LatestStaysPending' /\ PendingIsOpen'
  BY <1>1 DEF StaleIsLapsed, LatestStaysPending, PendingIsOpen, managerVars, history
<1>12. BudgetKept'
  <2>1. Waited' \subseteq Waited
    BY <1>5 DEF Waited, Questions, Blocked
  <2> QED BY <2>1, NoNewQuestion
<1> QED BY <1>6, <1>7, <1>8, <1>9, <1>10, <1>11, <1>12

\* A question that blocks.
LEMMA QuestionBlocks ==
  ASSUME IInv, NEW c \in Calls, Makes(c, "question"),
         status' = [status EXCEPT ![c] = "polling"], Emit(c, <<Start(c)>>),
         questionsAsked' = [questionsAsked EXCEPT ![RunOf[c]] = @ + 1],
         ~OverBudget(questionsAsked[RunOf[c]] + 1), UNCHANGED notesFiled
  PROVE  IInv'
<1> USE CallsAssumption DEF IInv, Typed
<1> DEFINE q == RunOf[c]
<1>1. /\ q \in Runs /\ q \in alive /\ kind[c] = "none" /\ status[c] = "unmade"
      /\ kind' = [kind EXCEPT ![c] = "question"] /\ status' = [status EXCEPT ![c] = "polling"]
      /\ pipe' = [pipe EXCEPT ![q] = pipe[q] \o <<Start(c)>>]
      /\ UNCHANGED <<alive, late, askOpenIds, managerVars, answer, history>>
  BY DEF Makes, Emit, Written, WrittenBy
<1>2. /\ pipe[q] \in Seq(Record) /\ Ordered(pipe[q], q)
      /\ ~Has(pipe[q], Start(c)) /\ ~Has(pipe[q], End(c)) /\ c \notin askOpenIds /\ answer[c] = NoCall
  BY <1>1 DEF PipeOrdered, Written, WrittenBy, Starts, Ends, PendingIsRead
<1>3. /\ pipe'[q] \in Seq(Record) /\ Ordered(pipe'[q], q)
      /\ \A y : Has(pipe'[q], y) <=> (Has(pipe[q], y) \/ y = Start(c))
      /\ \A r \in Runs \ {q} : pipe'[r] = pipe[r]
  <2>1. Start(c) \in Record /\ Start(c).call = c /\ Start(c).phase = "start"
    BY RecordsDiffer
  <2>2. Ordered(pipe[q] \o <<Start(c)>>, q)
    BY <1>2, <2>1, WriteOneOrdered
  <2> QED BY <1>1, <1>2, <2>1, <2>2, WriteOne
<1>4. /\ \A d \in Calls \ {c} : (Starts(d)' <=> Starts(d)) /\ (Ends(d)' <=> Ends(d))
      /\ Starts(c)' /\ ~Ends(c)'
  BY <1>2, <1>3, RecordsDiffer DEF Starts, Ends
<1>5. /\ \A d \in Calls \ {c} : status'[d] = status[d] /\ kind'[d] = kind[d]
      /\ status'[c] = "polling" /\ kind'[c] = "question"
  BY <1>1
<1>6. Typed'
  <2>1. pipe' \in [Runs -> Seq(Record)]
    BY <1>1, <1>3
  <2>2. questionsAsked' \in [Runs -> Nat]
    BY <1>1
  <2> QED BY <1>1, <2>1, <2>2 DEF Statuses, Blocked, managerVars, history
<1>7. PipeOrdered'
  BY <1>3 DEF PipeOrdered
<1>8. Written'
  <2>1. WrittenBy(c)'
    BY <1>1, <1>2, <1>4, <1>5 DEF WrittenBy, Blocked
  <2>2. ASSUME NEW d \in Calls \ {c} PROVE WrittenBy(d)'
    <3>1. WrittenBy(d)
      BY DEF Written
    <3> QED BY <1>1, <1>4, <1>5, <3>1 DEF WrittenBy, Blocked
  <2> QED BY <2>1, <2>2 DEF Written
<1>9. OpenIsRead'
  BY <1>1, <1>2, <1>4, <1>5 DEF OpenIsRead
<1>10. PendingIsRead'
  <2>1. \A r \in Runs : c \notin {pending[r], registered[r]}
    BY <1>1 DEF PendingIsRead
  <2>2. UNCHANGED <<pending, registered, answer>>
    BY <1>1 DEF managerVars, history
  <2>3. \A d \in Calls : Starts(d)' \/ kind'[d] = "none" => answer'[d] = NoCall
    BY <1>2, <1>4, <1>5, <2>2 DEF PendingIsRead
  <2>4. ASSUME NEW r \in Runs, NEW d \in Calls, d \in {pending[r], registered[r]}
        PROVE  RunOf[d] = r /\ kind'[d] = "question" /\ ~Starts(d)'
    <3>1. RunOf[d] = r /\ kind[d] = "question" /\ ~Starts(d)
      BY <2>4 DEF PendingIsRead
    <3>2. d \in Calls \ {c}
      BY <2>1, <2>4
    <3> QED BY <1>4, <1>5, <3>1, <3>2
  <2> QED BY <2>2, <2>3, <2>4 DEF PendingIsRead
<1>11. StaleIsLapsed' /\ LatestStaysPending' /\ PendingIsOpen'
  BY <1>1 DEF StaleIsLapsed, LatestStaysPending, PendingIsOpen, managerVars, history
<1>12. BudgetKept'
  <2>1. Waited' \subseteq Waited \cup {c}
    BY <1>5 DEF Waited, Questions
  <2> QED BY <2>1, OneNewQuestion
<1> QED BY <1>6, <1>7, <1>8, <1>9, <1>10, <1>11, <1>12

\* A blocked question returns.
LEMMA QuestionReturns ==
  ASSUME IInv, NEW c \in Calls, status[c] \in Blocked, NEW as \in {"answered", "fallback"},
         Returns(c, as),
         UNCHANGED <<alive, kind, late, questionsAsked, notesFiled, askOpenIds, managerVars,
                     answer, history>>
  PROVE  IInv'
<1> USE CallsAssumption DEF IInv, Typed
<1> DEFINE q == RunOf[c]
<1>1. /\ q \in Runs /\ kind[c] = "question"
      /\ status' = [status EXCEPT ![c] = as]
      /\ pipe' = [pipe EXCEPT ![q] = pipe[q] \o <<End(c)>>]
      /\ UNCHANGED <<alive, kind, late, questionsAsked, notesFiled, askOpenIds, managerVars,
                     answer, history>>
  BY DEF Returns, Emit, Written, WrittenBy
<1>2. /\ pipe[q] \in Seq(Record) /\ Ordered(pipe[q], q) /\ ~Has(pipe[q], End(c))
  BY <1>1 DEF PipeOrdered, Written, WrittenBy, Ends
<1>3. /\ pipe'[q] \in Seq(Record) /\ Ordered(pipe'[q], q)
      /\ \A y : Has(pipe'[q], y) <=> (Has(pipe[q], y) \/ y = End(c))
      /\ \A r \in Runs \ {q} : pipe'[r] = pipe[r]
  <2>1. End(c) \in Record /\ End(c).call = c /\ End(c).phase = "end"
    BY RecordsDiffer
  <2>2. Ordered(pipe[q] \o <<End(c)>>, q)
    BY <1>2, <2>1, WriteOneOrdered
  <2> QED BY <1>1, <1>2, <2>1, <2>2, WriteOne
<1>4. /\ \A d \in Calls \ {c} : (Starts(d)' <=> Starts(d)) /\ (Ends(d)' <=> Ends(d))
      /\ (Starts(c)' <=> Starts(c)) /\ Ends(c)'
  BY <1>3, RecordsDiffer DEF Starts, Ends
<1>5. (\A d \in Calls \ {c} : status'[d] = status[d]) /\ status'[c] = as
  BY <1>1
<1>6. Typed'
  <2>1. pipe' \in [Runs -> Seq(Record)]
    BY <1>1, <1>3
  <2> QED BY <1>1, <2>1 DEF Statuses, Blocked, managerVars, history
<1>7. PipeOrdered'
  BY <1>3 DEF PipeOrdered
<1>8. Written'
  BY <1>1, <1>4, <1>5 DEF Written, WrittenBy, Blocked
<1>9. OpenIsRead'
  BY <1>1, <1>4, <1>5 DEF OpenIsRead
<1>10. PendingIsRead'
  BY <1>1, <1>4 DEF PendingIsRead, managerVars, history
<1>11. StaleIsLapsed' /\ LatestStaysPending' /\ PendingIsOpen'
  BY <1>1 DEF StaleIsLapsed, LatestStaysPending, PendingIsOpen, managerVars, history
<1>12. BudgetKept'
  <2>1. Waited' \subseteq Waited
    BY <1>1, <1>5 DEF Waited, Questions, Blocked
  <2>2. \A r \in Runs : questionsAsked[r] <= questionsAsked'[r]
    BY <1>1
  <2> QED BY <1>1, <2>1, <2>2, NoNewQuestion
<1> QED BY <1>6, <1>7, <1>8, <1>9, <1>10, <1>11, <1>12

\* A step that neither writes nor reads a record, makes no call and leaves the
\* manager's questions alone.
Quiet ==
  /\ UNCHANGED <<kind, questionsAsked, pipe, askOpenIds, pending, answer, registered>>
  /\ alive' \subseteq alive /\ lapsed \subseteq lapsed'
  /\ \A c \in Calls :
       \/ status'[c] = status[c]
       \/ status[c] \in Blocked /\ status'[c] \in Blocked
       \/ status[c] \in Blocked /\ status'[c] = "dead" /\ RunOf[c] \notin alive'

\* A quiet step that keeps the types keeps the invariant.
LEMMA NothingSaid == ASSUME IInv, Quiet, Typed', StaleIsLapsed' PROVE IInv'
<1> USE CallsAssumption DEF IInv, Quiet
<1>1. \A c \in Calls : (Starts(c)' <=> Starts(c)) /\ (Ends(c)' <=> Ends(c))
  BY DEF Starts, Ends
<1>2. PipeOrdered'
  BY DEF PipeOrdered
<1>3. Written'
  BY <1>1 DEF Written, WrittenBy, Blocked
<1>4. OpenIsRead'
  <2> SUFFICES ASSUME NEW c \in askOpenIds
               PROVE  /\ kind[c] = "question" /\ ~Starts(c)'
                      /\ status'[c] \in Blocked \cup {"dead"} \/ Ends(c)'
    BY DEF OpenIsRead
  <2>1. /\ c \in Calls /\ kind[c] = "question" /\ ~Starts(c)
        /\ status[c] \in Blocked \cup {"dead"} \/ Ends(c)
    BY DEF OpenIsRead, Typed
  <2> QED BY <1>1, <2>1
<1>5. PendingIsRead' /\ LatestStaysPending' /\ PendingIsOpen'
  BY <1>1 DEF PendingIsRead, LatestStaysPending, PendingIsOpen
<1>6. BudgetKept'
  <2>1. Waited' \subseteq Waited
    BY DEF Waited, Questions, Blocked
  <2>2. questionsAsked' \in [Runs -> Nat] /\ \A r \in Runs : questionsAsked[r] <= questionsAsked'[r]
    BY DEF Typed
  <2> QED BY <2>1, <2>2, NoNewQuestion
<1> QED BY <1>2, <1>3, <1>4, <1>5, <1>6

------------------------------------------------------------------------------
(* The steps of the parent                                                 *)

\* The start of a call is read.
LEMMA StartRead ==
  ASSUME IInv, NEW r \in Runs, OnRecord(r), Head(pipe[r]).phase = "start"
  PROVE  IInv'
<1> USE CallsAssumption DEF IInv, Typed
<1>1. /\ pipe[r] # <<>> /\ pipe' = [pipe EXCEPT ![r] = Tail(pipe[r])]
      /\ UNCHANGED <<childVars, done, current, session, answer, lapsed, moves>>
  BY DEF OnRecord
<1>2. pipe[r] \in Seq(Record) /\ Ordered(pipe[r], r)
  BY DEF PipeOrdered
<1>3. PICK c \in Calls : Head(pipe[r]) = Start(c) /\ Head(pipe[r]).call = c
  <2>1. Head(pipe[r]) \in Record
    BY <1>1, <1>2, ReadOne
  <2> QED BY <2>1, RecordIs
<1>4. /\ Has(pipe[r], Start(c)) /\ RunOf[c] = r
      /\ pipe'[r] \in Seq(Record) /\ Ordered(pipe'[r], r)
      /\ \A y : Has(pipe'[r], y) <=> (Has(pipe[r], y) /\ y # Start(c))
      /\ \A q \in Runs \ {r} : pipe'[q] = pipe[q]
  <2>1. pipe'[r] = Tail(pipe[r]) /\ \A q \in Runs \ {r} : pipe'[q] = pipe[q]
    BY <1>1
  <2>2. /\ Has(pipe[r], Head(pipe[r])) /\ RunOf[Head(pipe[r]).call] = r
        /\ Tail(pipe[r]) \in Seq(Record) /\ Ordered(Tail(pipe[r]), r)
        /\ \A y : Has(Tail(pipe[r]), y) <=> (Has(pipe[r], y) /\ y # Head(pipe[r]))
        /\ Head(pipe[r]).phase = "end" => ~Has(pipe[r], Start(Head(pipe[r]).call))
    BY <1>1, <1>2, ReadOne
  <2> QED BY <1>3, <2>1, <2>2
<1>5. /\ \A d \in Calls \ {c} : Starts(d)' <=> Starts(d)
      /\ \A d \in Calls : Ends(d)' <=> Ends(d)
      /\ Starts(c) /\ ~Starts(c)'
  <2>1. Starts(c) /\ ~Starts(c)'
    BY <1>3, <1>4 DEF Starts
  <2>2. ASSUME NEW d \in Calls PROVE (Ends(d)' <=> Ends(d)) /\ (d # c => (Starts(d)' <=> Starts(d)))
    <3>1. RunOf[d] \in Runs /\ End(d) # Start(c) /\ (d # c => Start(d) # Start(c))
      BY <1>3, <1>4, RecordsDiffer
    <3> QED BY <1>3, <1>4, <3>1 DEF Starts, Ends
  <2> QED BY <2>1, <2>2
<1>6. /\ kind[c] \in {"question", "note"} /\ answer[c] = NoCall /\ c \notin askOpenIds
      /\ status[c] \in Blocked \cup {"dead"} \/ Ends(c)
      /\ \A q \in Runs : c \notin {pending[q], registered[q]}
  BY <1>3, <1>4, <1>5 DEF Written, WrittenBy, PendingIsRead, OpenIsRead
<1>7. /\ askOpenIds' = IF kind[c] = "question" THEN askOpenIds \cup {c} ELSE askOpenIds
      /\ buffer' \subseteq buffer \cup {c} /\ shown' \subseteq shown \cup {c}
      /\ \/ r \notin current /\ pending' = pending /\ registered' = registered
         \/ r \in current /\ kind[c] = "note" /\ pending' = pending /\ registered' = registered
         \/ r \in current /\ kind[c] = "question" /\ pending' = [pending EXCEPT ![r] = c]
            /\ registered' = [registered EXCEPT ![r] = c]
  <2>1. Opens(c) /\ OnAskStart(c)
    BY <1>3 DEF OnRecord
  <2> QED BY <1>4, <1>6, <2>1 DEF Opens, OnAskStart, Deliver
<1>8. Typed'
  <2>1. pipe' \in [Runs -> Seq(Record)]
    BY <1>1, <1>3, <1>4
  <2>2. askOpenIds' \subseteq Calls /\ buffer' \subseteq Calls /\ shown' \subseteq Calls
    BY <1>3, <1>4, <1>7
  <2>3. pending' \in [Runs -> Calls \cup {NoCall}] /\ registered' \in [Runs -> Calls \cup {NoCall}]
    BY <1>3, <1>4, <1>7
  <2> QED BY <1>1, <2>1, <2>2, <2>3 DEF childVars
<1>9. PipeOrdered'
  BY <1>3, <1>4 DEF PipeOrdered
<1>10. Written'
  BY <1>1, <1>3, <1>4, <1>5, <1>6, <1>7 DEF Written, WrittenBy, Blocked, childVars
<1>11. OpenIsRead'
  <2>1. \A d \in askOpenIds' : d \in askOpenIds \/ (d = c /\ kind[c] = "question")
    BY <1>7
  <2>2. UNCHANGED <<kind, status>>
    BY <1>1 DEF childVars
  <2> QED BY <1>5, <1>6, <2>1, <2>2 DEF OpenIsRead
<1>12. PendingIsRead'
  <2>1. ASSUME NEW q \in Runs, pending'[q] # NoCall PROVE answer'[pending'[q]] = NoCall
    <3>1. answer' = answer
      BY <1>1
    <3>2. pending'[q] = pending[q] \/ pending'[q] = c
      BY <1>7
    <3>3. pending[q] # NoCall => answer[pending[q]] = NoCall
      BY DEF PendingIsRead
    <3> QED BY <1>6, <2>1, <3>1, <3>2, <3>3
  <2>2. ASSUME NEW q \in Runs, NEW d \in Calls, d \in {pending'[q], registered'[q]}
        PROVE  RunOf[d] = q /\ kind'[d] = "question" /\ ~Starts(d)'
    <3>1. CASE d \in {pending[q], registered[q]}
      BY <1>1, <1>5, <1>6, <3>1 DEF PendingIsRead, childVars
    <3>2. CASE d \notin {pending[q], registered[q]}
      <4>1. d = c /\ q = r /\ kind[c] = "question"
        BY <1>7, <2>2, <3>2
      <4> QED BY <1>1, <1>3, <1>4, <1>5, <4>1 DEF childVars
    <3> QED BY <3>1, <3>2
  <2>3. \A d \in Calls : Starts(d)' \/ kind'[d] = "none" => answer'[d] = NoCall
    BY <1>1, <1>3, <1>4, <1>5 DEF PendingIsRead, childVars
  <2> QED BY <2>1, <2>2, <2>3 DEF PendingIsRead
<1>13. StaleIsLapsed'
  BY <1>1 DEF StaleIsLapsed
<1>14. LatestStaysPending'
  BY <1>1, <1>3, <1>4, <1>6, <1>7 DEF LatestStaysPending
<1>15. PendingIsOpen'
  BY <1>1, <1>3, <1>4, <1>6, <1>7 DEF PendingIsOpen
<1>16. BudgetKept'
  BY <1>1 DEF BudgetKept, Waited, Questions, CallsOf, childVars
<1> QED BY <1>8, <1>9, <1>10, <1>11, <1>12, <1>13, <1>14, <1>15, <1>16

\* The end of a call is read.
LEMMA EndRead ==
  ASSUME IInv, NEW r \in Runs, OnRecord(r), Head(pipe[r]).phase = "end"
  PROVE  IInv'
<1> USE CallsAssumption DEF IInv, Typed
<1>1. /\ pipe[r] # <<>> /\ pipe' = [pipe EXCEPT ![r] = Tail(pipe[r])]
      /\ UNCHANGED <<childVars, done, current, session, answer, lapsed, moves>>
  BY DEF OnRecord
<1>2. pipe[r] \in Seq(Record) /\ Ordered(pipe[r], r)
  BY DEF PipeOrdered
<1>3. PICK c \in Calls : Head(pipe[r]) = End(c) /\ Head(pipe[r]).call = c
  <2>1. Head(pipe[r]) \in Record
    BY <1>1, <1>2, ReadOne
  <2> QED BY <2>1, RecordIs
<1>4. /\ Has(pipe[r], End(c)) /\ RunOf[c] = r
      /\ pipe'[r] \in Seq(Record) /\ Ordered(pipe'[r], r)
      /\ \A y : Has(pipe'[r], y) <=> (Has(pipe[r], y) /\ y # End(c))
      /\ \A q \in Runs \ {r} : pipe'[q] = pipe[q]
      /\ ~Has(pipe[r], Start(c))
  <2>1. pipe'[r] = Tail(pipe[r]) /\ \A q \in Runs \ {r} : pipe'[q] = pipe[q]
    BY <1>1
  <2>2. /\ Has(pipe[r], Head(pipe[r])) /\ RunOf[Head(pipe[r]).call] = r
        /\ Tail(pipe[r]) \in Seq(Record) /\ Ordered(Tail(pipe[r]), r)
        /\ \A y : Has(Tail(pipe[r]), y) <=> (Has(pipe[r], y) /\ y # Head(pipe[r]))
        /\ Head(pipe[r]).phase = "end" => ~Has(pipe[r], Start(Head(pipe[r]).call))
    BY <1>1, <1>2, ReadOne
  <2> QED BY <1>3, <2>1, <2>2
<1>5. /\ \A d \in Calls : Starts(d)' <=> Starts(d)
      /\ \A d \in Calls \ {c} : Ends(d)' <=> Ends(d)
      /\ Ends(c) /\ ~Ends(c)' /\ ~Starts(c)
  <2>1. Ends(c) /\ ~Ends(c)' /\ ~Starts(c)
    BY <1>3, <1>4 DEF Starts, Ends
  <2>2. ASSUME NEW d \in Calls PROVE (Starts(d)' <=> Starts(d)) /\ (d # c => (Ends(d)' <=> Ends(d)))
    <3>1. RunOf[d] \in Runs /\ End(c) # Start(d) /\ (d # c => End(d) # End(c))
      BY <1>3, <1>4, RecordsDiffer
    <3> QED BY <1>3, <1>4, <3>1 DEF Starts, Ends
  <2> QED BY <2>1, <2>2
<1>6. /\ askOpenIds' = askOpenIds \ {c}
      /\ UNCHANGED <<buffer, shown, registered>>
      /\ \/ pending' = pending /\ (r \notin current \/ pending[r] # c)
         \/ pending[r] = c /\ r \in current /\ pending' = [pending EXCEPT ![r] = NoCall]
  <2>1. Closes(c) /\ OnAskEnd(c)
    BY <1>3 DEF OnRecord
  <2> QED BY <1>4, <2>1 DEF Closes, OnAskEnd
<1>7. status[c] \notin Blocked \cup {"unmade"}
  BY <1>3, <1>4, <1>5 DEF Written, WrittenBy
<1>8. Typed'
  <2>1. pipe' \in [Runs -> Seq(Record)]
    BY <1>1, <1>3, <1>4
  <2>2. pending' \in [Runs -> Calls \cup {NoCall}]
    BY <1>6
  <2> QED BY <1>1, <1>6, <2>1, <2>2 DEF childVars
<1>9. PipeOrdered'
  BY <1>3, <1>4 DEF PipeOrdered
<1>10. Written'
  BY <1>1, <1>3, <1>4, <1>5, <1>6, <1>7 DEF Written, WrittenBy, childVars
<1>11. OpenIsRead'
  BY <1>1, <1>3, <1>4, <1>5, <1>6 DEF OpenIsRead, childVars
<1>12. PendingIsRead'
  <2>1. \A q \in Runs : pending'[q] = pending[q] \/ pending'[q] = NoCall
    BY <1>6
  <2>2. UNCHANGED <<answer, kind, registered>>
    BY <1>1, <1>6 DEF childVars
  <2>3. ASSUME NEW q \in Runs, pending'[q] # NoCall PROVE answer'[pending'[q]] = NoCall
    <3>1. pending'[q] = pending[q] /\ (pending[q] # NoCall => answer[pending[q]] = NoCall)
      BY <2>1, <2>3 DEF PendingIsRead
    <3> QED BY <2>2, <2>3, <3>1
  <2>4. ASSUME NEW q \in Runs, NEW d \in Calls, d \in {pending'[q], registered'[q]}
        PROVE  RunOf[d] = q /\ kind'[d] = "question" /\ ~Starts(d)'
    <3>1. d \in {pending[q], registered[q]}
      BY <2>1, <2>2, <2>4
    <3> QED BY <1>5, <2>2, <3>1 DEF PendingIsRead
  <2>5. \A d \in Calls : Starts(d)' \/ kind'[d] = "none" => answer'[d] = NoCall
    BY <1>5, <2>2 DEF PendingIsRead
  <2> QED BY <2>3, <2>4, <2>5 DEF PendingIsRead
<1>13. StaleIsLapsed'
  BY <1>1 DEF StaleIsLapsed
<1>14. LatestStaysPending'
  <2> SUFFICES ASSUME NEW q \in Runs, registered[q] \in askOpenIds', answer[registered[q]] = NoCall
               PROVE  pending'[q] = registered[q]
    BY <1>1, <1>6 DEF LatestStaysPending
  <2>1. registered[q] # c /\ pending[q] = registered[q]
    BY <1>6 DEF LatestStaysPending
  <2> QED BY <1>6, <2>1
<1>15. PendingIsOpen'
  <2> SUFFICES ASSUME NEW q \in Runs \ lapsed, pending'[q] # NoCall
               PROVE  pending'[q] \in askOpenIds'
    BY <1>1 DEF PendingIsOpen
  <2>1. pending'[q] = pending[q] /\ pending[q] \in askOpenIds /\ q \in current
    BY <1>6 DEF PendingIsOpen, StaleIsLapsed
  <2>2. pending[q] # c
    BY <1>3, <1>4, <1>6, <2>1 DEF PendingIsRead
  <2> QED BY <1>6, <2>1, <2>2
<1>16. BudgetKept'
  BY <1>1 DEF BudgetKept, Waited, Questions, CallsOf, childVars
<1> QED BY <1>8, <1>9, <1>10, <1>11, <1>12, <1>13, <1>14, <1>15, <1>16

\* An answer is accepted.
LEMMA AnswerAccepted ==
  ASSUME IInv, NEW c \in Calls, Answer(c)
  PROVE  IInv'
<1> USE CallsAssumption DEF IInv, Typed
<1> DEFINE r == RunOf[c]
           p == pending[r]
<1>1. /\ r \in Runs /\ p \in Calls
      /\ answer' = [answer EXCEPT ![p] = c]
      /\ pending' = [pending EXCEPT ![r] = NoCall]
      /\ UNCHANGED <<childVars, runnerVars, done, current, session, buffer, shown, history>>
  BY DEF Answer
<1>2. RunOf[p] = r /\ kind[p] = "question" /\ ~Starts(p) /\ answer[p] = NoCall
  BY <1>1 DEF PendingIsRead
<1>3. \A d \in Calls : (Starts(d)' <=> Starts(d)) /\ (Ends(d)' <=> Ends(d))
  BY <1>1 DEF Starts, Ends, runnerVars
<1>4. Typed' /\ PipeOrdered'
  BY <1>1 DEF PipeOrdered, childVars, runnerVars, history
<1>5. Written' /\ OpenIsRead' /\ StaleIsLapsed'
  BY <1>1, <1>3 DEF Written, WrittenBy, OpenIsRead, StaleIsLapsed, childVars, runnerVars, history
<1>6. PendingIsRead'
  <2>1. ASSUME NEW q \in Runs, pending'[q] # NoCall PROVE answer'[pending'[q]] = NoCall
    <3>1. q # r /\ pending'[q] = pending[q] /\ answer[pending[q]] = NoCall /\ pending[q] \in Calls
      BY <1>1, <2>1 DEF PendingIsRead
    <3>2. pending[q] # p
      BY <1>2, <3>1 DEF PendingIsRead
    <3> QED BY <1>1, <3>1, <3>2
  <2>2. \A q \in Runs, d \in Calls : d \in {pending'[q], registered'[q]} =>
          RunOf[d] = q /\ kind'[d] = "question" /\ ~Starts(d)'
    BY <1>1, <1>3 DEF PendingIsRead, childVars, history
  <2>3. \A d \in Calls : Starts(d)' \/ kind'[d] = "none" => answer'[d] = NoCall
    BY <1>1, <1>2, <1>3 DEF PendingIsRead, childVars
  <2> QED BY <2>1, <2>2, <2>3 DEF PendingIsRead
<1>7. LatestStaysPending'
  <2> SUFFICES ASSUME NEW q \in Runs, registered[q] \in askOpenIds, answer'[registered[q]] = NoCall
               PROVE  pending'[q] = registered[q]
    BY <1>1 DEF LatestStaysPending, runnerVars, history
  <2>1. registered[q] # p /\ answer[registered[q]] = NoCall
    BY <1>1
  <2>2. pending[q] = registered[q] /\ q # r
    BY <2>1 DEF LatestStaysPending
  <2> QED BY <1>1, <2>2
<1>8. PendingIsOpen'
  BY <1>1 DEF PendingIsOpen, runnerVars, history
<1>9. BudgetKept'
  BY <1>1 DEF BudgetKept, Waited, Questions, CallsOf, childVars
<1> QED BY <1>4, <1>5, <1>6, <1>7, <1>8, <1>9

------------------------------------------------------------------------------
(* The theorems                                                            *)

\* Every step of the child keeps the invariant.
LEMMA ChildStep == ASSUME IInv, Child PROVE IInv'
<1> USE CallsAssumption
<1>1. Typed /\ StaleIsLapsed
  BY DEF IInv
<1>2. ASSUME NEW c \in Calls, NEW k \in {"question", "note"}, AsksInvalid(c, k) PROVE IInv'
  <2>1. /\ MakesAndReturns(c, k, "rejected")
        /\ questionsAsked' = questionsAsked /\ notesFiled' = notesFiled
    BY <1>2 DEF AsksInvalid
  <2>2. /\ questionsAsked' \in [Runs -> Nat] /\ notesFiled' \in [Runs -> 0..MaxNotes]
        /\ \A r \in Runs : questionsAsked[r] <= questionsAsked'[r]
    BY <1>1, <2>1 DEF Typed
  <2> QED BY <2>1, <2>2, ReturnsAtOnce
<1>3. ASSUME NEW c \in Calls, FilesNote(c) PROVE IInv'
  <2>1. PICK as \in {"rejected", "noted"} : MakesAndReturns(c, "note", as)
    BY <1>3 DEF FilesNote
  <2>2. questionsAsked' = questionsAsked
    BY <1>3 DEF FilesNote
  <2>3. notesFiled' \in [Runs -> 0..MaxNotes]
    <3>1. notesFiled \in [Runs -> 0..MaxNotes]
      BY <1>1 DEF Typed
    <3>2. CASE notesFiled' = notesFiled
      BY <3>1, <3>2
    <3>3. CASE notesFiled' # notesFiled
      <4>1. /\ notesFiled[RunOf[c]] < MaxNotes
            /\ notesFiled' = [notesFiled EXCEPT ![RunOf[c]] = notesFiled[RunOf[c]] + 1]
        BY <1>3, <3>3 DEF FilesNote
      <4> QED BY <3>1, <4>1, BudgetAssumption
    <3> QED BY <3>2, <3>3
  <2>4. questionsAsked' \in [Runs -> Nat] /\ \A r \in Runs : questionsAsked[r] <= questionsAsked'[r]
    BY <1>1, <2>2 DEF Typed
  <2> QED BY <2>1, <2>3, <2>4, ReturnsAtOnce
<1>4. ASSUME NEW c \in Calls, AsksQuestion(c) PROVE IInv'
  <2>1. /\ questionsAsked' = [questionsAsked EXCEPT ![RunOf[c]] = @ + 1]
        /\ notesFiled' = notesFiled
        /\ \/ MakesAndReturns(c, "question", "rejected")
           \/ /\ ~OverBudget(questionsAsked[RunOf[c]] + 1) /\ Makes(c, "question")
              /\ status' = [status EXCEPT ![c] = "polling"] /\ Emit(c, <<Start(c)>>)
    BY <1>4 DEF AsksQuestion
  <2>2. /\ questionsAsked' \in [Runs -> Nat] /\ notesFiled' \in [Runs -> 0..MaxNotes]
        /\ \A r \in Runs : questionsAsked[r] <= questionsAsked'[r]
    BY <1>1, <2>1 DEF Typed
  <2> QED BY <2>1, <2>2, ReturnsAtOnce, QuestionBlocks
<1>5. ASSUME NEW c \in Calls, Poll(c) \/ AfterMiss(c) PROVE IInv'
  <2>1. /\ status[c] \in Blocked
        /\ UNCHANGED <<alive, kind, late, questionsAsked, notesFiled, askOpenIds, managerVars,
                       answer, history>>
    BY <1>5 DEF Poll, AfterMiss, Blocked
  <2>2. CASE Returns(c, "answered") \/ Returns(c, "fallback")
    BY <2>1, <2>2, QuestionReturns
  <2>3. CASE ~(Returns(c, "answered") \/ Returns(c, "fallback"))
    <3>1. PICK s \in Blocked : status' = [status EXCEPT ![c] = s]
      BY <1>5, <2>3 DEF Poll, AfterMiss, Blocked
    <3>2. pipe' = pipe
      BY <1>5, <2>3 DEF Poll, AfterMiss
    <3>3. /\ status' \in [Calls -> Statuses]
          /\ \A d \in Calls :
               status'[d] = status[d] \/ (status[d] \in Blocked /\ status'[d] \in Blocked)
      <4>1. status \in [Calls -> Statuses] /\ s \in Statuses
        BY <1>1 DEF Typed, Statuses
      <4> QED BY <2>1, <3>1, <4>1
    <3>4. StaleIsLapsed'
      BY <1>1, <2>1 DEF StaleIsLapsed, managerVars, history
    <3>5. Typed'
      BY <1>1, <2>1, <3>2, <3>3 DEF Typed, managerVars, history
    <3>6. Quiet
      BY <1>1, <2>1, <3>2, <3>3 DEF Quiet, managerVars, history
    <3> QED BY <3>4, <3>5, <3>6, NothingSaid
  <2> QED BY <2>2, <2>3
<1>6. ASSUME NEW c \in Calls, DeadlinePasses(c) PROVE IInv'
  <2>1. late' \subseteq Calls
    BY <1>1, <1>6 DEF DeadlinePasses, Typed
  <2>2. UNCHANGED <<alive, kind, status, questionsAsked, notesFiled, runnerVars, managerVars,
                    answer, history>>
    BY <1>6 DEF DeadlinePasses
  <2>3. StaleIsLapsed'
    BY <1>1, <2>2 DEF StaleIsLapsed, managerVars, history
  <2>4. Typed'
    BY <1>1, <2>1, <2>2 DEF Typed, runnerVars, managerVars, history
  <2>5. Quiet
    BY <1>1, <2>1, <2>2 DEF Quiet, runnerVars, managerVars, history
  <2> QED BY <2>3, <2>4, <2>5, NothingSaid
<1>7. ASSUME NEW r \in Runs, ChildDies(r) PROVE IInv'
  <2>1. /\ alive' = alive \ {r}
        /\ UNCHANGED <<kind, late, questionsAsked, notesFiled, runnerVars, managerVars, answer,
                       history>>
    BY <1>7 DEF ChildDies
  <2>2. /\ status' \in [Calls -> Statuses]
        /\ \A d \in Calls :
             \/ status'[d] = status[d]
             \/ status[d] \in Blocked /\ status'[d] = "dead" /\ RunOf[d] \notin alive'
    <3>1. status \in [Calls -> Statuses] /\ "dead" \in Statuses
      BY <1>1 DEF Typed, Statuses
    <3>2. status' = [c \in Calls |->
                       IF RunOf[c] = r /\ status[c] \in Blocked THEN "dead" ELSE status[c]]
      BY <1>7 DEF ChildDies
    <3> QED BY <2>1, <3>1, <3>2
  <2>3. StaleIsLapsed'
    BY <1>1, <2>1 DEF StaleIsLapsed, managerVars, history
  <2>4. Typed'
    BY <1>1, <2>1, <2>2 DEF Typed, runnerVars, managerVars, history
  <2>5. Quiet
    BY <1>1, <2>1, <2>2 DEF Quiet, runnerVars, managerVars, history
  <2> QED BY <2>3, <2>4, <2>5, NothingSaid
<1> QED BY <1>2, <1>3, <1>4, <1>5, <1>6, <1>7 DEF Child

\* ... and every step of the parent, of the user and of the host.
LEMMA ParentStep == ASSUME IInv, Parent PROVE IInv'
<1>1. Typed /\ StaleIsLapsed
  BY DEF IInv
<1>2. ASSUME NEW r \in Runs, OnRecord(r) PROVE IInv'
  <2>1. Head(pipe[r]).phase = "start" \/ Head(pipe[r]).phase = "end"
    BY <1>2 DEF OnRecord
  <2> QED BY <1>2, <2>1, StartRead, EndRead
<1>3. ASSUME NEW r \in Runs, RunEnds(r) PROVE IInv'
  <2>1. done' \subseteq Runs
    BY <1>1, <1>3 DEF RunEnds, Typed
  <2>2. UNCHANGED <<childVars, runnerVars, current, session, pending, buffer, shown, answer,
                    history>>
    BY <1>3 DEF RunEnds
  <2>3. StaleIsLapsed'
    BY <1>1, <2>2 DEF StaleIsLapsed, history
  <2>4. Typed'
    BY <1>1, <2>1, <2>2 DEF Typed, childVars, runnerVars, history
  <2>5. Quiet
    BY <1>1, <2>1, <2>2 DEF Quiet, childVars, runnerVars, history
  <2> QED BY <2>3, <2>4, <2>5, NothingSaid
<1>4. ASSUME NEW c \in Calls, Answer(c) PROVE IInv'
  BY <1>4, AnswerAccepted
<1>5. ASSUME BeforeTree PROVE IInv'
  <2>1. /\ moves' \in 0..MaxMoves /\ session' = "tree"
        /\ UNCHANGED <<childVars, runnerVars, done, current, pending, buffer, shown, answer,
                       registered, lapsed>>
    BY <1>1, <1>5, BudgetAssumption DEF BeforeTree, Move, Typed
  <2>2. StaleIsLapsed'
    BY <1>1, <2>1 DEF StaleIsLapsed
  <2>3. Typed'
    BY <1>1, <2>1 DEF Typed, childVars, runnerVars
  <2>4. Quiet
    BY <1>1, <2>1 DEF Quiet, childVars, runnerVars
  <2> QED BY <2>2, <2>3, <2>4, NothingSaid
<1>6. ASSUME AfterTree PROVE IInv'
  <2>1. /\ current \subseteq current' /\ current' \subseteq Runs /\ session' = "open"
        /\ shown' \subseteq Calls /\ buffer' \subseteq Calls
        /\ UNCHANGED <<childVars, runnerVars, done, pending, answer, history>>
    BY <1>1, <1>6 DEF AfterTree, Typed
  <2>2. StaleIsLapsed'
    BY <1>1, <2>1 DEF StaleIsLapsed, history
  <2>3. Typed'
    BY <1>1, <2>1 DEF Typed, childVars, runnerVars, history
  <2>4. Quiet
    BY <1>1, <2>1 DEF Quiet, childVars, runnerVars, history
  <2> QED BY <2>2, <2>3, <2>4, NothingSaid
<1>7. ASSUME Shutdown PROVE IInv'
  <2>1. /\ moves' \in 0..MaxMoves /\ session' = "closed" /\ current' = {} /\ lapsed' = Runs
        /\ UNCHANGED <<childVars, runnerVars, done, pending, buffer, shown, answer, registered>>
    BY <1>1, <1>7, BudgetAssumption DEF Shutdown, Move, Typed
  <2>2. StaleIsLapsed'
    BY <2>1 DEF StaleIsLapsed
  <2>3. Typed'
    BY <1>1, <2>1 DEF Typed, childVars, runnerVars
  <2>4. Quiet
    <3>1. lapsed \subseteq lapsed'
      BY <1>1, <2>1 DEF Typed
    <3> QED BY <2>1, <3>1 DEF Quiet, childVars, runnerVars
  <2> QED BY <2>2, <2>3, <2>4, NothingSaid
<1>8. ASSUME SessionStart PROVE IInv'
  <2>1. /\ current' \subseteq Runs /\ session = "closed" /\ session' = "open"
        /\ UNCHANGED <<childVars, runnerVars, done, pending, buffer, shown, answer, history>>
    BY <1>1, <1>8 DEF SessionStart, Typed
  <2>2. StaleIsLapsed'
    BY <1>1, <2>1 DEF StaleIsLapsed, history
  <2>3. Typed'
    BY <1>1, <2>1 DEF Typed, childVars, runnerVars, history
  <2>4. Quiet
    BY <1>1, <2>1 DEF Quiet, childVars, runnerVars, history
  <2> QED BY <2>2, <2>3, <2>4, NothingSaid
<1> QED BY <1>2, <1>3, <1>4, <1>5, <1>6, <1>7, <1>8 DEF Parent

\* The invariant is inductive: what the parent knows of the questions, what the
\* child has written of them, and the budget agree in every state.
THEOREM Invariance == Spec => []IInv
<1>1. ASSUME IInv, UNCHANGED vars PROVE IInv'
  <2>1. Typed /\ StaleIsLapsed
    BY <1>1 DEF IInv
  <2>2. UNCHANGED <<childVars, runnerVars, managerVars, answer, history>>
    BY <1>1 DEF vars
  <2>3. StaleIsLapsed'
    BY <2>1, <2>2 DEF StaleIsLapsed, managerVars, history
  <2>4. Typed'
    BY <1>1, <2>1, <2>2 DEF Typed, childVars, runnerVars, managerVars, history
  <2>5. Quiet
    BY <1>1, <2>1, <2>2 DEF Quiet, childVars, runnerVars, managerVars, history
  <2> QED BY <1>1, <2>3, <2>4, <2>5, NothingSaid
<1>2. IInv /\ [Next]_vars => IInv'
  BY <1>1, ChildStep, ParentStep DEF Next
<1> QED BY InitInvariant, <1>2, PTL DEF Spec

\* The variables have their types, and no more questions of a run ever block than
\* askParent.maxPerRun allows.
THEOREM TypeCorrect == Spec => []TypeOK
<1>1. IInv => TypeOK
  BY DEF IInv, Typed, BudgetKept, TypeOK, Record
<1> QED BY <1>1, Invariance, PTL

\* Neither the end of a superseded question nor navigation withdraws the question
\* of a run that the runner has open and nobody has answered.
THEOREM LatestCanBeAnswered == Spec => []LatestStaysPending
<1>1. IInv => LatestStaysPending
  BY DEF IInv
<1> QED BY <1>1, Invariance, PTL

\* A question that can be answered is one the runner has open, in a run that was
\* never stale.
THEOREM PendingQuestionsAreOpen == Spec => []PendingIsOpen
<1>1. IInv => PendingIsOpen
  BY DEF IInv
<1> QED BY <1>1, Invariance, PTL

\* With the pipe of a living child read to its end, the watchdogs of its run are
\* suspended for the questions that block it, and for no others.
THEOREM WatchdogsSuspended == Spec => []SuspendedWhileBlocked
<1>1. IInv => SuspendedWhileBlocked
  <2> SUFFICES ASSUME IInv, NEW r \in alive, pipe[r] = <<>>, NEW c \in CallsOf(r)
               PROVE  c \in askOpenIds <=> status[c] \in Blocked
    BY DEF SuspendedWhileBlocked, CallsOf, IInv, Typed
  <2>1. c \in Calls /\ RunOf[c] = r /\ status[c] \in Statuses
    BY DEF CallsOf, IInv, Typed
  <2>2. ~Starts(c) /\ ~Ends(c)
    BY <2>1 DEF Starts, Ends, Has
  <2>3. status[c] # "dead"
    BY <2>1 DEF IInv, Written, WrittenBy
  <2>4. c \in askOpenIds => status[c] \in Blocked
    BY <2>2, <2>3 DEF IInv, OpenIsRead
  <2>5. status[c] \in Blocked => c \in askOpenIds
    BY <2>1, <2>2 DEF IInv, Written, WrittenBy
  <2> QED BY <2>4, <2>5
<1> QED BY <1>1, Invariance, PTL

\* No step, whatever it is a step of, replaces an answer that was accepted.
THEOREM AnswersStand == Spec => FirstAnswerStands
<1>1. IInv /\ [Next]_vars => [\A c \in Calls : answer[c] # NoCall => answer'[c] = answer[c]]_vars
  <2> SUFFICES ASSUME IInv, Next, NEW c \in Calls, answer[c] # NoCall
               PROVE  answer'[c] = answer[c]
    OBVIOUS
  <2>1. CASE \E d \in Calls : Answer(d)
    <3>1. PICK d \in Calls : Answer(d)
      BY <2>1
    <3>2. RunOf[d] \in Runs /\ answer[pending[RunOf[d]]] = NoCall
      BY <3>1, CallsAssumption DEF Answer, IInv, PendingIsRead
    <3>3. c # pending[RunOf[d]] /\ answer' = [answer EXCEPT ![pending[RunOf[d]]] = d]
      BY <3>1, <3>2 DEF Answer
    <3> QED BY <3>3 DEF IInv, Typed
  <2>2. CASE ~\E d \in Calls : Answer(d)
    <3>1. CASE Child
      BY <3>1 DEF Child, AsksInvalid, FilesNote, AsksQuestion, MakesAndReturns, Makes, Poll,
                  AfterMiss, DeadlinePasses, ChildDies
    <3>2. CASE Parent
      BY <2>2, <3>2 DEF Parent, OnRecord, RunEnds, BeforeTree, AfterTree, Shutdown, SessionStart
    <3> QED BY <3>1, <3>2 DEF Next
  <2> QED BY <2>1, <2>2
<1> QED BY <1>1, Invariance, PTL DEF Spec, FirstAnswerStands
=============================================================================
