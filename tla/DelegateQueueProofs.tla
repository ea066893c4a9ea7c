------------------------ MODULE DelegateQueueProofs ------------------------
(***************************************************************************)
(* Proofs about DelegateQueue, for every set of calls and every queue      *)
(* limit: IInv is preserved by every step, so the slot and the queue are   *)
(* sound, a refused or removed call never gets a child, a fan-out that     *)
(* fits is never refused, and no answer is ever replaced.  When prepareRun *)
(* rejects no call, no call waits while the slot is free: the stall the    *)
(* runs exhibit has no other cause; and the calls start in their order.    *)
(***************************************************************************)
EXTENDS DelegateQueue, TLAPS

(***************************************************************************)
(* The operators the actions are built from.                               *)
(***************************************************************************)

\* What a concatenation holds, and where.
LEMMA Concatenation ==
  ASSUME NEW S, NEW a \in Seq(S), NEW b \in Seq(S)
  PROVE  /\ a \o b \in Seq(S) /\ Len(a \o b) = Len(a) + Len(b)
         /\ \A j \in 1 .. Len(a) : (a \o b)[j] = a[j]
         /\ \A j \in Len(a) + 1 .. Len(a) + Len(b) : (a \o b)[j] = b[j - Len(a)]
  OBVIOUS

\* splice(indexOf(c), 1): the entry goes, the others keep their order.
LEMMA WithoutEntry ==
  ASSUME runQueue \in Seq(Calls), NEW c \in Calls, Queued(c)
  PROVE  /\ Without(c) \in Seq(Calls)
         /\ Len(Without(c)) = Len(runQueue) - 1
         /\ \E i \in 1 .. Len(runQueue) :
              /\ runQueue[i] = c
              /\ \A j \in 1 .. Len(Without(c)) :
                   Without(c)[j] = IF j < i THEN runQueue[j] ELSE runQueue[j + 1]
<1> DEFINE i == CHOOSE k \in 1 .. Len(runQueue) : runQueue[k] = c
           front == SubSeq(runQueue, 1, i - 1)
           back == SubSeq(runQueue, i + 1, Len(runQueue))
<1>1. i \in 1 .. Len(runQueue) /\ runQueue[i] = c
  BY DEF Queued
<1>2. Without(c) = front \o back
  BY DEF Without
<1> HIDE DEF i
<1>3. /\ front \in Seq(Calls) /\ Len(front) = i - 1
      /\ \A j \in 1 .. i - 1 : front[j] = runQueue[j]
  BY <1>1
<1>4. /\ back \in Seq(Calls) /\ Len(back) = Len(runQueue) - i
      /\ \A j \in 1 .. Len(runQueue) - i : back[j] = runQueue[i + j]
  BY <1>1
<1> HIDE DEF front, back
<1>5. Without(c) \in Seq(Calls) /\ Len(Without(c)) = Len(runQueue) - 1
  <2>1. Len(front \o back) = Len(front) + Len(back) /\ front \o back \in Seq(Calls)
    BY <1>3, <1>4, Concatenation
  <2>2. Len(runQueue) \in Nat /\ i \in Nat
    BY <1>1
  <2> QED BY <1>2, <1>3, <1>4, <2>1, <2>2
<1>6. ASSUME NEW j \in 1 .. Len(Without(c))
      PROVE  Without(c)[j] = IF j < i THEN runQueue[j] ELSE runQueue[j + 1]
  <2>1. CASE j < i
    BY <1>1, <1>2, <1>3, <1>4, <1>5, <2>1
  <2>2. CASE ~(j < i)
    <3>1. Without(c)[j] = back[j - (i - 1)]
      BY <1>1, <1>2, <1>3, <1>4, <1>5, <2>2
    <3>2. back[j - (i - 1)] = runQueue[i + (j - (i - 1))]
      BY <1>1, <1>4, <1>5, <2>2
    <3> QED BY <1>1, <1>5, <2>2, <3>1, <3>2
  <2> QED BY <2>1, <2>2
<1> QED BY <1>1, <1>5, <1>6

\* made is a log: what it held it keeps, and a new call is one more entry.
LEMMA MadeGrows ==
  ASSUME made \in Seq(Calls), NEW c \in Calls, made' = Append(made, c)
  PROVE  made' \in Seq(Calls) /\ Len(made') = Len(made) + 1 /\ Made' = Made \cup {c}
<1>1. made' \in Seq(Calls) /\ Len(made') = Len(made) + 1
  OBVIOUS
<1>2. /\ \A k \in 1 .. Len(made) : made'[k] = made[k]
      /\ made'[Len(made) + 1] = c
  OBVIOUS
<1>3. Made' \subseteq Made \cup {c}
  BY <1>1, <1>2 DEF Made
<1>4. Made \cup {c} \subseteq Made'
  <2>1. c \in Made'
    BY <1>1, <1>2 DEF Made
  <2>2. Made \subseteq Made'
    BY <1>1, <1>2 DEF Made
  <2> QED BY <2>1, <2>2
<1> QED BY <1>1, <1>3, <1>4

(***************************************************************************)
(* The invariant is established and preserved.                             *)
(***************************************************************************)
\* Before the first call nothing runs, waits or is answered.
LEMMA InvInit == Init => IInv
<1> SUFFICES ASSUME Init PROVE IInv OBVIOUS
<1>1. made = <<>> /\ runQueue = <<>> /\ Len(made) = 0 /\ Len(runQueue) = 0
  BY DEF Init
<1>2. TypeOK
  BY <1>1, LimitAssumption DEF Init, TypeOK
<1>3. OneLiveRun /\ QueueSound /\ AnsweredWithoutChild /\ FanOutFits
  BY <1>1 DEF Init, OneLiveRun, QueueSound, AnsweredWithoutChild, FanOutFits
<1>4. QueueCounted /\ Traceless /\ SlotHeld
  BY <1>1 DEF Init, QueueCounted, Traceless, SlotHeld
<1> QED BY <1>2, <1>3, <1>4 DEF IInv

\* startRun(c): either c is answered at once and the slot stays free, or it
\* holds the slot; nobody else changes.
LEMMA StartRunEffect ==
  ASSUME IInv, NEW c \in Calls, runner[c] = "none", answer[c] = "pending",
         NEW settled \in [Calls -> Answers \cup {"pending"}], settled[c] = "pending",
         StartRun(c, settled)
  PROVE  /\ answer' \in [Calls -> Answers \cup {"pending"}]
         /\ runner' \in [Calls -> {"none", "live", "done"}]
         /\ process' \in [Calls -> {"none", "alive", "gone"}]
         /\ stopped' \subseteq Calls
         /\ activeRun' \in {c, NoRun}
         /\ \A d \in Calls \ {c} :
              answer'[d] = settled[d] /\ runner'[d] = runner[d] /\ process'[d] = process[d]
         /\ \/ activeRun' = NoRun /\ answer'[c] = "invalid" /\ c \in Invalid
               /\ runner'[c] = "none" /\ process'[c] = process[c]
            \/ activeRun' = c /\ answer'[c] = "pending" /\ runner'[c] = "live"
               /\ process'[c] = "alive"
<1>t. TypeOK
  BY DEF IInv
<1>1. CASE c \in Invalid
  BY <1>1, <1>t DEF StartRun, TypeOK, Answers
<1>2. CASE c \notin Invalid
  BY <1>2, <1>t DEF StartRun, TypeOK, Answers
<1> QED BY <1>1, <1>2

\* run() with the slot free.
LEMMA RunAtOnceInv ==
  ASSUME IInv, NEW c \in Calls, RunAtOnce(c)
  PROVE  IInv'
<1>1. /\ TypeOK /\ OneLiveRun /\ QueueSound /\ AnsweredWithoutChild /\ FanOutFits
      /\ QueueCounted /\ Traceless /\ SlotHeld
  BY DEF IInv
<1>2. /\ c \notin Made /\ made' = Append(made, c) /\ aborted' = aborted
      /\ activeRun = NoRun /\ runQueue' = runQueue /\ StartRun(c, answer)
  BY DEF RunAtOnce, Enter
<1>3. made' \in Seq(Calls) /\ Len(made') = Len(made) + 1 /\ Made' = Made \cup {c}
  BY <1>1, <1>2, MadeGrows DEF TypeOK
<1>4. runner[c] = "none" /\ answer[c] = "pending" /\ process[c] = "none"
  BY <1>1, <1>2 DEF Traceless
<1>5. /\ answer' \in [Calls -> Answers \cup {"pending"}]
      /\ runner' \in [Calls -> {"none", "live", "done"}]
      /\ process' \in [Calls -> {"none", "alive", "gone"}]
      /\ stopped' \subseteq Calls
      /\ activeRun' \in {c, NoRun}
      /\ \A d \in Calls \ {c} :
           answer'[d] = answer[d] /\ runner'[d] = runner[d] /\ process'[d] = process[d]
      /\ \/ activeRun' = NoRun /\ answer'[c] = "invalid" /\ c \in Invalid
            /\ runner'[c] = "none" /\ process'[c] = process[c]
         \/ activeRun' = c /\ answer'[c] = "pending" /\ runner'[c] = "live"
            /\ process'[c] = "alive"
  BY <1>1, <1>2, <1>4, StartRunEffect DEF TypeOK
<1>6. TypeOK'
  BY <1>1, <1>2, <1>3, <1>5 DEF TypeOK
<1>7. OneLiveRun'
  BY <1>1, <1>2, <1>5, NoRunAssumption DEF OneLiveRun
<1>8. QueueSound'
  <2>1. \A i \in 1 .. Len(runQueue) : runQueue[i] \in Calls /\ runQueue[i] # c
    BY <1>1, <1>2 DEF QueueSound, TypeOK
  <2> QED BY <1>1, <1>2, <1>3, <1>5, <2>1 DEF QueueSound
<1>9. AnsweredWithoutChild' /\ Traceless'
  BY <1>1, <1>2, <1>3, <1>4, <1>5 DEF AnsweredWithoutChild, Traceless
<1>10. FanOutFits'
  BY <1>1, <1>2, <1>3, <1>5, LimitAssumption DEF FanOutFits, TypeOK
<1>11. QueueCounted' /\ SlotHeld'
  BY <1>1, <1>2, <1>3, <1>5, NoRunAssumption DEF QueueCounted, SlotHeld, TypeOK
<1> QED BY <1>6, <1>7, <1>8, <1>9, <1>10, <1>11 DEF IInv

\* run() with slot and queue full: the call is answered and leaves no other trace.
LEMMA RunRefusedInv ==
  ASSUME IInv, NEW c \in Calls, RunRefused(c)
  PROVE  IInv'
<1>1. /\ TypeOK /\ OneLiveRun /\ QueueSound /\ AnsweredWithoutChild /\ FanOutFits
      /\ QueueCounted /\ Traceless /\ SlotHeld
  BY DEF IInv
<1>2. /\ c \notin Made /\ made' = Append(made, c) /\ aborted' = aborted
      /\ activeRun # NoRun /\ Len(runQueue) >= QueueLimit
      /\ answer' = [answer EXCEPT ![c] = "busy"]
      /\ UNCHANGED <<activeRun, runQueue, runner, stopped, process>>
  BY DEF RunRefused, Enter
<1>3. made' \in Seq(Calls) /\ Len(made') = Len(made) + 1 /\ Made' = Made \cup {c}
  BY <1>1, <1>2, MadeGrows DEF TypeOK
<1>4. runner[c] = "none" /\ answer[c] = "pending" /\ process[c] = "none"
  BY <1>1, <1>2 DEF Traceless
<1>5. TypeOK'
  BY <1>1, <1>2, <1>3 DEF TypeOK, Answers
<1>6. OneLiveRun'
  BY <1>1, <1>2 DEF OneLiveRun
<1>7. QueueSound'
  <2>1. \A i \in 1 .. Len(runQueue) : runQueue[i] \in Calls /\ runQueue[i] # c
    BY <1>1, <1>2 DEF QueueSound, TypeOK
  <2> QED BY <1>1, <1>2, <1>3, <2>1 DEF QueueSound, TypeOK
<1>8. AnsweredWithoutChild' /\ Traceless'
  BY <1>1, <1>2, <1>3, <1>4 DEF AnsweredWithoutChild, Traceless, TypeOK
<1>9. FanOutFits'
  BY <1>1, <1>2, <1>3, LimitAssumption DEF FanOutFits, QueueCounted, TypeOK
<1>10. QueueCounted' /\ SlotHeld'
  <2>1. activeRun # c
    BY <1>1, <1>2, <1>4 DEF SlotHeld
  <2> QED BY <1>1, <1>2, <1>3, <2>1 DEF QueueCounted, SlotHeld, TypeOK
<1> QED BY <1>5, <1>6, <1>7, <1>8, <1>9, <1>10 DEF IInv

\* run() with room in the queue: the new entry is unlike every waiting one.
LEMMA RunQueuedInv ==
  ASSUME IInv, NEW c \in Calls, RunQueued(c)
  PROVE  IInv'
<1>1. /\ TypeOK /\ OneLiveRun /\ QueueSound /\ AnsweredWithoutChild /\ FanOutFits
      /\ QueueCounted /\ Traceless /\ SlotHeld
  BY DEF IInv
<1>2. /\ c \notin Made /\ made' = Append(made, c) /\ aborted' = aborted
      /\ activeRun # NoRun /\ Len(runQueue) < QueueLimit
      /\ runQueue' = IF c \in aborted THEN runQueue ELSE Append(runQueue, c)
      /\ UNCHANGED <<answer, activeRun, runner, stopped, process>>
  BY DEF RunQueued, Enter
<1>3. made' \in Seq(Calls) /\ Len(made') = Len(made) + 1 /\ Made' = Made \cup {c}
  BY <1>1, <1>2, MadeGrows DEF TypeOK
<1>4. runner[c] = "none" /\ answer[c] = "pending" /\ process[c] = "none"
  BY <1>1, <1>2 DEF Traceless
<1>5. /\ runQueue' \in Seq(Calls) /\ Len(runQueue') <= Len(runQueue) + 1
      /\ \A i \in 1 .. Len(runQueue') :
           \/ i \in 1 .. Len(runQueue) /\ runQueue'[i] = runQueue[i]
           \/ i = Len(runQueue) + 1 /\ runQueue'[i] = c
  BY <1>1, <1>2 DEF TypeOK
<1>6. TypeOK'
  BY <1>1, <1>2, <1>3, <1>5, LimitAssumption DEF TypeOK
<1>7. OneLiveRun'
  BY <1>1, <1>2 DEF OneLiveRun
<1>8. QueueSound'
  <2>1. \A i \in 1 .. Len(runQueue) : runQueue[i] \in Calls /\ runQueue[i] # c
    BY <1>1, <1>2 DEF QueueSound, TypeOK
  <2>2. \A i \in 1 .. Len(runQueue') :
          /\ runQueue'[i] \in Made'
          /\ answer'[runQueue'[i]] = "pending" /\ runner'[runQueue'[i]] = "none"
    BY <1>1, <1>2, <1>3, <1>4, <1>5 DEF QueueSound
  <2>3. \A i, j \in 1 .. Len(runQueue') : runQueue'[i] = runQueue'[j] => i = j
    BY <1>1, <1>5, <2>1 DEF QueueSound
  <2> QED BY <2>2, <2>3 DEF QueueSound
<1>9. AnsweredWithoutChild' /\ Traceless'
  BY <1>1, <1>2, <1>3 DEF AnsweredWithoutChild, Traceless
<1>10. FanOutFits'
  BY <1>1, <1>2, <1>3, LimitAssumption DEF FanOutFits, TypeOK
<1>11. QueueCounted' /\ SlotHeld'
  BY <1>1, <1>2, <1>3, <1>5 DEF QueueCounted, SlotHeld, TypeOK
<1> QED BY <1>6, <1>7, <1>8, <1>9, <1>10, <1>11 DEF IInv

\* The end of a runner leaves slot, queue and answers to startRun.
LEMMA RunnerFinishesInv ==
  ASSUME IInv, NEW c \in Calls, RunnerFinishes(c)
  PROVE  IInv'
<1>1. /\ TypeOK /\ OneLiveRun /\ QueueSound /\ AnsweredWithoutChild /\ FanOutFits
      /\ QueueCounted /\ Traceless /\ SlotHeld
  BY DEF IInv
<1>2. /\ runner[c] = "live" /\ runner' = [runner EXCEPT ![c] = "done"]
      /\ UNCHANGED <<made, answer, activeRun, runQueue, stopped, aborted>>
  BY DEF RunnerFinishes
<1>3. PICK state \in {"alive", "gone"} : process' = [process EXCEPT ![c] = state]
  BY DEF RunnerFinishes
<1>4. Made' = Made
  BY <1>2 DEF Made
<1>5. TypeOK' /\ OneLiveRun' /\ FanOutFits' /\ QueueCounted' /\ SlotHeld'
  BY <1>1, <1>2, <1>3 DEF TypeOK, OneLiveRun, FanOutFits, QueueCounted, SlotHeld
<1>6. QueueSound'
  BY <1>1, <1>2, <1>4 DEF TypeOK, QueueSound
<1>7. Traceless' /\ AnsweredWithoutChild'
  BY <1>1, <1>2, <1>3, <1>4 DEF TypeOK, AnsweredWithoutChild, Traceless
<1> QED BY <1>5, <1>6, <1>7 DEF IInv

\* The reaper only touches the child.
LEMMA ChildReapedInv ==
  ASSUME IInv, NEW c \in Calls, ChildReaped(c)
  PROVE  IInv'
<1>1. /\ TypeOK /\ OneLiveRun /\ QueueSound /\ AnsweredWithoutChild /\ FanOutFits
      /\ QueueCounted /\ Traceless /\ SlotHeld
  BY DEF IInv
<1>2. /\ process[c] = "alive" /\ process' = [process EXCEPT ![c] = "gone"]
      /\ UNCHANGED <<made, answer, activeRun, runQueue, runner, stopped, aborted>>
  BY DEF ChildReaped
<1>3. Made' = Made
  BY <1>2 DEF Made
<1>4. TypeOK' /\ OneLiveRun' /\ FanOutFits' /\ QueueCounted' /\ SlotHeld'
  BY <1>1, <1>2 DEF TypeOK, OneLiveRun, FanOutFits, QueueCounted, SlotHeld
<1>5. QueueSound'
  BY <1>1, <1>2, <1>3 DEF QueueSound
<1>6. Traceless' /\ AnsweredWithoutChild'
  BY <1>1, <1>2, <1>3 DEF TypeOK, AnsweredWithoutChild, Traceless
<1> QED BY <1>4, <1>5, <1>6 DEF IInv

\* cancel() only marks the active run.
LEMMA CancelInv ==
  ASSUME IInv, Cancel
  PROVE  IInv'
<1>1. /\ activeRun \in Calls /\ stopped' = stopped \cup {activeRun}
      /\ UNCHANGED <<made, answer, activeRun, runQueue, runner, process, aborted>>
  BY DEF Cancel, IInv, TypeOK
<1>2. Made' = Made
  BY <1>1 DEF Made
<1> QED BY <1>1, <1>2 DEF IInv, TypeOK, OneLiveRun, QueueSound, AnsweredWithoutChild,
                        FanOutFits, QueueCounted, Traceless, SlotHeld

\* What an abort does, the queue taken apart by WithoutEntry.
LEMMA AbortInv ==
  ASSUME IInv, NEW c \in Calls, Abort(c)
  PROVE  IInv'
<1>1. /\ TypeOK /\ OneLiveRun /\ QueueSound /\ AnsweredWithoutChild /\ FanOutFits
      /\ QueueCounted /\ Traceless /\ SlotHeld
  BY DEF IInv
<1>2. /\ aborted' = aborted \cup {c} /\ stopped' \subseteq stopped \cup {c}
      /\ UNCHANGED <<made, activeRun, runner, process>>
  BY DEF Abort
<1>3. Made' = Made
  BY <1>2 DEF Made
<1>4. CASE ~Queued(c)
  <2>1. UNCHANGED <<runQueue, answer>>
    BY <1>4 DEF Abort
  <2> QED BY <1>1, <1>2, <1>3, <2>1
          DEF IInv, TypeOK, OneLiveRun, QueueSound, AnsweredWithoutChild,
              FanOutFits, QueueCounted, Traceless, SlotHeld
<1>5. CASE Queued(c)
  <2>1. runQueue' = Without(c) /\ answer' = [answer EXCEPT ![c] = "dequeued"]
    BY <1>5 DEF Abort
  <2>2. /\ runQueue' \in Seq(Calls) /\ Len(runQueue') = Len(runQueue) - 1
        /\ \E i \in 1 .. Len(runQueue) :
             /\ runQueue[i] = c
             /\ \A j \in 1 .. Len(runQueue') :
                  runQueue'[j] = IF j < i THEN runQueue[j] ELSE runQueue[j + 1]
    BY <1>1, <1>5, <2>1, WithoutEntry DEF TypeOK
  <2>3. PICK i \in 1 .. Len(runQueue) :
          /\ runQueue[i] = c
          /\ \A j \in 1 .. Len(runQueue') :
               runQueue'[j] = IF j < i THEN runQueue[j] ELSE runQueue[j + 1]
    BY <2>2
  <2>4. c \in Made /\ answer[c] = "pending" /\ runner[c] = "none"
    BY <1>1, <2>3 DEF QueueSound
  <2>5. TypeOK'
    BY <1>1, <1>2, <2>1, <2>2, LimitAssumption DEF TypeOK, Answers
  <2>6. OneLiveRun' /\ FanOutFits'
    BY <1>1, <1>2, <2>1 DEF TypeOK, OneLiveRun, FanOutFits
  <2>7. QueueSound'
    <3> DEFINE old(j) == IF j < i THEN j ELSE j + 1
    <3>1. \A j \in 1 .. Len(runQueue') :
            /\ old(j) \in 1 .. Len(runQueue) /\ old(j) # i
            /\ runQueue'[j] = runQueue[old(j)]
      BY <2>2, <2>3 DEF TypeOK
    <3>2. \A j, k \in 1 .. Len(runQueue') : old(j) = old(k) => j = k
      BY <2>2
    <3> HIDE DEF old
    <3>3. \A j \in 1 .. Len(runQueue') : runQueue'[j] \in Calls /\ runQueue'[j] # c
      BY <1>1, <2>3, <3>1 DEF QueueSound, TypeOK
    <3>4. \A j \in 1 .. Len(runQueue') :
            /\ runQueue'[j] \in Made'
            /\ answer'[runQueue'[j]] = "pending" /\ runner'[runQueue'[j]] = "none"
      BY <1>1, <1>2, <1>3, <2>1, <3>1, <3>3 DEF QueueSound, TypeOK
    <3>5. \A j, k \in 1 .. Len(runQueue') : runQueue'[j] = runQueue'[k] => j = k
      BY <1>1, <3>1, <3>2 DEF QueueSound
    <3> QED BY <3>4, <3>5 DEF QueueSound
  <2>8. Traceless' /\ AnsweredWithoutChild'
    BY <1>1, <1>2, <1>3, <2>1, <2>4 DEF TypeOK, AnsweredWithoutChild, Traceless
  <2>9. QueueCounted' /\ SlotHeld'
    <3>1. activeRun # c
      BY <1>1, <2>4, NoRunAssumption DEF SlotHeld
    <3>2. QueueCounted'
      BY <1>1, <1>2, <2>2 DEF QueueCounted, TypeOK
    <3> QED BY <1>1, <1>2, <2>1, <3>1, <3>2 DEF SlotHeld, TypeOK
  <2> QED BY <2>5, <2>6, <2>7, <2>8, <2>9 DEF IInv
<1> QED BY <1>4, <1>5

\* startRun continues: the slot is free, or the oldest waiting call takes it.
LEMMA ContinueInv ==
  ASSUME IInv, NEW c \in Calls, Continue(c)
  PROVE  IInv'
<1> DEFINE settled == [answer EXCEPT ![c] = IF c \in stopped THEN "cancelled" ELSE "ran"]
<1>1. /\ TypeOK /\ OneLiveRun /\ QueueSound /\ AnsweredWithoutChild /\ FanOutFits
      /\ QueueCounted /\ Traceless /\ SlotHeld
  BY DEF IInv
<1>2. /\ activeRun = c /\ runner[c] = "done" /\ answer[c] = "pending"
      /\ UNCHANGED <<made, aborted>>
  BY DEF Continue
<1>3. Made' = Made
  BY <1>2 DEF Made
<1>4. /\ settled \in [Calls -> Answers \cup {"pending"}]
      /\ settled[c] \in {"cancelled", "ran"}
      /\ \A d \in Calls \ {c} : settled[d] = answer[d]
  BY <1>1 DEF TypeOK, Answers
<1>5. CASE runQueue = <<>>
  <2>1. /\ activeRun' = NoRun /\ answer' = settled
        /\ UNCHANGED <<runQueue, runner, stopped, process>>
    BY <1>5 DEF Continue
  <2> HIDE DEF settled
  <2>2. TypeOK' /\ OneLiveRun' /\ SlotHeld'
    BY <1>1, <1>2, <1>4, <2>1 DEF TypeOK, OneLiveRun, SlotHeld
  <2>3. QueueSound' /\ QueueCounted'
    BY <1>1, <1>2, <1>3, <1>5, <2>1 DEF QueueSound, QueueCounted, TypeOK
  <2>4. FanOutFits' /\ AnsweredWithoutChild' /\ Traceless'
    BY <1>1, <1>2, <1>3, <1>4, <2>1 DEF FanOutFits, AnsweredWithoutChild, Traceless
  <2> QED BY <2>2, <2>3, <2>4 DEF IInv
<1>6. CASE runQueue # <<>>
  <2> DEFINE h == Head(runQueue)
  <2>1. runQueue' = Tail(runQueue) /\ StartRun(h, settled)
    BY <1>6 DEF Continue
  <2>2. /\ h \in Calls /\ h = runQueue[1] /\ 1 \in 1 .. Len(runQueue)
        /\ runQueue' \in Seq(Calls) /\ Len(runQueue') = Len(runQueue) - 1
        /\ \A i \in 1 .. Len(runQueue') :
             i + 1 \in 1 .. Len(runQueue) /\ runQueue'[i] = runQueue[i + 1]
    BY <1>1, <1>6, <2>1 DEF TypeOK
  <2> HIDE DEF h, settled
  <2>3. h # c /\ h \in Made /\ answer[h] = "pending" /\ runner[h] = "none"
    BY <1>1, <1>2, <2>2 DEF QueueSound
  <2>4. settled[h] = "pending" /\ process[h] = "none"
    BY <1>1, <1>4, <2>2, <2>3 DEF Traceless
  <2>5. /\ answer' \in [Calls -> Answers \cup {"pending"}]
        /\ runner' \in [Calls -> {"none", "live", "done"}]
        /\ process' \in [Calls -> {"none", "alive", "gone"}]
        /\ stopped' \subseteq Calls
        /\ activeRun' \in {h, NoRun}
        /\ \A d \in Calls \ {h} :
             answer'[d] = settled[d] /\ runner'[d] = runner[d] /\ process'[d] = process[d]
        /\ \/ activeRun' = NoRun /\ answer'[h] = "invalid" /\ h \in Invalid
              /\ runner'[h] = "none" /\ process'[h] = process[h]
           \/ activeRun' = h /\ answer'[h] = "pending" /\ runner'[h] = "live"
              /\ process'[h] = "alive"
    BY <1>4, <2>1, <2>2, <2>3, <2>4, StartRunEffect
  <2>6. TypeOK'
    BY <1>1, <1>2, <2>2, <2>5, LimitAssumption DEF TypeOK
  <2>7. OneLiveRun'
    BY <1>1, <1>2, <2>2, <2>3, <2>5 DEF OneLiveRun
  <2>8. QueueSound'
    <3>1. \A i \in 1 .. Len(runQueue') :
            /\ runQueue'[i] \in Calls /\ runQueue'[i] # h /\ runQueue'[i] # c
            /\ answer[runQueue'[i]] = "pending" /\ runner[runQueue'[i]] = "none"
            /\ runQueue'[i] \in Made
      <4> SUFFICES ASSUME NEW i \in 1 .. Len(runQueue')
                   PROVE  /\ runQueue'[i] \in Calls /\ runQueue'[i] # h /\ runQueue'[i] # c
                          /\ answer[runQueue'[i]] = "pending" /\ runner[runQueue'[i]] = "none"
                          /\ runQueue'[i] \in Made
        OBVIOUS
      <4>1. i + 1 \in 1 .. Len(runQueue) /\ i + 1 # 1 /\ runQueue'[i] = runQueue[i + 1]
        BY <2>2
      <4>2. runQueue'[i] \in Calls
        BY <2>2
      <4>3. /\ runQueue[i + 1] # runQueue[1] /\ runQueue[i + 1] \in Made
            /\ answer[runQueue[i + 1]] = "pending" /\ runner[runQueue[i + 1]] = "none"
        BY <1>1, <2>2, <4>1 DEF QueueSound
      <4> QED BY <1>2, <2>2, <4>1, <4>2, <4>3
    <3>2. \A i \in 1 .. Len(runQueue') :
            /\ runQueue'[i] \in Made'
            /\ answer'[runQueue'[i]] = "pending" /\ runner'[runQueue'[i]] = "none"
      BY <1>3, <1>4, <2>5, <3>1
    <3>3. \A i, j \in 1 .. Len(runQueue') : runQueue'[i] = runQueue'[j] => i = j
      <4> SUFFICES ASSUME NEW i \in 1 .. Len(runQueue'), NEW j \in 1 .. Len(runQueue'),
                          runQueue'[i] = runQueue'[j]
                   PROVE  i = j
        OBVIOUS
      <4>1. /\ i + 1 \in 1 .. Len(runQueue) /\ j + 1 \in 1 .. Len(runQueue)
            /\ runQueue[i + 1] = runQueue[j + 1]
        BY <2>2
      <4>2. i + 1 = j + 1
        BY <1>1, <4>1 DEF QueueSound
      <4> QED BY <4>2
    <3> QED BY <3>2, <3>3 DEF QueueSound
  <2>9. AnsweredWithoutChild' /\ Traceless'
    <3>1. ASSUME NEW d \in Calls
          PROVE  /\ d \notin Made' => answer'[d] = "pending" /\ runner'[d] = "none"
                 /\ runner'[d] = "none" => process'[d] = "none"
                 /\ answer'[d] \in {"busy", "invalid", "dequeued"} => runner'[d] = "none"
      <4>1. CASE d = h
        BY <1>3, <2>3, <2>4, <2>5, <4>1
      <4>2. CASE d = c
        BY <1>1, <1>2, <1>3, <1>4, <2>3, <2>5, <4>2 DEF Traceless
      <4>3. CASE d # h /\ d # c
        BY <1>1, <1>3, <1>4, <2>5, <4>3 DEF Traceless
      <4> QED BY <4>1, <4>2, <4>3
    <3> QED BY <3>1 DEF AnsweredWithoutChild, Traceless
  <2>10. FanOutFits'
    BY <1>1, <1>2, <1>4, <2>2, <2>5 DEF FanOutFits
  <2>11. QueueCounted' /\ SlotHeld'
    BY <1>1, <1>2, <2>2, <2>5, NoRunAssumption DEF QueueCounted, SlotHeld, TypeOK
  <2> QED BY <2>6, <2>7, <2>8, <2>9, <2>10, <2>11 DEF IInv
<1> QED BY <1>5, <1>6

\* Every step of Next, one lemma per action.
LEMMA InvNext == IInv /\ [Next]_vars => IInv'
<1> SUFFICES ASSUME IInv, [Next]_vars PROVE IInv' OBVIOUS
<1>1. ASSUME NEW c \in Calls, Run(c) PROVE IInv'
  BY <1>1, RunAtOnceInv, RunRefusedInv, RunQueuedInv DEF Run
<1>2. ASSUME NEW c \in Calls, RunnerFinishes(c) PROVE IInv'
  BY <1>2, RunnerFinishesInv
<1>3. ASSUME NEW c \in Calls, ChildReaped(c) PROVE IInv'
  BY <1>3, ChildReapedInv
<1>4. ASSUME NEW c \in Calls, Continue(c) PROVE IInv'
  BY <1>4, ContinueInv
<1>5. ASSUME NEW c \in Calls, Abort(c) PROVE IInv'
  BY <1>5, AbortInv
<1>6. CASE Cancel
  BY <1>6, CancelInv
<1>7. CASE UNCHANGED vars
  BY <1>7 DEF vars, IInv, TypeOK, OneLiveRun, QueueSound, AnsweredWithoutChild,
              FanOutFits, QueueCounted, Traceless, SlotHeld, Made
<1> QED BY <1>1, <1>2, <1>3, <1>4, <1>5, <1>6, <1>7 DEF Next

(***************************************************************************)
(* The theorems.                                                           *)
(***************************************************************************)

\* The inductive invariant holds of every behaviour of run(), startRun(), cancel()
\* and the abort handler, for every number of calls and every limit.
THEOREM Invariance == Spec => []IInv
<1> QED BY InvInit, InvNext, PTL DEF Spec

\* Types, and the queue within queueLimit.
THEOREM TypeCorrect == Spec => []TypeOK
<1>1. IInv => TypeOK
  BY DEF IInv
<1> QED BY <1>1, Invariance, PTL

\* POL-005 for runners: at most one is live, and it holds the slot.
THEOREM OneRunAtATime == Spec => []OneLiveRun
<1>1. IInv => OneLiveRun
  BY DEF IInv
<1> QED BY <1>1, Invariance, PTL

\* The queue holds unanswered, unstarted calls, each once.
THEOREM QueueIsSound == Spec => []QueueSound
<1>1. IInv => QueueSound
  BY DEF IInv
<1> QED BY <1>1, Invariance, PTL

\* A call answered without having run never gets a child.
THEOREM NoChildForRefusedCalls == Spec => []AnsweredWithoutChild
<1>1. IInv => AnsweredWithoutChild
  BY DEF IInv
<1> QED BY <1>1, Invariance, PTL

\* E_DELEGATE_BUSY is answered only to a fan-out larger than slot and queue.
THEOREM FanOutIsServed == Spec => []FanOutFits
<1>1. IInv => FanOutFits
  BY DEF IInv
<1> QED BY <1>1, Invariance, PTL

\* No promise of run() resolves twice.
THEOREM AnswersFinal == Spec => AnswerOnce
<1>1. ASSUME IInv, [Next]_vars, NEW c \in Calls, answer[c] # "pending"
      PROVE  answer'[c] = answer[c]
  <2>1. TypeOK /\ QueueSound /\ Traceless
    BY <1>1 DEF IInv
  <2>2. ASSUME NEW d \in Calls, Run(d) PROVE answer'[c] = answer[c]
    <3>1. c # d
      BY <1>1, <2>1, <2>2 DEF Run, RunAtOnce, RunRefused, RunQueued, Enter, Traceless
    <3> QED BY <2>1, <2>2, <3>1
            DEF Run, RunAtOnce, RunRefused, RunQueued, StartRun, TypeOK
  <2>3. ASSUME NEW d \in Calls, Continue(d) PROVE answer'[c] = answer[c]
    <3>1. c # d
      BY <1>1, <2>3 DEF Continue
    <3>2. CASE runQueue = <<>>
      BY <2>1, <2>3, <3>1, <3>2 DEF Continue, TypeOK
    <3>3. CASE runQueue # <<>>
      <4>1. Head(runQueue) = runQueue[1] /\ 1 \in 1 .. Len(runQueue)
        BY <2>1, <3>3 DEF TypeOK
      <4>2. Head(runQueue) # c
        BY <1>1, <2>1, <4>1 DEF QueueSound
      <4> QED BY <2>1, <2>3, <3>1, <3>3, <4>2 DEF Continue, StartRun, TypeOK
    <3> QED BY <3>2, <3>3
  <2>4. ASSUME NEW d \in Calls, Abort(d) PROVE answer'[c] = answer[c]
    <3>1. Queued(d) => d # c
      BY <1>1, <2>1 DEF Queued, QueueSound
    <3> QED BY <2>1, <2>4, <3>1 DEF Abort, TypeOK
  <2>5. ASSUME NEW d \in Calls, RunnerFinishes(d) \/ ChildReaped(d)
        PROVE  answer'[c] = answer[c]
    BY <2>5 DEF RunnerFinishes, ChildReaped
  <2>6. CASE Cancel \/ UNCHANGED vars
    BY <2>6 DEF Cancel, vars
  <2> QED BY <1>1, <2>2, <2>3, <2>4, <2>5, <2>6 DEF Next
<1>2. IInv /\ [Next]_vars
        => [\A c \in Calls : answer[c] # "pending" => answer'[c] = answer[c]]_vars
  BY <1>1
<1> QED BY <1>2, Invariance, PTL DEF Spec, AnswerOnce

\* As long as no call was made that prepareRun rejects, every end of a run hands
\* the slot on: startRun's early return is the only way a queue is left waiting.
THEOREM SlotHandedOn == Spec => []NoIdleSlot
<1>1. Init => NoIdleSlot
  BY DEF Init, NoIdleSlot
<1>2. IInv /\ NoIdleSlot /\ [Next]_vars => NoIdleSlot'
  <2> SUFFICES ASSUME IInv, NoIdleSlot, [Next]_vars, AllValid', runQueue' # <<>>
               PROVE  activeRun' # NoRun
    BY DEF NoIdleSlot
  <2>1. TypeOK /\ QueueSound
    BY DEF IInv
  <2>2. ASSUME NEW c \in Calls, Run(c) PROVE activeRun' # NoRun
    <3>1. Made \subseteq Made' /\ c \in Made'
      <4>1. made' = Append(made, c)
        BY <2>2 DEF Run, RunAtOnce, RunRefused, RunQueued, Enter
      <4>2. made' \in Seq(Calls) /\ Len(made') = Len(made) + 1 /\ made'[Len(made) + 1] = c
            /\ \A i \in 1 .. Len(made) : made'[i] = made[i]
        BY <2>1, <4>1 DEF TypeOK
      <4>3. Len(made) + 1 \in 1 .. Len(made') /\ 1 .. Len(made) \subseteq 1 .. Len(made')
        BY <2>1, <4>2 DEF TypeOK
      <4>4. c \in Made'
        BY <4>2, <4>3 DEF Made
      <4>5. ASSUME NEW d \in Made PROVE d \in Made'
        <5>1. PICK i \in 1 .. Len(made) : d = made[i]
          BY DEF Made
        <5>2. i \in 1 .. Len(made') /\ d = made'[i]
          BY <4>2, <4>3, <5>1
        <5> QED BY <5>2 DEF Made
      <4> QED BY <4>4, <4>5
    <3>2. AllValid /\ c \notin Invalid
      BY <3>1 DEF AllValid
    <3> QED BY <2>2, <3>2, NoRunAssumption
            DEF Run, RunAtOnce, RunRefused, RunQueued, StartRun, NoIdleSlot
  <2>3. ASSUME NEW c \in Calls, Continue(c) PROVE activeRun' # NoRun
    <3>1. runQueue # <<>> /\ StartRun(Head(runQueue), [answer EXCEPT ![c] =
                               IF c \in stopped THEN "cancelled" ELSE "ran"])
      BY <2>3 DEF Continue
    <3>2. 1 \in 1 .. Len(runQueue) /\ Head(runQueue) = runQueue[1]
      BY <2>1, <3>1 DEF TypeOK
    <3>3. Head(runQueue) \in Calls /\ Head(runQueue) \in Made
      BY <2>1, <3>1, <3>2 DEF TypeOK, QueueSound
    <3>4. Made' = Made
      BY <2>3 DEF Continue, Made
    <3>5. Head(runQueue) \notin Invalid
      BY <3>3, <3>4 DEF AllValid
    <3> QED BY <3>1, <3>3, <3>5, NoRunAssumption DEF StartRun
  <2>4. ASSUME NEW c \in Calls, Abort(c) PROVE activeRun' # NoRun
    <3>1. runQueue # <<>>
      BY <2>1, <2>4 DEF Abort, Queued, TypeOK
    <3>2. AllValid
      BY <2>4 DEF Abort, AllValid, Made
    <3> QED BY <2>4, <3>1, <3>2 DEF Abort, NoIdleSlot
  <2>5. ASSUME NEW c \in Calls, RunnerFinishes(c) \/ ChildReaped(c)
        PROVE  activeRun' # NoRun
    BY <2>5 DEF RunnerFinishes, ChildReaped, NoIdleSlot, AllValid, Made
  <2>6. CASE Cancel \/ UNCHANGED vars
    BY <2>6 DEF Cancel, vars, NoIdleSlot, AllValid, Made
  <2> QED BY <2>2, <2>3, <2>4, <2>5, <2>6 DEF Next
<1> QED BY <1>1, <1>2, Invariance, PTL DEF Spec

(***************************************************************************)
(* First come, first served: the queue is in the order of the calls.       *)
(***************************************************************************)

\* A call is made at most once.
MadeOnce == \A i, j \in 1 .. Len(made) : made[i] = made[j] => i = j

\* Of two calls in the queue, the one in front was made first.
InOrder ==
  \A m, n \in 1 .. Len(runQueue), i, j \in 1 .. Len(made) :
    m < n /\ made[i] = runQueue[m] /\ made[j] = runQueue[n] => i < j

\* A call that is entered is the last of the log.
LEMMA EnterLast ==
  ASSUME IInv, NEW c \in Calls, Enter(c)
  PROVE  /\ Len(made) \in Nat /\ Len(made') = Len(made) + 1 /\ made'[Len(made) + 1] = c
         /\ \A i \in 1 .. Len(made) : made'[i] = made[i] /\ made[i] # c
         /\ \A i \in 1 .. Len(made') : i \in 1 .. Len(made) \/ i = Len(made) + 1
         /\ \A i \in 1 .. Len(runQueue) : runQueue[i] # c
         /\ AllValid' => AllValid /\ c \notin Invalid
<1>1. made \in Seq(Calls) /\ made' = Append(made, c) /\ c \notin Made
  BY DEF Enter, IInv, TypeOK
<1>2. /\ Len(made) \in Nat /\ Len(made') = Len(made) + 1 /\ made'[Len(made) + 1] = c
      /\ \A i \in 1 .. Len(made) : made'[i] = made[i]
  BY <1>1
<1>3. \A i \in 1 .. Len(made) : made[i] # c
  BY <1>1 DEF Made
<1>4. \A i \in 1 .. Len(made') : i \in 1 .. Len(made) \/ i = Len(made) + 1
  BY <1>2
<1>5. \A i \in 1 .. Len(runQueue) : runQueue[i] # c
  BY <1>1 DEF IInv, QueueSound
<1>6. AllValid' => AllValid /\ c \notin Invalid
  BY <1>1, MadeGrows DEF AllValid
<1> QED BY <1>2, <1>3, <1>4, <1>5, <1>6

\* No step makes a call twice.
LEMMA MadeOnceInv == ASSUME IInv, MadeOnce, [Next]_vars PROVE MadeOnce'
<1>1. ASSUME NEW c \in Calls, Enter(c) PROVE MadeOnce'
  <2> SUFFICES ASSUME NEW i \in 1 .. Len(made'), NEW j \in 1 .. Len(made'), made'[i] = made'[j]
               PROVE  i = j
    BY DEF MadeOnce
  <2> QED BY <1>1, EnterLast DEF MadeOnce
<1>2. CASE made' = made
  BY <1>2 DEF MadeOnce
<1> QED BY <1>1, <1>2 DEF Next, vars, Run, RunAtOnce, RunRefused, RunQueued, RunnerFinishes,
                     ChildReaped, Continue, Abort, Cancel

\* A queue that keeps some of its entries, in their order, is in order.
LEMMA SubqueueInOrder ==
  ASSUME InOrder, made' = made, NEW f \in [1 .. Len(runQueue') -> 1 .. Len(runQueue)],
         \A m \in 1 .. Len(runQueue') : runQueue'[m] = runQueue[f[m]],
         \A m, n \in 1 .. Len(runQueue') : m < n => f[m] < f[n]
  PROVE  InOrder'
<1> SUFFICES ASSUME NEW m \in 1 .. Len(runQueue'), NEW n \in 1 .. Len(runQueue'),
                    NEW i \in 1 .. Len(made), NEW j \in 1 .. Len(made),
                    m < n, made[i] = runQueue'[m], made[j] = runQueue'[n]
             PROVE  i < j
  BY DEF InOrder
<1>1. /\ f[m] \in 1 .. Len(runQueue) /\ f[n] \in 1 .. Len(runQueue) /\ f[m] < f[n]
      /\ made[i] = runQueue[f[m]] /\ made[j] = runQueue[f[n]]
  OBVIOUS
<1> QED BY <1>1 DEF InOrder

\* The head goes, the rest moves up.
LEMMA TailShape ==
  ASSUME runQueue \in Seq(Calls), runQueue # <<>>
  PROVE  /\ Len(runQueue) \in Nat /\ Len(Tail(runQueue)) = Len(runQueue) - 1
         /\ Tail(runQueue) \in Seq(Calls)
         /\ \A m \in 1 .. Len(Tail(runQueue)) : Tail(runQueue)[m] = runQueue[m + 1]
         /\ Head(runQueue) = runQueue[1] /\ 1 \in 1 .. Len(runQueue)
  OBVIOUS

\* No step puts a call before one that was made earlier.
LEMMA InOrderInv == ASSUME IInv, InOrder, [Next]_vars PROVE InOrder'
<1>t. runQueue \in Seq(Calls) /\ made \in Seq(Calls)
  BY DEF IInv, TypeOK
<1>1. ASSUME NEW c \in Calls, Run(c) PROVE InOrder'
  <2>1. Enter(c)
    BY <1>1 DEF Run, RunAtOnce, RunRefused, RunQueued
  <2>2. CASE runQueue' = runQueue
    <3> SUFFICES ASSUME NEW m \in 1 .. Len(runQueue), NEW n \in 1 .. Len(runQueue),
                        NEW i \in 1 .. Len(made'), NEW j \in 1 .. Len(made'),
                        m < n, made'[i] = runQueue[m], made'[j] = runQueue[n]
                 PROVE  i < j
      BY <2>2 DEF InOrder
    <3>1. i \in 1 .. Len(made) /\ j \in 1 .. Len(made)
      BY <2>1, EnterLast
    <3> QED BY <2>1, <3>1, EnterLast DEF InOrder
  <2>3. CASE runQueue' = Append(runQueue, c)
    <3>1. /\ Len(runQueue) \in Nat /\ Len(runQueue') = Len(runQueue) + 1
          /\ \A m \in 1 .. Len(runQueue) : runQueue'[m] = runQueue[m]
          /\ runQueue'[Len(runQueue) + 1] = c
      BY <1>t, <2>3
    <3> SUFFICES ASSUME NEW m \in 1 .. Len(runQueue'), NEW n \in 1 .. Len(runQueue'),
                        NEW i \in 1 .. Len(made'), NEW j \in 1 .. Len(made'),
                        m < n, made'[i] = runQueue'[m], made'[j] = runQueue'[n]
                 PROVE  i < j
      BY DEF InOrder
    <3>2. m \in 1 .. Len(runQueue) /\ i \in 1 .. Len(made)
      <4>1. m \in 1 .. Len(runQueue)
        BY <3>1
      <4>2. made'[i] # c
        BY <2>1, <3>1, <4>1, EnterLast
      <4> QED BY <2>1, <4>1, <4>2, EnterLast
    <3>3. CASE n = Len(runQueue) + 1
      <4>1. j = Len(made) + 1
        BY <2>1, <3>1, <3>3, EnterLast
      <4> QED BY <2>1, <3>2, <4>1, EnterLast
    <3>4. CASE n # Len(runQueue) + 1
      <4>1. n \in 1 .. Len(runQueue)
        BY <3>1, <3>4
      <4>2. j \in 1 .. Len(made)
        BY <2>1, <3>1, <4>1, EnterLast
      <4>3. made[i] = runQueue[m] /\ made[j] = runQueue[n]
        <5>1. made'[i] = made[i] /\ made'[j] = made[j]
          BY <2>1, <3>2, <4>2, EnterLast
        <5> QED BY <3>1, <3>2, <4>1, <5>1
      <4> QED BY <3>2, <4>1, <4>2, <4>3 DEF InOrder
    <3> QED BY <3>3, <3>4
  <2> QED BY <1>1, <2>2, <2>3 DEF Run, RunAtOnce, RunRefused, RunQueued
<1>2. ASSUME NEW c \in Calls, Continue(c) PROVE InOrder'
  <2>1. made' = made
    BY <1>2 DEF Continue
  <2>2. CASE runQueue = <<>>
    BY <1>2, <2>1, <2>2 DEF Continue, InOrder
  <2>3. CASE runQueue # <<>>
    <3>1. runQueue' = Tail(runQueue)
      BY <1>2, <2>3 DEF Continue
    <3> DEFINE f == [m \in 1 .. Len(runQueue') |-> m + 1]
    <3>2. /\ f \in [1 .. Len(runQueue') -> 1 .. Len(runQueue)]
          /\ \A m \in 1 .. Len(runQueue') : runQueue'[m] = runQueue[f[m]]
          /\ \A m, n \in 1 .. Len(runQueue') : m < n => f[m] < f[n]
      BY <1>t, <2>3, <3>1, TailShape
    <3> HIDE DEF f
    <3> QED BY <2>1, <3>2, SubqueueInOrder
  <2> QED BY <2>2, <2>3
<1>3. ASSUME NEW c \in Calls, Abort(c) PROVE InOrder'
  <2>1. made' = made
    BY <1>3 DEF Abort
  <2>2. CASE ~Queued(c)
    BY <1>3, <2>1, <2>2 DEF Abort, InOrder
  <2>3. CASE Queued(c)
    <3>1. runQueue' = Without(c)
      BY <1>3, <2>3 DEF Abort
    <3>2. /\ Len(runQueue) \in Nat /\ Len(Without(c)) = Len(runQueue) - 1
          /\ \E i \in 1 .. Len(runQueue) :
               \A j \in 1 .. Len(Without(c)) :
                 Without(c)[j] = IF j < i THEN runQueue[j] ELSE runQueue[j + 1]
      <4>1. Len(runQueue) \in Nat
        BY <1>t
      <4> QED BY <1>t, <2>3, <4>1, WithoutEntry
    <3>3. PICK i \in 1 .. Len(runQueue) :
             \A j \in 1 .. Len(runQueue') :
               runQueue'[j] = IF j < i THEN runQueue[j] ELSE runQueue[j + 1]
      BY <3>1, <3>2
    <3> DEFINE f == [m \in 1 .. Len(runQueue') |-> IF m < i THEN m ELSE m + 1]
    <3>4. /\ f \in [1 .. Len(runQueue') -> 1 .. Len(runQueue)]
          /\ \A m \in 1 .. Len(runQueue') : runQueue'[m] = runQueue[f[m]]
          /\ \A m, n \in 1 .. Len(runQueue') : m < n => f[m] < f[n]
      BY <3>1, <3>2, <3>3
    <3> HIDE DEF f
    <3> QED BY <2>1, <3>4, SubqueueInOrder
  <2> QED BY <2>2, <2>3
<1>4. CASE UNCHANGED <<made, runQueue>>
  BY <1>4 DEF InOrder
<1> QED BY <1>1, <1>2, <1>3, <1>4 DEF Next, vars, RunnerFinishes, ChildReaped, Cancel

\* As long as no call was made that prepareRun rejects, the child of a call is
\* never spawned while a call made before it waits, whatever was aborted or
\* cancelled meanwhile.
THEOREM FirstComeServedFirst == Spec => []FirstComeFirstServed
<1>1. Init => MadeOnce /\ InOrder /\ FirstComeFirstServed
  BY DEF Init, MadeOnce, InOrder, FirstComeFirstServed
<1>2. ASSUME IInv, NoIdleSlot, MadeOnce, InOrder, FirstComeFirstServed, [Next]_vars
      PROVE  FirstComeFirstServed'
  <2> SUFFICES ASSUME AllValid', NEW i \in 1 .. Len(made'), NEW j \in 1 .. Len(made'),
                      i < j, NEW k \in 1 .. Len(runQueue'), runQueue'[k] = made'[i]
               PROVE  runner'[made'[j]] = "none"
    BY DEF FirstComeFirstServed, Queued
  <2>t. /\ runQueue \in Seq(Calls) /\ made \in Seq(Calls)
        /\ runner \in [Calls -> {"none", "live", "done"}]
    BY <1>2 DEF IInv, TypeOK
  <2>1. ASSUME NEW c \in Calls, Run(c) PROVE runner'[made'[j]] = "none"
    <3>1. Enter(c)
      BY <2>1 DEF Run, RunAtOnce, RunRefused, RunQueued
    <3>2. AllValid /\ c \notin Invalid
      BY <1>2, <3>1, EnterLast
    <3>3. ~RunAtOnce(c)
      BY <1>2, <3>2 DEF RunAtOnce, NoIdleSlot, Queued
    <3>4. runner' = runner /\ runner[c] = "none"
      BY <1>2, <2>1, <3>1, <3>3 DEF Run, RunRefused, RunQueued, IInv, Traceless, Enter
    <3>5. CASE j = Len(made) + 1
      BY <1>2, <3>1, <3>4, <3>5, EnterLast
    <3>6. CASE j # Len(made) + 1
      <4>1. /\ i \in 1 .. Len(made) /\ j \in 1 .. Len(made)
            /\ made'[i] = made[i] /\ made'[j] = made[j] /\ made[i] # c
        BY <1>2, <3>1, <3>6, EnterLast
      <4>2. Queued(made[i])
        <5>1. runQueue' = runQueue \/ runQueue' = Append(runQueue, c)
          BY <2>1, <3>3 DEF Run, RunRefused, RunQueued
        <5>2. k \in 1 .. Len(runQueue) /\ runQueue[k] = made[i]
          <6>1. CASE runQueue' = runQueue
            BY <4>1, <6>1
          <6>2. CASE runQueue' = Append(runQueue, c)
            <7>1. /\ Len(runQueue') = Len(runQueue) + 1 /\ Len(runQueue) \in Nat
                  /\ runQueue'[Len(runQueue) + 1] = c
                  /\ \A m \in 1 .. Len(runQueue) : runQueue'[m] = runQueue[m]
              BY <2>t, <6>2
            <7>2. k # Len(runQueue) + 1
              BY <4>1, <7>1
            <7>3. k \in 1 .. Len(runQueue)
              BY <7>1, <7>2
            <7> QED BY <4>1, <7>1, <7>3
          <6> QED BY <5>1, <6>1, <6>2
        <5> QED BY <5>2 DEF Queued
      <4> QED BY <1>2, <3>2, <3>4, <4>1, <4>2 DEF FirstComeFirstServed
    <3> QED BY <3>5, <3>6
  <2>2. ASSUME NEW c \in Calls, Continue(c) PROVE runner'[made'[j]] = "none"
    <3>1. made' = made /\ AllValid
      BY <2>2 DEF Continue, AllValid, Made
    <3>2. runQueue # <<>> /\ runQueue' = Tail(runQueue)
      BY <2>2, <2>t DEF Continue
    <3>3. /\ 1 \in 1 .. Len(runQueue) /\ k + 1 \in 1 .. Len(runQueue) /\ 1 < k + 1
          /\ runQueue[k + 1] = made[i] /\ Head(runQueue) = runQueue[1]
      BY <2>t, <3>1, <3>2, TailShape
    <3>4. runner[made[j]] = "none"
      BY <1>2, <3>1, <3>3 DEF FirstComeFirstServed, Queued
    <3>5. made[j] # runQueue[1]
      <4>1. made[j] = runQueue[1] => j < i
        BY <1>2, <3>1, <3>3 DEF InOrder
      <4> QED BY <3>1, <4>1
    <3>6. runner' = runner \/ runner' = [runner EXCEPT ![runQueue[1]] = "live"]
      BY <2>2, <3>2, <3>3 DEF Continue, StartRun
    <3> QED BY <2>t, <3>1, <3>4, <3>5, <3>6
  <2>3. ASSUME NEW c \in Calls, Abort(c) PROVE runner'[made'[j]] = "none"
    <3>1. made' = made /\ AllValid /\ runner' = runner
      BY <2>3 DEF Abort, AllValid, Made
    <3>2. Queued(made[i])
      <4>1. CASE ~Queued(c)
        BY <2>3, <3>1, <4>1 DEF Abort, Queued
      <4>2. CASE Queued(c)
        <5>1. runQueue' = Without(c)
          BY <2>3, <4>2 DEF Abort
        <5>2. /\ Len(runQueue) \in Nat /\ Len(Without(c)) = Len(runQueue) - 1
              /\ \E n \in 1 .. Len(runQueue) :
                   \A l \in 1 .. Len(Without(c)) :
                     Without(c)[l] = IF l < n THEN runQueue[l] ELSE runQueue[l + 1]
          <6>1. Len(runQueue) \in Nat
            BY <2>t
          <6> QED BY <2>t, <4>2, <6>1, WithoutEntry
        <5>3. /\ k \in 1 .. Len(runQueue) /\ k + 1 \in 1 .. Len(runQueue)
              /\ made[i] = runQueue[k] \/ made[i] = runQueue[k + 1]
          BY <3>1, <5>1, <5>2
        <5> QED BY <5>3 DEF Queued
      <4> QED BY <4>1, <4>2
    <3> QED BY <1>2, <3>1, <3>2 DEF FirstComeFirstServed
  <2>4. ASSUME NEW c \in Calls, RunnerFinishes(c) PROVE runner'[made'[j]] = "none"
    <3>1. /\ made' = made /\ runQueue' = runQueue /\ AllValid
          /\ runner[c] = "live" /\ runner' = [runner EXCEPT ![c] = "done"]
      BY <2>4 DEF RunnerFinishes, AllValid, Made
    <3>2. runner[made[j]] = "none"
      BY <1>2, <3>1 DEF FirstComeFirstServed, Queued
    <3> QED BY <2>t, <3>1, <3>2
  <2>5. CASE UNCHANGED <<made, runQueue, runner>>
    BY <1>2, <2>5 DEF FirstComeFirstServed, Queued, AllValid, Made
  <2> QED BY <1>2, <2>1, <2>2, <2>3, <2>4, <2>5 DEF Next, vars, ChildReaped, Cancel
<1> QED BY <1>1, <1>2, Invariance, SlotHandedOn, MadeOnceInv, InOrderInv, PTL DEF Spec
=============================================================================
