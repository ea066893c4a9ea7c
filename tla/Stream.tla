------------------------------- MODULE Stream -------------------------------
(***************************************************************************)
(* The child's output on its way: the pipe, the parser of rpc-jsonl.ts     *)
(* that cuts it into records, the transcript that keeps them, the events   *)
(* of the live feed, and the feed that is read back from the transcript.   *)
(*                                                                         *)
(* The operating system delivers the child's bytes in pieces of any        *)
(* length; one piece is handled in one step, as in the code. What the      *)
(* records do to the run is Runner's business: here a record ends the run, *)
(* or may, or does not.                                                    *)
(***************************************************************************)
EXTENDS Naturals, Sequences, FiniteSets, SequencesExt

CONSTANTS
  Kinds,           \* bound: the kinds of records the child writes
  Endings,         \* bound: how it ends them
  MaxRecords,      \* bound: how many it writes
  MaxRecordBytes,  \* the largest record the parser takes
  Threshold,       \* malformedThreshold
  Capacity         \* of the ring of live events

CR == <<0, 1>>
LF == <<0, 2>>
Brace == <<0, 3>>

ASSUME KindsAssumption ==
  Kinds \subseteq {"start", "end", "unnamed", "text", "error", "handoff", "settled",
                   "rejected", "other", "junk", "blank", "huge"}
ASSUME EndingsAssumption == Endings \subseteq {<<LF>>, <<CR, LF>>, <<CR, CR, LF>>}
ASSUME BoundAssumption == MaxRecords \in Nat \ {0}
ASSUME RecordAssumption == MaxRecordBytes = 3
ASSUME LimitAssumption == Threshold \in Nat /\ Capacity \in Nat \ {0}

VARIABLES
  sent,        \* the records that the child has written: kind and ending
  pipe,        \* what of it is not yet delivered
  child,       \* "alive", "dead", and "reaped" after its exit event
  buffer,      \* the parser's incomplete last record
  malformed,   \* the parser's count
  oversized,   \* the parser's flag
  settled,     \* the runner's flag
  finalizing,  \* the run is over, nobody reads the pipe any more
  transcript,  \* the raw records in the file
  ring,        \* the events that the dashboard shows
  told,        \* history: all events of the live feed
  flushed      \* history: where in the transcript the flush at exit is, or 0

world == <<sent, pipe, child>>
parser == <<buffer, malformed, oversized>>
runner == <<settled, finalizing>>
feed == <<transcript, ring, told, flushed>>
vars == <<world, parser, runner, feed>>

------------------------------------------------------------------------------
(* Bytes. Two stand for a record, none for an empty line, four for one that *)
(* is too large.                                                           *)

BodyOf(i, kind) ==
  [n \in 1..(CASE kind = "blank" -> 0 [] kind = "huge" -> 4 [] OTHER -> 2) |-> <<i, n>>]

Body(i) == BodyOf(i, sent[i].kind)

\* One trailing CR goes.
Strip(line) == IF line # <<>> /\ Last(line) = CR THEN Front(line) ELSE line

\* feed, with the next byte: an LF ends a record.
Take(got, byte) ==
  IF byte = LF
  THEN [raws |-> Append(got.raws, Strip(got.rest)), rest |-> <<>>]
  ELSE [raws |-> got.raws, rest |-> Append(got.rest, byte)]

Feed(bytes) ==
  LET got[n \in 0..Len(bytes)] ==
        IF n = 0 THEN [raws |-> <<>>, rest |-> <<>>] ELSE Take(got[n - 1], bytes[n])
  IN  got[Len(bytes)]

\* The records of the lines that are complete.
Records(bytes) == Feed(bytes).raws

\* Mutant of Rest: what is left of the piece is dropped.
RestDropped(bytes) == <<>>

\* ... and what it keeps for the next piece.
Rest(bytes) == Feed(bytes).rest

TooLarge(raw) == Len(raw) > MaxRecordBytes

\* The record of the child's that raw is (JSON.parse allows for a CR), or none:
\* a half, an empty line, no JSON.
Whole(raw, i) ==
  /\ i # 0 /\ IsPrefix(Body(i), raw)
  /\ \A n \in DOMAIN raw : n > Len(Body(i)) => raw[n] = CR

Parsed(raw) ==
  IF raw # <<>> /\ Whole(raw, raw[1][1]) THEN sent[raw[1][1]].kind ELSE "blank"

Malformed(raw) == ~TooLarge(raw) /\ Parsed(raw) \in {"junk", "blank"}

\* Mutant of Fatal: a record that is too large is malformed, and that is all.
FatalMalformed(count, large) == count > Threshold

\* The two protocol failures.
Fatal(count, large) == large \/ count > Threshold

------------------------------------------------------------------------------
(* Events                                                                  *)

\* handleRecord: what the live feed tells of a record.
Live(kind) ==
  CASE kind = "start"   -> <<"tool_start">>
    [] kind = "end"     -> <<"tool_end">>
    [] kind = "handoff" -> <<"tool_end", "handoff">>
    [] kind = "text"    -> <<"assistant">>
    [] kind = "error"   -> <<"provider_error">>
    [] kind = "settled" -> <<"settled">>
    [] OTHER            -> <<>>

\* feedEventsFromTranscript: it does not know a handoff, and calls a tool that
\* has no name "tool".
Replay(kind) ==
  CASE kind = "start"   -> <<"tool_start">>
    [] kind \in {"end", "handoff", "unnamed"} -> <<"tool_end">>
    [] kind = "text"    -> <<"assistant">>
    [] kind = "error"   -> <<"provider_error">>
    [] kind = "settled" -> <<"settled">>
    [] OTHER            -> <<>>

\* A record read back from its line. (One that is too large tells nothing.)
Decoded(raw) == IF TooLarge(raw) THEN "other" ELSE Parsed(raw)

\* One sequence after the other.
Flat(parts) ==
  LET joined[n \in 0..Len(parts)] == IF n = 0 THEN <<>> ELSE joined[n - 1] \o parts[n]
  IN  joined[Len(parts)]

Story(raws, Told(_)) == Flat([k \in DOMAIN raws |-> Told(Decoded(raws[k]))])

\* The last n elements.
LastOf(n, s) == SubSeq(s, IF Len(s) > n THEN Len(s) - n + 1 ELSE 1, Len(s))

\* Mutant of Push: a full ring takes nothing any more.
PushIfRoom(events, event) == IF Len(events) < Capacity THEN Append(events, event) ELSE events

\* FeedRing.push
Push(events, event) ==
  IF Len(events) < Capacity THEN Append(events, event) ELSE Append(Tail(events), event)

PushAll(news) ==
  LET pushed[n \in 0..Len(news)] == IF n = 0 THEN ring ELSE Push(pushed[n - 1], news[n])
  IN  pushed[Len(news)]

\* A transcript line is its record in an envelope, which is never blank, and an
\* LF. Where line k starts:
Start(k) == Len(Flat([n \in 1..k - 1 |-> Append(Append(transcript[n], Brace), LF)]))

\* Mutant of TailLines: the first bytes of the file are read.
TailLinesFirst(bytes) == {k \in DOMAIN transcript : Start(k + 1) <= bytes}

\* The lines of which the last bytes of the file hold more than the LF; the first
\* of them is dropped, be it cut or whole, unless this is all of the file.
TailLines(bytes) ==
  LET size == Start(Len(transcript) + 1)
      read == {k \in DOMAIN transcript : Start(k + 1) + bytes > size + 1}
  IN  {k \in read : size <= bytes \/ \E j \in read : j < k}

\* feedEventsFromTranscript, of at most so many bytes.
Peek(bytes) ==
  LET read == TailLines(bytes)
  IN  Story([k \in DOMAIN transcript |-> IF k \in read THEN transcript[k] ELSE <<>>], Replay)

------------------------------------------------------------------------------
(* The child                                                               *)

WriteRecord(kind, ending) ==
  /\ child = "alive" /\ Len(sent) < MaxRecords
  /\ sent' = Append(sent, [kind |-> kind, ending |-> ending])
  /\ pipe' = pipe \o BodyOf(Len(sent) + 1, kind) \o ending
  /\ UNCHANGED <<child, parser, runner, feed>>

\* It dies, or is killed, between two records or in the middle of one.
Die(kind) ==
  /\ child = "alive"
  /\ child' = "dead"
  /\ \/ UNCHANGED <<sent, pipe>>
     \/ /\ Len(sent) < MaxRecords
        /\ sent' = Append(sent, [kind |-> kind, ending |-> <<>>])
        /\ \E n \in DOMAIN BodyOf(Len(sent) + 1, kind) :
             pipe' = pipe \o SubSeq(BodyOf(Len(sent) + 1, kind), 1, n)
  /\ UNCHANGED <<parser, runner, feed>>

------------------------------------------------------------------------------
(* The runner                                                              *)

\* What the records of a piece do to the run. Settling ends it, or asks the child
\* for its handoff.
Ends(kinds, fatal) ==
  IF fatal \/ "rejected" \in kinds THEN {TRUE}
  ELSE IF "settled" \in kinds THEN BOOLEAN ELSE {FALSE}

\* onStdout with a piece of n bytes. The parser takes the whole piece before the
\* first record is looked at: after a protocol failure none of the piece is. That
\* a record ended the run is no reason not to look at the next.
Data(n) ==
  LET all   == buffer \o SubSeq(pipe, 1, n)
      raws  == Records(all)
      count == malformed + Cardinality({k \in DOMAIN raws : Malformed(raws[k])})
      large == oversized \/ \E k \in DOMAIN raws : TooLarge(raws[k])
      fatal == raws # <<>> /\ Fatal(count, large)
      kinds == IF fatal THEN {} ELSE {Parsed(raws[k]) : k \in DOMAIN raws}
      news  == IF fatal THEN <<>> ELSE Story(raws, Live)
  IN  /\ ~finalizing
      /\ pipe' = SubSeq(pipe, n + 1, Len(pipe))
      /\ buffer' = Rest(all)
      /\ malformed' = count /\ oversized' = large
      /\ transcript' = transcript \o raws
      /\ told' = told \o news
      /\ ring' = PushAll(news)
      /\ settled' = (settled \/ "settled" \in kinds)
      /\ finalizing' \in Ends(kinds, fatal)
      /\ UNCHANGED <<sent, child, flushed>>

\* finalizeOnExit, which may come before the last of the output. The incomplete
\* record is kept, and counted, but not looked at. A run that has settled goes on,
\* to wait for its enforcement, unless somebody cancelled it.
Exit ==
  /\ child = "dead" /\ ~finalizing
  /\ child' = "reaped"
  /\ buffer' = <<>>
  /\ IF buffer = <<>> THEN UNCHANGED <<malformed, oversized, transcript, flushed>>
     ELSE /\ transcript' = Append(transcript, buffer)
          /\ flushed' = Len(transcript) + 1
          /\ malformed' = malformed + IF Malformed(buffer) THEN 1 ELSE 0
          /\ oversized' = (oversized \/ TooLarge(buffer))
  /\ finalizing' \in IF settled THEN BOOLEAN ELSE {TRUE}
  /\ UNCHANGED <<sent, pipe, settled, ring, told>>

\* A timer or a cancellation ends the run.
Stop ==
  /\ ~finalizing
  /\ finalizing' = TRUE
  /\ UNCHANGED <<world, parser, settled, feed>>

------------------------------------------------------------------------------
Init ==
  /\ sent = <<>> /\ pipe = <<>> /\ child = "alive"
  /\ buffer = <<>> /\ malformed = 0 /\ oversized = FALSE
  /\ settled = FALSE /\ finalizing = FALSE
  /\ transcript = <<>> /\ ring = <<>> /\ told = <<>> /\ flushed = 0

Next ==
  \/ \E kind \in Kinds, ending \in Endings : WriteRecord(kind, ending)
  \/ \E kind \in Kinds : Die(kind)
  \/ \E n \in DOMAIN pipe : Data(n)
  \/ Exit \/ Stop

Spec == Init /\ [][Next]_vars

------------------------------------------------------------------------------
(* Properties                                                              *)

Event == {"tool_start", "tool_end", "handoff", "assistant", "provider_error", "settled"}

\* A protocol failure: too large a record, or too many that are malformed.
Failed == oversized \/ malformed > Threshold

TypeOK ==
  /\ sent \in Seq([kind : Kinds, ending : Endings \cup {<<>>}])
  /\ child \in {"alive", "dead", "reaped"}
  /\ malformed \in Nat /\ {oversized, settled, finalizing} \subseteq BOOLEAN
  /\ ring \in Seq(Event) /\ told \in Seq(Event)
  /\ flushed \in 0..Len(transcript)
  /\ \A k \in DOMAIN buffer : buffer[k] # LF

\* The parser's count is the number of malformed records in the transcript, and a
\* protocol failure of what was read has ended the run, whatever else it is in
\* the middle of. (What was flushed at the exit may have come too late for that.)
ProtocolFailureEnds ==
  /\ TypeOK
  /\ malformed = Cardinality({k \in DOMAIN transcript : Malformed(transcript[k])})
  /\ oversized <=> \E k \in DOMAIN transcript : TooLarge(transcript[k])
  /\ Failed => finalizing \/ flushed # 0

\* What the k-th record of the child looks like in the transcript.
Raw(k) == Body(k) \o IF sent[k].ending = <<CR, CR, LF>> THEN <<CR>> ELSE <<>>

\* However the output was cut into pieces: as long as the child has not exited,
\* the transcript has its complete records, each once, in order and to the byte,
\* and what is neither there nor in the pipe is the beginning of the next. After
\* its exit the last record may be there in two parts, or without its end.
TranscriptFaithful ==
  LET full == IF flushed = 0 THEN Len(transcript) ELSE flushed - 1
  IN  /\ full <= Len(sent)
      /\ \A k \in 1..full : transcript[k] = Raw(k)
      /\ flushed # 0 =>
           /\ IsPrefix(transcript[flushed], Body(flushed) \o sent[flushed].ending)
           /\ \A k \in flushed + 2..Len(transcript) : transcript[k] = Raw(k - 1)
      /\ pipe = <<>> /\ flushed = 0 /\ ~finalizing =>
           Cardinality({k \in DOMAIN sent : sent[k].ending # <<>>}) = Len(transcript)

\* The live feed tells the records of the transcript, each once and in order, and
\* stops only at a protocol failure; it leaves out what was flushed at the exit.
\* The ring has the end of it.
ToldAsRead ==
  LET seen  == [k \in DOMAIN transcript |-> IF k = flushed THEN <<>> ELSE transcript[k]]
      story == Story(seen, Live)
  IN  /\ IsPrefix(told, story)
      /\ ~Failed => told = story
      /\ ring = LastOf(Capacity, told)

Common(events) ==
  Flat([k \in DOMAIN events |-> IF events[k] = "handoff" THEN <<>> ELSE <<events[k]>>])

\* The lines that are whole in the last bytes of the file.
InTail(bytes) ==
  LET size == Start(Len(transcript) + 1)
  IN  {k \in DOMAIN transcript : Start(k) + bytes >= size}

\* What is read back is what was told live (a handoff apart, and tools without a
\* name), and to read back less of the file is to see less of the beginning only:
\* whole lines, and all of them but perhaps the first.
PeekAgrees ==
  LET all   == Start(Len(transcript) + 1)
      whole == Peek(all)
      same  == flushed = 0 /\ \A k \in DOMAIN transcript : Parsed(transcript[k]) # "unnamed"
  IN  /\ \A bytes \in 0..all :
           LET read == TailLines(bytes)
               there == InTail(bytes)
           IN  /\ IsSuffix(Peek(bytes), whole)
               /\ read \subseteq there
               /\ \A j, k \in there : j < k => k \in read
      /\ same => IsPrefix(Common(told), whole)
      /\ same /\ ~Failed => Common(told) = whole
=============================================================================
