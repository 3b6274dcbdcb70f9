----------------------------- MODULE EventStream -----------------------------
(***************************************************************************)
(* The body of a response read as lines and server-sent events             *)
(* (research/http/streaming.ts): iterateStream() yields the chunks the     *)
(* network made, iterateLines() cuts lines across their borders,           *)
(* parseEventStream() gathers fields into events.                          *)
(*                                                                         *)
(* A text is a sequence of symbols.  "cr" and "lf" end lines; the first    *)
(* symbol of a line names its field: "data", "event", "id", ":" (comment). *)
(***************************************************************************)
EXTENDS Integers, Sequences, FiniteSets, SequencesExt

CONSTANT Texts  \* the bodies a server sends

ASSUME TextsAssumption == IsFiniteSet(Texts) /\ \A t \in Texts : t \in Seq(STRING)

VARIABLES
    text,    \* the whole body
    unread,  \* what the reader has not read
    buffer,  \* iterateLines(): the line not ended yet
    lines,   \* lines cut from the last chunk, not consumed
    event,   \* parseEventStream(): the fields of the event being gathered
    emitted, \* the events yielded to the consumer
    reader   \* "unlocked", "locked", "released" at the end, or "left" before

svars == <<text, unread, buffer, lines, event, emitted, reader>>

NoEvent == [data |-> <<>>, name |-> FALSE, id |-> FALSE]

StreamInit ==
    /\ text \in Texts
    /\ unread = text
    /\ buffer = <<>> /\ lines = <<>> /\ event = NoEvent /\ emitted = <<>>
    /\ reader = "unlocked"

(* split(/\r?\n/), symbol by symbol: the lines ended so far, each without a *)
(* return before its line feed, and the rest.                              *)
Chop(p) == IF p # <<>> /\ Last(p) = "cr" THEN Front(p) ELSE p
Scan(cut, s) ==
    IF s = "lf" THEN [lines |-> Append(cut.lines, Chop(cut.rest)), rest |-> <<>>]
    ELSE [cut EXCEPT !.rest = Append(@, s)]
Uncut == [lines |-> <<>>, rest |-> <<>>]
Split(t) == FoldLeft(Scan, Uncut, t)

(* The rest of the chunk before belongs to the first line of the next.     *)
CutAfresh(rest, chunk) == Split(chunk)  \* mutated: the rest is dropped
Cut(rest, chunk) == Split(rest \o chunk)

(* What one line does to the event being gathered, and what it yields.     *)
Gathered(e) == e # NoEvent
Field(e, line) ==
    CASE line[1] = "data"  -> [e EXCEPT !.data = Append(@, Tail(line))]
      [] line[1] = "event" -> [e EXCEPT !.name = TRUE]
      [] line[1] = "id"    -> [e EXCEPT !.id = TRUE]
      [] OTHER             -> e
After(e, line) == IF line = <<>> THEN NoEvent ELSE Field(e, line)
Yields(e, line) == IF line = <<>> /\ Gathered(e) THEN <<e>> ELSE <<>>

ReadChunk(n) ==
    /\ reader \in {"unlocked", "locked"} /\ lines = <<>>
    /\ n \in 1..Len(unread)
    /\ reader' = "locked"
    /\ LET cut == Cut(buffer, SubSeq(unread, 1, n))
       IN  lines' = cut.lines /\ buffer' = cut.rest
    /\ unread' = SubSeq(unread, n + 1, Len(unread))
    /\ UNCHANGED <<text, event, emitted>>

ConsumeLine ==
    /\ lines # <<>> /\ reader = "locked"
    /\ lines' = Tail(lines)
    /\ event' = After(event, Head(lines))
    /\ emitted' = emitted \o Yields(event, Head(lines))
    /\ UNCHANGED <<text, unread, buffer, reader>>

(* The stream is done: the last line need not be ended, nor the last event.*)
EndOfStream ==
    /\ unread = <<>> /\ lines = <<>> /\ reader \in {"unlocked", "locked"}
    /\ reader' = "released"
    /\ LET last == IF buffer = <<>> THEN event ELSE After(event, buffer)
       IN  emitted' = IF Gathered(last) THEN Append(emitted, last) ELSE emitted
    /\ buffer' = <<>> /\ event' = NoEvent
    /\ UNCHANGED <<text, unread, lines>>

(* The consumer leaves its loop at an event, or the data of an event is not*)
(* JSON and parseJsonEventStream() throws: every finally runs.             *)
LeaveEarly ==
    /\ reader = "locked" /\ emitted # <<>>
    /\ reader' = "left"
    /\ lines' = <<>> /\ buffer' = <<>> /\ event' = NoEvent
    /\ UNCHANGED <<text, unread, emitted>>

StreamNext == (\E n \in 1..Len(unread) : ReadChunk(n)) \/ ConsumeLine \/ EndOfStream \/ LeaveEarly
-----------------------------------------------------------------------------
(* What the events of a text are when it comes in one chunk.               *)
Consume(so, line) == [event |-> After(so.event, line),
                   emitted |-> so.emitted \o Yields(so.event, line)]
Consumed(whole) == FoldLeft(Consume, [event |-> NoEvent, emitted |-> <<>>], whole)
EventsOf(t) ==
    LET body == Consumed(Split(t).lines)
        last == IF Split(t).rest = <<>> THEN body.event ELSE After(body.event, Split(t).rest)
    IN  IF Gathered(last) THEN Append(body.emitted, last) ELSE body.emitted

(* Wherever the network cuts the body, also between a return and its line  *)
(* feed, the consumer sees the events of the text in order, and all of them*)
(* when it stays to the end.                                               *)
CutsDoNotMatter ==
    /\ IsPrefix(emitted, EventsOf(text))
    /\ reader = "released" => emitted = EventsOf(text)
=============================================================================
