---------------------------- MODULE EventScanner ----------------------------
(***************************************************************************)
(* Reading firehose responses: the scanner that assembles events from      *)
(* lines within two size bounds (internal/sse/scanner.go), and its two     *)
(* readers, streamConn of the client library and the stream command.       *)
(*                                                                         *)
(* An event is a type and data lines, a data line the length of its value. *)
(* The connection may break after any byte: the line in progress is then   *)
(* still handed to the scanner, without what was to follow.                *)
(***************************************************************************)
EXTENDS Integers, Sequences, FiniteSets

CONSTANTS
    MaxEvent,   \* MaxEventBytes
    Headroom,   \* maxLineBytes - MaxEventBytes
    FieldName,  \* length of "data: "
    Sent,       \* the sequences of events a server may send
    MaxBreaks   \* bound on the connections that break

EventTypes == {"revocation", "error", "other", ""}  \* "": none is named
Events == [type: EventTypes, data: Seq(Nat)]

ASSUME SentAssumption == Sent \subseteq Seq(Events)
ASSUME SizeAssumption == /\ MaxEvent \in Nat /\ FieldName \in Nat
                         /\ Headroom \in Nat /\ Headroom > FieldName

VARIABLES
    sent,       \* what the server sends
    reader,     \* who reads it
    at,         \* which event the lines to come are of
    lines,      \* its lines not yet read
    broken,     \* the connection broke
    breaks,     \* how many did
    pc,         \* where the reader is
    scan,       \* locals of Scan: the event so far, its size; the error
    delivered,  \* events given to the consumer
    outcome     \* how the reader returned

netVars == <<sent, reader, broken, breaks>>
vars == <<sent, reader, at, lines, broken, breaks, pc, scan, delivered, outcome>>

(***************************************************************************)
(* The lines of an event. A blank line ends it; the id line is ignored. A  *)
(* response is one event after the other: Response is its i-th part.       *)
(***************************************************************************)
Line(field, value) == [field |-> field, value |-> value]
Lines(e) ==
    (IF e.type = "" THEN <<>> ELSE <<Line("id", 0), Line("event", e.type)>>)
        \o [i \in DOMAIN e.data |-> Line("data", e.data[i])]
        \o <<Line("blank", 0)>>
Response(events, i) == IF i \in DOMAIN events THEN Lines(events[i]) ELSE <<>>

\* Mutant of Fits: no headroom for the field name.
FitsExactly(line) == line.field = "data" => line.value + FieldName < MaxEvent

\* bufio.Scanner gives up on a line that fills its buffer.
Fits(line) == line.field = "data" => line.value + FieldName < MaxEvent + Headroom

Fresh == [type |-> "", data |-> <<>>, size |-> 0, err |-> "none"]

Init ==
    /\ sent \in Sent
    /\ reader \in {"client", "command"}
    /\ at = 1
    /\ lines = Response(sent, 1)
    /\ broken = FALSE
    /\ breaks = 0
    /\ pc = "scan"
    /\ scan = Fresh
    /\ delivered = <<>>
    /\ outcome = "none"

\* The connection breaks; the next data line may have arrived in part.
Break ==
    /\ pc = "scan"
    /\ ~broken
    /\ breaks < MaxBreaks
    /\ broken' = TRUE
    /\ breaks' = breaks + 1
    /\ \/ lines' = <<>>
       \/ /\ lines # <<>>
          /\ Head(lines).field = "data"
          /\ \E n \in 0..Head(lines).value : lines' = <<Line("data", n)>>
    /\ UNCHANGED <<sent, reader, at, pc, scan, delivered, outcome>>

-----------------------------------------------------------------------------
(***************************************************************************)
(* Scan: one action for each kind of line.                                 *)
(***************************************************************************)
\* Behind the blank line are the lines of the next event.
Take(field) ==
    /\ pc = "scan"
    /\ lines # <<>>
    /\ Head(lines).field = field
    /\ Fits(Head(lines))
    /\ at' = IF field = "blank" THEN at + 1 ELSE at
    /\ lines' = IF field = "blank" THEN Response(sent, at + 1) ELSE Tail(lines)
    /\ UNCHANGED <<netVars, delivered, outcome>>

\* Mutant of Blank: the type named by an event without data is kept.
BlankKeepingType ==
    /\ Take("blank")
    /\ pc' = IF scan.data # <<>> THEN "event" ELSE "scan"
    /\ UNCHANGED scan

\* An event with data is reported, one without is dropped, type and all.
Blank ==
    /\ Take("blank")
    /\ \/ scan.data # <<>> /\ pc' = "event" /\ UNCHANGED scan
       \/ scan.data = <<>> /\ scan' = Fresh /\ UNCHANGED pc

EventLine ==
    /\ Take("event")
    /\ scan' = [scan EXCEPT !.type = Head(lines).value]
    /\ UNCHANGED pc

IgnoredLine == Take("id") /\ UNCHANGED <<pc, scan>>

\* Mutant of NewSize: newlines do not count.
NewSizeWithoutNewlines(n) == scan.size + n

\* The newline that joins it to the line before counts.
NewSize(n) == scan.size + n + (IF scan.data = <<>> THEN 0 ELSE 1)

DataLine ==
    /\ Take("data")
    /\ NewSize(Head(lines).value) <= MaxEvent
    /\ scan' = [scan EXCEPT !.size = NewSize(Head(lines).value),
                            !.data = Append(@, Head(lines).value)]
    /\ UNCHANGED pc

\* Scan returns false, with what was read of an event gone.
EndScan(err) ==
    /\ pc' = "ended"
    /\ scan' = [Fresh EXCEPT !.err = err]
    /\ UNCHANGED <<netVars, at, lines, delivered, outcome>>

\* Either bound gives the same error.
TooLong ==
    /\ pc = "scan"
    /\ lines # <<>>
    /\ Head(lines).field = "data"
    /\ ~Fits(Head(lines)) \/ NewSize(Head(lines).value) > MaxEvent
    /\ EndScan("too long")

EndOfInput ==
    /\ pc = "scan"
    /\ lines = <<>>
    /\ EndScan(IF broken THEN "read" ELSE "none")

-----------------------------------------------------------------------------
(***************************************************************************)
(* The readers.                                                            *)
(***************************************************************************)
Event == [type |-> scan.type, data |-> scan.data]

\* UnmarshalDagJSON fails, on empty data for one.
Undecodable(e) == e.type = "revocation" /\ e.data = <<0>>

ScanOn ==
    /\ pc' = "scan"
    /\ scan' = Fresh
    /\ UNCHANGED <<netVars, at, lines, outcome>>

Return(result) ==
    /\ outcome' = result
    /\ pc' = "done"
    /\ UNCHANGED <<netVars, at, lines, scan, delivered>>

Deliver ==
    /\ pc = "event"
    /\ Event.type = "revocation"
    /\ reader = "client" => ~Undecodable(Event)
    /\ delivered' = Append(delivered, Event)
    /\ ScanOn

\* The client skips every event but revocations; the command heeds errors too.
Heeded(e) == e.type = "revocation" \/ (reader = "command" /\ e.type = "error")

SkipEvent ==
    /\ pc = "event"
    /\ ~Heeded(Event)
    /\ UNCHANGED delivered
    /\ ScanOn

CorruptPayload ==
    /\ pc = "event"
    /\ reader = "client" /\ Undecodable(Event)
    /\ Return("corrupt")

ErrorEvent ==
    /\ pc = "event"
    /\ Heeded(Event) /\ Event.type = "error"
    /\ Return("failed")

\* Mutant of ClientReturns: every read error is an interruption.
ClientAlwaysReconnects ==
    pc = "ended" /\ reader = "client" /\ Return("reconnect")

\* The client reconnects unless an event was too long.
ClientReturns ==
    /\ pc = "ended"
    /\ reader = "client"
    /\ Return(IF scan.err = "too long" THEN "corrupt" ELSE "reconnect")

CommandReturns ==
    /\ pc = "ended"
    /\ reader = "command"
    /\ Return(IF scan.err = "none" THEN "ok" ELSE "failed")

\* The client resumes behind the last revocation it delivered: the server sends
\* what came after it again.
Place(i, S) == Cardinality({j \in S : j <= i})
Revocations == {i \in DOMAIN sent : sent[i].type = "revocation" /\ sent[i].data # <<>>}
Delivered == {i \in Revocations : Place(i, Revocations) <= Len(delivered)}

Reconnect ==
    /\ outcome = "reconnect"
    /\ outcome' = "none"
    /\ \E last \in Delivered \cup {0} :
          /\ \A i \in Delivered : i <= last
          /\ sent' = SubSeq(sent, last + 1, Len(sent))
    /\ at' = 1
    /\ lines' = Response(sent', 1)
    /\ broken' = FALSE
    /\ pc' = "scan"
    /\ scan' = Fresh
    /\ delivered' = <<>>
    /\ UNCHANGED <<reader, breaks>>

ReadStep ==
    \/ Blank \/ EventLine \/ IgnoredLine \/ DataLine
    \/ TooLong \/ EndOfInput
    \/ Deliver \/ SkipEvent \/ CorruptPayload \/ ErrorEvent
    \/ ClientReturns \/ CommandReturns \/ Reconnect

Next == Break \/ ReadStep

\* Responses arrive or break off, and the reader reads them.
Spec == Init /\ [][Next]_vars
FairSpec == Spec /\ WF_vars(ReadStep)

-----------------------------------------------------------------------------
(***************************************************************************)
(* Properties.                                                             *)
(***************************************************************************)
\* The size of data lines 1 to i joined by newlines.
JoinedTo(data) ==
    LET upTo[i \in 0..Len(data)] == IF i = 0 THEN -1 ELSE upTo[i - 1] + 1 + data[i]
    IN  upTo
Reported(e) == e.data # <<>>
Oversized(e) == Reported(e) /\ JoinedTo(e.data)[Len(e.data)] > MaxEvent

\* An event the reader does not get past.
Fatal(e) ==
    \/ Oversized(e)
    \/ reader = "client" /\ Undecodable(e)
    \/ reader = "command" /\ Reported(e) /\ e.type = "error"

AllReadable == \A i \in DOMAIN sent : ~Fatal(sent[i])
Wanted == {i \in Revocations : \A j \in 1..i : ~Fatal(sent[j])}

\* The consumer is given whole revocations in the order sent: no event cut by
\* an interruption, none with another's type or data, none past the one that
\* ends the stream (scanner.go:60-100; client.go:307-319; stream.go:77-91).
DeliversWholeEvents ==
    \A n \in DOMAIN delivered :
        \E i \in Wanted : Place(i, Wanted) = n /\ delivered[n] = sent[i]

\* A response read to its end gave its reader every revocation in it, whatever
\* their sizes up to the limit and the lines they came in; it is cut short only
\* at an event that is too long or not decodable, or that reports an error
\* (scanner.go:18-35, 87-96).
NothingRefused == outcome # "none" /\ ~broken => Len(delivered) = Cardinality(Wanted)

\* How a reader returns tells how the response ended. The command ends well
\* only at the end of a response without an error: no error event, oversized
\* event or interruption passes for it. The client gives up only on an event it
\* would meet again at the same cursor, and that one always makes it; anything
\* else makes it reconnect (stream.go:85-94; client.go:320-328).
OutcomeIsTruthful ==
    CASE outcome = "ok" -> ~broken /\ AllReadable
      [] outcome = "failed" -> broken \/ ~AllReadable
      [] outcome = "corrupt" -> ~AllReadable
      [] outcome = "reconnect" -> broken \/ AllReadable
      [] outcome = "none" -> pc # "done"

\* A reader gets through: the command ends, and the client delivers every
\* revocation or gives up on the one that reconnecting would only fetch again,
\* rather than reconnecting for ever (client.go:320-328).
GetsThrough ==
    <>IF reader = "command" THEN pc = "done"
      ELSE outcome = "corrupt" \/ (AllReadable /\ Len(delivered) = Cardinality(Wanted))
=============================================================================
