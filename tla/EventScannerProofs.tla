------------------------- MODULE EventScannerProofs -------------------------
(***************************************************************************)
(* Theorems about EventScanner for events of any number of lines of any    *)
(* size, responses of any number of events, any limit and headroom, and    *)
(* any number of broken connections.                                       *)
(***************************************************************************)
EXTENDS EventScanner, SequenceTheorems, FiniteSetTheorems,
        WellFoundedInduction, TLAPS

\* The i-th line of an event.
Header(e) == IF e.type = "" THEN 0 ELSE 2
LineOf(e, i) ==
    IF i <= Header(e) THEN IF i = 1 THEN Line("id", 0) ELSE Line("event", e.type)
    ELSE IF i <= Header(e) + Len(e.data) THEN Line("data", e.data[i - Header(e)])
    ELSE Line("blank", 0)
AnyLine == [field: {"event"}, value: EventTypes] \cup [field: {"id", "data", "blank"}, value: Nat]

TypeOK ==
    /\ sent \in Seq(Events)
    /\ reader \in {"client", "command"}
    /\ at \in 1..(Len(sent) + 1)
    /\ lines \in Seq(AnyLine)
    /\ broken \in BOOLEAN
    /\ pc \in {"scan", "event", "ended", "done"}
    /\ scan \in [type: EventTypes, data: Seq(Nat), size: Nat, err: {"none", "read", "too long"}]
    /\ delivered \in Seq(Events)
    /\ outcome \in {"none", "ok", "failed", "corrupt", "reconnect"}

\* The scanner has read m data lines of e, and no other.
Collected(sc, e, m) ==
    /\ Len(sc.data) = m
    /\ \A j \in 1..m : sc.data[j] = e.data[j]
    /\ sc.size = IF m = 0 THEN 0 ELSE JoinedTo(e.data)[m]

\* The type named, and the number of data lines read, by k lines of e.
NamedAfter(e, k) == IF k < Header(e) THEN "" ELSE e.type
DataAfter(e, k) == IF k < Header(e) THEN 0 ELSE k - Header(e)

\* k lines of e were read, and the others are still to come.
ReadSoFar(ls, sc, e, k) ==
    /\ sc.type = NamedAfter(e, k)
    /\ Collected(sc, e, DataAfter(e, k))
    /\ Len(ls) = Header(e) + Len(e.data) + 1 - k
    /\ \A i \in 1..Len(ls) : ls[i] = LineOf(e, k + i)

Within(ls, sc, e) == \E k \in 0..(Header(e) + Len(e.data)) : ReadSoFar(ls, sc, e, k)

\* What is left after the connection broke is a part of the next data line.
CutOff(ls, sc, e) ==
    \E m \in 1..Len(e.data) :
        /\ Collected(sc, e, m - 1)
        /\ \E n \in 0..e.data[m] : ls = <<Line("data", n)>>

\* Between events nothing is left of the one before.
WireInv ==
    pc = "scan" =>
        /\ scan.err = "none" /\ scan.size <= MaxEvent
        /\ ~broken => IF at \in DOMAIN sent THEN Within(lines, scan, sent[at])
                      ELSE lines = <<>> /\ scan = Fresh
        /\ broken /\ lines # <<>> => at \in DOMAIN sent /\ CutOff(lines, scan, sent[at])

\* What is reported is an event as it was sent, within the limit.
EventInv ==
    pc = "event" =>
        /\ ~broken
        /\ at - 1 \in DOMAIN sent
        /\ lines = Response(sent, at)
        /\ Event = sent[at - 1]
        /\ Reported(Event) /\ ~Oversized(Event)

\* The events dealt with were no obstacle, and those wanted were delivered.
Reading == pc \in {"scan", "event", "ended"}
Upcoming == IF pc = "event" THEN at - 1 ELSE at
PassedInv ==
    Reading =>
        /\ \A j \in 1..(Upcoming - 1) : ~Fatal(sent[j])
        /\ Len(delivered) = Cardinality({i \in Wanted : i < Upcoming})

EndedInv ==
    /\ pc = "ended" =>
          /\ scan.err = "none" => ~broken /\ at \notin DOMAIN sent
          /\ scan.err = "read" => broken
          /\ scan.err = "too long" => at \in DOMAIN sent /\ Fatal(sent[at])
    /\ outcome = "none" <=> pc # "done"

IInv ==
    /\ TypeOK
    /\ WireInv
    /\ EventInv
    /\ PassedInv
    /\ EndedInv
    /\ DeliversWholeEvents
    /\ NothingRefused
    /\ OutcomeIsTruthful

-----------------------------------------------------------------------------
(***************************************************************************)
(* Joined sizes: JoinedTo is defined, and never decreases. Both are        *)
(* inductions, by a least counterexample.                                  *)
(***************************************************************************)
LEMMA LeastNatural ==
    ASSUME NEW S \in SUBSET Nat, S # {}
    PROVE  \E m \in S : \A k \in S : ~(k < m)
  <1> DEFINE less == OpToRel(<, Nat)
  <1>1. IsWellFoundedOn(less, Nat)
    BY NatLessThanWellFounded
  <1>2. \A x, y \in Nat : y < x => <<y, x>> \in less
    BY DEF OpToRel
  <1> HIDE DEF less
  <1>3. \E m \in S : \A k \in S : ~(<<k, m>> \in less)
    BY <1>1, WFMin
  <1> QED
    BY <1>2, <1>3

\* f holds the joined sizes of the first m lines.
JoinedUpTo(data, m, f) ==
    /\ f \in [0..m -> Int]
    /\ f[0] = -1
    /\ \A i \in 1..m : f[i] = f[i - 1] + 1 + data[i]

LEMMA OneMoreLine ==
    ASSUME NEW data \in Seq(Nat), NEW m \in 1..Len(data), NEW g,
           JoinedUpTo(data, m - 1, g)
    PROVE  \E f : JoinedUpTo(data, m, f)
  <1> DEFINE f == [i \in 0..m |-> IF i = m THEN g[m - 1] + 1 + data[m] ELSE g[i]]
  <1>1. m \in Nat /\ data[m] \in Nat /\ g[m - 1] \in Int
    BY LenProperties, ElementOfSeq DEF JoinedUpTo
  <1>2. f \in [0..m -> Int]
    BY <1>1 DEF JoinedUpTo
  <1>3. f[0] = -1
    BY <1>1 DEF JoinedUpTo
  <1>4. ASSUME NEW i \in 1..m PROVE f[i] = f[i - 1] + 1 + data[i]
    <2>1. CASE i = m
      BY <1>1, <2>1
    <2>2. CASE i # m
      <3>1. i \in 1..(m - 1) /\ i - 1 \in 0..m /\ i - 1 # m
        BY <1>1, <2>2
      <3>2. f[i] = g[i] /\ f[i - 1] = g[i - 1]
        BY <3>1, <2>2
      <3> QED
        BY <3>1, <3>2 DEF JoinedUpTo
    <2> QED
      BY <2>1, <2>2
  <1> HIDE DEF f
  <1> QED
    BY <1>2, <1>3, <1>4 DEF JoinedUpTo

LEMMA JoinedExists ==
    ASSUME NEW data \in Seq(Nat)
    PROVE  \E f : JoinedUpTo(data, Len(data), f)
  <1> DEFINE Bad == {m \in 0..Len(data) : ~ \E f : JoinedUpTo(data, m, f)}
  <1>1. Len(data) \in Nat
    BY LenProperties
  <1>2. SUFFICES ASSUME Bad # {} PROVE FALSE
    BY <1>1
  <1>3. PICK m \in Bad : \A k \in Bad : ~(k < m)
    <2>1. Bad \in SUBSET Nat
      BY <1>1
    <2> HIDE DEF Bad
    <2> QED
      BY <1>2, <2>1, LeastNatural
  <1>4. CASE m = 0
    <2>1. JoinedUpTo(data, 0, [i \in 0..0 |-> -1])
      BY DEF JoinedUpTo
    <2> QED
      BY <1>3, <1>4, <2>1
  <1>5. CASE m # 0
    <2>1. m \in 1..Len(data) /\ m - 1 \in 0..Len(data) /\ m - 1 < m
      BY <1>1, <1>3, <1>5
    <2>2. m - 1 \notin Bad
      BY <1>3, <2>1
    <2>3. PICK g : JoinedUpTo(data, m - 1, g)
      BY <2>1, <2>2
    <2>4. \E f : JoinedUpTo(data, m, f)
      BY <2>1, <2>3, OneMoreLine
    <2> QED
      BY <1>3, <2>4
  <1> QED
    BY <1>4, <1>5

\* The size of the data of an event, line by line: what the scanner adds up.
LEMMA JoinedSizes ==
    ASSUME NEW data \in Seq(Nat)
    PROVE  JoinedUpTo(data, Len(data), JoinedTo(data))
  <1> DEFINE n == Len(data)
  <1>1. n \in Nat /\ \A i \in 1..n : data[i] \in Nat
    BY LenProperties, ElementOfSeq
  <1>2. PICK f : JoinedUpTo(data, n, f)
    BY JoinedExists
  <1>3. f = [i \in 0..n |-> IF i = 0 THEN -1 ELSE f[i - 1] + 1 + data[i]]
    BY <1>1, <1>2 DEF JoinedUpTo
  <1>4. \E g : g = [i \in 0..n |-> IF i = 0 THEN -1 ELSE g[i - 1] + 1 + data[i]]
    BY <1>3
  <1> DEFINE J == JoinedTo(data)
  <1>5. J = [i \in 0..n |-> IF i = 0 THEN -1 ELSE J[i - 1] + 1 + data[i]]
    BY <1>4 DEF JoinedTo
  <1> HIDE DEF J
  <1>6. \A i \in 0..n : J[i] = IF i = 0 THEN -1 ELSE J[i - 1] + 1 + data[i]
    BY <1>5
  <1>7. J[0] = -1 /\ \A i \in 1..n : J[i] = J[i - 1] + 1 + data[i]
    BY <1>1, <1>6
  <1>8. \A i \in 0..n : J[i] \in Int
    <2> DEFINE Bad == {i \in 0..n : J[i] \notin Int}
    <2>1. SUFFICES ASSUME Bad # {} PROVE FALSE
      OBVIOUS
    <2>2. PICK m \in Bad : \A k \in Bad : ~(k < m)
      <3>1. Bad \in SUBSET Nat
        BY <1>1
      <3> HIDE DEF Bad
      <3> QED
        BY <2>1, <3>1, LeastNatural
    <2>3. m \in 0..n /\ m # 0
      BY <1>7, <2>2
    <2>4. m \in 1..n /\ m - 1 \in 0..n /\ m - 1 < m /\ data[m] \in Nat
      BY <1>1, <2>3
    <2>5. J[m - 1] \in Int
      BY <2>2, <2>4
    <2> QED
      BY <1>7, <2>2, <2>4, <2>5
  <1>9. J \in [0..n -> Int]
    BY <1>5, <1>8
  <1> QED
    BY <1>7, <1>9 DEF JoinedUpTo, J

LEMMA JoinedGrows ==
    ASSUME NEW data \in Seq(Nat), NEW m \in 0..Len(data)
    PROVE  JoinedTo(data)[m] <= JoinedTo(data)[Len(data)]
  <1> DEFINE n == Len(data)
             J == JoinedTo(data)
             Bad == {k \in Nat : k <= n - m /\ ~(J[m] <= J[m + k])}
  <1>1. n \in Nat /\ m \in Nat /\ \A i \in 1..n : data[i] \in Nat
    BY LenProperties, ElementOfSeq
  <1>2. J \in [0..n -> Int] /\ \A i \in 1..n : J[i] = J[i - 1] + 1 + data[i]
    BY JoinedSizes DEF JoinedUpTo
  <1> HIDE DEF J, n
  <1>3. Bad = {}
    <2>1. SUFFICES ASSUME Bad # {} PROVE FALSE
      OBVIOUS
    <2>2. PICK k \in Bad : \A l \in Bad : ~(l < k)
      <3>1. Bad \in SUBSET Nat
        OBVIOUS
      <3> HIDE DEF Bad
      <3> QED
        BY <2>1, <3>1, LeastNatural
    <2>3. k \in Nat /\ k <= n - m /\ ~(J[m] <= J[m + k])
      BY <2>2
    <2>4. k # 0
      <3>1. m \in 0..n /\ J[m] \in Int
        BY <1>1, <1>2, <2>3
      <3> QED
        BY <1>1, <2>3, <3>1
    <2>5. k - 1 \in Nat /\ k - 1 <= n - m /\ k - 1 < k
      BY <1>1, <2>3, <2>4
    <2>6. J[m] <= J[m + (k - 1)]
      BY <2>2, <2>5
    <2>7. m + k \in 1..n /\ (m + k) - 1 = m + (k - 1) /\ m + (k - 1) \in 0..n /\ m \in 0..n
      BY <1>1, <2>3, <2>4
    <2>8. J[m + k] = J[m + (k - 1)] + 1 + data[m + k] /\ data[m + k] \in Nat
      BY <1>1, <1>2, <2>7
    <2>9. J[m] \in Int /\ J[m + (k - 1)] \in Int
      BY <1>2, <2>7
    <2> QED
      BY <2>3, <2>6, <2>8, <2>9
  <1>4. n - m \in Nat /\ m + (n - m) = n
    BY <1>1 DEF n
  <1>5. n - m \notin Bad
    BY <1>3
  <1> QED
    BY <1>1, <1>4, <1>5 DEF J, n

LEMMA LinesShape ==
    ASSUME NEW e \in Events
    PROVE  /\ Lines(e) \in Seq(AnyLine)
           /\ Len(Lines(e)) = Header(e) + Len(e.data) + 1
           /\ \A i \in 1..Len(Lines(e)) : Lines(e)[i] = LineOf(e, i)
  <1> DEFINE head == IF e.type = "" THEN <<>> ELSE <<Line("id", 0), Line("event", e.type)>>
             body == [i \in DOMAIN e.data |-> Line("data", e.data[i])]
             tail == <<Line("blank", 0)>>
  <1>1. e.type \in EventTypes /\ e.data \in Seq(Nat)
    BY DEF Events
  <1>2. Len(e.data) \in Nat /\ DOMAIN e.data = 1..Len(e.data) /\ \A i \in 1..Len(e.data) : e.data[i] \in Nat
    BY <1>1, LenProperties, ElementOfSeq
  <1>3. head \in Seq(AnyLine) /\ Len(head) = Header(e)
        /\ \A i \in 1..Header(e) : head[i] = LineOf(e, i)
    <2>1. CASE e.type = ""
      <3>1. head = <<>> /\ Header(e) = 0
        BY <2>1 DEF Header
      <3> HIDE DEF head
      <3> QED
        BY <3>1, EmptySeq
    <2>2. CASE e.type # ""
      <3>0. Header(e) = 2
        BY <2>2 DEF Header
      <3>1. head = <<Line("id", 0), Line("event", e.type)>>
        BY <2>2
      <3>2. Line("id", 0) \in AnyLine /\ Line("event", e.type) \in AnyLine
        BY <1>1 DEF AnyLine, Line
      <3>3. LineOf(e, 1) = Line("id", 0) /\ LineOf(e, 2) = Line("event", e.type)
        <4>1. 1 <= Header(e) /\ 2 <= Header(e)
          BY <3>0
        <4> QED
          BY <4>1 DEF LineOf
      <3> HIDE DEF head
      <3>4. head \in Seq(AnyLine) /\ Len(head) = 2 /\ head[1] = LineOf(e, 1) /\ head[2] = LineOf(e, 2)
        BY <3>1, <3>2, <3>3
      <3> QED
        BY <3>0, <3>4
    <2> QED
      BY <2>1, <2>2
  <1>4. body \in Seq(AnyLine) /\ Len(body) = Len(e.data)
        /\ \A i \in 1..Len(e.data) : body[i] = Line("data", e.data[i])
    BY <1>2 DEF AnyLine, Line
  <1>5. tail \in Seq(AnyLine) /\ Len(tail) = 1 /\ tail[1] = Line("blank", 0)
    BY DEF AnyLine, Line
  <1>6. Lines(e) = (head \o body) \o tail
    BY DEF Lines
  <1>7. Header(e) \in Nat
    BY DEF Header
  <1> HIDE DEF head, body, tail
  <1> DEFINE hb == head \o body
  <1>a. /\ hb \in Seq(AnyLine)
        /\ Len(hb) = Len(head) + Len(body)
        /\ \A i \in 1..(Len(head) + Len(body)) :
              hb[i] = IF i <= Len(head) THEN head[i] ELSE body[i - Len(head)]
    <2>1. head \in Seq(AnyLine) /\ body \in Seq(AnyLine)
      BY <1>3, <1>4
    <2> QED
      BY <2>1, ConcatProperties
  <1>8. hb \in Seq(AnyLine) /\ Len(hb) = Header(e) + Len(e.data)
        /\ \A i \in 1..Len(hb) : hb[i] = IF i <= Header(e) THEN head[i] ELSE body[i - Header(e)]
    BY <1>3, <1>4, <1>a
  <1> HIDE DEF hb
  <1>b. /\ hb \o tail \in Seq(AnyLine)
        /\ Len(hb \o tail) = Len(hb) + Len(tail)
        /\ \A i \in 1..(Len(hb) + Len(tail)) :
              (hb \o tail)[i] = IF i <= Len(hb) THEN hb[i] ELSE tail[i - Len(hb)]
    <2>1. hb \in Seq(AnyLine) /\ tail \in Seq(AnyLine)
      BY <1>5, <1>8
    <2> QED
      BY <2>1, ConcatProperties
  <1>9. Lines(e) \in Seq(AnyLine) /\ Len(Lines(e)) = Len(hb) + 1
        /\ \A i \in 1..Len(Lines(e)) : Lines(e)[i] = IF i <= Len(hb) THEN hb[i] ELSE tail[i - Len(hb)]
    BY <1>5, <1>6, <1>8, <1>b DEF hb
  <1>10. ASSUME NEW i \in 1..Len(Lines(e)) PROVE Lines(e)[i] = LineOf(e, i)
    <2>1. CASE i <= Header(e)
      <3>1. i \in 1..Header(e) /\ i \in 1..Len(hb)
        BY <1>2, <1>7, <1>8, <1>9, <2>1
      <3> QED
        BY <1>3, <1>8, <1>9, <2>1, <3>1
    <2>2. CASE ~(i <= Header(e)) /\ i <= Len(hb)
      <3>1. i \in 1..Len(hb) /\ i - Header(e) \in 1..Len(e.data)
        BY <1>2, <1>7, <1>8, <1>9, <2>2
      <3>2. Lines(e)[i] = Line("data", e.data[i - Header(e)])
        BY <1>4, <1>8, <1>9, <2>2, <3>1
      <3> QED
        BY <1>8, <2>2, <3>2 DEF LineOf
    <2>3. CASE ~(i <= Len(hb))
      <3>1. i - Len(hb) = 1
        BY <1>2, <1>7, <1>8, <1>9, <2>3
      <3>2. Lines(e)[i] = Line("blank", 0)
        BY <1>5, <1>9, <2>3, <3>1
      <3>3. ~(i <= Header(e)) /\ ~(i <= Header(e) + Len(e.data))
        BY <1>2, <1>7, <1>8, <2>3
      <3> QED
        BY <3>2, <3>3 DEF LineOf
    <2> QED
      BY <1>7, <1>8, <2>1, <2>2, <2>3
  <1> QED
    BY <1>8, <1>9, <1>10

-----------------------------------------------------------------------------
(***************************************************************************)
(* Reading an event: where its lines begin, which is next, and what it     *)
(* means that a line does not fit.                                         *)
(***************************************************************************)
LEMMA EventParts ==
    ASSUME NEW e \in Events
    PROVE  /\ e.type \in EventTypes /\ e.data \in Seq(Nat)
           /\ Len(e.data) \in Nat /\ Header(e) \in {0, 2}
           /\ \A i \in 1..Len(e.data) : e.data[i] \in Nat
  <1>1. e.type \in EventTypes /\ e.data \in Seq(Nat)
    BY DEF Events
  <1> QED
    BY <1>1, LenProperties, ElementOfSeq DEF Header

LEMMA AtItsStart ==
    ASSUME NEW e \in Events
    PROVE  Within(Lines(e), Fresh, e)
  <1>1. Len(e.data) \in Nat /\ Header(e) \in {0, 2}
    BY EventParts
  <1>2. NamedAfter(e, 0) = ""
    <2>1. CASE e.type = ""
      BY <2>1 DEF NamedAfter
    <2>2. CASE e.type # ""
      <3>1. Header(e) = 2
        BY <2>2 DEF Header
      <3> QED
        BY <3>1 DEF NamedAfter
    <2> QED
      BY <2>1, <2>2
  <1>3. Collected(Fresh, e, 0)
    BY EmptySeq DEF Fresh, Collected
  <1>4. DataAfter(e, 0) = 0
    BY <1>1 DEF DataAfter
  <1>5. /\ Len(Lines(e)) = Header(e) + Len(e.data) + 1 - 0
        /\ \A i \in 1..Len(Lines(e)) : Lines(e)[i] = LineOf(e, 0 + i)
    BY <1>1, LinesShape
  <1>6. ReadSoFar(Lines(e), Fresh, e, 0)
    BY <1>2, <1>3, <1>4, <1>5 DEF ReadSoFar, Fresh
  <1> QED
    BY <1>1, <1>6 DEF Within

LEMMA NextLine ==
    ASSUME NEW e \in Events, NEW ls \in Seq(AnyLine), NEW sc,
           NEW k \in 0..(Header(e) + Len(e.data)), ReadSoFar(ls, sc, e, k)
    PROVE  /\ ls # <<>> /\ Head(ls) = LineOf(e, k + 1)
           /\ Len(Tail(ls)) = Header(e) + Len(e.data) + 1 - (k + 1)
           /\ \A i \in 1..Len(Tail(ls)) : Tail(ls)[i] = LineOf(e, (k + 1) + i)
  <1>1. Len(e.data) \in Nat /\ Header(e) \in {0, 2} /\ k \in Int
    BY EventParts
  <1>2. Len(ls) = Header(e) + Len(e.data) + 1 - k /\ Len(ls) >= 1
    <2>1. Len(ls) = Header(e) + Len(e.data) + 1 - k
      BY DEF ReadSoFar
    <2> HIDE DEF ReadSoFar
    <2> QED
      BY <1>1, <2>1
  <1>3. ls # <<>>
    BY <1>2, EmptySeq
  <1>4. Head(ls) = ls[1] /\ 1 \in 1..Len(ls)
    BY <1>1, <1>2, <1>3
  <1>5. Len(Tail(ls)) = Len(ls) - 1 /\ \A i \in 1..Len(Tail(ls)) : Tail(ls)[i] = ls[i + 1]
    BY <1>3, HeadTailProperties
  <1>6. \A i \in 1..Len(ls) : ls[i] = LineOf(e, k + i)
    BY DEF ReadSoFar
  <1>7. \A i \in 1..Len(Tail(ls)) : Tail(ls)[i] = LineOf(e, (k + 1) + i)
    <2> SUFFICES ASSUME NEW i \in 1..Len(Tail(ls)) PROVE Tail(ls)[i] = LineOf(e, (k + 1) + i)
      OBVIOUS
    <2>1. i + 1 \in 1..Len(ls) /\ k + (i + 1) = (k + 1) + i
      BY <1>1, <1>2, <1>5
    <2> QED
      BY <1>5, <1>6, <2>1
  <1> QED
    BY <1>1, <1>2, <1>3, <1>4, <1>5, <1>6, <1>7

\* Which line comes next tells how far the event was read.
LEMMA LineKinds ==
    ASSUME NEW e \in Events, NEW k \in 0..(Header(e) + Len(e.data))
    PROVE  LET next == LineOf(e, k + 1) IN
           /\ next.field = "id" => k = 0 /\ Header(e) = 2
           /\ next.field = "event" => k = 1 /\ Header(e) = 2 /\ next = Line("event", e.type)
           /\ next.field = "data" =>
                 /\ k - Header(e) + 1 \in 1..Len(e.data) /\ ~(k < Header(e))
                 /\ next = Line("data", e.data[k - Header(e) + 1])
           /\ next.field = "blank" => k = Header(e) + Len(e.data)
  <1>1. Len(e.data) \in Nat /\ Header(e) \in {0, 2} /\ k \in Int
    BY EventParts
  <1>2. CASE k + 1 <= Header(e)
    <2>1. (k = 0 \/ k = 1) /\ Header(e) = 2
      BY <1>1, <1>2
    <2>2. LineOf(e, k + 1) = IF k + 1 = 1 THEN Line("id", 0) ELSE Line("event", e.type)
      BY <1>2 DEF LineOf
    <2> QED
      BY <2>1, <2>2 DEF Line
  <1>3. CASE ~(k + 1 <= Header(e)) /\ k + 1 <= Header(e) + Len(e.data)
    <2>1. LineOf(e, k + 1) = Line("data", e.data[(k + 1) - Header(e)])
      BY <1>3 DEF LineOf
    <2>2. (k + 1) - Header(e) = k - Header(e) + 1 /\ k - Header(e) + 1 \in 1..Len(e.data)
          /\ ~(k < Header(e))
      BY <1>1, <1>3
    <2> QED
      BY <2>1, <2>2 DEF Line
  <1>4. CASE ~(k + 1 <= Header(e)) /\ ~(k + 1 <= Header(e) + Len(e.data))
    <2>1. LineOf(e, k + 1) = Line("blank", 0)
      BY <1>4 DEF LineOf
    <2>2. k = Header(e) + Len(e.data)
      BY <1>1, <1>4
    <2> QED
      BY <2>1, <2>2 DEF Line
  <1> QED
    BY <1>2, <1>3, <1>4

\* The size the scanner computes for a line is that of the data joined up to it.
LEMMA SizeComputed ==
    ASSUME TypeOK, NEW e \in Events, NEW m \in 1..Len(e.data),
           Collected(scan, e, m - 1), NEW v \in Nat
    PROVE  /\ NewSize(v) = JoinedTo(e.data)[m - 1] + 1 + v
           /\ JoinedTo(e.data)[m - 1] \in Int
           /\ JoinedTo(e.data)[m] = JoinedTo(e.data)[m - 1] + 1 + e.data[m]
  <1> DEFINE J == JoinedTo(e.data)
  <1>1. /\ e.data \in Seq(Nat) /\ Len(e.data) \in Nat /\ m \in Nat /\ m - 1 \in 0..Len(e.data)
        /\ e.data[m] \in Nat
    BY EventParts
  <1>2. J \in [0..Len(e.data) -> Int] /\ J[0] = -1
        /\ \A i \in 1..Len(e.data) : J[i] = J[i - 1] + 1 + e.data[i]
    BY <1>1, JoinedSizes DEF JoinedUpTo
  <1> HIDE DEF J
  <1>3. Len(scan.data) = m - 1 /\ scan.size = IF m - 1 = 0 THEN 0 ELSE J[m - 1]
    BY DEF Collected, J
  <1>4. scan.data = <<>> <=> m - 1 = 0
    <2>1. scan.data \in Seq(Nat)
      BY DEF TypeOK
    <2> QED
      BY <1>3, <2>1, EmptySeq
  <1>5. J[m - 1] \in Int
    BY <1>1, <1>2
  <1>6. NewSize(v) = J[m - 1] + 1 + v
    <2>1. CASE m - 1 = 0
      BY <1>2, <1>3, <1>4, <2>1 DEF NewSize
    <2>2. CASE m - 1 # 0
      BY <1>3, <1>4, <1>5, <2>2 DEF NewSize
    <2> QED
      BY <2>1, <2>2
  <1> QED
    BY <1>2, <1>5, <1>6 DEF J

\* Either bound is passed only by an event that is too long: a line of v bytes,
\* or what is there of one of d bytes, comes after lines of the size before.
LEMMA EitherBound ==
    ASSUME NEW before \in Int, before >= -1, NEW d \in Nat, NEW v \in Nat, v <= d,
           NEW total \in Int, before + 1 + d <= total,
           ~(v + FieldName < MaxEvent + Headroom) \/ before + 1 + v > MaxEvent
    PROVE  total > MaxEvent
  <1>1. CASE before + 1 + v > MaxEvent
    BY <1>1, SizeAssumption
  <1>2. CASE ~(v + FieldName < MaxEvent + Headroom)
    BY <1>2, SizeAssumption
  <1> QED
    BY <1>1, <1>2

\* A data line that does not fit, even in part, is of an oversized event.
LEMMA OverTheLimit ==
    ASSUME TypeOK, NEW e \in Events, NEW m \in 1..Len(e.data),
           Collected(scan, e, m - 1), NEW v \in 0..e.data[m],
           ~Fits(Line("data", v)) \/ NewSize(v) > MaxEvent
    PROVE  Oversized(e)
  <1> DEFINE J == JoinedTo(e.data)
             n == Len(e.data)
  <1>1. /\ e.data \in Seq(Nat) /\ n \in Nat /\ m \in 0..n
        /\ e.data[m] \in Nat /\ v \in Nat /\ v <= e.data[m]
    BY EventParts
  <1>2. NewSize(v) = J[m - 1] + 1 + v /\ J[m - 1] \in Int /\ J[m] = J[m - 1] + 1 + e.data[m]
    BY <1>1, SizeComputed
  <1>3. J[m] <= J[n]
    BY <1>1, JoinedGrows
  <1>4. J[0] = -1 /\ J[n] \in Int
    <2>1. J \in [0..n -> Int] /\ J[0] = -1
      BY <1>1, JoinedSizes DEF JoinedUpTo
    <2> HIDE DEF J
    <2> QED
      BY <1>1, <2>1
  <1>5. J[m - 1] >= -1
    <2>1. scan.size \in Nat /\ scan.size = IF m - 1 = 0 THEN 0 ELSE J[m - 1]
      BY DEF TypeOK, Collected
    <2> HIDE DEF J
    <2>2. CASE m - 1 = 0
      BY <1>4, <2>2
    <2>3. CASE m - 1 # 0
      BY <2>1, <2>3
    <2> QED
      BY <2>2, <2>3
  <1>6. ~(v + FieldName < MaxEvent + Headroom) \/ NewSize(v) > MaxEvent
    BY DEF Fits, Line
  <1>7. e.data # <<>>
    BY <1>1, EmptySeq
  <1> HIDE DEF J, n
  <1>8. ~(v + FieldName < MaxEvent + Headroom) \/ J[m - 1] + 1 + v > MaxEvent
    BY <1>2, <1>6
  <1>9. J[m - 1] + 1 + e.data[m] <= J[n]
    BY <1>2, <1>3
  <1>10. J[n] > MaxEvent
    BY <1>1, <1>2, <1>4, <1>5, <1>8, <1>9, EitherBound
  <1> QED
    BY <1>7, <1>10 DEF Oversized, Reported, J, n

-----------------------------------------------------------------------------
(***************************************************************************)
(* What is wanted, and how much of it comes before an event.               *)
(***************************************************************************)
Before(n) == {i \in Wanted : i < n}

LEMMA Countable ==
    ASSUME TypeOK
    PROVE  /\ DOMAIN sent = 1..Len(sent) /\ Len(sent) \in Nat
           /\ Wanted \subseteq 1..Len(sent) /\ IsFiniteSet(Wanted)
           /\ Cardinality(Wanted) \in Nat
           /\ \A S \in SUBSET Wanted : IsFiniteSet(S) /\ Cardinality(S) \in Nat
  <1>1. DOMAIN sent = 1..Len(sent) /\ Len(sent) \in Nat
    BY LenProperties DEF TypeOK
  <1>2. Wanted \subseteq 1..Len(sent)
    BY <1>1 DEF Wanted, Revocations
  <1>3. IsFiniteSet(1..Len(sent))
    BY <1>1, FS_Interval
  <1>4. IsFiniteSet(Wanted)
    BY <1>2, <1>3, FS_Subset
  <1> QED
    BY <1>1, <1>2, <1>4, FS_Subset, FS_CardinalityType

LEMMA Unmoved ==
    ASSUME UNCHANGED <<sent, reader>>
    PROVE  /\ Wanted' = Wanted
           /\ AllReadable' <=> AllReadable
           /\ \A i : Fatal(sent[i])' <=> Fatal(sent[i])
           /\ \A n : Before(n)' = Before(n)
  <1>1. \A i : Fatal(sent[i])' <=> Fatal(sent[i])
    BY DEF Fatal, Oversized, Reported, Undecodable
  <1>2. Wanted' = Wanted
    BY <1>1 DEF Wanted, Revocations
  <1> QED
    BY <1>1, <1>2 DEF AllReadable, Before

\* One event further: it adds itself to what comes before when it is wanted.
LEMMA OneEventFurther ==
    ASSUME TypeOK, NEW n \in DOMAIN sent, \A j \in 1..(n - 1) : ~Fatal(sent[j]), ~Fatal(sent[n])
    PROVE  /\ \A j \in 1..n : ~Fatal(sent[j])
           /\ n \notin Revocations => Before(n + 1) = Before(n)
           /\ n \in Revocations =>
                 /\ n \in Wanted
                 /\ Place(n, Wanted) = Cardinality(Before(n)) + 1
                 /\ Cardinality(Before(n + 1)) = Cardinality(Before(n)) + 1
  <1>1. Len(sent) \in Nat /\ DOMAIN sent = 1..Len(sent) /\ Wanted \subseteq 1..Len(sent) /\ n \in Nat
    BY Countable
  <1>2. \A j \in 1..n : ~Fatal(sent[j])
    BY <1>1
  <1>3. n \in Wanted <=> n \in Revocations
    BY <1>2 DEF Wanted
  <1>a. \A i \in Wanted : /\ i < n + 1 <=> i < n \/ i = n
                          /\ i <= n <=> i < n + 1
    BY <1>1
  <1>4. Before(n + 1) = Before(n) \cup ({n} \cap Wanted)
    BY <1>a DEF Before
  <1>5. {i \in Wanted : i <= n} = Before(n + 1)
    BY <1>a DEF Before
  <1>6. IsFiniteSet(Before(n)) /\ n \notin Before(n)
    BY <1>1, Countable DEF Before
  <1>7. Cardinality(Before(n) \cup {n}) = Cardinality(Before(n)) + 1
    BY <1>6, FS_AddElement
  <1>8. CASE n \notin Revocations
    BY <1>2, <1>3, <1>4, <1>8
  <1>9. CASE n \in Revocations
    <2>1. Before(n + 1) = Before(n) \cup {n}
      BY <1>3, <1>4, <1>9
    <2> QED
      BY <1>2, <1>3, <1>5, <1>7, <1>9, <2>1 DEF Place
  <1> QED
    BY <1>8, <1>9

\* Steps that neither deliver nor pass an event.
LEMMA NothingPassed ==
    ASSUME IInv, UNCHANGED <<sent, reader, delivered, outcome>>,
           Reading, pc' # "done", Upcoming' = Upcoming
    PROVE  PassedInv' /\ DeliversWholeEvents' /\ NothingRefused' /\ OutcomeIsTruthful'
  <1>1. outcome = "none" /\ outcome' = "none"
    BY DEF IInv, EndedInv, Reading
  <1>2. PassedInv'
    <2>1. \A j \in 1..(Upcoming - 1) : ~Fatal(sent[j])
      BY DEF IInv, PassedInv
    <2>2. Len(delivered) = Cardinality(Before(Upcoming))
      BY DEF IInv, PassedInv, Before
    <2>3. \A j \in 1..(Upcoming' - 1) : ~Fatal(sent[j])'
      BY <2>1, Unmoved
    <2>4. Len(delivered') = Cardinality(Before(Upcoming)')
      BY <2>2, Unmoved
    <2> QED
      BY <2>3, <2>4 DEF PassedInv, Before
  <1>3. DeliversWholeEvents'
    BY Unmoved DEF IInv, DeliversWholeEvents, Place
  <1> QED
    BY <1>1, <1>2, <1>3 DEF NothingRefused, OutcomeIsTruthful

\* Steps that pass an event which is not wanted.
LEMMA EventPassed ==
    ASSUME IInv, UNCHANGED <<sent, reader, delivered, outcome>>, Reading, Reading',
           Upcoming \in DOMAIN sent, ~Fatal(sent[Upcoming]), Upcoming \notin Revocations,
           Upcoming' = Upcoming + 1
    PROVE  PassedInv' /\ DeliversWholeEvents' /\ NothingRefused' /\ OutcomeIsTruthful'
  <1>1. outcome = "none" /\ outcome' = "none" /\ pc' # "done"
    BY DEF IInv, EndedInv, Reading
  <1>2. PassedInv'
    <2>1. \A j \in 1..(Upcoming - 1) : ~Fatal(sent[j])
      BY DEF IInv, PassedInv
    <2>2. Len(delivered) = Cardinality(Before(Upcoming))
      BY DEF IInv, PassedInv, Before
    <2>3. /\ \A j \in 1..Upcoming : ~Fatal(sent[j])
          /\ Before(Upcoming + 1) = Before(Upcoming)
      BY <2>1, OneEventFurther DEF IInv
    <2>4. Upcoming \in Int /\ Upcoming' - 1 = Upcoming
      BY Countable DEF IInv
    <2>5. \A j \in 1..(Upcoming' - 1) : ~Fatal(sent[j])'
      BY <2>3, <2>4, Unmoved
    <2>6. Len(delivered') = Cardinality({i \in Wanted' : i < Upcoming'})
      BY <2>2, <2>3, Unmoved DEF Before
    <2> QED
      BY <2>5, <2>6 DEF PassedInv
  <1>3. DeliversWholeEvents'
    BY Unmoved DEF IInv, DeliversWholeEvents, Place
  <1> QED
    BY <1>1, <1>2, <1>3 DEF NothingRefused, OutcomeIsTruthful

-----------------------------------------------------------------------------
(***************************************************************************)
(* One lemma per action.                                                   *)
(***************************************************************************)
\* Where the scanner is in a response that has not broken.
LEMMA WhereItIs ==
    ASSUME IInv, pc = "scan", ~broken, lines # <<>>
    PROVE  /\ at \in DOMAIN sent /\ sent[at] \in Events
           /\ \E k \in 0..(Header(sent[at]) + Len(sent[at].data)) :
                 ReadSoFar(lines, scan, sent[at], k)
  <1>1. at \in DOMAIN sent /\ Within(lines, scan, sent[at])
    BY DEF IInv, WireInv
  <1>2. sent[at] \in Events
    BY <1>1, Countable, ElementOfSeq DEF IInv, TypeOK
  <1> QED
    BY <1>1, <1>2 DEF Within

\* A part of a line can only be a data line.
LEMMA WhereItBroke ==
    ASSUME IInv, pc = "scan", broken, lines # <<>>
    PROVE  /\ at \in DOMAIN sent /\ sent[at] \in Events
           /\ Head(lines).field = "data" /\ Tail(lines) = <<>>
           /\ \E m \in 1..Len(sent[at].data) :
                 /\ Collected(scan, sent[at], m - 1)
                 /\ Head(lines).value \in 0..sent[at].data[m]
  <1>1. at \in DOMAIN sent /\ CutOff(lines, scan, sent[at])
    BY DEF IInv, WireInv
  <1>2. sent[at] \in Events
    BY <1>1, Countable, ElementOfSeq DEF IInv, TypeOK
  <1>3. PICK m \in 1..Len(sent[at].data) :
           /\ Collected(scan, sent[at], m - 1)
           /\ \E n \in 0..sent[at].data[m] : lines = <<Line("data", n)>>
    BY <1>1 DEF CutOff
  <1>4. PICK n \in 0..sent[at].data[m] : lines = <<Line("data", n)>>
    BY <1>3
  <1>5. Head(lines) = Line("data", n) /\ Tail(lines) = <<>>
    BY <1>4
  <1> QED
    BY <1>1, <1>2, <1>3, <1>5 DEF Line

LEMMA FreshScan ==
    /\ Fresh \in [type: EventTypes, data: Seq(Nat), size: Nat, err: {"none"}]
    /\ Fresh.err = "none" /\ Fresh.size = 0 /\ Fresh.size <= MaxEvent
  <1>1. <<>> \in Seq(Nat)
    BY EmptySeq
  <1>2. 0 <= MaxEvent
    BY SizeAssumption
  <1>3. Fresh.err = "none" /\ Fresh.size = 0
    BY DEF Fresh
  <1> QED
    BY <1>1, <1>2, <1>3 DEF Fresh, EventTypes

LEMMA AtTheNext ==
    ASSUME NEW events \in Seq(Events), NEW i \in Nat
    PROVE  /\ Response(events, i) \in Seq(AnyLine)
           /\ i \in DOMAIN events => Within(Response(events, i), Fresh, events[i])
           /\ i \notin DOMAIN events => Response(events, i) = <<>>
  <1>1. CASE i \in DOMAIN events
    <2>1. events[i] \in Events
      BY <1>1, LenProperties, ElementOfSeq
    <2>2. Response(events, i) = Lines(events[i])
      BY <1>1 DEF Response
    <2> QED
      BY <1>1, <2>1, <2>2, LinesShape, AtItsStart
  <1>2. CASE i \notin DOMAIN events
    BY <1>2, EmptySeq DEF Response
  <1> QED
    BY <1>1, <1>2

\* A response begins.
Start ==
    /\ sent \in Seq(Events)
    /\ reader \in {"client", "command"}
    /\ at = 1
    /\ lines = Response(sent, 1)
    /\ broken = FALSE
    /\ pc = "scan"
    /\ scan = Fresh
    /\ delivered = <<>>
    /\ outcome = "none"

LEMMA StartInv == Start => IInv
  <1> SUFFICES ASSUME Start PROVE IInv
    OBVIOUS
  <1> USE DEF Start
  <1>1. sent \in Seq(Events) /\ Len(sent) \in Nat /\ DOMAIN sent = 1..Len(sent)
    BY LenProperties
  <1>4. TypeOK
    <2>1. scan \in [type: EventTypes, data: Seq(Nat), size: Nat, err: {"none", "read", "too long"}]
      BY FreshScan
    <2>2. at \in 1..(Len(sent) + 1) /\ delivered \in Seq(Events)
      BY <1>1, EmptySeq
    <2>3. lines \in Seq(AnyLine)
      BY <1>1, AtTheNext
    <2> QED
      BY <1>1, <2>1, <2>2, <2>3 DEF TypeOK
  <1>5. WireInv
    <2>1. /\ at \in DOMAIN sent => Within(lines, scan, sent[at])
          /\ at \notin DOMAIN sent => lines = <<>>
      BY <1>1, AtTheNext
    <2> QED
      BY <2>1, FreshScan DEF WireInv
  <1>6. PassedInv
    <2>1. {i \in Wanted : i < 1} = {}
      BY <1>4, Countable
    <2>2. Len(delivered) = 0
      BY EmptySeq
    <2>3. \A j \in 1..(1 - 1) : ~Fatal(sent[j])
      OBVIOUS
    <2>4. Cardinality({i \in Wanted : i < 1}) = 0
      BY <2>1, FS_EmptySet
    <2>5. Upcoming = 1
      BY DEF Upcoming
    <2> QED
      BY <2>2, <2>3, <2>4, <2>5 DEF PassedInv
  <1>7. EventInv /\ EndedInv /\ NothingRefused /\ OutcomeIsTruthful
    BY DEF EventInv, EndedInv, NothingRefused, OutcomeIsTruthful
  <1>8. DeliversWholeEvents
    BY DEF DeliversWholeEvents
  <1> QED
    BY <1>4, <1>5, <1>6, <1>7, <1>8 DEF IInv

LEMMA InitStarts == Init => Start
  BY SentAssumption DEF Init, Start

LEMMA BreakStep ==
    ASSUME IInv, Break
    PROVE  IInv'
  <1>1. pc = "scan" /\ ~broken /\ broken' = TRUE
        /\ UNCHANGED <<sent, reader, at, pc, scan, delivered, outcome>>
    BY DEF Break
  <1>2. CASE lines' = <<>>
    <2>1. TypeOK' /\ WireInv'
      BY <1>1, <1>2, EmptySeq DEF IInv, TypeOK, WireInv
    <2>2. PassedInv' /\ DeliversWholeEvents' /\ NothingRefused' /\ OutcomeIsTruthful'
      BY <1>1, NothingPassed DEF Reading, Upcoming
    <2> QED
      BY <1>1, <2>1, <2>2 DEF IInv, EventInv, EndedInv
  <1>3. CASE /\ lines # <<>>
             /\ Head(lines).field = "data"
             /\ \E n \in 0..Head(lines).value : lines' = <<Line("data", n)>>
    <2>1. at \in DOMAIN sent /\ sent[at] \in Events
      BY <1>1, <1>3, WhereItIs
    <2> DEFINE e == sent[at]
    <2>2. PICK k \in 0..(Header(e) + Len(e.data)) : ReadSoFar(lines, scan, e, k)
      BY <1>1, <1>3, WhereItIs
    <2> HIDE DEF e
    <2>3. e \in Events /\ lines \in Seq(AnyLine)
      BY <2>1 DEF e, IInv, TypeOK
    <2>4. Head(lines) = LineOf(e, k + 1)
      BY <2>2, <2>3, NextLine
    <2> DEFINE m == k - Header(e) + 1
    <2>5. m \in 1..Len(e.data) /\ ~(k < Header(e)) /\ Head(lines) = Line("data", e.data[m])
      BY <1>3, <2>3, <2>4, LineKinds
    <2>6. Collected(scan, e, m - 1)
      <3>1. Collected(scan, e, k - Header(e))
        BY <2>2, <2>5 DEF ReadSoFar, DataAfter
      <3>2. m - 1 = k - Header(e)
        BY <2>3, EventParts
      <3> QED
        BY <3>1, <3>2
    <2>7. e.data[m] \in Nat
      BY <2>3, <2>5, EventParts
    <2>8. PICK n \in 0..e.data[m] : lines' = <<Line("data", n)>>
      BY <1>3, <2>5 DEF Line
    <2> HIDE DEF m
    <2>9. lines' \in Seq(AnyLine)
      <3>1. Line("data", n) \in AnyLine
        BY <2>7, <2>8 DEF AnyLine, Line
      <3> QED
        BY <2>8, <3>1
    <2>10. CutOff(lines', scan', sent'[at'])
      <3>1. CutOff(lines', scan, e)
        BY <2>5, <2>6, <2>8 DEF CutOff
      <3> QED
        BY <1>1, <3>1 DEF e
    <2>11. TypeOK'
      BY <1>1, <2>9 DEF IInv, TypeOK
    <2>12. WireInv'
      BY <1>1, <2>1, <2>10 DEF IInv, WireInv
    <2>13. PassedInv' /\ DeliversWholeEvents' /\ NothingRefused' /\ OutcomeIsTruthful'
      BY <1>1, NothingPassed DEF Reading, Upcoming
    <2> QED
      BY <1>1, <2>11, <2>12, <2>13 DEF IInv, EventInv, EndedInv
  <1> QED
    BY <1>2, <1>3 DEF Break

\* The lines that are read and leave the scanner within an event.
LEMMA LineRead ==
    ASSUME IInv, pc = "scan", lines # <<>>, lines' = Tail(lines),
           UNCHANGED <<sent, reader, at, broken, pc, delivered, outcome>>,
           scan' \in [type: EventTypes, data: Seq(Nat), size: Nat, err: {"none"}],
           scan'.size <= MaxEvent,
           ~broken => Within(lines', scan', sent[at])
    PROVE  IInv'
  <1>1. TypeOK'
    BY HeadTailProperties DEF IInv, TypeOK
  <1>2. WireInv'
    <2>1. broken => lines' = <<>>
      BY WhereItBroke
    <2>2. ~broken => at \in DOMAIN sent
      BY WhereItIs
    <2> QED
      BY <2>1, <2>2 DEF WireInv
  <1>3. PassedInv' /\ DeliversWholeEvents' /\ NothingRefused' /\ OutcomeIsTruthful'
    BY NothingPassed DEF Reading, Upcoming
  <1> QED
    BY <1>1, <1>2, <1>3 DEF IInv, EventInv, EndedInv

\* The next line is read: what was ReadSoFar goes one line further.
LEMMA StillWithin ==
    ASSUME NEW h \in {0, 2}, NEW n \in Nat, NEW k \in Nat, k < h + n
    PROVE  k \in 0..(h + n) /\ k + 1 \in 0..(h + n)
  OBVIOUS

LEMMA OneLineFurther ==
    ASSUME NEW e \in Events, NEW ls \in Seq(AnyLine), NEW sc, NEW sn,
           NEW k \in Nat, k < Header(e) + Len(e.data), ReadSoFar(ls, sc, e, k),
           sn.type = NamedAfter(e, k + 1), Collected(sn, e, DataAfter(e, k + 1))
    PROVE  Within(Tail(ls), sn, e)
  <1>1. Len(e.data) \in Nat /\ Header(e) \in {0, 2}
    BY EventParts
  <1>2. k \in 0..(Header(e) + Len(e.data)) /\ k + 1 \in 0..(Header(e) + Len(e.data))
    BY <1>1, StillWithin
  <1>3. /\ Len(Tail(ls)) = Header(e) + Len(e.data) + 1 - (k + 1)
        /\ \A i \in 1..Len(Tail(ls)) : Tail(ls)[i] = LineOf(e, (k + 1) + i)
    BY <1>2, NextLine
  <1>4. ReadSoFar(Tail(ls), sn, e, k + 1)
    BY <1>3 DEF ReadSoFar
  <1> QED
    BY <1>2, <1>4 DEF Within

LEMMA EventLineStep ==
    ASSUME IInv, EventLine
    PROVE  IInv'
  <1>1. /\ pc = "scan" /\ lines # <<>> /\ Head(lines).field = "event"
        /\ lines' = Tail(lines)
        /\ UNCHANGED <<sent, reader, at, broken, pc, delivered, outcome>>
        /\ scan' = [scan EXCEPT !.type = Head(lines).value]
    BY DEF EventLine, Take, netVars
  <1>2. ~broken
    BY <1>1, WhereItBroke
  <1>3. at \in DOMAIN sent /\ sent[at] \in Events /\ lines \in Seq(AnyLine)
    BY <1>1, <1>2, WhereItIs DEF IInv, TypeOK
  <1> DEFINE e == sent[at]
  <1>4. PICK k \in 0..(Header(e) + Len(e.data)) : ReadSoFar(lines, scan, e, k)
    BY <1>1, <1>2, WhereItIs
  <1> HIDE DEF e
  <1>5. Head(lines) = LineOf(e, k + 1)
    BY <1>3, <1>4, NextLine DEF e
  <1>6. k = 1 /\ Header(e) = 2 /\ Head(lines) = Line("event", e.type)
    BY <1>1, <1>3, <1>5, LineKinds DEF e
  <1>7. scan \in [type: EventTypes, data: Seq(Nat), size: Nat, err: {"none"}]
        /\ scan.size <= MaxEvent
    BY <1>1 DEF IInv, TypeOK, WireInv
  <1>8. e.type \in EventTypes /\ Len(e.data) \in Nat
    BY <1>3, EventParts DEF e
  <1>9. /\ scan'.type = e.type /\ scan'.data = scan.data /\ scan'.size = scan.size
        /\ scan' \in [type: EventTypes, data: Seq(Nat), size: Nat, err: {"none"}]
    <2>1. scan' = [scan EXCEPT !.type = e.type]
      BY <1>1, <1>6 DEF Line
    <2> QED
      BY <1>7, <1>8, <2>1
  <1>10. Within(Tail(lines), scan', e)
    <2>1. Collected(scan, e, 0)
      <3>1. Collected(scan, e, DataAfter(e, k))
        BY <1>4 DEF ReadSoFar
      <3>2. DataAfter(e, k) = 0
        BY <1>6 DEF DataAfter
      <3> QED
        BY <3>1, <3>2
    <2>2. Collected(scan', e, 0)
      BY <1>9, <2>1 DEF Collected
    <2>3. k \in Nat /\ k < Header(e) + Len(e.data)
      BY <1>6, <1>8
    <2>4. scan'.type = NamedAfter(e, k + 1)
      BY <1>6, <1>9 DEF NamedAfter
    <2>5. DataAfter(e, k + 1) = 0
      BY <1>6 DEF DataAfter
    <2>6. e \in Events
      BY <1>3 DEF e
    <2> QED
      BY <1>3, <1>4, <2>2, <2>3, <2>4, <2>5, <2>6, OneLineFurther
  <1> QED
    BY <1>1, <1>7, <1>9, <1>10, LineRead DEF e

LEMMA IgnoredLineStep ==
    ASSUME IInv, IgnoredLine
    PROVE  IInv'
  <1>1. /\ pc = "scan" /\ lines # <<>> /\ Head(lines).field = "id"
        /\ lines' = Tail(lines)
        /\ UNCHANGED <<sent, reader, at, broken, pc, delivered, outcome, scan>>
    BY DEF IgnoredLine, Take, netVars
  <1>2. ~broken
    BY <1>1, WhereItBroke
  <1>3. at \in DOMAIN sent /\ sent[at] \in Events /\ lines \in Seq(AnyLine)
    BY <1>1, <1>2, WhereItIs DEF IInv, TypeOK
  <1> DEFINE e == sent[at]
  <1>4. PICK k \in 0..(Header(e) + Len(e.data)) : ReadSoFar(lines, scan, e, k)
    BY <1>1, <1>2, WhereItIs
  <1> HIDE DEF e
  <1>5. Head(lines) = LineOf(e, k + 1)
    BY <1>3, <1>4, NextLine DEF e
  <1>6. k = 0 /\ Header(e) = 2
    BY <1>1, <1>3, <1>5, LineKinds DEF e
  <1>7. scan \in [type: EventTypes, data: Seq(Nat), size: Nat, err: {"none"}]
        /\ scan.size <= MaxEvent
    BY <1>1 DEF IInv, TypeOK, WireInv
  <1>8. Within(Tail(lines), scan, e)
    <2>1. scan.type = "" /\ Collected(scan, e, 0)
      <3>1. scan.type = NamedAfter(e, k) /\ Collected(scan, e, DataAfter(e, k))
        BY <1>4 DEF ReadSoFar
      <3>2. NamedAfter(e, k) = "" /\ DataAfter(e, k) = 0
        BY <1>6 DEF NamedAfter, DataAfter
      <3> QED
        BY <3>1, <3>2
    <2>2. e \in Events /\ Len(e.data) \in Nat
      BY <1>3, EventParts DEF e
    <2>3. k \in Nat /\ k < Header(e) + Len(e.data)
      BY <1>6, <2>2
    <2>4. NamedAfter(e, k + 1) = "" /\ DataAfter(e, k + 1) = 0
      BY <1>6 DEF NamedAfter, DataAfter
    <2> QED
      BY <1>1, <1>3, <1>4, <2>1, <2>2, <2>3, <2>4, OneLineFurther
  <1> QED
    BY <1>1, <1>7, <1>8, LineRead DEF e

LEMMA DataLineStep ==
    ASSUME IInv, DataLine
    PROVE  IInv'
  <1> DEFINE v == Head(lines).value
  <1>1. /\ pc = "scan" /\ lines # <<>> /\ Head(lines).field = "data"
        /\ lines' = Tail(lines) /\ NewSize(v) <= MaxEvent
        /\ UNCHANGED <<sent, reader, at, broken, pc, delivered, outcome>>
        /\ scan' = [scan EXCEPT !.size = NewSize(v), !.data = Append(scan.data, v)]
    BY DEF DataLine, Take, netVars
  <1>2. TypeOK /\ lines \in Seq(AnyLine) /\ scan.data \in Seq(Nat)
        /\ scan \in [type: EventTypes, data: Seq(Nat), size: Nat, err: {"none"}]
    BY <1>1 DEF IInv, TypeOK, WireInv
  <1>3. v \in Nat
    <2>1. Head(lines) \in AnyLine
      BY <1>1, <1>2, HeadTailProperties
    <2> QED
      BY <1>1, <2>1 DEF AnyLine
  <1> HIDE DEF v
  <1>4. NewSize(v) \in Nat
    BY <1>2, <1>3 DEF NewSize
  <1>5. Append(scan.data, v) \in Seq(Nat)
    BY <1>2, <1>3, AppendProperties
  <1>6. /\ scan' \in [type: EventTypes, data: Seq(Nat), size: Nat, err: {"none"}]
        /\ scan'.size = NewSize(v) /\ scan'.data = Append(scan.data, v)
        /\ scan'.type = scan.type
    BY <1>1, <1>2, <1>4, <1>5
  <1>7. ASSUME ~broken PROVE Within(Tail(lines), scan', sent[at])
    <2>1. sent[at] \in Events
      BY <1>1, <1>7, WhereItIs
    <2> DEFINE e == sent[at]
    <2>2. PICK k \in 0..(Header(e) + Len(e.data)) : ReadSoFar(lines, scan, e, k)
      BY <1>1, <1>7, WhereItIs
    <2> HIDE DEF e
    <2>3. e \in Events
      BY <2>1 DEF e
    <2>4. Head(lines) = LineOf(e, k + 1)
      BY <1>2, <2>2, <2>3, NextLine
    <2> DEFINE m == k - Header(e) + 1
    <2>5. m \in 1..Len(e.data) /\ ~(k < Header(e)) /\ v = e.data[m]
      <3>1. /\ k - Header(e) + 1 \in 1..Len(e.data) /\ ~(k < Header(e))
            /\ Head(lines) = Line("data", e.data[k - Header(e) + 1])
        BY <1>1, <2>3, <2>4, LineKinds
      <3> QED
        BY <3>1 DEF Line, v
    <2>6. /\ Len(e.data) \in Nat /\ Header(e) \in {0, 2} /\ k \in Int
          /\ m - 1 = k - Header(e) /\ m = k + 1 - Header(e) /\ ~(k + 1 < Header(e))
          /\ k \in Nat /\ k < Header(e) + Len(e.data)
      BY <2>3, <2>5, EventParts
    <2>7. Collected(scan, e, m - 1) /\ scan.type = e.type
      BY <2>2, <2>5, <2>6 DEF ReadSoFar, NamedAfter, DataAfter
    <2> HIDE DEF m
    <2>8. NewSize(v) = JoinedTo(e.data)[m]
      BY <1>2, <1>3, <2>3, <2>5, <2>7, SizeComputed
    <2>9. Collected(scan', e, m)
      <3>1. Len(scan.data) = m - 1 /\ \A j \in 1..(m - 1) : scan.data[j] = e.data[j]
        BY <2>7 DEF Collected
      <3>2. /\ Len(Append(scan.data, v)) = Len(scan.data) + 1
            /\ \A j \in 1..Len(scan.data) : Append(scan.data, v)[j] = scan.data[j]
            /\ Append(scan.data, v)[Len(scan.data) + 1] = v
        BY <1>2, <1>3, AppendProperties
      <3>3. m \in Nat /\ m # 0 /\ (m - 1) + 1 = m
        BY <2>5, <2>6
      <3>4. Len(scan'.data) = m
        BY <1>6, <3>1, <3>2, <3>3
      <3>5. ASSUME NEW j \in 1..m PROVE scan'.data[j] = e.data[j]
        <4>1. CASE j = m
          BY <1>6, <2>5, <3>1, <3>2, <3>3, <4>1
        <4>2. CASE j # m
          <5>1. j \in 1..(m - 1)
            BY <3>3, <4>2
          <5> QED
            BY <1>6, <3>1, <3>2, <5>1
        <4> QED
          BY <4>1, <4>2
      <3> QED
        BY <1>6, <2>8, <3>3, <3>4, <3>5 DEF Collected
    <2>10. Within(Tail(lines), scan', e)
      <3>1. scan'.type = NamedAfter(e, k + 1)
        BY <1>6, <2>6, <2>7 DEF NamedAfter
      <3>2. DataAfter(e, k + 1) = m
        BY <2>6 DEF DataAfter
      <3> QED
        BY <1>2, <2>2, <2>3, <2>6, <2>9, <3>1, <3>2, OneLineFurther
    <2> QED
      BY <2>10 DEF e
  <1> QED
    BY <1>1, <1>6, <1>7, LineRead DEF v

\* The scanner is at the end of an event it has read whole.
LEMMA EventRead ==
    ASSUME IInv, pc = "scan", ~broken, lines # <<>>, Head(lines).field = "blank"
    PROVE  /\ at \in DOMAIN sent /\ sent[at] \in Events
           /\ Event = sent[at] /\ ~Oversized(sent[at])
  <1>1. at \in DOMAIN sent /\ sent[at] \in Events /\ lines \in Seq(AnyLine)
    BY WhereItIs DEF IInv, TypeOK
  <1> DEFINE e == sent[at]
  <1>2. PICK k \in 0..(Header(e) + Len(e.data)) : ReadSoFar(lines, scan, e, k)
    BY WhereItIs
  <1> HIDE DEF e
  <1>3. e \in Events
    BY <1>1 DEF e
  <1>4. Head(lines) = LineOf(e, k + 1)
    BY <1>1, <1>2, <1>3, NextLine
  <1>5. k = Header(e) + Len(e.data)
    BY <1>3, <1>4, LineKinds
  <1>6. /\ e.type \in EventTypes /\ e.data \in Seq(Nat)
        /\ Len(e.data) \in Nat /\ Header(e) \in {0, 2}
    BY <1>3, EventParts
  <1>7. scan.type = e.type /\ Collected(scan, e, Len(e.data))
    <2>1. NamedAfter(e, k) = e.type /\ DataAfter(e, k) = Len(e.data)
      <3>1. ~(k < Header(e)) /\ k - Header(e) = Len(e.data)
        BY <1>5, <1>6
      <3> QED
        BY <3>1 DEF NamedAfter, DataAfter
    <2> QED
      BY <1>2, <2>1 DEF ReadSoFar
  <1>8. scan.data = e.data
    <2>1. scan.data \in Seq(Nat) /\ Len(scan.data) = Len(e.data)
          /\ \A j \in 1..Len(scan.data) : scan.data[j] = e.data[j]
      BY <1>7 DEF Collected, IInv, TypeOK
    <2> QED
      BY <1>6, <2>1, SeqEqual
  <1>9. Event = e
    BY <1>3, <1>7, <1>8 DEF Event, Events
  <1>10. ~Oversized(e)
    <2>1. CASE Len(e.data) = 0
      <3>1. e.data = <<>>
        BY <1>6, <2>1, EmptySeq
      <3> QED
        BY <3>1 DEF Oversized, Reported
    <2>2. CASE Len(e.data) # 0
      <3>1. JoinedTo(e.data)[Len(e.data)] = scan.size
        BY <1>7, <2>2 DEF Collected
      <3>2. scan.size <= MaxEvent /\ scan.size \in Nat
        BY DEF IInv, WireInv, TypeOK
      <3>3. ~(scan.size > MaxEvent)
        BY <3>2, SizeAssumption
      <3> QED
        BY <3>1, <3>3 DEF Oversized
    <2> QED
      BY <2>1, <2>2
  <1> QED
    BY <1>1, <1>9, <1>10 DEF e

LEMMA BlankStep ==
    ASSUME IInv, Blank
    PROVE  IInv'
  <1>1. /\ pc = "scan" /\ lines # <<>> /\ Head(lines).field = "blank"
        /\ at' = at + 1 /\ lines' = Response(sent, at + 1)
        /\ UNCHANGED <<sent, reader, broken, delivered, outcome>>
    BY DEF Blank, Take, netVars
  <1>2. ~broken
    BY <1>1, WhereItBroke
  <1>3. /\ at \in DOMAIN sent /\ sent[at] \in Events
        /\ Event = sent[at] /\ ~Oversized(sent[at])
    BY <1>1, <1>2, EventRead
  <1>4. /\ Len(sent) \in Nat /\ DOMAIN sent = 1..Len(sent) /\ sent \in Seq(Events)
        /\ at \in Nat /\ at + 1 \in Nat /\ at + 1 \in 1..(Len(sent) + 1) /\ (at + 1) - 1 = at
    <2>1. Len(sent) \in Nat /\ DOMAIN sent = 1..Len(sent) /\ sent \in Seq(Events)
      BY Countable DEF IInv, TypeOK
    <2> QED
      BY <1>3, <2>1
  <1>5. /\ lines' \in Seq(AnyLine)
        /\ at + 1 \in DOMAIN sent => Within(lines', Fresh, sent[at + 1])
        /\ at + 1 \notin DOMAIN sent => lines' = <<>>
    BY <1>1, <1>4, AtTheNext
  <1>6. CASE scan.data # <<>> /\ pc' = "event" /\ UNCHANGED scan
    <2>1. TypeOK'
      BY <1>1, <1>4, <1>5, <1>6 DEF IInv, TypeOK
    <2>2. EventInv'
      <3>1. Event' = sent[at] /\ sent'[at' - 1] = sent[at] /\ at' - 1 \in DOMAIN sent'
        BY <1>1, <1>3, <1>4, <1>6 DEF Event
      <3>2. Reported(sent[at])
        BY <1>3, <1>6 DEF Reported, Event
      <3>3. Reported(Event') /\ ~Oversized(Event')
        BY <1>3, <3>1, <3>2
      <3> QED
        BY <1>1, <1>2, <3>1, <3>3 DEF EventInv
    <2>3. PassedInv' /\ DeliversWholeEvents' /\ NothingRefused' /\ OutcomeIsTruthful'
      <3>1. Upcoming' = Upcoming
        BY <1>1, <1>4, <1>6 DEF Upcoming
      <3> QED
        BY <1>1, <1>6, <3>1, NothingPassed DEF Reading
    <2>4. WireInv' /\ EndedInv'
      BY <1>1, <1>6 DEF IInv, WireInv, EndedInv
    <2> QED
      BY <2>1, <2>2, <2>3, <2>4 DEF IInv
  <1>7. CASE scan.data = <<>> /\ scan' = Fresh /\ UNCHANGED pc
    <2>1. TypeOK'
      <3>1. scan' \in [type: EventTypes, data: Seq(Nat), size: Nat, err: {"none", "read", "too long"}]
        BY <1>7, FreshScan
      <3> QED
        BY <1>1, <1>4, <1>5, <1>7, <3>1 DEF IInv, TypeOK
    <2>2. WireInv'
      BY <1>1, <1>2, <1>5, <1>7, FreshScan DEF WireInv
    <2>3. PassedInv' /\ DeliversWholeEvents' /\ NothingRefused' /\ OutcomeIsTruthful'
      <3>1. sent[at].data = <<>>
        BY <1>3, <1>7 DEF Event
      <3>2. ~Fatal(sent[at])
        <4>1. <<>> # <<0>>
          OBVIOUS
        <4> QED
          BY <1>3, <3>1, <4>1 DEF Fatal, Undecodable, Reported
      <3>3. at \notin Revocations
        BY <3>1 DEF Revocations
      <3>4. Upcoming = at /\ Upcoming' = Upcoming + 1
        BY <1>1, <1>7 DEF Upcoming
      <3> QED
        BY <1>1, <1>3, <1>7, <3>2, <3>3, <3>4, EventPassed DEF Reading
    <2>4. EventInv' /\ EndedInv'
      BY <1>1, <1>7 DEF IInv, EventInv, EndedInv
    <2> QED
      BY <2>1, <2>2, <2>3, <2>4 DEF IInv
  <1> QED
    BY <1>6, <1>7 DEF Blank

\* How a response ends.
LEMMA ScanEnds ==
    ASSUME IInv, pc = "scan", NEW err \in {"none", "read", "too long"}, EndScan(err),
           err = "none" => ~broken /\ at \notin DOMAIN sent,
           err = "read" => broken,
           err = "too long" => at \in DOMAIN sent /\ Fatal(sent[at])
    PROVE  IInv'
  <1>1. /\ pc' = "ended" /\ scan' = [Fresh EXCEPT !.err = err]
        /\ UNCHANGED <<sent, reader, broken, at, lines, delivered, outcome>>
    BY DEF EndScan, netVars
  <1>2. /\ scan'.err = err
        /\ scan' \in [type: EventTypes, data: Seq(Nat), size: Nat, err: {"none", "read", "too long"}]
    <2>1. Fresh \in [type: EventTypes, data: Seq(Nat), size: Nat, err: {"none"}]
      BY FreshScan
    <2> QED
      BY <1>1, <2>1
  <1>3. TypeOK'
    BY <1>1, <1>2 DEF IInv, TypeOK
  <1>4. PassedInv' /\ DeliversWholeEvents' /\ NothingRefused' /\ OutcomeIsTruthful'
    <2>1. Upcoming' = Upcoming
      BY <1>1 DEF Upcoming
    <2> QED
      BY <1>1, <2>1, NothingPassed DEF Reading
  <1>5. EndedInv'
    <2>1. Fatal(sent[at]) => Fatal(sent[at])'
      BY <1>1, Unmoved
    <2> QED
      BY <1>1, <1>2, <2>1 DEF IInv, EndedInv
  <1>6. WireInv' /\ EventInv'
    BY <1>1 DEF WireInv, EventInv
  <1> QED
    BY <1>3, <1>4, <1>5, <1>6 DEF IInv

LEMMA TooLongStep ==
    ASSUME IInv, TooLong
    PROVE  IInv'
  <1> DEFINE v == Head(lines).value
  <1>1. /\ pc = "scan" /\ lines # <<>> /\ Head(lines).field = "data"
        /\ ~Fits(Head(lines)) \/ NewSize(v) > MaxEvent
        /\ EndScan("too long")
    BY DEF TooLong
  <1>2. Head(lines) \in AnyLine
    BY <1>1, HeadTailProperties DEF IInv, TypeOK
  <1>3. Head(lines) = Line("data", v)
    BY <1>1, <1>2 DEF AnyLine, Line
  <1> HIDE DEF v
  <1>4. at \in DOMAIN sent /\ Oversized(sent[at])
    <2>1. CASE broken
      <3>1. at \in DOMAIN sent /\ sent[at] \in Events
        BY <1>1, <2>1, WhereItBroke
      <3>2. PICK m \in 1..Len(sent[at].data) :
               Collected(scan, sent[at], m - 1) /\ Head(lines).value \in 0..sent[at].data[m]
        BY <1>1, <2>1, WhereItBroke
      <3>3. v \in 0..sent[at].data[m]
        BY <3>2 DEF v
      <3> QED
        BY <1>1, <1>3, <3>1, <3>2, <3>3, OverTheLimit DEF IInv
    <2>2. CASE ~broken
      <3>1. at \in DOMAIN sent /\ sent[at] \in Events /\ lines \in Seq(AnyLine)
        BY <1>1, <2>2, WhereItIs DEF IInv, TypeOK
      <3> DEFINE e == sent[at]
      <3>2. PICK k \in 0..(Header(e) + Len(e.data)) : ReadSoFar(lines, scan, e, k)
        BY <1>1, <2>2, WhereItIs
      <3> HIDE DEF e
      <3>3. e \in Events /\ Header(e) \in {0, 2} /\ Len(e.data) \in Nat
        BY <3>1, EventParts DEF e
      <3>4. Head(lines) = LineOf(e, k + 1)
        BY <3>1, <3>2, <3>3, NextLine
      <3> DEFINE m == k - Header(e) + 1
      <3>5. m \in 1..Len(e.data) /\ ~(k < Header(e)) /\ Head(lines) = Line("data", e.data[m])
        BY <1>1, <3>3, <3>4, LineKinds
      <3>6. m - 1 = k - Header(e)
        BY <3>3
      <3>7. Collected(scan, e, m - 1)
        BY <3>2, <3>5, <3>6 DEF ReadSoFar, DataAfter
      <3> HIDE DEF m
      <3>8. v = e.data[m]
        BY <3>5 DEF Line, v
      <3>9. v \in 0..e.data[m]
        <4>1. e.data[m] \in Nat
          BY <3>3, <3>5, EventParts
        <4> QED
          BY <3>8, <4>1
      <3>10. Oversized(e)
        BY <1>1, <1>3, <3>3, <3>5, <3>7, <3>9, OverTheLimit DEF IInv
      <3> QED
        BY <3>1, <3>10 DEF e
    <2> QED
      BY <2>1, <2>2
  <1>5. Fatal(sent[at])
    BY <1>4 DEF Fatal
  <1> QED
    BY <1>1, <1>4, <1>5, ScanEnds

LEMMA EndOfInputStep ==
    ASSUME IInv, EndOfInput
    PROVE  IInv'
  <1>1. pc = "scan" /\ lines = <<>> /\ EndScan(IF broken THEN "read" ELSE "none")
    BY DEF EndOfInput
  <1>2. CASE broken
    <2>1. EndScan("read")
      BY <1>1, <1>2
    <2> QED
      BY <1>1, <1>2, <2>1, ScanEnds
  <1>3. CASE ~broken
    <2>1. at \notin DOMAIN sent
      <3>1. SUFFICES ASSUME at \in DOMAIN sent PROVE FALSE
        OBVIOUS
      <3>2. sent[at] \in Events /\ lines \in Seq(AnyLine)
        BY <3>1, Countable, ElementOfSeq DEF IInv, TypeOK
      <3>3. PICK k \in 0..(Header(sent[at]) + Len(sent[at].data)) :
               ReadSoFar(lines, scan, sent[at], k)
        BY <1>1, <1>3, <3>1 DEF IInv, WireInv, Within
      <3> QED
        BY <1>1, <3>2, <3>3, NextLine
    <2>2. EndScan("none")
      BY <1>1, <1>3
    <2> QED
      BY <1>1, <1>3, <2>1, <2>2, ScanEnds
  <1> QED
    BY <1>2, <1>3

\* What a reader of the next event finds.
LEMMA ScanGoesOn ==
    ASSUME IInv, pc = "event", ScanOn
    PROVE  /\ at - 1 \in DOMAIN sent /\ sent[at - 1] \in Events /\ Event = sent[at - 1]
           /\ Reported(sent[at - 1]) /\ ~Oversized(sent[at - 1])
           /\ ~broken /\ broken' = broken /\ Upcoming = at - 1 /\ Upcoming' = (at - 1) + 1
           /\ delivered' \in Seq(Events) => TypeOK'
           /\ WireInv' /\ EventInv' /\ EndedInv' /\ pc' = "scan" /\ outcome' = outcome
           /\ UNCHANGED <<sent, reader>>
  <1>1. /\ pc' = "scan" /\ scan' = Fresh
        /\ UNCHANGED <<sent, reader, broken, at, lines, outcome>>
    BY DEF ScanOn, netVars
  <1>2. /\ ~broken /\ at - 1 \in DOMAIN sent /\ lines = Response(sent, at)
        /\ Event = sent[at - 1] /\ Reported(sent[at - 1]) /\ ~Oversized(sent[at - 1])
    BY DEF IInv, EventInv
  <1>3. /\ Len(sent) \in Nat /\ sent \in Seq(Events) /\ at \in Nat
        /\ (at - 1) + 1 = at /\ sent[at - 1] \in Events
    <2>1. Len(sent) \in Nat /\ DOMAIN sent = 1..Len(sent) /\ sent \in Seq(Events)
          /\ at \in 1..(Len(sent) + 1)
      BY Countable DEF IInv, TypeOK
    <2>2. at \in Nat /\ (at - 1) + 1 = at
      BY <2>1
    <2> QED
      BY <1>2, <2>1, <2>2, ElementOfSeq
  <1>4. Upcoming = at - 1 /\ Upcoming' = (at - 1) + 1
    BY <1>1, <1>3 DEF Upcoming
  <1>5. delivered' \in Seq(Events) => TypeOK'
    <2>1. scan' \in [type: EventTypes, data: Seq(Nat), size: Nat, err: {"none", "read", "too long"}]
      BY <1>1, FreshScan
    <2> QED
      BY <1>1, <2>1 DEF IInv, TypeOK
  <1>6. WireInv'
    <2>1. /\ at \in DOMAIN sent => Within(lines, Fresh, sent[at])
          /\ at \notin DOMAIN sent => lines = <<>>
      BY <1>2, <1>3, AtTheNext
    <2> QED
      BY <1>1, <1>2, <2>1, FreshScan DEF WireInv
  <1>7. EventInv' /\ EndedInv'
    BY <1>1 DEF IInv, EventInv, EndedInv
  <1> QED
    BY <1>1, <1>2, <1>3, <1>4, <1>5, <1>6, <1>7

LEMMA DeliverStep ==
    ASSUME IInv, Deliver
    PROVE  IInv'
  <1> DEFINE n == at - 1
  <1>1. /\ pc = "event" /\ Event.type = "revocation" /\ ScanOn
        /\ reader = "client" => ~Undecodable(Event)
        /\ delivered' = Append(delivered, Event)
    BY DEF Deliver
  <1>2. /\ n \in DOMAIN sent /\ sent[n] \in Events /\ Event = sent[n]
        /\ Reported(sent[n]) /\ ~Oversized(sent[n])
        /\ Upcoming = n /\ Upcoming' = n + 1 /\ outcome' = outcome
        /\ WireInv' /\ EventInv' /\ EndedInv' /\ pc' = "scan"
        /\ UNCHANGED <<sent, reader>>
    BY <1>1, ScanGoesOn
  <1>3. delivered \in Seq(Events) /\ delivered' = Append(delivered, sent[n])
    BY <1>1, <1>2 DEF IInv, TypeOK
  <1>4. /\ delivered' \in Seq(Events) /\ Len(delivered') = Len(delivered) + 1
        /\ \A i \in 1..Len(delivered) : delivered'[i] = delivered[i]
        /\ delivered'[Len(delivered) + 1] = sent[n]
        /\ Len(delivered) \in Nat /\ DOMAIN delivered = 1..Len(delivered)
        /\ DOMAIN delivered' = 1..(Len(delivered) + 1)
    BY <1>2, <1>3, AppendProperties, LenProperties
  <1>5. TypeOK'
    BY <1>1, <1>4, ScanGoesOn
  <1> HIDE DEF n
  <1>6. n \in Revocations /\ ~Fatal(sent[n])
    BY <1>1, <1>2 DEF Revocations, Reported, Fatal
  <1>7. Len(delivered) = Cardinality(Before(n)) /\ \A j \in 1..(n - 1) : ~Fatal(sent[j])
    BY <1>1, <1>2 DEF IInv, PassedInv, Reading, Before
  <1>8. /\ \A j \in 1..n : ~Fatal(sent[j])
        /\ n \in Wanted /\ Place(n, Wanted) = Cardinality(Before(n)) + 1
        /\ Cardinality(Before(n + 1)) = Cardinality(Before(n)) + 1
    BY <1>2, <1>6, <1>7, OneEventFurther DEF IInv
  <1>9. PassedInv'
    <2>1. n \in Int /\ Upcoming' - 1 = n
      BY <1>2, Countable DEF IInv
    <2>2. \A j \in 1..(Upcoming' - 1) : ~Fatal(sent[j])'
      BY <1>2, <1>8, <2>1, Unmoved
    <2>3. Len(delivered') = Cardinality({i \in Wanted' : i < Upcoming'})
      BY <1>2, <1>4, <1>7, <1>8, Unmoved DEF Before
    <2> QED
      BY <2>2, <2>3 DEF PassedInv
  <1>10. DeliversWholeEvents'
    <2>1. SUFFICES ASSUME NEW m \in DOMAIN delivered'
                   PROVE  \E i \in Wanted : Place(i, Wanted) = m /\ delivered'[m] = sent[i]
      BY <1>2, Unmoved DEF DeliversWholeEvents, Place
    <2>2. CASE m \in DOMAIN delivered
      BY <1>4, <2>2 DEF IInv, DeliversWholeEvents
    <2>3. CASE m \notin DOMAIN delivered
      <3>1. m = Len(delivered) + 1
        BY <1>4, <2>3
      <3> QED
        BY <1>4, <1>7, <1>8, <3>1
    <2> QED
      BY <2>2, <2>3
  <1>11. NothingRefused' /\ OutcomeIsTruthful'
    <2>1. outcome' = "none" /\ pc' # "done"
      BY <1>1, <1>2 DEF IInv, EndedInv
    <2> QED
      BY <2>1 DEF NothingRefused, OutcomeIsTruthful
  <1> QED
    BY <1>2, <1>5, <1>9, <1>10, <1>11 DEF IInv

LEMMA SkipEventStep ==
    ASSUME IInv, SkipEvent
    PROVE  IInv'
  <1> DEFINE n == at - 1
  <1>1. pc = "event" /\ ~Heeded(Event) /\ delivered' = delivered /\ ScanOn
    BY DEF SkipEvent
  <1>2. /\ n \in DOMAIN sent /\ sent[n] \in Events /\ Event = sent[n]
        /\ Reported(sent[n]) /\ ~Oversized(sent[n])
        /\ Upcoming = n /\ Upcoming' = n + 1 /\ outcome' = outcome
        /\ WireInv' /\ EventInv' /\ EndedInv' /\ pc' = "scan"
        /\ UNCHANGED <<sent, reader>>
    BY <1>1, ScanGoesOn
  <1>3. TypeOK'
    <2>1. delivered' \in Seq(Events)
      BY <1>1 DEF IInv, TypeOK
    <2> QED
      BY <1>1, <2>1, ScanGoesOn
  <1> HIDE DEF n
  <1>4. n \notin Revocations /\ ~Fatal(sent[n])
    BY <1>1, <1>2 DEF Revocations, Heeded, Fatal, Undecodable
  <1>5. PassedInv' /\ DeliversWholeEvents' /\ NothingRefused' /\ OutcomeIsTruthful'
    BY <1>1, <1>2, <1>4, EventPassed DEF Reading
  <1> QED
    BY <1>2, <1>3, <1>5 DEF IInv

\* Nothing is wanted from an event on that ends the response.
LEMMA AllDelivered ==
    ASSUME IInv, NEW n \in 1..(Len(sent) + 1), n \in DOMAIN sent => Fatal(sent[n])
    PROVE  Before(n) = Wanted
  <1>1. Len(sent) \in Nat /\ DOMAIN sent = 1..Len(sent) /\ Wanted \subseteq 1..Len(sent)
    BY Countable DEF IInv
  <1>2. ASSUME NEW i \in Wanted PROVE i < n
    <2>1. SUFFICES ASSUME n <= i PROVE FALSE
      BY <1>1
    <2>2. n \in DOMAIN sent /\ n \in 1..i
      BY <1>1, <2>1
    <2> QED
      BY <2>2 DEF Wanted
  <1> QED
    BY <1>2 DEF Before

LEMMA Returned ==
    ASSUME IInv, Reading, NEW result \in {"ok", "failed", "corrupt", "reconnect"},
           Return(result),
           ~broken /\ Upcoming \in DOMAIN sent => Fatal(sent[Upcoming]),
           result = "ok" => ~broken /\ AllReadable,
           result = "failed" => broken \/ ~AllReadable,
           result = "corrupt" => ~AllReadable,
           result = "reconnect" => broken \/ AllReadable
    PROVE  IInv'
  <1>1. /\ outcome' = result /\ pc' = "done"
        /\ UNCHANGED <<sent, reader, broken, at, lines, scan, delivered>>
    BY DEF Return, netVars
  <1>2. /\ outcome' \in {"none", "ok", "failed", "corrupt", "reconnect"}
        /\ outcome' # "none" /\ pc' \in {"scan", "event", "ended", "done"}
    BY <1>1
  <1>3. TypeOK'
    BY <1>1, <1>2 DEF IInv, TypeOK
  <1>4. WireInv' /\ EventInv' /\ PassedInv' /\ EndedInv'
    BY <1>1, <1>2 DEF WireInv, EventInv, PassedInv, EndedInv, Reading
  <1>5. DeliversWholeEvents'
    BY <1>1, Unmoved DEF IInv, DeliversWholeEvents, Place
  <1>6. NothingRefused'
    <2>1. Len(delivered) = Cardinality(Before(Upcoming))
      BY DEF IInv, PassedInv, Before
    <2>2. Upcoming \in 1..(Len(sent) + 1)
      <3>1. at \in 1..(Len(sent) + 1) /\ Len(sent) \in Nat /\ DOMAIN sent = 1..Len(sent)
        BY Countable DEF IInv, TypeOK
      <3>2. CASE pc = "event"
        <4>1. at - 1 \in 1..Len(sent)
          BY <3>1, <3>2 DEF IInv, EventInv
        <4>2. at - 1 \in 1..(Len(sent) + 1)
          BY <3>1, <4>1
        <4> QED
          BY <3>2, <4>2 DEF Upcoming
      <3>3. CASE pc # "event"
        BY <3>1, <3>3 DEF Upcoming
      <3> QED
        BY <3>2, <3>3
    <2>3. ~broken => Len(delivered) = Cardinality(Wanted)
      BY <2>1, <2>2, AllDelivered
    <2> QED
      BY <1>1, <2>3, Unmoved DEF NothingRefused
  <1>7. OutcomeIsTruthful'
    <2>1. AllReadable' <=> AllReadable
      BY <1>1, Unmoved
    <2>2. CASE result = "ok"
      BY <1>1, <2>1, <2>2 DEF OutcomeIsTruthful
    <2>3. CASE result = "failed"
      BY <1>1, <2>1, <2>3 DEF OutcomeIsTruthful
    <2>4. CASE result = "corrupt"
      BY <1>1, <2>1, <2>4 DEF OutcomeIsTruthful
    <2>5. CASE result = "reconnect"
      BY <1>1, <2>1, <2>5 DEF OutcomeIsTruthful
    <2> QED
      BY <2>2, <2>3, <2>4, <2>5
  <1> QED
    BY <1>3, <1>4, <1>5, <1>6, <1>7 DEF IInv

\* A reader that stops at a reported event stops where it must.
LEMMA EventReturn ==
    ASSUME IInv, pc = "event", NEW result \in {"failed", "corrupt"}, Return(result),
           Fatal(Event)
    PROVE  IInv'
  <1>1. at - 1 \in DOMAIN sent /\ Event = sent[at - 1]
    BY DEF IInv, EventInv
  <1>2. Upcoming = at - 1 /\ Reading /\ ~AllReadable
    BY <1>1 DEF Upcoming, Reading, AllReadable
  <1> QED
    BY <1>1, <1>2, Returned

LEMMA CorruptPayloadStep ==
    ASSUME IInv, CorruptPayload
    PROVE  IInv'
  BY EventReturn DEF CorruptPayload, Fatal

LEMMA ErrorEventStep ==
    ASSUME IInv, ErrorEvent
    PROVE  IInv'
  <1>1. pc = "event" /\ reader = "command" /\ Event.type = "error" /\ Return("failed")
    BY DEF ErrorEvent, Heeded, IInv, TypeOK
  <1>2. Reported(Event)
    BY <1>1 DEF IInv, EventInv
  <1>3. Fatal(Event)
    BY <1>1, <1>2 DEF Fatal
  <1> QED
    BY <1>1, <1>3, EventReturn

\* What the end of a response tells of the events in it.
LEMMA AtTheEnd ==
    ASSUME IInv, pc = "ended"
    PROVE  /\ Reading /\ Upcoming = at
           /\ ~broken /\ at \in DOMAIN sent => Fatal(sent[at])
           /\ scan.err \in {"none", "read", "too long"}
           /\ scan.err = "none" => ~broken /\ AllReadable
           /\ scan.err = "read" => broken
           /\ scan.err = "too long" => ~AllReadable
  <1>1. scan.err \in {"none", "read", "too long"}
    BY DEF IInv, TypeOK
  <1>2. scan.err = "none" => ~broken /\ AllReadable
    <2>1. SUFFICES ASSUME scan.err = "none" PROVE ~broken /\ AllReadable
      OBVIOUS
    <2>2. ~broken /\ at \notin DOMAIN sent
      BY <2>1 DEF IInv, EndedInv
    <2>3. \A j \in 1..(at - 1) : ~Fatal(sent[j])
      BY DEF IInv, PassedInv, Reading, Upcoming
    <2>4. Len(sent) \in Nat /\ DOMAIN sent = 1..Len(sent) /\ at \in 1..(Len(sent) + 1)
      BY Countable DEF IInv, TypeOK
    <2>5. DOMAIN sent \subseteq 1..(at - 1)
      BY <2>2, <2>4
    <2> QED
      BY <2>2, <2>3, <2>5 DEF AllReadable
  <1>3. /\ scan.err = "none" => at \notin DOMAIN sent
        /\ scan.err = "read" => broken
        /\ scan.err = "too long" => at \in DOMAIN sent /\ Fatal(sent[at])
    BY DEF IInv, EndedInv
  <1>4. Reading /\ Upcoming = at
    BY DEF Reading, Upcoming
  <1>5. scan.err = "too long" => ~AllReadable
    BY <1>3 DEF AllReadable
  <1> QED
    BY <1>1, <1>2, <1>3, <1>4, <1>5

LEMMA ClientReturnsStep ==
    ASSUME IInv, ClientReturns
    PROVE  IInv'
  <1>1. pc = "ended" /\ Return(IF scan.err = "too long" THEN "corrupt" ELSE "reconnect")
    BY DEF ClientReturns
  <1>2. CASE scan.err = "too long"
    <2>1. Return("corrupt")
      BY <1>1, <1>2
    <2> QED
      BY <1>1, <1>2, <2>1, AtTheEnd, Returned
  <1>3. CASE scan.err # "too long"
    <2>1. Return("reconnect")
      BY <1>1, <1>3
    <2>2. broken \/ AllReadable
      BY <1>1, <1>3, AtTheEnd
    <2> QED
      BY <1>1, <2>1, <2>2, AtTheEnd, Returned
  <1> QED
    BY <1>2, <1>3

LEMMA CommandReturnsStep ==
    ASSUME IInv, CommandReturns
    PROVE  IInv'
  <1>1. pc = "ended" /\ Return(IF scan.err = "none" THEN "ok" ELSE "failed")
    BY DEF CommandReturns
  <1>2. CASE scan.err = "none"
    <2>1. Return("ok")
      BY <1>1, <1>2
    <2> QED
      BY <1>1, <1>2, <2>1, AtTheEnd, Returned
  <1>3. CASE scan.err # "none"
    <2>1. Return("failed")
      BY <1>1, <1>3
    <2>2. broken \/ ~AllReadable
      BY <1>1, <1>3, AtTheEnd
    <2> QED
      BY <1>1, <2>1, <2>2, AtTheEnd, Returned
  <1> QED
    BY <1>2, <1>3

\* A reconnect begins a response as the first connection did.
LEMMA ReconnectStep ==
    ASSUME IInv, Reconnect
    PROVE  Start'
  <1>1. PICK last \in Delivered \cup {0} : sent' = SubSeq(sent, last + 1, Len(sent))
    BY DEF Reconnect
  <1>2. Len(sent) \in Nat /\ DOMAIN sent = 1..Len(sent) /\ sent \in Seq(Events)
    BY Countable DEF IInv, TypeOK
  <1>3. last \in Nat
    BY <1>1, <1>2 DEF Delivered, Revocations
  <1>4. sent' \in Seq(Events)
    <2>1. \A i \in (last + 1)..Len(sent) : sent[i] \in Events
      BY <1>2, <1>3, ElementOfSeq
    <2> QED
      BY <1>1, <1>2, <1>3, <2>1, SubSeqProperties
  <1>5. reader' \in {"client", "command"}
    BY DEF Reconnect, IInv, TypeOK
  <1> QED
    BY <1>4, <1>5 DEF Reconnect, Start

LEMMA StutterStep ==
    ASSUME IInv, UNCHANGED vars
    PROVE  IInv'
  <1>1. UNCHANGED <<sent, reader, at, lines, broken, pc, scan, delivered, outcome>>
    BY DEF vars
  <1>2. TypeOK' /\ WireInv' /\ EventInv'
    BY <1>1 DEF IInv, TypeOK, WireInv, EventInv, Event
  <1>3. PassedInv'
    BY <1>1, Unmoved DEF IInv, PassedInv, Reading, Upcoming
  <1>4. EndedInv'
    BY <1>1, Unmoved DEF IInv, EndedInv
  <1>5. DeliversWholeEvents' /\ NothingRefused' /\ OutcomeIsTruthful'
    BY <1>1, Unmoved DEF IInv, DeliversWholeEvents, NothingRefused, OutcomeIsTruthful, Place
  <1> QED
    BY <1>2, <1>3, <1>4, <1>5 DEF IInv

-----------------------------------------------------------------------------
(***************************************************************************)
(* Theorems.                                                               *)
(***************************************************************************)
\* Whatever a server sends and wherever connections break, what the scanner
\* holds is the part of one event that was read, events reported are as they
\* were sent, and the revocations before an event were all delivered when the
\* reader comes to it (scanner.go:49-100; client.go:295-330; stream.go:70-95).
THEOREM Invariance == Spec => []IInv
  <1>1. Init => IInv
    BY InitStarts, StartInv
  <1>2. ASSUME IInv, Next PROVE IInv' \/ Start'
    BY <1>2, BreakStep, BlankStep, EventLineStep, IgnoredLineStep, DataLineStep,
       TooLongStep, EndOfInputStep, DeliverStep, SkipEventStep, CorruptPayloadStep,
       ErrorEventStep, ClientReturnsStep, CommandReturnsStep, ReconnectStep
       DEF Next, ReadStep
  <1>3. ASSUME IInv, UNCHANGED vars PROVE IInv'
    BY <1>3, StutterStep
  <1>4. Start => IInv
    BY StartInv
  <1>5. IInv /\ [Next]_vars => IInv'
    BY <1>2, <1>3, <1>4, PTL
  <1> QED
    BY <1>1, <1>5, PTL DEF Spec

\* The consumer is given whole revocations in the order sent, and none past the
\* event that ends the stream (scanner.go:60-100; client.go:307-319).
THEOREM WholeEvents == Spec => []DeliversWholeEvents
  <1>1. IInv => DeliversWholeEvents
    BY DEF IInv
  <1> QED
    BY <1>1, Invariance, PTL

\* A response read to its end gave its reader every revocation in it, for any
\* limit and any headroom larger than the field name (scanner.go:18-35, 87-96).
THEOREM NoneRefused == Spec => []NothingRefused
  <1>1. IInv => NothingRefused
    BY DEF IInv
  <1> QED
    BY <1>1, Invariance, PTL

\* How a reader returns tells how the response ended: no error event, oversized
\* event or interruption passes for a good end, and the client gives up only on
\* an event it would meet again (stream.go:85-94; client.go:320-328).
THEOREM TruthfulOutcome == Spec => []OutcomeIsTruthful
  <1>1. IInv => OutcomeIsTruthful
    BY DEF IInv
  <1> QED
    BY <1>1, Invariance, PTL
=============================================================================
