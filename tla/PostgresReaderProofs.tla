------------------------ MODULE PostgresReaderProofs ------------------------
(***************************************************************************)
(* Theorems about the two readers of a server backed by PostgresStore.     *)
(*                                                                         *)
(* A call of Client.Stream (FirehoseClient), for every set of revocations, *)
(* writers and streams: with any number of interruptions when rows become  *)
(* visible in the order of their times, and with rows that become visible  *)
(* late when nothing interrupts the call. With both, the runs              *)
(* FirehoseClient_duplicate and FirehoseClient_miss are counterexamples.   *)
(*                                                                         *)
(* GET /revocation/:cid (RevocationLookup), for every finite set of        *)
(* revocations, and every set of delegations, writers, callers and caches. *)
(***************************************************************************)
EXTENDS FirehoseClient, RevocationLookup, PostgresStoreProofs, FiniteSetTheorems

\* A transaction commits before the clock moves on.
RowsVisibleInOrder == MaxInsert = 0

\* A stream yields rows in the order of their times, from one poll to the next:
\* what it has yielded, or is about to, is no later than what it has not.
OrderInv ==
    \A s \in Stream : \A p, q \in rows : fed[s][q.cause] = 0 =>
        /\ fed[s][p.cause] = 1 /\ q.at >= from[s] => p.at <= q.at
        /\ p \in pending[s] /\ q \notin pending[s] /\ q.at >= cursor[s] => p.at <= q.at

ClientTypeOK ==
    /\ client \in {"idle", "connecting", "reading", "backoff", "ended", "failed"}
    /\ start \in Time
    /\ resume \in Time
    /\ delivered \subseteq Cause
    /\ wire \in Seq(Row)
    /\ got \in [Cause -> Nat]

\* Events are under way and the server's stream is open only while the client
\* reads; a call begins with nothing delivered.
PhaseInv ==
    /\ client # "reading" => wire = <<>> /\ ~Open(Conn)
    /\ client = "idle" => resume = start /\ \A c \in Cause : got[c] = 0

OnWire(r) == \E i \in 1..Len(wire) : wire[i] = r
OnWireBefore(r, i) == \E j \in 1..(i - 1) : wire[j] = r

\* Events are rows and arrive in the order of their times, from resume on.
WireInv ==
    /\ \A i \in 1..Len(wire) : wire[i] \in rows
    /\ \A i \in 1..Len(wire) : resume <= wire[i].at
    /\ \A i, j \in 1..Len(wire) : i <= j => wire[i].at <= wire[j].at

\* The server's stream started no later than where the client stands, and what
\* it has yielded since is on its way or delivered.
ServerInv == Open(Conn) =>
    /\ from[Conn] <= resume
    /\ resume = from[Conn] \/ \E p \in rows : p.at = resume /\ fed[Conn][p.cause] = 1
    /\ \A i \in 1..Len(wire) : fed[Conn][wire[i].cause] = 1
    /\ \A r \in rows : fed[Conn][r.cause] = 1 => got[r.cause] = 1 \/ OnWire(r)

\* What was delivered is not after resume, and "delivered" names the part of it
\* that a connection from resume repeats.
RepeatInv ==
    /\ \A c \in Cause : got[c] = 1 => c \in StoredCauses
    /\ \A c \in delivered : got[c] = 1
    /\ \A r \in rows : got[r.cause] = 1 =>
           r.at <= resume /\ (r.at = resume => r.cause \in delivered)

\* Nothing before resume is missing, nor before an event under way.
MissingInv ==
    /\ resume = start \/ resume <= now
    /\ \A r \in rows : start <= r.at /\ r.at < resume => got[r.cause] = 1
    /\ \A i \in 1..Len(wire) : \A r \in rows :
           start <= r.at /\ r.at < wire[i].at => got[r.cause] = 1 \/ OnWireBefore(r, i)

ClientInv ==
    /\ ClientTypeOK
    /\ PhaseInv
    /\ WireInv
    /\ ServerInv
    /\ RepeatInv
    /\ MissingInv
    /\ ClientYieldsOnce

FirehoseInv == IInv /\ OrderInv /\ ClientInv

-----------------------------------------------------------------------------
(***************************************************************************)
(* The store: every step preserves the order in which streams yield.       *)
(***************************************************************************)
LEMMA FedIsBit ==
    ASSUME IInv, NEW s \in Stream, NEW c \in Cause
    PROVE  fed[s][c] \in {0, 1}
  <1>1. fed[s][c] \in Nat /\ fed[s][c] <= 1
    BY DEF IInv, TypeOK, YieldsAtMostOnce
  <1> QED
    BY <1>1

LEMMA RowNumbers ==
    ASSUME IInv, NEW r \in rows
    PROVE  r.cause \in Cause /\ r.at \in Time /\ r.at \in Int /\ r.at <= now
  BY TimeAssumption DEF IInv, TypeOK, Row, Time, TimesInv

\* A row that becomes visible now is of now.
LEMMA CommittedNow ==
    ASSUME RowsVisibleInOrder, IInv, NEW w \in Writer, Commit(w)
    PROVE  /\ rows \subseteq rows'
           /\ UNCHANGED <<now, streamVars>>
           /\ \A r \in rows' \ rows : r.at = now /\ r.cause \in Cause \ StoredCauses
  <1>1. call[w].at \in Int /\ now \in Int /\ call[w].batch \subseteq Cause
    BY TimeAssumption DEF IInv, TypeOK, Call, Time
  <1>2. call[w].at = now
    BY <1>1 DEF Commit, RowsVisibleInOrder, IInv, TimesInv
  <1>3. \A r \in rows' \ rows : r \in Inserted(w)
    BY DEF Commit
  <1>4. \A r \in Inserted(w) : r.at = now /\ r.cause \in Cause \ StoredCauses
    BY <1>1, <1>2 DEF Inserted
  <1> QED
    BY <1>3, <1>4 DEF Commit

LEMMA CommitOrder ==
    ASSUME RowsVisibleInOrder, IInv, OrderInv, NEW w \in Writer, Commit(w)
    PROVE  OrderInv'
  <1>1. UNCHANGED <<now, from, cursor, pending, fed>>
    BY DEF Commit, streamVars
  <1> SUFFICES ASSUME NEW s \in Stream, NEW p \in rows', NEW q \in rows',
                      fed[s][q.cause] = 0
               PROVE  /\ fed[s][p.cause] = 1 /\ q.at >= from[s] => p.at <= q.at
                      /\ p \in pending[s] /\ q \notin pending[s] /\ q.at >= cursor[s]
                             => p.at <= q.at
    BY <1>1 DEF OrderInv
  <1>2. CASE p \in rows /\ q \in rows
    BY <1>2 DEF OrderInv
  <1>3. CASE p \in rows /\ q \notin rows
    BY <1>3, CommittedNow, RowNumbers
  <1>4. CASE p \notin rows
    <2>1. p.cause \in Cause \ StoredCauses
      BY <1>4, CommittedNow
    <2>2. fed[s][p.cause] # 1
      BY <2>1 DEF IInv, MemoryInv
    <2>3. p \notin pending[s]
      BY <1>4 DEF IInv, MemoryInv
    <2> QED
      BY <2>2, <2>3
  <1> QED
    BY <1>2, <1>3, <1>4

\* The next row of the result is not later than what is not yet yielded: that
\* is either further on in the result or was committed after it was read.
LEMMA YieldsNext ==
    ASSUME IInv, OrderInv, NEW s \in Stream, NEW r \in pending[s], Yield(s, r),
           NEW q \in rows, fed[s][q.cause] = 0, q.at >= from[s]
    PROVE  r.at <= q.at
  <1>1. r \in rows
    BY DEF IInv, MemoryInv
  <1>2. Open(s) /\ q.at \in Int /\ cursor[s] \in Int
    BY RowNumbers, TimeAssumption DEF Yield, Open, IInv, TypeOK, Time
  <1>3. q.at >= cursor[s]
    BY <1>2 DEF IInv, NothingSkipped
  <1>4. CASE q \in pending[s]
    BY <1>1, <1>4, RowNumbers DEF Yield, IsNext, Earlier
  <1>5. CASE q \notin pending[s]
    BY <1>1, <1>3, <1>5 DEF OrderInv
  <1> QED
    BY <1>4, <1>5

LEMMA YieldOrder ==
    ASSUME IInv, OrderInv, NEW s \in Stream, NEW r \in pending[s], Yield(s, r)
    PROVE  OrderInv'
  <1>1. UNCHANGED <<rows, from, cursor>>
    BY DEF Yield, storeVars
  <1>2. r \in rows /\ fed[s][r.cause] = 0
    BY YieldFeeds DEF IInv, Feed!Feed, Feed!Wanted
  <1>3. \A t \in Stream : \A q \in rows :
           fed'[t][q.cause] = IF t = s /\ q.cause = r.cause THEN 1 ELSE fed[t][q.cause]
    BY <1>2, RowNumbers DEF Yield, IInv, TypeOK
  <1>4. \A t \in Stream : pending'[t] = IF t = s THEN pending[s] \ {r} ELSE pending[t]
    BY DEF Yield, IInv, TypeOK
  <1>5. \A q \in rows : q.cause = r.cause => q = r
    BY <1>2 DEF IInv, OneRowPerCause
  <1> SUFFICES ASSUME NEW t \in Stream, NEW p \in rows, NEW q \in rows,
                      fed'[t][q.cause] = 0
               PROVE  /\ fed'[t][p.cause] = 1 /\ q.at >= from[t] => p.at <= q.at
                      /\ p \in pending'[t] /\ q \notin pending'[t] /\ q.at >= cursor[t]
                             => p.at <= q.at
    BY <1>1 DEF OrderInv
  <1>6. fed[t][q.cause] = 0 /\ (t = s => q.cause # r.cause)
    BY <1>3
  <1>7. ASSUME fed'[t][p.cause] = 1, q.at >= from[t]
        PROVE  p.at <= q.at
    <2>1. CASE t = s /\ p.cause = r.cause
      BY <1>5, <1>6, <1>7, <2>1, YieldsNext
    <2>2. CASE ~(t = s /\ p.cause = r.cause)
      BY <1>3, <1>6, <1>7, <2>2 DEF OrderInv
    <2> QED
      BY <2>1, <2>2
  <1>8. ASSUME p \in pending'[t], q \notin pending'[t], q.at >= cursor[t]
        PROVE  p.at <= q.at
    <2>1. p \in pending[t] /\ q \notin pending[t]
      BY <1>4, <1>6, <1>8
    <2> QED
      BY <1>6, <1>8, <2>1 DEF OrderInv
  <1> QED
    BY <1>7, <1>8

LEMMA OrderStep ==
    ASSUME RowsVisibleInOrder, IInv, OrderInv, [Next]_vars
    PROVE  OrderInv'
  <1>1. ASSUME UNCHANGED <<rows, from, cursor, pending, fed>>
        PROVE  OrderInv'
    BY <1>1 DEF OrderInv
  <1>2. CASE Tick \/ UNCHANGED vars
    BY <1>1, <1>2 DEF Tick, vars, streamVars
  <1>3. ASSUME NEW w \in Writer, WriterNext(w)
        PROVE  OrderInv'
    <2>1. CASE Commit(w)
      BY <2>1, CommitOrder
    <2>2. CASE (\E batch \in SUBSET Cause : AddBatch(w, batch)) \/ Abort(w)
      BY <2>2, <1>1 DEF AddBatch, Abort, streamVars
    <2> QED
      BY <1>3, <2>1, <2>2 DEF WriterNext
  <1>4. ASSUME NEW s \in Stream, StreamNext(s)
        PROVE  OrderInv'
    <2>1. CASE \E f \in Time : OpenStream(s, f)
      <3>1. /\ UNCHANGED <<rows, pending, fed>> /\ pc[s] = "closed"
            /\ \A t \in Stream : t # s => from'[t] = from[t] /\ cursor'[t] = cursor[t]
        BY <2>1 DEF OpenStream, storeVars, IInv, TypeOK
      <3>2. pending[s] = {} /\ \A r \in rows : fed[s][r.cause] = 0
        BY <3>1, RowNumbers DEF IInv, ClosedInv, Open
      <3> QED
        BY <3>1, <3>2 DEF OrderInv
    <2>2. CASE CloseStream(s)
      <3>1. /\ UNCHANGED rows /\ pending'[s] = {}
            /\ \A c \in Cause : fed'[s][c] = 0
            /\ \A t \in Stream : t # s => /\ from'[t] = from[t] /\ cursor'[t] = cursor[t]
                                          /\ pending'[t] = pending[t] /\ fed'[t] = fed[t]
        BY <2>2 DEF CloseStream, storeVars, IInv, TypeOK
      <3>2. \A r \in rows : fed'[s][r.cause] = 0
        BY <3>1, RowNumbers
      <3> QED
        BY <3>1, <3>2 DEF OrderInv
    <2>3. CASE ReadClock(s) \/ TickerFires(s)
      BY <2>3, <1>1 DEF ReadClock, TickerFires, storeVars
    <2>4. CASE Query(s)
      <3>1. /\ UNCHANGED <<rows, from, cursor, fed>>
            /\ pending'[s] = {r \in rows : r.at >= cursor[s]}
            /\ \A t \in Stream : t # s => pending'[t] = pending[t]
        BY <2>4 DEF Query, storeVars, IInv, TypeOK
      <3> QED
        BY <3>1 DEF OrderInv
    <2>5. ASSUME NEW r \in pending[s], SkipSeen(s, r)
          PROVE  OrderInv'
      <3>1. /\ UNCHANGED <<rows, from, cursor, fed>>
            /\ pending'[s] = pending[s] \ {r}
            /\ \A t \in Stream : t # s => pending'[t] = pending[t]
            /\ r.cause \in CausesOf(seen[s])
        BY <2>5 DEF SkipSeen, storeVars, IInv, TypeOK
      <3>2. fed[s][r.cause] = 1
        BY <3>1 DEF IInv, MemoryInv, CausesOf
      <3> QED
        BY <3>1, <3>2 DEF OrderInv
    <2>6. ASSUME NEW r \in pending[s], Yield(s, r)
          PROVE  OrderInv'
      BY <2>6, YieldOrder
    <2>7. CASE Advance(s)
      <3>1. UNCHANGED <<rows, from, pending, fed>> /\ pending[s] = {}
            /\ \A t \in Stream : t # s => cursor'[t] = cursor[t]
        BY <2>7 DEF Advance, storeVars, IInv, TypeOK
      <3> QED
        BY <3>1 DEF OrderInv
    <2> QED
      BY <1>4, <2>1, <2>2, <2>3, <2>4, <2>5, <2>6, <2>7 DEF StreamNext, PollStep
  <1> QED
    BY <1>2, <1>3, <1>4 DEF Next

-----------------------------------------------------------------------------
(***************************************************************************)
(* The client. Every step of FirehoseClient is a step of the store or      *)
(* leaves it alone.                                                        *)
(***************************************************************************)
LEMMA StoreSteps ==
    ASSUME resume \in Time, [ClientNext]_allVars
    PROVE  [Next]_vars
  <1> USE ConnAssumption
  <1>1. CASE StoreStep
    BY <1>1 DEF StoreStep, Next
  <1>2. CASE ServerStep
    BY <1>2 DEF ServerStep, WriteRecord, Next, StreamNext, PollStep
  <1>3. CASE ServerEnds \/ Interrupt \/ Stop
    BY <1>3 DEF ServerEnds, Interrupt, Stop, Next, StreamNext
  <1>4. CASE Connect
    <2>1. resume \in Time /\ OpenStream(Conn, resume)
      BY <1>4 DEF Connect
    <2> QED
      BY <2>1 DEF Next, StreamNext
  <1> QED
    BY <1>1, <1>2, <1>3, <1>4 DEF ClientNext, CallStream, ConnectFails, Receive,
       EndOfStream, BackoffElapses, allVars

LEMMA GotIsBit ==
    ASSUME got \in [Cause -> Nat], ClientYieldsOnce, NEW c \in Cause
    PROVE  got[c] \in {0, 1}
  <1>1. got[c] \in Nat /\ got[c] <= 1
    BY DEF ClientYieldsOnce
  <1> QED
    BY <1>1

LEMMA ClientNumbers ==
    ASSUME ClientTypeOK
    PROVE  /\ start \in Int /\ resume \in Int /\ Len(wire) \in Nat
           /\ \A i \in 1..Len(wire) : wire[i] \in Row
  BY TimeAssumption DEF ClientTypeOK, Time

LEMMA ClientInitStep ==
    ASSUME ClientInit
    PROVE  OrderInv /\ ClientInv
  <1> USE ConnAssumption, TimeAssumption DEF ClientInit, Init
  <1>1. OrderInv
    BY DEF OrderInv
  <1>2. ClientTypeOK /\ PhaseInv /\ ClientYieldsOnce
    BY DEF ClientTypeOK, PhaseInv, ClientYieldsOnce, Open, Time
  <1>3. WireInv /\ ServerInv /\ RepeatInv /\ MissingInv
    BY DEF WireInv, ServerInv, RepeatInv, MissingInv, Open
  <1> QED
    BY <1>1, <1>2, <1>3 DEF ClientInv

\* A row that becomes visible now is not before anything the client has met.
LEMMA StoreMoves ==
    ASSUME FirehoseInv, IInv', UNCHANGED <<clientVars, from, fed>>,
           Open(Conn)' = Open(Conn), rows \subseteq rows', now <= now',
           \A r \in rows' \ rows : r.at = now /\ r.cause \in Cause \ StoredCauses
    PROVE  ClientInv'
  <1> USE ConnAssumption DEF FirehoseInv, ClientInv, clientVars
  <1>1. ClientTypeOK' /\ PhaseInv' /\ ClientYieldsOnce'
    BY DEF ClientTypeOK, PhaseInv, ClientYieldsOnce
  <1>2. now \in Int /\ now' \in Int
    BY TimeAssumption DEF IInv, TypeOK, Time
  <1>3. \A r \in rows' \ rows : got[r.cause] = 0 /\ fed[Conn][r.cause] = 0
    BY GotIsBit, FedIsBit DEF ClientTypeOK, RepeatInv, IInv, MemoryInv
  <1>4. StoredCauses \subseteq StoredCauses'
    BY DEF StoredCauses
  <1>5. WireInv'
    BY DEF WireInv
  <1>6. ServerInv'
    BY <1>3 DEF ServerInv, OnWire
  <1>7. RepeatInv'
    BY <1>3, <1>4 DEF RepeatInv
  <1>8. MissingInv'
    <2>1. (resume = start \/ resume <= now)'
      BY <1>2, ClientNumbers DEF MissingInv
    <2>2. \A r \in rows' : start <= r.at /\ r.at < resume => got[r.cause] = 1
      BY <1>2, ClientNumbers DEF MissingInv
    <2>3. \A i \in 1..Len(wire) : \A r \in rows' :
             start <= r.at /\ r.at < wire[i].at => got[r.cause] = 1 \/ OnWireBefore(r, i)
      <3>1. \A i \in 1..Len(wire) : wire[i].at \in Int /\ wire[i].at <= now
        BY RowNumbers DEF WireInv
      <3> QED
        BY <1>2, <3>1 DEF MissingInv
    <2> QED
      BY <2>1, <2>2, <2>3 DEF MissingInv, OnWireBefore
  <1> QED
    BY <1>1, <1>5, <1>6, <1>7, <1>8

LEMMA StoreStepClient ==
    ASSUME RowsVisibleInOrder, FirehoseInv, IInv', StoreStep
    PROVE  ClientInv'
  <1> USE DEF FirehoseInv
  <1>1. now \in Int
    BY TimeAssumption DEF IInv, TypeOK, Time
  <1>2. CASE Tick
    BY <1>1, <1>2, StoreMoves DEF StoreStep, Tick, streamVars, Open
  <1>3. ASSUME NEW w \in Writer, WriterNext(w)
        PROVE  ClientInv'
    <2>1. CASE Commit(w)
      BY <1>1, <2>1, CommittedNow, StoreMoves DEF StoreStep, streamVars, Open
    <2>2. CASE (\E batch \in SUBSET Cause : AddBatch(w, batch)) \/ Abort(w)
      BY <1>1, <2>2, StoreMoves DEF StoreStep, AddBatch, Abort, streamVars, Open
    <2> QED
      BY <1>3, <2>1, <2>2 DEF WriterNext
  <1> QED
    BY <1>2, <1>3 DEF StoreStep

\* The server writes a row the client has not passed, after every earlier one.
LEMMA WriteStep ==
    ASSUME FirehoseInv, IInv', NEW r \in pending[Conn], WriteRecord(r)
    PROVE  ClientInv'
  <1> USE ConnAssumption DEF FirehoseInv, ClientInv
  <1>1. /\ UNCHANGED <<now, rows, pc, from, client, start, resume, delivered, got>>
        /\ wire' = Append(wire, r) /\ Yield(Conn, r)
    BY DEF WriteRecord, Yield, storeVars
  <1>2. r \in rows /\ fed[Conn][r.cause] = 0 /\ from[Conn] <= r.at /\ Open(Conn)
    <2>1. r \in rows /\ fed[Conn][r.cause] = 0 /\ r.at >= from[Conn] /\ Open(Conn)
      BY <1>1, YieldFeeds DEF Feed!Feed, Feed!Wanted
    <2> QED
      BY <2>1, RowNumbers, TimeAssumption DEF IInv, TypeOK, Time
  <1>3. r \in Row /\ r.at \in Int
    BY <1>2, RowNumbers DEF IInv, TypeOK
  <1>4. /\ wire \in Seq(Row) /\ wire' \in Seq(Row)
        /\ Len(wire') = Len(wire) + 1 /\ wire'[Len(wire) + 1] = r
        /\ \A i \in 1..Len(wire) : wire'[i] = wire[i]
    BY <1>1, <1>3 DEF ClientTypeOK
  <1>5. \A q \in rows :
           fed'[Conn][q.cause] = IF q.cause = r.cause THEN 1 ELSE fed[Conn][q.cause]
    BY <1>1, <1>2, RowNumbers DEF Yield, IInv, TypeOK
  <1>6. \A q \in rows : q.cause = r.cause => q = r
    BY <1>2 DEF IInv, OneRowPerCause
  <1>7. \A p \in rows : fed[Conn][p.cause] = 1 => p.at <= r.at
    BY <1>2, <1>3, RowNumbers, TimeAssumption DEF OrderInv, IInv, TypeOK, Time
  <1>8. ClientTypeOK' /\ PhaseInv' /\ ClientYieldsOnce'
    BY <1>1, <1>2, <1>4 DEF ClientTypeOK, PhaseInv, ClientYieldsOnce, Open
  <1>9. resume <= r.at
    BY <1>2, <1>7 DEF ServerInv
  <1>10. WireInv'
    <2>1. \A i \in 1..Len(wire) : wire[i].at <= r.at
      BY <1>2, <1>7 DEF ServerInv, WireInv
    <2>2. Len(wire) \in Nat
      BY ClientNumbers
    <2> QED
      BY <1>1, <1>2, <1>3, <1>4, <1>9, <2>1, <2>2 DEF WireInv
  <1>11. ServerInv'
    <2>1. Len(wire) \in Nat
      BY ClientNumbers
    <2>2. \A q \in rows : OnWire(q) => OnWire(q)'
      BY <1>4, <2>1 DEF OnWire
    <2>3. OnWire(r)'
      BY <1>4, <2>1 DEF OnWire
    <2>4. \A i \in 1..Len(wire') : fed'[Conn][wire'[i].cause] = 1
      BY <1>2, <1>4, <1>5, <2>1 DEF ServerInv, WireInv
    <2>5. \A q \in rows : fed'[Conn][q.cause] = 1 => got[q.cause] = 1 \/ OnWire(q)'
      BY <1>2, <1>5, <1>6, <2>2, <2>3 DEF ServerInv
    <2>6. resume = from[Conn] \/ \E p \in rows : p.at = resume /\ fed'[Conn][p.cause] = 1
      BY <1>2, <1>5 DEF ServerInv
    <2> QED
      BY <1>1, <1>2, <2>4, <2>5, <2>6 DEF ServerInv
  <1>12. RepeatInv'
    BY <1>1 DEF RepeatInv, StoredCauses
  <1>13. MissingInv'
    <2>1. PICK n \in Nat : n = Len(wire)
      BY ClientNumbers
    <2>2. ASSUME NEW q \in rows, start <= q.at, q.at < r.at
          PROVE  got[q.cause] = 1 \/ OnWireBefore(q, n + 1)'
      <3>1. CASE q.at < from[Conn]
        <4>1. q.at < resume
          BY <1>2, <3>1, RowNumbers, ClientNumbers, TimeAssumption
          DEF ServerInv, IInv, TypeOK, Time
        <4> QED
          BY <2>2, <4>1 DEF MissingInv
      <3>2. CASE ~(q.at < from[Conn])
        <4>1. q.at \in Int /\ from[Conn] \in Int /\ q.at >= from[Conn]
          BY <3>2, RowNumbers, TimeAssumption DEF IInv, TypeOK, Time
        <4>2. fed[Conn][q.cause] # 0
          BY <1>1, <1>3, <2>2, <4>1, YieldsNext
        <4>3. fed[Conn][q.cause] = 1
          BY <4>2, FedIsBit, RowNumbers
        <4>4. got[q.cause] = 1 \/ OnWire(q)
          BY <1>2, <4>3 DEF ServerInv
        <4>5. OnWire(q) => OnWireBefore(q, n + 1)'
          BY <1>4, <2>1 DEF OnWire, OnWireBefore
        <4> QED
          BY <4>4, <4>5
      <3> QED
        BY <3>1, <3>2
    <2>3. \A i \in 1..Len(wire) : \A q : OnWireBefore(q, i)' <=> OnWireBefore(q, i)
      BY <1>4, <2>1 DEF OnWireBefore
    <2>4. ASSUME NEW i \in 1..Len(wire'), NEW q \in rows, start <= q.at, q.at < wire'[i].at
          PROVE  got[q.cause] = 1 \/ OnWireBefore(q, i)'
      <3>1. CASE i \in 1..Len(wire)
        BY <1>4, <2>3, <2>4, <3>1 DEF MissingInv
      <3>2. CASE i = n + 1
        BY <1>4, <2>1, <2>2, <2>4, <3>2
      <3> QED
        BY <1>4, <2>1, <3>1, <3>2
    <2> QED
      BY <1>1, <2>4 DEF MissingInv, OnWireBefore
  <1> QED
    BY <1>8, <1>10, <1>11, <1>12, <1>13

LEMMA ServerStepClient ==
    ASSUME FirehoseInv, IInv', ServerStep
    PROVE  ClientInv'
  <1> USE ConnAssumption DEF FirehoseInv
  <1>1. CASE \E r \in pending[Conn] : WriteRecord(r)
    BY <1>1, WriteStep
  <1>2. CASE /\ UNCHANGED clientVars
             /\ \/ ReadClock(Conn) \/ Query(Conn) \/ Advance(Conn) \/ TickerFires(Conn)
                \/ \E r \in pending[Conn] : SkipSeen(Conn, r)
    <2>1. UNCHANGED <<now, rows, from, fed>> /\ now \in Int
      BY <1>2, TimeAssumption DEF ReadClock, Query, Advance, TickerFires, SkipSeen,
         storeVars, IInv, TypeOK, Time
    <2>2. Open(Conn)' = Open(Conn)
      BY <1>2 DEF ReadClock, Query, Advance, TickerFires, SkipSeen, Open, IInv, TypeOK
    <2> QED
      BY <1>2, <2>1, <2>2, StoreMoves
  <1> QED
    BY <1>1, <1>2 DEF ServerStep

\* The server's stream ends: what it wrote may still be read, or is lost.
LEMMA StreamEnds ==
    ASSUME FirehoseInv, CloseStream(Conn) \/ (~Open(Conn) /\ UNCHANGED vars),
           UNCHANGED <<start, resume, delivered, got>>,
           wire' = wire \/ wire' = <<>>,
           client' \in {"idle", "connecting", "reading", "backoff", "ended", "failed"},
           client' # "reading" => wire' = <<>>,
           client # "idle" /\ client' # "idle"
    PROVE  ClientInv'
  <1> USE ConnAssumption DEF FirehoseInv, ClientInv
  <1>1. UNCHANGED <<now, rows>> /\ ~Open(Conn)'
    BY DEF CloseStream, storeVars, vars, Open, IInv, TypeOK
  <1>2. \A i \in 1..Len(wire') : i \in 1..Len(wire) /\ wire'[i] = wire[i]
    OBVIOUS
  <1>3. wire' \in Seq(Row)
    <2>1. wire \in Seq(Row) /\ <<>> \in Seq(Row)
      BY DEF ClientTypeOK
    <2> QED
      BY <2>1
  <1>4. ClientTypeOK' /\ PhaseInv' /\ ClientYieldsOnce'
    BY <1>1, <1>3 DEF ClientTypeOK, PhaseInv, ClientYieldsOnce
  <1>5. WireInv' /\ ServerInv' /\ RepeatInv'
    BY <1>1, <1>2 DEF WireInv, ServerInv, RepeatInv, StoredCauses
  <1>6. MissingInv'
    BY <1>1, <1>2 DEF MissingInv, OnWireBefore
  <1> QED
    BY <1>4, <1>5, <1>6

LEMMA CallStreamStep ==
    ASSUME FirehoseInv, NEW f \in Time, CallStream(f)
    PROVE  ClientInv'
  <1> USE ConnAssumption DEF FirehoseInv, ClientInv
  <1>1. /\ UNCHANGED <<now, rows, fed, from, pc, got, delivered, wire>>
        /\ start' = f /\ resume' = f /\ client' = "connecting"
        /\ wire = <<>> /\ ~Open(Conn) /\ \A c \in Cause : got[c] = 0
    BY DEF CallStream, vars, PhaseInv
  <1>2. \A r \in rows : got[r.cause] = 0
    BY <1>1, RowNumbers
  <1>3. f \in Int
    BY TimeAssumption DEF Time
  <1>4. ClientTypeOK' /\ PhaseInv' /\ ClientYieldsOnce'
    BY <1>1 DEF ClientTypeOK, PhaseInv, ClientYieldsOnce, Open
  <1>5. WireInv' /\ ServerInv' /\ RepeatInv'
    BY <1>1, <1>2 DEF WireInv, ServerInv, RepeatInv, StoredCauses, Open
  <1>6. MissingInv'
    BY <1>1, <1>3, RowNumbers DEF MissingInv
  <1> QED
    BY <1>4, <1>5, <1>6

\* A connection begins where the client stands, with nothing yielded yet.
LEMMA ConnectStep ==
    ASSUME FirehoseInv, Connect
    PROVE  ClientInv'
  <1> USE ConnAssumption DEF FirehoseInv, ClientInv
  <1>1. /\ UNCHANGED <<now, rows, fed, start, resume, delivered, wire, got>>
        /\ client' = "reading" /\ client = "connecting"
        /\ from'[Conn] = resume
        /\ wire = <<>> /\ ~Open(Conn)
    BY DEF Connect, OpenStream, storeVars, PhaseInv, IInv, TypeOK
  <1>2. \A r \in rows : fed[Conn][r.cause] = 0
    BY <1>1, RowNumbers DEF IInv, ClosedInv
  <1>3. ClientTypeOK' /\ PhaseInv' /\ ClientYieldsOnce'
    BY <1>1 DEF ClientTypeOK, PhaseInv, ClientYieldsOnce
  <1>4. WireInv' /\ RepeatInv' /\ MissingInv'
    BY <1>1 DEF WireInv, RepeatInv, MissingInv, StoredCauses
  <1>5. ServerInv'
    BY <1>1, <1>2, ClientNumbers DEF ServerInv
  <1> QED
    BY <1>3, <1>4, <1>5

\* The first event on the wire is delivered unless it was delivered before: it is
\* not before resume, and at resume "delivered" tells.
LEMMA ReceiveStep ==
    ASSUME FirehoseInv, Receive
    PROVE  ClientInv'
  <1> USE ConnAssumption DEF FirehoseInv, ClientInv
  <1> DEFINE r == wire[1]
  <1>1. /\ UNCHANGED <<now, rows, pc, from, fed, client, start>>
        /\ client = "reading" /\ wire # <<>> /\ wire' = Tail(wire)
    BY DEF Receive, vars
  <1>2. /\ Head(wire) = r /\ Len(wire) \in Nat /\ Len(wire) >= 1
        /\ wire' \in Seq(Row) /\ Len(wire') = Len(wire) - 1
        /\ \A i \in 1..Len(wire') : wire'[i] = wire[i + 1]
    BY <1>1 DEF ClientTypeOK
  <1>3. /\ r \in rows /\ r.cause \in Cause /\ r.at \in Time /\ r.at \in Int
        /\ r.at <= now /\ resume <= r.at /\ resume \in Int
    BY <1>2, RowNumbers, ClientNumbers DEF WireInv
  <1>4. \A q \in rows : /\ q.cause \in Cause /\ q.at \in Int
                        /\ q.cause = r.cause => q = r
    BY <1>3, RowNumbers DEF IInv, OneRowPerCause
  \* What holds once r counts as delivered, whoever delivered it.
  <1>5. ASSUME got'[r.cause] = 1,
               \A c \in Cause : c # r.cause => got'[c] = got[c],
               resume' = r.at \/ resume' = resume, resume' <= r.at,
               resume' = resume \/ fed[Conn][r.cause] = 1 \/ ~Open(Conn)
        PROVE  WireInv' /\ ServerInv' /\ MissingInv'
    <2>1. \A q \in rows : got[q.cause] = 1 => got'[q.cause] = 1
      BY <1>4, <1>5
    <2>2. \A q \in rows : OnWire(q) => got'[q.cause] = 1 \/ OnWire(q)'
      <3> SUFFICES ASSUME NEW q \in rows, NEW i \in 1..Len(wire), wire[i] = q, i # 1
                   PROVE  OnWire(q)'
        BY <1>5 DEF OnWire
      <3>1. i - 1 \in 1..Len(wire') /\ wire'[i - 1] = q
        BY <1>2
      <3> QED
        BY <3>1 DEF OnWire
    <2>3. ASSUME NEW q \in rows, NEW i \in 1..Len(wire'), OnWireBefore(q, i + 1)
          PROVE  got'[q.cause] = 1 \/ OnWireBefore(q, i)'
      <3>1. PICK j \in 1..i : wire[j] = q
        BY <2>3 DEF OnWireBefore
      <3>2. CASE j = 1
        BY <1>5, <3>1, <3>2
      <3>3. CASE j # 1
        <4>1. j - 1 \in 1..(i - 1) /\ wire'[j - 1] = q
          BY <1>2, <3>1, <3>3
        <4> QED
          BY <4>1 DEF OnWireBefore
      <3> QED
        BY <3>2, <3>3
    <2>4. WireInv'
      BY <1>1, <1>2, <1>3, <1>5 DEF WireInv
    <2>5. ServerInv'
      <3> SUFFICES ASSUME Open(Conn) PROVE ServerInv'
        BY <1>1 DEF ServerInv, Open
      <3>1. from[Conn] \in Int
        BY TimeAssumption DEF IInv, TypeOK, Time
      <3>2. from[Conn] <= resume'
        BY <1>3, <1>5, <3>1 DEF ServerInv
      <3>3. resume' = from[Conn] \/ \E p \in rows : p.at = resume' /\ fed[Conn][p.cause] = 1
        BY <1>3, <1>5 DEF ServerInv
      <3>4. \A i \in 1..Len(wire') : fed[Conn][wire'[i].cause] = 1
        BY <1>2 DEF ServerInv
      <3>5. \A q \in rows : fed[Conn][q.cause] = 1 => got'[q.cause] = 1 \/ OnWire(q)'
        BY <2>1, <2>2 DEF ServerInv
      <3> QED
        BY <1>1, <3>2, <3>3, <3>4, <3>5 DEF ServerInv
    <2>6. MissingInv'
      <3>1. \A q \in rows : start <= q.at /\ q.at < r.at => got[q.cause] = 1
        BY <1>2 DEF MissingInv, OnWireBefore
      <3>2. \A q \in rows : start <= q.at /\ q.at < resume' => got'[q.cause] = 1
        BY <1>3, <1>4, <1>5, <2>1, <3>1 DEF MissingInv
      <3>3. ASSUME NEW i \in 1..Len(wire'), NEW q \in rows, start <= q.at, q.at < wire'[i].at
            PROVE  got'[q.cause] = 1 \/ OnWireBefore(q, i)'
        BY <1>2, <2>1, <2>3, <3>3 DEF MissingInv
      <3>4. resume' = start \/ resume' <= now
        BY <1>3, <1>5 DEF MissingInv
      <3> QED
        BY <1>1, <3>2, <3>3, <3>4 DEF MissingInv
    <2> QED
      BY <2>4, <2>5, <2>6
  <1>6. CASE IsRepeat(r)
    <2>1. UNCHANGED <<resume, delivered, got>> /\ got[r.cause] = 1
      BY <1>2, <1>6 DEF Receive, IsRepeat, RepeatInv
    <2>2. WireInv' /\ ServerInv' /\ MissingInv'
      BY <1>3, <1>5, <2>1
    <2>3. ClientTypeOK' /\ PhaseInv' /\ ClientYieldsOnce' /\ RepeatInv'
      BY <1>1, <1>2, <2>1 DEF ClientTypeOK, PhaseInv, ClientYieldsOnce, RepeatInv, StoredCauses
    <2> QED
      BY <2>2, <2>3
  <1>7. CASE ~IsRepeat(r)
    <2>1. /\ resume' = r.at
          /\ delivered' = {r.cause} \cup (IF r.at = resume THEN delivered ELSE {})
          /\ got' = [got EXCEPT ![r.cause] = @ + 1]
      BY <1>2, <1>7 DEF Receive
    <2>2. got[r.cause] = 0
      <3>1. got[r.cause] # 1
        BY <1>3, <1>7 DEF IsRepeat, RepeatInv
      <3> QED
        BY <1>3, <3>1, GotIsBit DEF ClientTypeOK
    <2>3. got'[r.cause] = 1 /\ \A c \in Cause : c # r.cause => got'[c] = got[c]
      BY <1>3, <2>1, <2>2 DEF ClientTypeOK
    <2>4. WireInv' /\ ServerInv' /\ MissingInv'
      <3>1. fed[Conn][r.cause] = 1 \/ ~Open(Conn)
        BY <1>2 DEF ServerInv
      <3> QED
        BY <1>3, <1>5, <2>1, <2>3, <3>1
    <2>5. ClientTypeOK' /\ PhaseInv'
      BY <1>1, <1>2, <1>3, <2>1 DEF ClientTypeOK, PhaseInv
    <2>6. ClientYieldsOnce'
      BY <2>3 DEF ClientYieldsOnce
    <2>7. RepeatInv'
      <3>1. \A c \in Cause : got'[c] = 1 => c \in StoredCauses
        BY <1>3, <2>3 DEF RepeatInv, StoredCauses
      <3>2. \A c \in delivered' : got'[c] = 1
        BY <2>1, <2>3 DEF RepeatInv, ClientTypeOK
      <3>3. \A q \in rows : got'[q.cause] = 1 =>
               q.at <= r.at /\ (q.at = r.at => q.cause \in delivered')
        BY <1>3, <1>4, <2>1, <2>3 DEF RepeatInv
      <3> QED
        BY <1>1, <2>1, <3>1, <3>2, <3>3 DEF RepeatInv, StoredCauses
    <2> QED
      BY <2>4, <2>5, <2>6, <2>7
  <1> QED
    BY <1>6, <1>7

-----------------------------------------------------------------------------
LEMMA ClientStep ==
    ASSUME RowsVisibleInOrder, FirehoseInv, IInv', [ClientNext]_allVars
    PROVE  ClientInv'
  <1> USE ConnAssumption
  <1>1. CASE StoreStep
    BY <1>1, StoreStepClient
  <1>2. CASE ServerStep
    BY <1>2, ServerStepClient
  <1>3. CASE ServerEnds \/ Interrupt \/ Stop
    <2>1. client # "idle" /\ (ServerEnds => client = "reading")
      BY <1>3 DEF ServerEnds, Interrupt, Stop, CloseStream, FirehoseInv, ClientInv, PhaseInv, Open,
              Called
    <2> QED
      BY <1>3, <2>1, StreamEnds DEF ServerEnds, Interrupt, Stop
  <1>4. CASE ConnectFails \/ EndOfStream \/ BackoffElapses
    BY <1>4, StreamEnds
    DEF ConnectFails, EndOfStream, BackoffElapses, FirehoseInv, ClientInv, PhaseInv
  <1>5. CASE \E f \in Time : CallStream(f)
    BY <1>5, CallStreamStep
  <1>6. CASE Connect
    BY <1>6, ConnectStep
  <1>7. CASE Receive
    BY <1>7, ReceiveStep
  <1>8. CASE UNCHANGED allVars
    BY <1>8 DEF allVars, vars, clientVars, FirehoseInv, ClientInv, ClientTypeOK, PhaseInv,
       WireInv, ServerInv, RepeatInv, MissingInv, ClientYieldsOnce, OnWire, OnWireBefore,
       Open, StoredCauses
  <1> QED
    BY <1>1, <1>2, <1>3, <1>4, <1>5, <1>6, <1>7, <1>8 DEF ClientNext

\* When rows become visible in the order of their times, the inductive invariant
\* of the composition holds in every reachable state.
THEOREM ClientInvariance == RowsVisibleInOrder /\ ClientSpec => []FirehoseInv
  <1> SUFFICES ASSUME RowsVisibleInOrder PROVE ClientSpec => []FirehoseInv
    OBVIOUS
  <1>1. ClientInit => FirehoseInv
    BY InitIInv, ClientInitStep DEF ClientInit, FirehoseInv
  <1>2. FirehoseInv /\ [ClientNext]_allVars => FirehoseInv'
    <2> SUFFICES ASSUME FirehoseInv, [ClientNext]_allVars PROVE FirehoseInv'
      OBVIOUS
    <2>1. [Next]_vars
      BY StoreSteps DEF FirehoseInv, ClientInv, ClientTypeOK
    <2>2. InsertsSettleInTime
      BY TimeAssumption, RowsVisibleInOrder DEF InsertsSettleInTime, RowsVisibleInOrder
    <2>3. IInv' /\ OrderInv'
      BY RowsVisibleInOrder, <2>1, <2>2, IInvStep, OrderStep DEF FirehoseInv
    <2> QED
      BY RowsVisibleInOrder, <2>3, ClientStep DEF FirehoseInv
  <1> QED
    BY <1>1, <1>2, PTL DEF ClientSpec

\* One client call yields a revocation at most once, over any number of
\* interruptions and reconnections (client.go:221-223).
THEOREM ClientOnce == RowsVisibleInOrder /\ ClientSpec => []ClientYieldsOnce
  <1>1. FirehoseInv => ClientYieldsOnce
    BY DEF FirehoseInv, ClientInv
  <1> QED
    BY <1>1, ClientInvariance, PTL

\* No reconnection starts past a record the caller has not been given
\* (client.go:221-223; pkg/store/store.go:52-56).
THEOREM NothingMissed == RowsVisibleInOrder /\ ClientSpec => []ReconnectMissesNothing
  <1>1. FirehoseInv => ReconnectMissesNothing
    <2> SUFFICES ASSUME FirehoseInv, NEW r \in rows, Open(Conn),
                        start <= r.at, r.at < from[Conn]
                 PROVE  got[r.cause] >= 1
      BY DEF ReconnectMissesNothing
    <2>1. r.at \in Int /\ resume \in Int /\ from[Conn] \in Int
      BY RowNumbers, ClientNumbers, ConnAssumption, TimeAssumption
      DEF FirehoseInv, ClientInv, IInv, TypeOK, Time
    <2>2. r.at < resume
      BY <2>1 DEF FirehoseInv, ClientInv, ServerInv
    <2>3. got[r.cause] = 1
      BY <2>2 DEF FirehoseInv, ClientInv, MissingInv
    <2> QED
      BY <2>3
  <1> QED
    BY <1>1, ClientInvariance, PTL

-----------------------------------------------------------------------------
(***************************************************************************)
(* A call is one stream of the feed, whatever it takes to connect: the     *)
(* first record it is given of a cause feeds it, its argument starts it,   *)
(* its end stops it, a commit records, and every other step stutters.      *)
(***************************************************************************)
\* A call never resumes before its argument.
ResumeInv == start <= resume

LEMMA ResumeStep ==
    ASSUME FirehoseInv, ResumeInv, [ClientNext]_allVars
    PROVE  ResumeInv'
  <1>1. start \in Int /\ resume \in Int
    BY ClientNumbers DEF FirehoseInv, ClientInv
  <1>2. CASE Receive
    <2>1. CASE IsRepeat(Head(wire))
      BY <1>2, <2>1 DEF Receive, ResumeInv
    <2>2. CASE ~IsRepeat(Head(wire))
      <3>1. wire \in Seq(Row) /\ wire # <<>>
        BY <1>2 DEF Receive, FirehoseInv, ClientInv, ClientTypeOK
      <3>2. 1 \in 1..Len(wire) /\ Head(wire) = wire[1]
        BY <3>1
      <3>3. resume <= wire[1].at /\ wire[1].at \in Int
        <4>1. wire[1] \in Row
          BY <3>1, <3>2
        <4> QED
          BY <3>2, <4>1 DEF FirehoseInv, ClientInv, WireInv, Row, Time
      <3>4. start' = start /\ resume' = wire[1].at
        BY <1>2, <2>2, <3>2 DEF Receive
      <3> QED
        BY <1>1, <3>3, <3>4 DEF ResumeInv
    <2> QED
      BY <2>1, <2>2
  <1>3. CASE \E f \in Time : CallStream(f)
    <2>1. PICK f \in Time : CallStream(f)
      BY <1>3
    <2> QED
      BY <2>1 DEF CallStream, ResumeInv, Time
  <1>4. CASE UNCHANGED <<start, resume>>
    BY <1>4 DEF ResumeInv
  <1> QED
    BY <1>2, <1>3, <1>4 DEF ClientNext, StoreStep, ServerStep, WriteRecord, ServerEnds, Connect,
       ConnectFails, Interrupt, EndOfStream, BackoffElapses, Stop, clientVars, allVars

LEMMA CallerStutters ==
    ASSUME UNCHANGED <<rows, start, got>>, Called' = Called
    PROVE  UNCHANGED Caller!feedVars
  BY DEF Caller!feedVars

LEMMA CallerRecords ==
    ASSUME TypeOK, StoreStep
    PROVE  [Caller!FeedNext]_Caller!feedVars
  <1>1. UNCHANGED <<client, start, got>> /\ Called' = Called
    BY DEF StoreStep, clientVars, Called
  <1>2. CASE UNCHANGED rows
    BY <1>1, <1>2, CallerStutters
  <1>3. CASE \E w \in Writer : Commit(w)
    <2>1. PICK w \in Writer : Commit(w)
      BY <1>3
    <2> DEFINE new == call[w].batch \ StoredCauses
    <2>2. rows' = rows \cup {[cause |-> c, at |-> call[w].at] : c \in new}
      BY <2>1 DEF Commit, Inserted
    <2>3. new \in SUBSET Cause /\ call[w].at \in Time /\ new \cap Caller!Recorded = {}
      BY DEF TypeOK, Call, Caller!Recorded, StoredCauses
    <2> HIDE DEF new
    <2>4. CASE new = {}
      <3>1. rows' = rows
        BY <2>2, <2>4
      <3> QED
        BY <1>1, <3>1, CallerStutters
    <2>5. CASE new # {}
      <3>1. Caller!Record(new, call[w].at)
        BY <1>1, <2>2, <2>3, <2>5 DEF Caller!Record
      <3> QED
        BY <2>3, <3>1 DEF Caller!FeedNext
    <2> QED
      BY <2>4, <2>5
  <1> QED
    BY <1>2, <1>3 DEF StoreStep, Tick, WriterNext, AddBatch, Abort

LEMMA CallerStarts ==
    ASSUME NEW f \in Time, CallStream(f), got = [c \in Cause |-> 0]
    PROVE  Caller!Start(Conn, f)
  <1>1. ~Called /\ Called' /\ UNCHANGED rows /\ start' = f /\ got' = got
    BY DEF CallStream, Called, vars
  <1> QED
    BY <1>1 DEF Caller!Start

LEMMA CallerStops ==
    ASSUME Called, ~Called', UNCHANGED rows
    PROVE  Caller!Stop(Conn)
  BY DEF Caller!Stop

LEMMA CallerMoves ==
    ASSUME TypeOK, [ClientNext]_allVars,
           client = "idle" => got = [c \in Cause |-> 0],
           Receive => [Caller!FeedNext]_Caller!feedVars
    PROVE  [Caller!FeedNext]_Caller!feedVars
  <1> USE ConnAssumption
  <1>1. CASE StoreStep
    BY <1>1, CallerRecords
  <1>2. CASE ServerStep \/ ServerEnds \/ Connect \/ Interrupt \/ EndOfStream \/ BackoffElapses
             \/ UNCHANGED allVars
    <2>1. UNCHANGED <<rows, start, got>>
      BY <1>2 DEF ServerStep, ReadClock, Query, SkipSeen, WriteRecord, Yield, Advance, TickerFires,
         ServerEnds, CloseStream, Connect, OpenStream, Interrupt, EndOfStream, BackoffElapses,
         clientVars, storeVars, vars, allVars
    <2>2. Called' = Called
      BY <1>2 DEF ServerStep, WriteRecord, ServerEnds, Connect, Interrupt, EndOfStream,
         BackoffElapses, clientVars, allVars, Called
    <2> QED
      BY <2>1, <2>2, CallerStutters
  <1>3. CASE \E f \in Time : CallStream(f)
    BY <1>3, CallerStarts DEF CallStream, Caller!FeedNext
  <1>4. CASE ConnectFails
    <2>1. UNCHANGED <<rows, start, got>> /\ Called
      BY <1>4 DEF ConnectFails, vars, Called
    <2>2. CASE connected
      <3>1. Called'
        BY <1>4, <2>2 DEF ConnectFails, Called
      <3> QED
        BY <2>1, <3>1, CallerStutters
    <2>3. CASE ~connected
      <3>1. ~Called'
        BY <1>4, <2>3 DEF ConnectFails, Called
      <3> QED
        BY <2>1, <3>1, CallerStops DEF Caller!FeedNext
    <2> QED
      BY <2>2, <2>3
  <1>5. CASE Receive
    BY <1>5
  <1>6. CASE Stop
    <2>1. UNCHANGED rows /\ Called /\ ~Called'
      BY <1>6 DEF Stop, CloseStream, storeVars, vars, Called
    <2> QED
      BY <2>1, CallerStops DEF Caller!FeedNext
  <1> QED
    BY <1>1, <1>2, <1>3, <1>4, <1>5, <1>6 DEF ClientNext

\* A record that is not a repeat, was not given before and is wanted feeds the
\* call.
LEMMA GivenFeeds ==
    ASSUME Receive, NEW r \in rows, r = Head(wire), r.cause \in Cause, got \in [Cause -> Nat],
           ~IsRepeat(r) => got[r.cause] = 0 /\ start <= r.at
    PROVE  [Caller!FeedNext]_Caller!feedVars
  <1>1. Called /\ Called' /\ UNCHANGED <<rows, start>>
    BY DEF Receive, Called, vars
  <1>2. CASE IsRepeat(r)
    <2>1. got' = got
      BY <1>2 DEF Receive
    <2> QED
      BY <1>1, <2>1, CallerStutters
  <1>3. CASE ~IsRepeat(r)
    <2>1. got' = [got EXCEPT ![r.cause] = got[r.cause] + 1]
      BY <1>3 DEF Receive
    <2>2. got' = [got EXCEPT ![r.cause] = 1]
      <3>1. got[r.cause] = 0
        BY <1>3
      <3>2. got[r.cause] + 1 = 1
        BY <3>1
      <3> QED
        BY <2>1, <3>2
    <2>3. Caller!Feed(Conn, r)
      BY <1>1, <1>3, <2>2 DEF Caller!Feed, Caller!Wanted
    <2> QED
      BY <2>3 DEF Caller!FeedNext
  <1> QED
    BY <1>2, <1>3

LEMMA CallerIsFed ==
    ASSUME FirehoseInv, ResumeInv, Receive
    PROVE  [Caller!FeedNext]_Caller!feedVars
  <1> DEFINE r == Head(wire)
  <1>1. r \in rows /\ r.cause \in Cause /\ r.at \in Int /\ resume <= r.at
    <2>1. wire \in Seq(Row) /\ wire # <<>>
      BY DEF Receive, FirehoseInv, ClientInv, ClientTypeOK
    <2>2. 1 \in 1..Len(wire) /\ r = wire[1]
      BY <2>1
    <2>3. wire[1] \in rows /\ resume <= wire[1].at /\ wire[1] \in Row
      BY <2>1, <2>2 DEF FirehoseInv, ClientInv, WireInv
    <2> QED
      BY <2>2, <2>3 DEF Row, Time
  <1> HIDE DEF r
  <1>2. start \in Int /\ resume \in Int /\ got \in [Cause -> Nat]
    BY ClientNumbers DEF FirehoseInv, ClientInv, ClientTypeOK
  <1>3. ASSUME ~IsRepeat(r) PROVE got[r.cause] = 0
    <2>1. got[r.cause] \in {0, 1}
      BY <1>1, <1>2, GotIsBit DEF FirehoseInv, ClientInv
    <2>2. got[r.cause] = 1 => r.at <= resume /\ (r.at = resume => r.cause \in delivered)
      BY <1>1 DEF FirehoseInv, ClientInv, RepeatInv
    <2>3. got[r.cause] # 1
      BY <1>1, <1>2, <1>3, <2>2 DEF IsRepeat
    <2> QED
      BY <2>1, <2>3
  <1>4. start <= r.at
    BY <1>1, <1>2 DEF ResumeInv
  <1> QED
    BY <1>1, <1>2, <1>3, <1>4, GivenFeeds DEF r

\* One client call is one stream of the store, over any number of interruptions
\* and reconnections: it gives its caller only stored records from its argument
\* on, each once (client.go:217-223; pkg/store/store.go:52-56).
THEOREM CallRefinement == RowsVisibleInOrder /\ ClientSpec => CallIsOneStream
  <1> SUFFICES ASSUME RowsVisibleInOrder PROVE ClientSpec => CallIsOneStream
    OBVIOUS
  <1>1. ClientSpec => []FirehoseInv
    BY RowsVisibleInOrder, ClientInvariance
  <1>2. ClientInit => ResumeInv /\ Caller!FeedInit
    BY DEF ClientInit, Init, ResumeInv, Caller!FeedInit, Called
  <1>3. FirehoseInv /\ ResumeInv /\ [ClientNext]_allVars => ResumeInv'
    BY ResumeStep
  <1>4. FirehoseInv /\ ResumeInv /\ [ClientNext]_allVars => [Caller!FeedNext]_Caller!feedVars
    <2> SUFFICES ASSUME FirehoseInv, ResumeInv, [ClientNext]_allVars
                 PROVE  [Caller!FeedNext]_Caller!feedVars
      OBVIOUS
    <2>1. TypeOK /\ (client = "idle" => got = [c \in Cause |-> 0])
      BY DEF FirehoseInv, IInv, ClientInv, ClientTypeOK, PhaseInv
    <2> QED
      BY <2>1, CallerIsFed, CallerMoves
  <1> QED
    BY <1>1, <1>2, <1>3, <1>4, PTL DEF ClientSpec, CallIsOneStream, Caller!FeedSpec

-----------------------------------------------------------------------------
(***************************************************************************)
(* Late rows alone do no harm: over a connection that is not interrupted   *)
(* the server's window makes up for them, and the client passes on exactly *)
(* what the stream yields.                                                 *)
(***************************************************************************)
NeverInterrupted == MaxDrops = 0

\* What the stream has yielded is delivered or under way.
DeliversWhatIsYielded ==
    client = "reading" => \A r \in rows :
        fed[Conn][r.cause] = 1 => got[r.cause] = 1 \/ OnWire(r)

\* There is one connection at most, and it lasts as long as the client reads.
ConnectionInv ==
    /\ drops = 0
    /\ client \in {"idle", "connecting", "reading", "ended", "failed"}
    /\ client = "reading" <=> Open(Conn)
    /\ client # "reading" => wire = <<>>

\* Each row is on the wire once and delivered after that.
PassOnInv ==
    /\ wire \in Seq(Row) /\ delivered \subseteq Cause /\ got \in [Cause -> Nat]
    /\ client \in {"idle", "connecting"} =>
           delivered = {} /\ \A c \in Cause : got[c] = 0
    /\ \A c \in delivered : got[c] = 1
    /\ \A i \in 1..Len(wire) : /\ wire[i] \in rows
                               /\ got[wire[i].cause] = 0
                               /\ fed[Conn][wire[i].cause] = 1
    /\ \A i, j \in 1..Len(wire) : wire[i] = wire[j] => i = j
    /\ client = "reading" => \A c \in Cause : got[c] = 1 => fed[Conn][c] = 1

OneConnectionInv ==
    /\ IInv
    /\ resume \in Time
    /\ ConnectionInv
    /\ PassOnInv
    /\ ClientYieldsOnce
    /\ DeliversWhatIsYielded

LEMMA OneConnectionInit == ClientInit => OneConnectionInv
  <1> SUFFICES ASSUME ClientInit PROVE OneConnectionInv
    OBVIOUS
  <1>1. IInv
    BY InitIInv DEF ClientInit
  <1> QED
    BY <1>1, ConnAssumption, TimeAssumption
    DEF ClientInit, Init, OneConnectionInv, ConnectionInv, PassOnInv, ClientYieldsOnce,
        DeliversWhatIsYielded, Open, Time

\* The store may move, and the stream poll, without any effect on the wire.
LEMMA StoreMovesFreely ==
    ASSUME OneConnectionInv, IInv', UNCHANGED <<clientVars, fed>>,
           Open(Conn)' = Open(Conn), rows \subseteq rows',
           \A r \in rows' \ rows : r.cause \in Cause \ StoredCauses
    PROVE  OneConnectionInv'
  <1> USE ConnAssumption DEF OneConnectionInv, clientVars
  <1>1. ConnectionInv' /\ ClientYieldsOnce' /\ resume' \in Time
    BY DEF ConnectionInv, ClientYieldsOnce
  <1>2. PassOnInv'
    BY DEF PassOnInv
  <1>3. \A r \in rows' \ rows : fed[Conn][r.cause] # 1
    BY DEF IInv, MemoryInv
  <1>4. DeliversWhatIsYielded'
    BY <1>3 DEF DeliversWhatIsYielded, OnWire
  <1> QED
    BY <1>1, <1>2, <1>4

LEMMA StoreStepFreely ==
    ASSUME OneConnectionInv, IInv', StoreStep
    PROVE  OneConnectionInv'
  <1>1. CASE Tick
    BY <1>1, StoreMovesFreely DEF StoreStep, Tick, streamVars, Open
  <1>2. ASSUME NEW w \in Writer, WriterNext(w)
        PROVE  OneConnectionInv'
    <2>1. CASE Commit(w)
      <3>1. \A r \in rows' \ rows : r.cause \in Cause \ StoredCauses
        <4>1. call[w].batch \subseteq Cause
          BY DEF OneConnectionInv, IInv, TypeOK, Call
        <4> QED
          BY <2>1, <4>1 DEF Commit, Inserted
      <3>2. rows \subseteq rows' /\ UNCHANGED <<fed, pc>>
        BY <2>1 DEF Commit, streamVars
      <3> QED
        BY <1>2, <3>1, <3>2, StoreMovesFreely DEF StoreStep, Open
    <2>2. CASE (\E batch \in SUBSET Cause : AddBatch(w, batch)) \/ Abort(w)
      BY <2>2, StoreMovesFreely DEF StoreStep, AddBatch, Abort, streamVars, Open
    <2> QED
      BY <1>2, <2>1, <2>2 DEF WriterNext
  <1> QED
    BY <1>1, <1>2 DEF StoreStep

LEMMA WriteFreely ==
    ASSUME OneConnectionInv, IInv', NEW r \in pending[Conn], WriteRecord(r)
    PROVE  OneConnectionInv'
  <1> USE ConnAssumption DEF OneConnectionInv
  <1>1. /\ UNCHANGED <<now, rows, pc, client, start, resume, delivered, got, drops>>
        /\ wire' = Append(wire, r) /\ Yield(Conn, r)
    BY DEF WriteRecord, Yield, storeVars
  <1>2. r \in rows /\ fed[Conn][r.cause] = 0 /\ Open(Conn)
    BY <1>1, YieldFeeds DEF Feed!Feed, Feed!Wanted
  <1>3. r \in Row /\ r.cause \in Cause
    BY <1>2, RowNumbers DEF IInv, TypeOK
  <1>4. client = "reading" /\ got[r.cause] = 0
    <2>1. client = "reading"
      BY <1>2 DEF ConnectionInv
    <2>2. got[r.cause] # 1
      BY <1>2, <1>3, <2>1 DEF PassOnInv
    <2> QED
      BY <1>3, <2>1, <2>2, GotIsBit DEF PassOnInv
  <1>5. PICK n \in Nat : n = Len(wire)
    BY DEF PassOnInv
  <1>6. /\ wire' \in Seq(Row) /\ Len(wire') = n + 1 /\ wire'[n + 1] = r
        /\ \A i \in 1..n : wire'[i] = wire[i]
    BY <1>1, <1>3, <1>5 DEF PassOnInv
  <1>7. \A c \in Cause : fed'[Conn][c] = IF c = r.cause THEN 1 ELSE fed[Conn][c]
    BY <1>1, <1>2, <1>3 DEF Yield, IInv, TypeOK
  <1>8. \A q \in rows : q.cause \in Cause /\ (q.cause = r.cause => q = r)
    BY <1>2, RowNumbers DEF IInv, OneRowPerCause
  <1>9. \A i \in 1..(n + 1) : i \in 1..n \/ i = n + 1
    OBVIOUS
  <1>10. ConnectionInv' /\ ClientYieldsOnce' /\ resume' \in Time
    BY <1>1, <1>4 DEF ConnectionInv, ClientYieldsOnce, Open
  <1>11. PassOnInv'
    <2>1. \A i \in 1..n : wire[i] \in rows /\ got[wire[i].cause] = 0
                          /\ fed[Conn][wire[i].cause] = 1 /\ wire[i] # r
      BY <1>2, <1>5 DEF PassOnInv
    <2>2. \A i \in 1..(n + 1) : /\ wire'[i] \in rows
                                /\ got[wire'[i].cause] = 0
                                /\ fed'[Conn][wire'[i].cause] = 1
      BY <1>2, <1>3, <1>4, <1>6, <1>7, <1>8, <1>9, <2>1
    <2>3. \A i, j \in 1..(n + 1) : wire'[i] = wire'[j] => i = j
      BY <1>5, <1>6, <1>9, <2>1 DEF PassOnInv
    <2>4. \A c \in Cause : got[c] = 1 => fed'[Conn][c] = 1
      BY <1>4, <1>7 DEF PassOnInv
    <2> QED
      BY <1>1, <1>4, <1>6, <2>2, <2>3, <2>4 DEF PassOnInv
  <1>12. DeliversWhatIsYielded'
    <2>1. OnWire(r)'
      BY <1>6 DEF OnWire
    <2>2. \A q \in rows : OnWire(q) => OnWire(q)'
      BY <1>5, <1>6, <1>9 DEF OnWire
    <2> QED
      BY <1>1, <1>4, <1>7, <1>8, <2>1, <2>2 DEF DeliversWhatIsYielded
  <1> QED
    BY <1>10, <1>11, <1>12

\* No event on the wire is taken for a repeat: none was delivered.
LEMMA ReceiveFreely ==
    ASSUME OneConnectionInv, IInv', Receive
    PROVE  OneConnectionInv'
  <1> USE ConnAssumption DEF OneConnectionInv
  <1> DEFINE r == wire[1]
  <1>1. /\ UNCHANGED <<now, rows, pc, fed, client, drops>>
        /\ client = "reading" /\ wire # <<>> /\ wire' = Tail(wire)
    BY DEF Receive, vars
  <1>2. PICK n \in Nat : n = Len(wire) /\ n >= 1
    BY <1>1 DEF PassOnInv
  <1>3. /\ Head(wire) = r
        /\ wire' \in Seq(Row) /\ Len(wire') = n - 1
        /\ \A i \in 1..(n - 1) : wire'[i] = wire[i + 1]
    BY <1>1, <1>2 DEF PassOnInv
  <1>4. r \in rows /\ got[r.cause] = 0 /\ fed[Conn][r.cause] = 1
    BY <1>2 DEF PassOnInv
  <1>5. r.cause \in Cause /\ r.at \in Time
    BY <1>4, RowNumbers
  <1>6. r.cause \notin delivered
    BY <1>4 DEF PassOnInv
  <1>7. /\ resume' = r.at
        /\ delivered' \subseteq {r.cause} \cup delivered
        /\ got' = [got EXCEPT ![r.cause] = @ + 1]
    BY <1>3, <1>6 DEF Receive, IsRepeat
  <1>8. \A c \in Cause : got'[c] = IF c = r.cause THEN 1 ELSE got[c]
    BY <1>4, <1>5, <1>7 DEF PassOnInv
  <1>9. \A q \in rows : q.cause \in Cause /\ (q.cause = r.cause => q = r)
    BY <1>4, RowNumbers DEF IInv, OneRowPerCause
  <1>10. ConnectionInv' /\ ClientYieldsOnce' /\ resume' \in Time
    BY <1>1, <1>5, <1>7, <1>8 DEF ConnectionInv, ClientYieldsOnce, Open
  <1>11. PassOnInv'
    <2>1. \A i \in 1..(n - 1) : i + 1 \in 1..n /\ i + 1 # 1 /\ 1 \in 1..n
      OBVIOUS
    <2>2. \A i \in 1..(n - 1) : /\ wire'[i] \in rows /\ wire'[i] # r
                                /\ got[wire'[i].cause] = 0
                                /\ fed[Conn][wire'[i].cause] = 1
      BY <1>2, <1>3, <2>1 DEF PassOnInv
    <2>3. \A i \in 1..(n - 1) : got'[wire'[i].cause] = 0
      BY <1>8, <1>9, <2>2
    <2>4. \A i, j \in 1..(n - 1) : wire'[i] = wire'[j] => i = j
      BY <1>2, <1>3, <2>1 DEF PassOnInv
    <2>5. \A c \in Cause : got'[c] = 1 => fed[Conn][c] = 1
      BY <1>1, <1>4, <1>8 DEF PassOnInv
    <2>6. delivered' \subseteq Cause /\ \A c \in delivered' : got'[c] = 1
      BY <1>5, <1>7, <1>8 DEF PassOnInv
    <2>7. got' \in [Cause -> Nat]
      BY <1>5, <1>7 DEF PassOnInv
    <2> QED
      BY <1>1, <1>3, <2>2, <2>3, <2>4, <2>5, <2>6, <2>7 DEF PassOnInv
  <1>12. DeliversWhatIsYielded'
    <2> SUFFICES ASSUME NEW q \in rows, fed[Conn][q.cause] = 1, q # r
                 PROVE  got'[q.cause] = 1 \/ OnWire(q)'
      BY <1>1, <1>5, <1>8 DEF DeliversWhatIsYielded
    <2>1. CASE got[q.cause] = 1
      BY <1>8, <1>9, <2>1
    <2>2. CASE OnWire(q)
      <3>1. PICK i \in 1..n : wire[i] = q
        BY <1>2, <2>2 DEF OnWire
      <3>2. i - 1 \in 1..(n - 1) /\ wire'[i - 1] = q
        BY <1>3, <3>1
      <3> QED
        BY <1>3, <3>2 DEF OnWire
    <2> QED
      BY <1>1, <2>1, <2>2 DEF DeliversWhatIsYielded
  <1> QED
    BY <1>10, <1>11, <1>12

LEMMA OneConnectionStep ==
    ASSUME NeverInterrupted, OneConnectionInv, IInv', [ClientNext]_allVars
    PROVE  OneConnectionInv'
  <1> USE ConnAssumption, NeverInterrupted DEF OneConnectionInv
  <1>1. ~(drops < MaxDrops)
    BY DEF NeverInterrupted, ConnectionInv
  <1>2. CASE StoreStep
    BY <1>2, StoreStepFreely
  <1>3. CASE ServerStep
    <2>1. CASE \E r \in pending[Conn] : WriteRecord(r)
      BY <2>1, WriteFreely
    <2>2. CASE /\ UNCHANGED clientVars
               /\ \/ ReadClock(Conn) \/ Query(Conn) \/ Advance(Conn) \/ TickerFires(Conn)
                  \/ \E r \in pending[Conn] : SkipSeen(Conn, r)
      <3>1. UNCHANGED <<rows, fed>>
        BY <2>2 DEF ReadClock, Query, Advance, TickerFires, SkipSeen, storeVars
      <3>2. Open(Conn)' = Open(Conn)
        BY <2>2 DEF ReadClock, Query, Advance, TickerFires, SkipSeen, Open, IInv, TypeOK
      <3> QED
        BY <2>2, <3>1, <3>2, StoreMovesFreely
    <2> QED
      BY <1>3, <2>1, <2>2 DEF ServerStep
  <1>4. CASE ServerEnds \/ ConnectFails \/ Interrupt
    BY <1>1, <1>4 DEF ServerEnds, ConnectFails, Interrupt
  <1>5. CASE EndOfStream \/ BackoffElapses
    BY <1>5 DEF EndOfStream, BackoffElapses, ConnectionInv
  <1>6. ASSUME NEW f \in Time, CallStream(f)
        PROVE  OneConnectionInv'
    BY <1>6 DEF CallStream, vars, ConnectionInv, PassOnInv, ClientYieldsOnce,
       DeliversWhatIsYielded, Open
  <1>7. CASE Connect
    <2>1. /\ UNCHANGED <<now, rows, fed, resume, delivered, wire, got, drops>>
          /\ client = "connecting" /\ client' = "reading" /\ Open(Conn)'
          /\ wire = <<>> /\ ~Open(Conn)
      BY <1>7 DEF Connect, OpenStream, storeVars, ConnectionInv, Open, IInv, TypeOK
    <2>2. \A c \in Cause : fed[Conn][c] = 0
      BY <2>1 DEF IInv, ClosedInv
    <2>3. ConnectionInv' /\ ClientYieldsOnce' /\ resume' \in Time
      BY <2>1 DEF ConnectionInv, ClientYieldsOnce
    <2>4. PassOnInv'
      BY <2>1 DEF PassOnInv
    <2>5. DeliversWhatIsYielded'
      BY <2>1, <2>2, RowNumbers DEF DeliversWhatIsYielded
    <2> QED
      BY <2>3, <2>4, <2>5
  <1>8. CASE Receive
    BY <1>8, ReceiveFreely
  <1>9. CASE Stop
    <2>1. /\ UNCHANGED <<rows, resume, delivered, got, drops>>
          /\ client' = "ended" /\ wire' = <<>> /\ ~Open(Conn)'
      BY <1>9 DEF Stop, CloseStream, storeVars, vars, Open, IInv, TypeOK
    <2>2. wire' \in Seq(Row)
      BY <2>1
    <2> QED
      BY <2>1, <2>2 DEF ConnectionInv, PassOnInv, ClientYieldsOnce, DeliversWhatIsYielded
  <1>10. CASE UNCHANGED allVars
    BY <1>10 DEF allVars, vars, clientVars, ConnectionInv, PassOnInv, ClientYieldsOnce,
       DeliversWhatIsYielded, OnWire, Open
  <1> QED
    BY <1>2, <1>3, <1>4, <1>5, <1>6, <1>7, <1>8, <1>9, <1>10 DEF ClientNext

\* When inserts settle in time and nothing interrupts the call, the invariant of
\* a single connection holds in every reachable state.
THEOREM OneConnection ==
    InsertsSettleInTime /\ NeverInterrupted /\ ClientSpec => []OneConnectionInv
  <1> SUFFICES ASSUME InsertsSettleInTime, NeverInterrupted
               PROVE  ClientSpec => []OneConnectionInv
    OBVIOUS
  <1>1. OneConnectionInv /\ [ClientNext]_allVars => OneConnectionInv'
    <2> SUFFICES ASSUME OneConnectionInv, [ClientNext]_allVars PROVE OneConnectionInv'
      OBVIOUS
    <2>1. IInv'
      BY InsertsSettleInTime, StoreSteps, IInvStep DEF OneConnectionInv
    <2> QED
      BY NeverInterrupted, <2>1, OneConnectionStep
  <1> QED
    BY <1>1, OneConnectionInit, PTL DEF ClientSpec

\* A client call that is not interrupted yields each revocation at most once,
\* rows that become visible late included, as long as inserts settle in time:
\* repetition takes an interruption (client.go:221-223).
THEOREM OnceUninterrupted ==
    InsertsSettleInTime /\ NeverInterrupted /\ ClientSpec => []ClientYieldsOnce
  <1>1. OneConnectionInv => ClientYieldsOnce
    BY DEF OneConnectionInv
  <1> QED
    BY <1>1, OneConnection, PTL

\* Such a call drops nothing either: what the stream has yielded is delivered or
\* under way, and NoRowLeftBehind says what the stream yields.
THEOREM NothingDropped ==
    InsertsSettleInTime /\ NeverInterrupted /\ ClientSpec => []DeliversWhatIsYielded
  <1>1. OneConnectionInv => DeliversWhatIsYielded
    BY DEF OneConnectionInv
  <1> QED
    BY <1>1, OneConnection, PTL

\* The server's stream starts where the call does.
FromStartInv ==
    /\ client = "connecting" => resume = start
    /\ client = "reading" => from[Conn] = start
    /\ \A i \in 1..Len(wire) : start <= wire[i].at

LEMMA FromStartStep ==
    ASSUME NeverInterrupted, OneConnectionInv, FromStartInv, [ClientNext]_allVars
    PROVE  FromStartInv'
  <1> USE ConnAssumption
  <1>1. wire \in Seq(Row) /\ Len(wire) \in Nat
    BY DEF OneConnectionInv, PassOnInv
  <1>2. ASSUME UNCHANGED <<client, start, resume, from, wire>> PROVE FromStartInv'
    BY <1>2 DEF FromStartInv
  <1>3. CASE StoreStep
    <2>1. UNCHANGED <<client, start, resume, from, wire>>
      BY <1>3 DEF StoreStep, Tick, WriterNext, AddBatch, Commit, Abort, streamVars, clientVars
    <2> QED
      BY <1>2, <2>1
  <1>4. CASE ServerStep
    <2>1. CASE \E r \in pending[Conn] : WriteRecord(r)
      <3>1. PICK r \in pending[Conn] : WriteRecord(r)
        BY <2>1
      <3>2. /\ UNCHANGED <<client, start, resume, from>> /\ wire' = Append(wire, r)
            /\ Yield(Conn, r)
        BY <3>1 DEF WriteRecord, Yield
      <3>3. r \in rows /\ from[Conn] <= r.at /\ client = "reading"
        BY <3>2, YieldFeeds DEF OneConnectionInv, ConnectionInv, Feed!Feed, Feed!Wanted, Open, Yield
      <3>4. r \in Row
        BY <3>3 DEF OneConnectionInv, IInv, TypeOK
      <3>5. Len(wire') = Len(wire) + 1 /\ wire'[Len(wire) + 1] = r
            /\ \A i \in 1..Len(wire) : wire'[i] = wire[i]
        BY <1>1, <3>2, <3>4
      <3>6. \A i \in 1..(Len(wire) + 1) : i \in 1..Len(wire) \/ i = Len(wire) + 1
        BY <1>1
      <3> QED
        BY <3>2, <3>3, <3>5, <3>6 DEF FromStartInv
    <2>2. CASE /\ UNCHANGED clientVars
               /\ \/ ReadClock(Conn) \/ Query(Conn) \/ Advance(Conn) \/ TickerFires(Conn)
                  \/ \E r \in pending[Conn] : SkipSeen(Conn, r)
      <3>1. UNCHANGED <<client, start, resume, from, wire>>
        BY <2>2 DEF ReadClock, Query, Advance, TickerFires, SkipSeen, clientVars
      <3> QED
        BY <1>2, <3>1
    <2> QED
      BY <1>4, <2>1, <2>2 DEF ServerStep
  <1>5. CASE ServerEnds \/ ConnectFails \/ Interrupt
    BY <1>5 DEF NeverInterrupted, OneConnectionInv, ConnectionInv, ServerEnds, ConnectFails, Interrupt
  <1>6. CASE EndOfStream \/ BackoffElapses
    BY <1>6 DEF EndOfStream, BackoffElapses, OneConnectionInv, ConnectionInv
  <1>7. CASE \E f \in Time : CallStream(f)
    BY <1>7 DEF CallStream, OneConnectionInv, ConnectionInv, FromStartInv
  <1>8. CASE Connect
    <2>1. client' = "reading" /\ UNCHANGED <<start, resume, wire>> /\ wire = <<>>
          /\ from' = [from EXCEPT ![Conn] = resume] /\ resume = start
      BY <1>8 DEF Connect, OpenStream, OneConnectionInv, ConnectionInv, FromStartInv
    <2>2. from'[Conn] = start'
      BY <2>1 DEF OneConnectionInv, IInv, TypeOK
    <2> QED
      BY <2>1, <2>2 DEF FromStartInv
  <1>9. CASE Receive
    <2>1. UNCHANGED <<client, start, from>> /\ wire' = Tail(wire) /\ wire # <<>> /\ client = "reading"
      BY <1>9 DEF Receive, vars
    <2>2. Len(wire') = Len(wire) - 1 /\ \A i \in 1..Len(wire') : wire'[i] = wire[i + 1]
      BY <1>1, <2>1
    <2>3. \A i \in 1..Len(wire') : i + 1 \in 1..Len(wire)
      BY <1>1, <2>2
    <2> QED
      BY <2>1, <2>2, <2>3 DEF FromStartInv
  <1>10. CASE Stop
    BY <1>10 DEF Stop, FromStartInv
  <1>11. CASE UNCHANGED allVars
    BY <1>2, <1>11 DEF allVars, vars, streamVars, clientVars
  <1> QED
    BY <1>3, <1>4, <1>5, <1>6, <1>7, <1>8, <1>9, <1>10, <1>11 DEF ClientNext

\* Without an interruption a client call is one stream of the store although
\* rows become visible late, as long as inserts settle in time.
THEOREM UninterruptedRefinement ==
    InsertsSettleInTime /\ NeverInterrupted /\ ClientSpec => CallIsOneStream
  <1> SUFFICES ASSUME InsertsSettleInTime, NeverInterrupted
               PROVE  ClientSpec => CallIsOneStream
    OBVIOUS
  <1>1. ClientSpec => []OneConnectionInv
    BY InsertsSettleInTime, NeverInterrupted, OneConnection
  <1>2. ClientInit => FromStartInv /\ Caller!FeedInit
    BY DEF ClientInit, Init, FromStartInv, Caller!FeedInit, Called
  <1>3. OneConnectionInv /\ FromStartInv /\ [ClientNext]_allVars => FromStartInv'
    BY NeverInterrupted, FromStartStep
  <1>4. OneConnectionInv /\ FromStartInv /\ [ClientNext]_allVars => [Caller!FeedNext]_Caller!feedVars
    <2> SUFFICES ASSUME OneConnectionInv, FromStartInv, [ClientNext]_allVars
                 PROVE  [Caller!FeedNext]_Caller!feedVars
      OBVIOUS
    <2>1. TypeOK /\ got \in [Cause -> Nat] /\ (client = "idle" => got = [c \in Cause |-> 0])
      BY DEF OneConnectionInv, IInv, PassOnInv
    <2>2. ASSUME Receive PROVE [Caller!FeedNext]_Caller!feedVars
      <3>1. wire # <<>> /\ wire \in Seq(Row)
        BY <2>2 DEF Receive, OneConnectionInv, PassOnInv
      <3>2. 1 \in 1..Len(wire) /\ Head(wire) = wire[1]
        BY <3>1
      <3>3. Head(wire) \in rows /\ got[Head(wire).cause] = 0 /\ start <= Head(wire).at
        BY <3>2 DEF OneConnectionInv, PassOnInv, FromStartInv
      <3>4. Head(wire).cause \in Cause
        BY <2>1, <3>3 DEF TypeOK, Row
      <3> QED
        BY <2>1, <2>2, <3>3, <3>4, GivenFeeds
    <2> QED
      BY <2>1, <2>2, CallerMoves
  <1> QED
    BY <1>1, <1>2, <1>3, <1>4, PTL DEF ClientSpec, CallIsOneStream, Caller!FeedSpec

-----------------------------------------------------------------------------
(***************************************************************************)
(* The lookup.                                                             *)
(***************************************************************************)
\* A lookup under way is for a delegation and has its result.
Lookup == [of: Delegation, result: Answers]

LookupTypeOK ==
    /\ lookup \in [Reader -> Lookup \cup {NoLookup}]
    /\ cache \in [Delegation -> Answers \cup {NoEntry}]
    /\ answer \in [Reader -> [Delegation -> Answers]]
    /\ asked \in [Reader -> [Delegation -> SUBSET Row]]

\* No answer x is older than a row of S.
MostRecent(x, S) == \A r \in S : r = x \/ Earlier(r, x)

\* A result that is under way is a row or there was none; it is at least as recent
\* as what the caller asked about, and as what it was told before if it asks the
\* server itself.
ResultFor(p, d, result) ==
    /\ result # NotFound => result \in RowsOf(d)
    /\ MostRecent(result, asked[p][d])
    /\ p \notin Cached /\ answer[p][d] # NotFound => MostRecent(result, {answer[p][d]})

ResultInv ==
    \A p \in Reader :
        lookup[p] # NoLookup => ResultFor(p, lookup[p].of, lookup[p].result)

AskedInv ==
    \A p \in Reader \ Cached, d \in Delegation :
        (lookup[p] # NoLookup /\ lookup[p].of = d) \/ MostRecent(answer[p][d], asked[p][d])

LookupInv ==
    /\ TypeOK
    /\ OneRowPerCause
    /\ LookupTypeOK
    /\ ToldIsStored
    /\ ResultInv
    /\ AskedInv

-----------------------------------------------------------------------------
(***************************************************************************)
(* The order of rows is total and every set of rows has a last one, so     *)
(* that LIMIT 1 picks the most recent.                                     *)
(***************************************************************************)
LEMMA RowFinite == IsFiniteSet(Row)
  <1> DEFINE f == [x \in Cause \X Time |-> [cause |-> x[1], at |-> x[2]]]
  <1>1. IsFiniteSet(Time)
    BY TimeAssumption, FS_Interval DEF Time
  <1>2. IsFiniteSet(Cause \X Time)
    BY <1>1, FiniteAssumption, FS_Product
  <1>3. f \in Surjection(Cause \X Time, Row)
    <2>1. f \in [Cause \X Time -> Row]
      BY DEF Row
    <2>2. ASSUME NEW r \in Row PROVE \E x \in Cause \X Time : f[x] = r
      <3>1. <<r.cause, r.at>> \in Cause \X Time
        BY DEF Row
      <3>2. f[<<r.cause, r.at>>] = r
        BY <3>1 DEF Row
      <3> QED
        BY <3>1, <3>2
    <2> QED
      BY <2>1, <2>2 DEF Surjection
  <1> QED
    BY <1>2, <1>3, FS_Surjection

LEMMA EarlierOrder ==
    ASSUME NEW q \in Row, NEW r \in Row, NEW x \in Row
    PROVE  /\ ~Earlier(q, q)
           /\ q = r \/ Earlier(q, r) \/ Earlier(r, q)
           /\ Earlier(q, r) /\ Earlier(r, x) => Earlier(q, x)
  <1>1. /\ q.cause \in Nat /\ r.cause \in Nat /\ x.cause \in Nat
        /\ q.at \in Nat /\ r.at \in Nat /\ x.at \in Nat
    <2>1. Time \subseteq Nat
      BY TimeAssumption DEF Time
    <2> QED
      BY <2>1, CauseAssumption DEF Row
  <1>2. q.cause = r.cause /\ q.at = r.at => q = r
    BY DEF Row
  <1> QED
    BY <1>1, <1>2 DEF Earlier

LEMMA LastRow ==
    ASSUME NEW S \in SUBSET Row, S # {}
    PROVE  \E r \in S : \A q \in S : q = r \/ Earlier(q, r)
  <1> DEFINE Above(r) == {q \in S : Earlier(r, q)}
             T == {Above(r) : r \in S}
             R == StrictSubsetOrdering(Row)
  <1>1. T \subseteq FiniteSubsetsOf(Row) /\ T # {}
    <2>1. \A r \in S : Above(r) \in SUBSET Row
      OBVIOUS
    <2>2. \A X \in SUBSET Row : IsFiniteSet(X)
      BY RowFinite, FS_Subset
    <2> QED
      BY <2>1, <2>2 DEF FiniteSubsetsOf
  <1>2. PICK A \in T : \A B \in T : ~(<<B, A>> \in R)
    BY <1>1, FS_StrictSubsetOrderingWellFounded, WFMin
  <1>3. PICK r \in S : A = Above(r)
    OBVIOUS
  <1>4. ASSUME NEW q \in S, Earlier(r, q) PROVE FALSE
    <2>1. Above(q) \subseteq Above(r) /\ q \in Above(r) /\ q \notin Above(q)
      BY <1>4, EarlierOrder
    <2>2. <<Above(q), Above(r)>> \in R
      BY <2>1 DEF StrictSubsetOrdering
    <2> QED
      BY <1>2, <1>3, <2>2
  <1> QED
    BY <1>4, EarlierOrder

LEMMA LatestIsLast ==
    ASSUME TypeOK, NEW d \in Delegation
    PROVE  /\ Latest(d) = NotFound <=> RowsOf(d) = {}
           /\ Latest(d) # NotFound => Latest(d) \in RowsOf(d)
           /\ MostRecent(Latest(d), RowsOf(d))
  <1>1. RowsOf(d) \in SUBSET Row
    BY DEF RowsOf, TypeOK
  <1>2. NotFound \notin Row
    BY TimeAssumption DEF NotFound, Row, Time
  <1>3. CASE RowsOf(d) = {}
    BY <1>3 DEF Latest, MostRecent
  <1>4. CASE RowsOf(d) # {}
    <2>1. \E r \in RowsOf(d) : \A q \in RowsOf(d) : q = r \/ Earlier(q, r)
      BY <1>1, <1>4, LastRow
    <2>2. Latest(d) \in RowsOf(d) /\ \A q \in RowsOf(d) : q = Latest(d) \/ Earlier(q, Latest(d))
      BY <1>4, <2>1 DEF Latest
    <2> QED
      BY <1>1, <1>2, <1>4, <2>2 DEF MostRecent
  <1> QED
    BY <1>3, <1>4

-----------------------------------------------------------------------------
(***************************************************************************)
(* The steps.                                                              *)
(***************************************************************************)
LEMMA NotARow == NotFound \notin Row /\ NoEntry \notin Row
  BY TimeAssumption DEF NotFound, NoEntry, Row, Time

LEMMA NotALookup == NoLookup \notin Lookup
  <1>1. DOMAIN NoLookup # {"of", "result"}
    <2>1. DOMAIN NoLookup = {"of"}
      BY DEF NoLookup
    <2> QED
      BY <2>1
  <1>2. \A x \in Lookup : DOMAIN x = {"of", "result"}
    BY DEF Lookup
  <1> QED
    BY <1>1, <1>2

\* The result of a lookup stays right while what it is compared with stays.
LEMMA SameResult ==
    ASSUME NEW q \in Reader, lookup'[q] = lookup[q], UNCHANGED rows,
           answer'[q][lookup[q].of] = answer[q][lookup[q].of],
           asked'[q][lookup[q].of] = asked[q][lookup[q].of],
           ResultFor(q, lookup[q].of, lookup[q].result)
    PROVE  ResultFor(q, lookup[q].of, lookup[q].result)'
  BY DEF ResultFor, MostRecent, RowsOf

LEMMA InitLookupInv == LookupInit => LookupInv
  <1> SUFFICES ASSUME LookupInit PROVE LookupInv
    OBVIOUS
  <1>1. TypeOK /\ OneRowPerCause
    BY InitIInv DEF LookupInit, IInv
  <1>2. LookupTypeOK
    BY DEF LookupInit, LookupTypeOK, Answers
  <1>3. ToldIsStored /\ ResultInv /\ AskedInv
    BY DEF LookupInit, ToldIsStored, ResultInv, AskedInv, MostRecent
  <1> QED
    BY <1>1, <1>2, <1>3 DEF LookupInv

\* Rows are only added, which takes nothing from what is known of them.
LEMMA LookupStoreStep ==
    ASSUME LookupInv, [Next]_vars, UNCHANGED lookupVars
    PROVE  LookupInv'
  <1> USE DEF LookupInv
  <1>1. TypeOK' /\ OneRowPerCause' /\ rows \subseteq rows'
    BY TypeStep, RowsStep
  <1>2. \A d \in Delegation : RowsOf(d) \subseteq RowsOf(d)'
    BY <1>1 DEF RowsOf
  <1>3. UNCHANGED <<lookup, cache, answer, asked>>
    BY DEF lookupVars
  <1>4. LookupTypeOK' /\ AskedInv'
    BY <1>3 DEF LookupTypeOK, AskedInv, MostRecent
  <1>5. ToldIsStored'
    BY <1>2, <1>3 DEF ToldIsStored
  <1>6. ResultInv'
    <2> SUFFICES ASSUME NEW p \in Reader, lookup[p] # NoLookup
                 PROVE  ResultFor(p, lookup[p].of, lookup[p].result)'
      BY <1>3 DEF ResultInv
    <2>1. lookup[p].of \in Delegation /\ ResultFor(p, lookup[p].of, lookup[p].result)
      BY DEF LookupTypeOK, Lookup, ResultInv
    <2>2. RowsOf(lookup[p].of) \subseteq RowsOf(lookup[p].of)'
      BY <1>1, <1>3 DEF RowsOf
    <2> QED
      BY <1>3, <2>1, <2>2 DEF ResultFor, MostRecent
  <1> QED
    BY <1>1, <1>4, <1>5, <1>6

LEMMA HitStep ==
    ASSUME LookupInv, NEW p \in Reader, NEW d \in Delegation, Hit(p, d)
    PROVE  LookupInv'
  <1> USE DEF LookupInv
  <1>1. UNCHANGED <<lookup, cache>> /\ TypeOK' /\ OneRowPerCause' /\ UNCHANGED rows
    BY DEF Hit, vars, TypeOK, OneRowPerCause
  <1>2. \A e \in Delegation : RowsOf(e)' = RowsOf(e)
    BY <1>1 DEF RowsOf
  <1>3. cache[d] \in RowsOf(d) \cup {NotFound} /\ RowsOf(d) \subseteq Row
    BY DEF Hit, ToldIsStored, RowsOf, TypeOK
  <1>4. LookupTypeOK'
    BY <1>1, <1>3 DEF Hit, LookupTypeOK, Answers
  <1>5. /\ answer'[p][d] = cache[d]
        /\ \A q \in Reader, e \in Delegation : q # p \/ e # d =>
              answer'[q][e] = answer[q][e] /\ asked'[q][e] = asked[q][e]
    BY DEF Hit, LookupTypeOK
  <1>6. ToldIsStored'
    BY <1>1, <1>2, <1>3, <1>5 DEF ToldIsStored
  <1>7. ResultInv'
    <2> SUFFICES ASSUME NEW q \in Reader, lookup[q] # NoLookup
                 PROVE  ResultFor(q, lookup[q].of, lookup[q].result)'
      BY <1>1 DEF ResultInv
    <2>1. lookup[q].of \in Delegation /\ q # p /\ ResultFor(q, lookup[q].of, lookup[q].result)
      BY DEF LookupTypeOK, Lookup, Hit, ResultInv
    <2> QED
      BY <1>1, <1>5, <2>1, SameResult
  <1>8. AskedInv'
    BY <1>1, <1>5 DEF AskedInv, Hit, MostRecent
  <1> QED
    BY <1>1, <1>4, <1>6, <1>7, <1>8

LEMMA GetStep ==
    ASSUME LookupInv, NEW p \in Reader, NEW d \in Delegation, Get(p, d)
    PROVE  LookupInv'
  <1> DEFINE new == [of |-> d, result |-> Latest(d)]
  <1> USE DEF LookupInv
  <1>1. UNCHANGED <<answer, cache>> /\ TypeOK' /\ OneRowPerCause' /\ UNCHANGED rows
    BY DEF Get, vars, TypeOK, OneRowPerCause
  <1>2. \A e \in Delegation : RowsOf(e)' = RowsOf(e)
    BY <1>1 DEF RowsOf
  <1>3. RowsOf(d) \subseteq Row
    BY DEF RowsOf, TypeOK
  <1>4. new \in Lookup /\ new # NoLookup
    BY <1>3, LatestIsLast, NotALookup DEF Lookup, Answers
  <1>5. /\ lookup'[p] = new
        /\ asked'[p][d] = RowsOf(d)
        /\ \A q \in Reader \ {p} : lookup'[q] = lookup[q]
        /\ \A q \in Reader, e \in Delegation : q # p \/ e # d => asked'[q][e] = asked[q][e]
    BY DEF Get, LookupTypeOK
  <1>6. LookupTypeOK'
    BY <1>1, <1>3, <1>4 DEF Get, LookupTypeOK
  <1>7. ToldIsStored'
    BY <1>1, <1>2 DEF ToldIsStored
  <1>8. ResultInv'
    <2>1. ASSUME NEW q \in Reader \ {p}, lookup[q] # NoLookup
          PROVE  ResultFor(q, lookup[q].of, lookup[q].result)'
      <3>1. lookup[q].of \in Delegation /\ ResultFor(q, lookup[q].of, lookup[q].result)
        BY <2>1 DEF LookupTypeOK, Lookup, ResultInv
      <3> QED
        BY <1>1, <1>5, <3>1, SameResult
    <2>2. /\ Latest(d) # NotFound => Latest(d) \in RowsOf(d)
          /\ MostRecent(Latest(d), RowsOf(d))
      BY LatestIsLast
    <2>3. answer[p][d] # NotFound =>
             Latest(d) # NotFound /\ MostRecent(Latest(d), {answer[p][d]})
      BY LatestIsLast DEF ToldIsStored, MostRecent
    <2>4. ResultFor(p, lookup[p].of, lookup[p].result)'
      <3>1. lookup'[p].of = d /\ lookup'[p].result = Latest(d)
        BY <1>5
      <3>2. answer' = answer /\ asked'[p][d] = RowsOf(d) /\ RowsOf(d)' = RowsOf(d)
        BY <1>1, <1>2, <1>5
      <3> QED
        BY <2>2, <2>3, <3>1, <3>2 DEF ResultFor, MostRecent
    <2> QED
      BY <1>5, <2>1, <2>4 DEF ResultInv
  <1>9. AskedInv'
    BY <1>1, <1>4, <1>5 DEF AskedInv, Get, MostRecent
  <1> QED
    BY <1>1, <1>6, <1>7, <1>8, <1>9

LEMMA RespondStep ==
    ASSUME LookupInv, NEW p \in Reader, Respond(p)
    PROVE  LookupInv'
  <1> DEFINE d == lookup[p].of
             result == lookup[p].result
  <1> USE DEF LookupInv
  <1>1. UNCHANGED asked /\ TypeOK' /\ OneRowPerCause' /\ UNCHANGED rows
    BY DEF Respond, vars, TypeOK, OneRowPerCause
  <1>2. \A e \in Delegation : RowsOf(e)' = RowsOf(e) /\ RowsOf(e) \subseteq Row
    BY <1>1 DEF RowsOf, TypeOK
  <1>3. /\ lookup[p] # NoLookup /\ d \in Delegation
        /\ result \in Answers /\ (result # NotFound => result \in RowsOf(d))
        /\ MostRecent(result, asked[p][d])
    BY DEF Respond, LookupTypeOK, Lookup, ResultInv, ResultFor
  <1>4. /\ answer' = [answer EXCEPT ![p][d] = result]
        /\ cache' = cache \/ \E entry \in {cache[d], result} : cache' = [cache EXCEPT ![d] = entry]
        /\ lookup' = [lookup EXCEPT ![p] = NoLookup]
    BY DEF Respond, Kept
  <1> HIDE DEF d, result
  <1>5. /\ answer'[p][d] = result /\ lookup'[p] = NoLookup
        /\ \A q \in Reader \ {p} : lookup'[q] = lookup[q]
        /\ \A q \in Reader, e \in Delegation : q # p \/ e # d => answer'[q][e] = answer[q][e]
    BY <1>3, <1>4 DEF LookupTypeOK
  <1>6. /\ cache' \in [Delegation -> Answers \cup {NoEntry}]
        /\ \A e \in Delegation : cache'[e] = cache[e] \/ (e = d /\ cache'[e] = result)
    <2>1. ASSUME NEW entry \in {cache[d], result}, cache' = [cache EXCEPT ![d] = entry]
          PROVE  <1>6!1 /\ <1>6!2
      BY <1>3, <2>1 DEF LookupTypeOK
    <2>2. CASE cache' = cache
      BY <2>2 DEF LookupTypeOK
    <2> QED
      BY <1>4, <2>1, <2>2
  <1>7. LookupTypeOK'
    BY <1>1, <1>3, <1>4, <1>6 DEF LookupTypeOK
  <1>8. ToldIsStored'
    BY <1>2, <1>3, <1>5, <1>6 DEF ToldIsStored
  <1>9. ResultInv'
    <2> SUFFICES ASSUME NEW q \in Reader \ {p}, lookup[q] # NoLookup
                 PROVE  ResultFor(q, lookup[q].of, lookup[q].result)'
      BY <1>5 DEF ResultInv
    <2>1. lookup[q].of \in Delegation /\ ResultFor(q, lookup[q].of, lookup[q].result)
      BY DEF LookupTypeOK, Lookup, ResultInv
    <2> QED
      BY <1>1, <1>5, <2>1, SameResult
  <1>10. AskedInv'
    <2>1. \A e \in Delegation \ {d} : p \notin Cached => MostRecent(answer[p][e], asked[p][e])
      BY DEF AskedInv, d
    <2> QED
      BY <1>1, <1>3, <1>5, <2>1 DEF AskedInv, MostRecent
  <1> QED
    BY <1>1, <1>7, <1>8, <1>9, <1>10

LEMMA EvictStep ==
    ASSUME LookupInv, NEW d \in Delegation, Evict(d)
    PROVE  LookupInv'
  <1> USE DEF LookupInv
  <1>1. UNCHANGED <<lookup, answer, asked>> /\ TypeOK' /\ OneRowPerCause' /\ UNCHANGED rows
    BY DEF Evict, vars, TypeOK, OneRowPerCause
  <1>2. RowsOf(d)' = RowsOf(d) /\ \A e \in Delegation : RowsOf(e)' = RowsOf(e)
    BY <1>1 DEF RowsOf
  <1>3. \A e \in Delegation : cache'[e] = IF e = d THEN NoEntry ELSE cache[e]
    BY DEF Evict, LookupTypeOK
  <1>4. LookupTypeOK'
    BY <1>1 DEF Evict, LookupTypeOK
  <1>5. ToldIsStored' /\ AskedInv'
    BY <1>1, <1>2, <1>3 DEF ToldIsStored, AskedInv, MostRecent
  <1>6. ResultInv'
    BY <1>1 DEF ResultInv, ResultFor, MostRecent, RowsOf
  <1> QED
    BY <1>1, <1>4, <1>5, <1>6

LEMMA LookupInvStep == LookupInv /\ [LookupNext]_allLookupVars => LookupInv'
  <1> SUFFICES ASSUME LookupInv, [LookupNext]_allLookupVars PROVE LookupInv'
    OBVIOUS
  <1>1. CASE (Tick \/ \E w \in Writer : WriterNext(w)) /\ UNCHANGED lookupVars
    BY <1>1, LookupStoreStep DEF Next
  <1>2. CASE UNCHANGED allLookupVars
    BY <1>2, LookupStoreStep DEF allLookupVars
  <1> QED
    BY <1>1, <1>2, HitStep, GetStep, RespondStep, EvictStep DEF LookupNext

\* What is told, cached or under way is stored and recent enough, in every
\* reachable state.
THEOREM LookupInvariance == LookupSpec => []LookupInv
  BY InitLookupInv, LookupInvStep, PTL DEF LookupSpec

\* A record that was told, or that a cache may tell for a year, stays true
\* (app.go:489, postgres/store.go:98).
THEOREM ToldStaysTrue == LookupSpec => []ToldIsStored
  BY LookupInvariance, PTL DEF LookupInv

\* A caller that asks the server itself is told the most recent record there
\* was when it asked, or a later one (README.md:92, client.go:169).
THEOREM DirectAnswers == LookupSpec => []DirectAnswerIsMostRecent
  <1>1. LookupInv => DirectAnswerIsMostRecent
    BY DEF LookupInv, AskedInv, MostRecent, DirectAnswerIsMostRecent
  <1> QED
    BY <1>1, LookupInvariance, PTL

-----------------------------------------------------------------------------
(***************************************************************************)
(* What is told changes only when the cache hits or the server responds.   *)
(***************************************************************************)
LEMMA AnswerStep ==
    ASSUME LookupInv, [LookupNext]_allLookupVars, NEW p \in Reader, NEW d \in Delegation,
           answer'[p][d] # answer[p][d]
    PROVE  \/ Hit(p, d)
           \/ Respond(p) /\ lookup[p] # NoLookup /\ lookup[p].of = d
  <1>1. \A q \in Reader, e \in Delegation : Hit(q, e) => q = p /\ e = d
    BY DEF Hit, LookupInv, LookupTypeOK
  <1>2. \A q \in Reader : Respond(q) => q = p /\ lookup[p] # NoLookup /\ lookup[p].of = d
    BY DEF Respond, LookupInv, LookupTypeOK, Lookup
  <1> QED
    BY <1>1, <1>2 DEF LookupNext, Get, Evict, lookupVars, allLookupVars

\* A caller that asks the server itself is never given an earlier record than
\* the last time (store.go:118-120).
THEOREM OnlyForward == LookupSpec => NeverGoesBack
  <1> DEFINE Forward == \A p \in Reader \ Cached, d \in Delegation :
                            answer'[p][d] # answer[p][d] =>
                                answer[p][d] = NotFound \/ Earlier(answer[p][d], answer'[p][d])
  <1>1. LookupInv /\ [LookupNext]_allLookupVars => Forward
    <2> SUFFICES ASSUME LookupInv, [LookupNext]_allLookupVars,
                        NEW p \in Reader \ Cached, NEW d \in Delegation,
                        answer[p][d] # NotFound, answer'[p][d] # answer[p][d]
                 PROVE  Earlier(answer[p][d], answer'[p][d])
      OBVIOUS
    <2>1. Respond(p) /\ lookup[p] # NoLookup /\ lookup[p].of = d
      BY AnswerStep DEF Hit
    <2>2. answer'[p][d] = lookup[p].result
      BY <2>1 DEF Respond, LookupInv, LookupTypeOK
    <2> QED
      BY <2>1, <2>2 DEF LookupInv, ResultInv, ResultFor, MostRecent
  <1> QED
    BY <1>1, LookupInvariance, PTL DEF LookupSpec, NeverGoesBack
=============================================================================
