------------------------ MODULE PostgresStoreProofs ------------------------
(***************************************************************************)
(* Theorems about PostgresStore for every set of revocations, writers and  *)
(* streams, every clock bound, and every insert bound within the settle    *)
(* window.                                                                 *)
(***************************************************************************)
EXTENDS PostgresStore, TLAPS

LEMMA InitIInv == Init => IInv
  <1> SUFFICES ASSUME Init PROVE IInv
    OBVIOUS
  <1> USE TimeAssumption
  <1>1. TypeOK
    BY DEF Init, TypeOK, Time, Row, Call, IdleCall
  <1>2. OneRowPerCause /\ TimesInv /\ SnapshotInv
    BY DEF Init, OneRowPerCause, TimesInv, SnapshotInv, IdleCall
  <1>3. CursorInv /\ ClosedInv /\ MemoryInv /\ YieldsAtMostOnce /\ NothingSkipped /\ SeenIsBounded
    BY DEF Init, CursorInv, ClosedInv, MemoryInv, YieldsAtMostOnce, NothingSkipped, SeenIsBounded
  <1> QED
    BY <1>1, <1>2, <1>3 DEF IInv

-----------------------------------------------------------------------------
(***************************************************************************)
(* The type invariant is inductive by itself.                              *)
(***************************************************************************)
LEMMA TypeStep == TypeOK /\ [Next]_vars => TypeOK'
  <1> SUFFICES ASSUME TypeOK, [Next]_vars PROVE TypeOK'
    OBVIOUS
  <1> USE TimeAssumption DEF TypeOK, storeVars, streamVars
  <1>1. CASE Tick
    BY <1>1 DEF Tick, Time
  <1>2. ASSUME NEW w \in Writer, NEW batch \in SUBSET Cause, AddBatch(w, batch)
        PROVE  TypeOK'
    BY <1>2 DEF AddBatch, Call
  <1>3. ASSUME NEW w \in Writer, Commit(w) PROVE TypeOK'
    <2>1. Inserted(w) \subseteq Row
      BY DEF Inserted, Row, Call
    <2>2. IdleCall \in Call
      BY DEF IdleCall, Call, Time
    <2> QED
      BY <1>3, <2>1, <2>2 DEF Commit
  <1>4. ASSUME NEW w \in Writer, Abort(w) PROVE TypeOK'
    <2>1. IdleCall \in Call
      BY DEF IdleCall, Call, Time
    <2> QED
      BY <1>4, <2>1 DEF Abort
  <1>5. ASSUME NEW s \in Stream, NEW f \in Time, OpenStream(s, f) PROVE TypeOK'
    BY <1>5 DEF OpenStream
  <1>6. ASSUME NEW s \in Stream, ReadClock(s) PROVE TypeOK'
    BY <1>6 DEF ReadClock
  <1>7. ASSUME NEW s \in Stream, Query(s) PROVE TypeOK'
    BY <1>7 DEF Query
  <1>8. ASSUME NEW s \in Stream, NEW r \in pending[s], SkipSeen(s, r) PROVE TypeOK'
    BY <1>8 DEF SkipSeen
  <1>9. ASSUME NEW s \in Stream, NEW r \in pending[s], Yield(s, r) PROVE TypeOK'
    <2>1. r \in Row
      BY <1>9
    <2>2. [fed EXCEPT ![s][r.cause] = @ + 1] \in [Stream -> [Cause -> Nat]]
      BY <2>1 DEF Row
    <2> QED
      BY <1>9, <2>1, <2>2 DEF Yield
  <1>10. ASSUME NEW s \in Stream, Advance(s) PROVE TypeOK'
    <2>1. Horizon(s) > cursor[s] => Horizon(s) \in Time
      BY DEF Horizon, Time
    <2>2. Prune(seen[s], Horizon(s)) \in SUBSET Row
      BY DEF Prune
    <2> QED
      BY <1>10, <2>1, <2>2 DEF Advance
  <1>11. ASSUME NEW s \in Stream, TickerFires(s) PROVE TypeOK'
    BY <1>11 DEF TickerFires
  <1>12. ASSUME NEW s \in Stream, CloseStream(s) PROVE TypeOK'
    <2>1. 0 \in Time
      BY DEF Time
    <2> QED
      BY <1>12, <2>1 DEF CloseStream
  <1>13. CASE UNCHANGED vars
    BY <1>13 DEF vars
  <1> QED
    BY <1>1, <1>2, <1>3, <1>4, <1>5, <1>6, <1>7, <1>8, <1>9, <1>10, <1>11,
       <1>12, <1>13
    DEF Next, WriterNext, StreamNext, PollStep

\* TypeOK holds in every reachable state, whatever the timing.
THEOREM TypeCorrect == Spec => []TypeOK
  <1>1. Init => TypeOK
    BY InitIInv DEF IInv
  <1> QED
    BY <1>1, TypeStep, PTL DEF Spec

-----------------------------------------------------------------------------
(***************************************************************************)
(* So is the primary key: ON CONFLICT (id) DO NOTHING adds no second row.  *)
(***************************************************************************)
LEMMA RowsStep ==
    ASSUME TypeOK, OneRowPerCause, [Next]_vars
    PROVE  OneRowPerCause' /\ rows \subseteq rows'
  <1>1. CASE UNCHANGED rows
    BY <1>1 DEF OneRowPerCause
  <1>2. ASSUME NEW w \in Writer, Commit(w)
        PROVE  OneRowPerCause' /\ rows \subseteq rows'
    <2>1. rows' = rows \cup Inserted(w)
      BY <1>2 DEF Commit
    <2>2. \A q, r \in Inserted(w) : q.cause \notin StoredCauses /\ (q.cause = r.cause => q = r)
      BY DEF Inserted
    <2>3. \A q \in rows, r \in Inserted(w) : q.cause # r.cause
      BY <2>2 DEF StoredCauses
    <2> QED
      BY <2>1, <2>2, <2>3 DEF OneRowPerCause
  <1> QED
    BY <1>1, <1>2 DEF Next, WriterNext, StreamNext, PollStep, Tick, AddBatch, Abort,
       OpenStream, ReadClock, Query, SkipSeen, Yield, Advance, TickerFires,
       CloseStream, vars, storeVars

\* Rows are never changed, removed or stored twice (pkg/store/store.go:45-46),
\* however long inserts take.
THEOREM FirstRecordKept == Spec => KeepsFirstRecord
  <1>1. Init => TypeOK /\ OneRowPerCause
    BY InitIInv DEF IInv
  <1>2. (TypeOK /\ OneRowPerCause) /\ [Next]_vars => (TypeOK /\ OneRowPerCause)'
    BY TypeStep, RowsStep
  <1>3. TypeOK /\ OneRowPerCause /\ [Next]_vars => rows \subseteq rows' /\ OneRowPerCause'
    BY RowsStep
  <1> QED
    BY <1>1, <1>2, <1>3, PTL DEF Spec, KeepsFirstRecord

-----------------------------------------------------------------------------
(***************************************************************************)
(* The inductive step. The actions of writers and the clock touch no       *)
(* stream, and the actions of a stream touch no row: each lemma proves the *)
(* conjuncts of IInv' its actions can disturb.                             *)
(***************************************************************************)
StreamInv ==
    /\ CursorInv
    /\ ClosedInv
    /\ MemoryInv
    /\ SnapshotInv
    /\ YieldsAtMostOnce
    /\ NothingSkipped
    /\ SeenIsBounded

LEMMA TickStep == IInv /\ Tick => (TimesInv /\ StreamInv)'
  <1> SUFFICES ASSUME IInv, Tick PROVE (TimesInv /\ StreamInv)'
    OBVIOUS
  <1> USE TimeAssumption DEF Tick, IInv, TypeOK, storeVars, streamVars
  <1>1. now \in Int /\ now' = now + 1
    BY DEF Time
  <1>2. \A r \in rows : r.at \in Int
    BY DEF Row, Time
  <1>3. \A w \in Writer : call[w].at \in Int
    BY DEF Call, Time
  <1>4. TimesInv'
    BY <1>1, <1>2, <1>3 DEF TimesInv
  <1>5. \A s \in Stream : dbNow[s] \in Int
    BY DEF Time
  <1>6. CursorInv'
    BY <1>1, <1>5 DEF CursorInv, Horizon
  <1>7. (MemoryInv /\ SnapshotInv)'
    BY DEF MemoryInv, SnapshotInv, StoredCauses, Horizon
  <1>8. (ClosedInv /\ YieldsAtMostOnce /\ NothingSkipped /\ SeenIsBounded)'
    BY DEF ClosedInv, YieldsAtMostOnce, NothingSkipped, SeenIsBounded, Open
  <1> QED
    BY <1>4, <1>6, <1>7, <1>8 DEF StreamInv

\* A row a transaction adds is no older than any stream's horizon, and its
\* cause is one no stream has yielded.
LEMMA InsertedRows ==
    ASSUME IInv, InsertsSettleInTime, NEW w \in Writer, call[w].state = "open"
    PROVE  \A r \in Inserted(w) :
             /\ r \in Row
             /\ r.cause \notin StoredCauses
             /\ r.at = call[w].at
             /\ r.at <= now
             /\ \A s \in Stream : /\ r.at >= Horizon(s)
                                  /\ fed[s][r.cause] = 0
  <1> SUFFICES ASSUME NEW r \in Inserted(w)
               PROVE  /\ r \in Row
                      /\ r.cause \notin StoredCauses
                      /\ r.at = call[w].at
                      /\ r.at <= now
                      /\ \A s \in Stream : r.at >= Horizon(s) /\ fed[s][r.cause] = 0
    OBVIOUS
  <1> USE TimeAssumption
  <1>1. r \in Row /\ r.cause \notin StoredCauses /\ r.at = call[w].at /\ r.cause \in Cause
    BY DEF Inserted, Row, IInv, TypeOK, Call
  <1>2. r.at <= now /\ now <= r.at + MaxInsert
    BY <1>1 DEF IInv, TimesInv
  <1>3. ASSUME NEW s \in Stream PROVE r.at >= Horizon(s) /\ fed[s][r.cause] = 0
    <2>1. now \in Nat /\ dbNow[s] \in Nat /\ r.at \in Nat /\ dbNow[s] <= now
      BY <1>1 DEF IInv, TypeOK, Time, CursorInv, Row
    <2>2. r.at >= Horizon(s)
      BY <1>2, <2>1, InsertsSettleInTime DEF Horizon, InsertsSettleInTime
    <2>3. fed[s][r.cause] \in Nat /\ fed[s][r.cause] <= 1 /\ fed[s][r.cause] # 1
      BY <1>1 DEF IInv, TypeOK, YieldsAtMostOnce, MemoryInv
    <2> QED
      BY <2>2, <2>3
  <1> QED
    BY <1>1, <1>2, <1>3

LEMMA CommitStep ==
    ASSUME IInv, InsertsSettleInTime, NEW w \in Writer, Commit(w)
    PROVE  (TimesInv /\ StreamInv)'
  <1> USE TimeAssumption DEF Commit, storeVars, streamVars
  <1>1. \A r \in Inserted(w) :
           /\ r \in Row /\ r.cause \notin StoredCauses /\ r.at = call[w].at /\ r.at <= now
           /\ \A s \in Stream : r.at >= Horizon(s) /\ fed[s][r.cause] = 0
    BY InsertedRows
  <1>2. TimesInv'
    BY <1>1 DEF TimesInv, IInv, TypeOK, IdleCall
  <1>4. CursorInv'
    BY DEF CursorInv, IInv, Horizon
  <1>5. MemoryInv'
    BY <1>1 DEF MemoryInv, IInv, StoredCauses
  <1>6. SnapshotInv'
    BY <1>1 DEF SnapshotInv, IInv, Horizon
  <1>7. NothingSkipped'
    <2> SUFFICES ASSUME NEW s \in Stream, NEW r \in Inserted(w),
                        from[s] <= r.at, r.at < cursor[s]
                 PROVE  FALSE
      BY DEF NothingSkipped, IInv, Open
    <2>1. cursor[s] \in Int /\ from[s] \in Int /\ r.at \in Int /\ Horizon(s) \in Int
      BY <1>1 DEF IInv, TypeOK, Time, Row, Horizon
    <2>2. cursor[s] = from[s] \/ cursor[s] <= Horizon(s)
      BY DEF IInv, CursorInv
    <2>3. r.at >= Horizon(s)
      BY <1>1
    <2> QED
      BY <2>1, <2>2, <2>3
  <1>8. ClosedInv' /\ YieldsAtMostOnce' /\ SeenIsBounded'
    BY DEF ClosedInv, YieldsAtMostOnce, SeenIsBounded, IInv, Open
  <1> QED
    BY <1>2, <1>4, <1>5, <1>6, <1>7, <1>8 DEF StreamInv

LEMMA CallStep ==
    ASSUME IInv, NEW w \in Writer,
           (\E batch \in SUBSET Cause : AddBatch(w, batch)) \/ Abort(w)
    PROVE  (TimesInv /\ StreamInv)'
  <1> USE TimeAssumption DEF AddBatch, Abort, storeVars, streamVars
  <1>1. UNCHANGED <<now, rows, streamVars>>
    OBVIOUS
  <1>2. TimesInv'
    <2>1. now \in Nat
      BY DEF IInv, TypeOK, Time
    <2> QED
      BY <2>1 DEF TimesInv, IInv, TypeOK, IdleCall
  <1>3. StreamInv'
    BY <1>1 DEF IInv, StreamInv, CursorInv, ClosedInv, MemoryInv, SnapshotInv,
       YieldsAtMostOnce, NothingSkipped, SeenIsBounded, StoredCauses, Horizon, Open
  <1> QED
    BY <1>2, <1>3

-----------------------------------------------------------------------------
(***************************************************************************)
(* Steps of a stream: now, rows and call are unchanged, so TimesInv is.    *)
(***************************************************************************)
LEMMA StoreUnchanged ==
    ASSUME IInv, UNCHANGED storeVars
    PROVE  TimesInv'
  BY DEF IInv, storeVars, TimesInv

LEMMA OpenStep ==
    ASSUME IInv, NEW s \in Stream, NEW f \in Time, OpenStream(s, f)
    PROVE  StreamInv'
  <1> USE TimeAssumption DEF OpenStream, storeVars, IInv, TypeOK
  <1>1. /\ UNCHANGED <<now, rows, dbNow, pending, seen, fed>>
        /\ \A t \in Stream : t # s => /\ pc'[t] = pc[t]
                                      /\ from'[t] = from[t]
                                      /\ cursor'[t] = cursor[t]
        /\ pc'[s] = "poll" /\ from'[s] = f /\ cursor'[s] = f /\ f \in Int
        /\ pc[s] = "closed"
    BY DEF Time
  <1>2. pending[s] = {} /\ seen[s] = {} /\ \A c \in Cause : fed[s][c] = 0
    BY <1>1 DEF ClosedInv, Open
  <1> HIDE DEF OpenStream, TypeOK
  <1>3. CursorInv' /\ ClosedInv'
    BY <1>1 DEF CursorInv, ClosedInv, Horizon, Open
  <1>4. MemoryInv'
    BY <1>1, <1>2 DEF MemoryInv, StoredCauses, TypeOK, Row
  <1>5. SnapshotInv' /\ YieldsAtMostOnce'
    BY <1>1 DEF SnapshotInv, Horizon, YieldsAtMostOnce
  <1>6. NothingSkipped'
    <2>1. \A r \in rows : r.at \in Int
      BY DEF TypeOK, Row, Time
    <2> QED
      BY <1>1, <2>1 DEF NothingSkipped, Open
  <1>7. SeenIsBounded'
    BY <1>1, <1>2 DEF SeenIsBounded, Open
  <1> QED
    BY <1>3, <1>4, <1>5, <1>6, <1>7 DEF StreamInv

LEMMA CloseStep ==
    ASSUME IInv, NEW s \in Stream, CloseStream(s)
    PROVE  StreamInv'
  <1> USE TimeAssumption DEF CloseStream, storeVars, IInv
  <1>1. /\ UNCHANGED <<now, rows>>
        /\ now \in Nat
        /\ \A t \in Stream : t # s => /\ pc'[t] = pc[t]
                                      /\ from'[t] = from[t]
                                      /\ cursor'[t] = cursor[t]
                                      /\ dbNow'[t] = dbNow[t]
                                      /\ pending'[t] = pending[t]
                                      /\ seen'[t] = seen[t]
                                      /\ fed'[t] = fed[t]
        /\ pc'[s] = "closed" /\ from'[s] = 0 /\ cursor'[s] = 0 /\ dbNow'[s] = 0
        /\ pending'[s] = {} /\ seen'[s] = {} /\ \A c \in Cause : fed'[s][c] = 0
    BY DEF TypeOK, Time
  <1> HIDE DEF CloseStream
  <1>2. CursorInv' /\ ClosedInv'
    BY <1>1 DEF CursorInv, ClosedInv, Horizon, Open
  <1>3. MemoryInv'
    BY <1>1 DEF MemoryInv, StoredCauses, TypeOK, Row
  <1>4. SnapshotInv' /\ YieldsAtMostOnce'
    BY <1>1 DEF SnapshotInv, Horizon, YieldsAtMostOnce
  <1>5. NothingSkipped' /\ SeenIsBounded'
    BY <1>1 DEF NothingSkipped, SeenIsBounded, Open
  <1> QED
    BY <1>2, <1>3, <1>4, <1>5 DEF StreamInv

\* Reading the clock raises the horizon of a stream that is not reading rows.
LEMMA ReadClockStep ==
    ASSUME IInv, NEW s \in Stream, ReadClock(s)
    PROVE  StreamInv'
  <1> USE TimeAssumption DEF ReadClock, storeVars, IInv
  <1>1. /\ UNCHANGED <<now, rows, from, cursor, pending, seen, fed>>
        /\ \A t \in Stream : t # s => pc'[t] = pc[t] /\ dbNow'[t] = dbNow[t]
        /\ pc[s] = "poll" /\ pc'[s] = "query" /\ dbNow'[s] = now
        /\ \A t \in Stream : dbNow[t] \in Int /\ cursor[t] \in Int
        /\ now \in Int
    BY DEF TypeOK, Time
  <1> HIDE DEF ReadClock
  <1>2. CursorInv'
    BY <1>1 DEF CursorInv, Horizon
  <1>3. ClosedInv' /\ MemoryInv'
    BY <1>1 DEF ClosedInv, MemoryInv, StoredCauses, Open
  <1>4. SnapshotInv' /\ YieldsAtMostOnce'
    BY <1>1 DEF SnapshotInv, Horizon, YieldsAtMostOnce
  <1>5. NothingSkipped' /\ SeenIsBounded'
    BY <1>1 DEF NothingSkipped, SeenIsBounded, Open
  <1> QED
    BY <1>2, <1>3, <1>4, <1>5 DEF StreamInv

\* The result holds every row the snapshot claim is about.
LEMMA QueryStep ==
    ASSUME IInv, NEW s \in Stream, Query(s)
    PROVE  StreamInv'
  <1> USE TimeAssumption DEF Query, storeVars, IInv
  <1>1. /\ UNCHANGED <<now, rows, from, cursor, dbNow, seen, fed>>
        /\ \A t \in Stream : t # s => pc'[t] = pc[t] /\ pending'[t] = pending[t]
        /\ pc[s] = "query" /\ pc'[s] = "rows"
        /\ pending'[s] = {r \in rows : r.at >= cursor[s]}
    BY DEF TypeOK
  <1> HIDE DEF Query
  <1>2. CursorInv' /\ ClosedInv' /\ MemoryInv'
    BY <1>1 DEF CursorInv, ClosedInv, MemoryInv, StoredCauses, Horizon, Open
  <1>3. SnapshotInv' /\ YieldsAtMostOnce'
    BY <1>1 DEF SnapshotInv, Horizon, YieldsAtMostOnce
  <1>4. NothingSkipped' /\ SeenIsBounded'
    BY <1>1 DEF NothingSkipped, SeenIsBounded, Open
  <1> QED
    BY <1>2, <1>3, <1>4 DEF StreamInv

LEMMA TickerStep ==
    ASSUME IInv, NEW s \in Stream, TickerFires(s)
    PROVE  StreamInv'
  <1>1. /\ UNCHANGED <<now, rows, from, cursor, dbNow, pending, seen, fed>>
        /\ \A t \in Stream : t # s => pc'[t] = pc[t]
        /\ pc[s] = "wait" /\ pc'[s] = "poll"
    BY DEF TickerFires, storeVars, IInv, TypeOK
  <1> QED
    BY <1>1 DEF IInv, StreamInv, CursorInv, ClosedInv, MemoryInv, SnapshotInv,
       YieldsAtMostOnce, NothingSkipped, SeenIsBounded, StoredCauses, Horizon, Open

LEMMA SkipStep ==
    ASSUME IInv, NEW s \in Stream, NEW r \in pending[s], SkipSeen(s, r)
    PROVE  StreamInv'
  <1> USE DEF IInv
  <1>1. /\ UNCHANGED <<now, rows, pc, from, cursor, dbNow, seen, fed>>
        /\ \A t \in Stream : t # s => pending'[t] = pending[t]
        /\ pc[s] = "rows"
        /\ pending'[s] = pending[s] \ {r}
        /\ r.cause \in CausesOf(seen[s])
    BY DEF SkipSeen, storeVars, TypeOK
  <1>2. fed[s][r.cause] = 1
    BY <1>1 DEF MemoryInv, CausesOf
  <1>3. CursorInv' /\ ClosedInv' /\ MemoryInv'
    BY <1>1 DEF CursorInv, ClosedInv, MemoryInv, StoredCauses, Horizon, Open
  <1>4. SnapshotInv' /\ YieldsAtMostOnce'
    BY <1>1, <1>2 DEF SnapshotInv, Horizon, YieldsAtMostOnce
  <1>5. NothingSkipped' /\ SeenIsBounded'
    BY <1>1 DEF NothingSkipped, SeenIsBounded, Open
  <1> QED
    BY <1>3, <1>4, <1>5 DEF StreamInv

\* A row that is not in seen has not been yielded: seen keeps every yielded
\* row the query returns.
LEMMA YieldStep ==
    ASSUME IInv, NEW s \in Stream, NEW r \in pending[s], Yield(s, r)
    PROVE  StreamInv'
  <1> USE DEF IInv
  <1>1. /\ UNCHANGED <<now, rows, pc, from, cursor, dbNow>>
        /\ \A t \in Stream : t # s => /\ pending'[t] = pending[t]
                                      /\ seen'[t] = seen[t]
                                      /\ fed'[t] = fed[t]
        /\ pc[s] = "rows"
        /\ pending'[s] = pending[s] \ {r}
        /\ seen'[s] = seen[s] \cup {r}
        /\ r.cause \notin CausesOf(seen[s])
    BY DEF Yield, storeVars, TypeOK
  <1>2. r \in rows /\ r \in Row /\ r.cause \in Cause /\ r.at >= cursor[s]
    BY DEF MemoryInv, TypeOK, Row
  <1>3. fed[s][r.cause] = 0
    <2>1. fed[s][r.cause] # 1
      BY <1>1, <1>2 DEF MemoryInv, CausesOf
    <2>2. fed[s][r.cause] \in Nat /\ fed[s][r.cause] <= 1
      BY <1>2 DEF TypeOK, YieldsAtMostOnce
    <2> QED
      BY <2>1, <2>2
  <1>4. /\ fed'[s][r.cause] = 1
        /\ \A c \in Cause : c # r.cause => fed'[s][c] = fed[s][c]
    BY <1>2, <1>3 DEF Yield, TypeOK
  <1>5. \A q \in rows : /\ q.cause \in Cause
                        /\ q.cause = r.cause => q = r
    BY <1>2 DEF OneRowPerCause, TypeOK, Row
  <1>6. CursorInv' /\ ClosedInv'
    BY <1>1 DEF CursorInv, ClosedInv, Horizon, Open
  <1>7. MemoryInv'
    <2>1. \A t \in Stream : seen'[t] \subseteq rows /\ pending'[t] \subseteq {q \in rows : q.at >= cursor[t]}
      BY <1>1, <1>2 DEF MemoryInv
    <2>2. \A t \in Stream : \A q \in seen'[t] : fed'[t][q.cause] = 1
      BY <1>1, <1>4, <1>5, <2>1 DEF MemoryInv
    <2>3. \A t \in Stream : \A q \in rows :
             fed'[t][q.cause] = 1 /\ q.at >= cursor[t] => q \in seen'[t]
      BY <1>1, <1>4, <1>5 DEF MemoryInv
    <2>4. \A t \in Stream : \A c \in Cause : fed'[t][c] = 1 => c \in StoredCauses
      BY <1>1, <1>2, <1>4 DEF MemoryInv, StoredCauses
    <2> QED
      BY <1>1, <2>1, <2>2, <2>3, <2>4 DEF MemoryInv, StoredCauses
  <1>8. SnapshotInv'
    BY <1>1, <1>4, <1>5 DEF SnapshotInv, Horizon
  <1>9. YieldsAtMostOnce'
    BY <1>1, <1>4 DEF YieldsAtMostOnce
  <1>10. NothingSkipped' /\ SeenIsBounded'
    BY <1>1, <1>2, <1>3, <1>4, <1>5 DEF NothingSkipped, SeenIsBounded, Open
  <1> QED
    BY <1>6, <1>7, <1>8, <1>9, <1>10 DEF StreamInv

\* The cursor passes only rows that were in the result or in seen.
LEMMA AdvanceStep ==
    ASSUME IInv, NEW s \in Stream, Advance(s)
    PROVE  StreamInv'
  <1> USE TimeAssumption DEF IInv
  <1>1. /\ UNCHANGED <<now, rows, from, dbNow, pending, fed>>
        /\ \A t \in Stream : t # s => /\ pc'[t] = pc[t]
                                      /\ cursor'[t] = cursor[t]
                                      /\ seen'[t] = seen[t]
        /\ pc[s] = "rows" /\ pc'[s] = "wait"
        /\ pending[s] = {}
    BY DEF Advance, storeVars, TypeOK
  <1>2. /\ cursor[s] \in Int /\ Horizon(s) \in Int /\ from[s] \in Int
        /\ \A q \in rows : q.at \in Int
    BY DEF TypeOK, Time, Row, Horizon
  <1>3. CASE Horizon(s) > cursor[s]
    <2>1. cursor'[s] = Horizon(s) /\ seen'[s] = Prune(seen[s], Horizon(s))
      BY <1>3 DEF Advance, TypeOK
    <2>2. CursorInv' /\ ClosedInv'
      BY <1>1, <1>2, <1>3, <2>1 DEF CursorInv, ClosedInv, Horizon, Open
    <2>3. MemoryInv'
      BY <1>1, <1>2, <1>3, <2>1 DEF MemoryInv, StoredCauses, Prune
    <2>4. SnapshotInv' /\ YieldsAtMostOnce'
      BY <1>1 DEF SnapshotInv, Horizon, YieldsAtMostOnce
    <2>5. NothingSkipped'
      <3> SUFFICES ASSUME NEW q \in rows, from[s] <= q.at, q.at < Horizon(s)
                   PROVE  fed[s][q.cause] >= 1
        BY <1>1, <2>1 DEF NothingSkipped, Open
      <3>1. CASE q.at < cursor[s]
        BY <1>1, <3>1 DEF NothingSkipped, Open
      <3>2. CASE q.at >= cursor[s]
        BY <1>1, <1>2, <3>2 DEF SnapshotInv
      <3> QED
        BY <1>2, <3>1, <3>2
    <2>6. SeenIsBounded'
      <3>1. \A q \in seen[s] : q.at \in Int
        BY <1>2 DEF MemoryInv
      <3> QED
        BY <1>1, <1>2, <2>1, <3>1 DEF SeenIsBounded, Prune, Open
    <2> QED
      BY <2>2, <2>3, <2>4, <2>5, <2>6 DEF StreamInv
  <1>4. CASE ~(Horizon(s) > cursor[s])
    <2>1. UNCHANGED <<cursor, seen>>
      BY <1>4 DEF Advance
    <2>2. CursorInv' /\ ClosedInv' /\ MemoryInv'
      BY <1>1, <2>1 DEF CursorInv, ClosedInv, MemoryInv, StoredCauses, Horizon, Open
    <2>3. SnapshotInv' /\ YieldsAtMostOnce'
      BY <1>1, <2>1 DEF SnapshotInv, Horizon, YieldsAtMostOnce
    <2>4. NothingSkipped' /\ SeenIsBounded'
      BY <1>1, <2>1 DEF NothingSkipped, SeenIsBounded, Open
    <2> QED
      BY <2>2, <2>3, <2>4 DEF StreamInv
  <1> QED
    BY <1>3, <1>4

-----------------------------------------------------------------------------
LEMMA IInvStep ==
    ASSUME InsertsSettleInTime, IInv, [Next]_vars
    PROVE  IInv'
  <1>1. TypeOK' /\ OneRowPerCause'
    BY TypeStep, RowsStep DEF IInv
  <1>2. (TimesInv /\ StreamInv)'
    <2>1. CASE Tick
      BY <2>1, TickStep
    <2>2. ASSUME NEW w \in Writer, WriterNext(w)
          PROVE  (TimesInv /\ StreamInv)'
      BY <2>2, InsertsSettleInTime, CommitStep, CallStep DEF WriterNext
    <2>3. ASSUME NEW s \in Stream, StreamNext(s)
          PROVE  (TimesInv /\ StreamInv)'
      <3>1. UNCHANGED storeVars
        BY <2>3 DEF StreamNext, PollStep, OpenStream, ReadClock, Query, SkipSeen,
           Yield, Advance, TickerFires, CloseStream
      <3>2. StreamInv'
        BY <2>3, OpenStep, ReadClockStep, QueryStep, SkipStep, YieldStep,
           AdvanceStep, TickerStep, CloseStep DEF StreamNext, PollStep
      <3> QED
        BY <3>1, <3>2, StoreUnchanged
    <2>4. CASE UNCHANGED vars
      BY <2>4 DEF vars, IInv, StreamInv, TimesInv, CursorInv,
         ClosedInv, MemoryInv, SnapshotInv, YieldsAtMostOnce, NothingSkipped,
         SeenIsBounded, StoredCauses, Horizon, Open
    <2> QED
      BY <2>1, <2>2, <2>3, <2>4 DEF Next
  <1> QED
    BY <1>1, <1>2 DEF IInv, StreamInv

\* When every insert becomes visible within the settle window, the inductive
\* invariant holds in every reachable state.
THEOREM Invariance == InsertsSettleInTime /\ Spec => []IInv
  <1> SUFFICES ASSUME InsertsSettleInTime PROVE Spec => []IInv
    OBVIOUS
  <1>1. IInv /\ [Next]_vars => IInv'
    BY InsertsSettleInTime, IInvStep
  <1> QED
    BY <1>1, InitIInv, PTL DEF Spec

\* A Stream call yields a revocation at most once, for any number of
\* overlapping inserts and polls (store.go:148-153).
THEOREM AtMostOnce == InsertsSettleInTime /\ Spec => []YieldsAtMostOnce
  <1>1. IInv => YieldsAtMostOnce
    BY DEF IInv
  <1> QED
    BY <1>1, Invariance, PTL

\* The cursor leaves behind no row it has not yielded (store.go:22-25, 182-183).
THEOREM NoRowLeftBehind == InsertsSettleInTime /\ Spec => []NothingSkipped
  <1>1. IInv => NothingSkipped
    BY DEF IInv
  <1> QED
    BY <1>1, Invariance, PTL
\* seen holds only rows the next query can return (store.go:184-188).
THEOREM SeenBounded == InsertsSettleInTime /\ Spec => []SeenIsBounded
  <1>1. IInv => SeenIsBounded
    BY DEF IInv
  <1> QED
    BY <1>1, Invariance, PTL

-----------------------------------------------------------------------------
(***************************************************************************)
(* The store implements RevocationFeed: a commit that adds rows records    *)
(* them, opening and closing a stream start and stop it, a yield feeds a   *)
(* record no poll has fed before, and every other step stutters.           *)
(***************************************************************************)
LEMMA FeedInitStep == Init => Feed!FeedInit
  BY DEF Init, Feed!FeedInit, Open

LEMMA CommitRecords ==
    ASSUME TypeOK, NEW w \in Writer, Commit(w)
    PROVE  [Feed!FeedNext]_Feed!feedVars
  <1> DEFINE new == call[w].batch \ StoredCauses
  <1>1. UNCHANGED <<pc, from, fed>> /\ rows' = rows \cup Inserted(w)
    BY DEF Commit, streamVars
  <1>2. new \in SUBSET Cause /\ call[w].at \in Time
    BY DEF TypeOK, Call
  <1>3. CASE new = {}
    <2>1. rows' = rows
      BY <1>1, <1>3 DEF Inserted
    <2> QED
      BY <1>1, <2>1 DEF Feed!feedVars, Open
  <1>4. CASE new # {}
    <2>1. Feed!Record(new, call[w].at)
      BY <1>1, <1>4 DEF Feed!Record, Feed!Recorded, StoredCauses, Inserted, Open
    <2> QED
      BY <1>2, <2>1 DEF Feed!FeedNext
  <1> QED
    BY <1>3, <1>4

LEMMA OpenStarts ==
    ASSUME TypeOK, NEW s \in Stream, NEW f \in Time, OpenStream(s, f)
    PROVE  Feed!Start(s, f)
  <1>1. \A t \in Stream : pc'[t] = IF t = s THEN "poll" ELSE pc[t]
    BY DEF OpenStream, TypeOK
  <1>2. {t \in Stream : Open(t)}' = {t \in Stream : Open(t)} \cup {s}
    BY <1>1 DEF Open
  <1> QED
    BY <1>2 DEF OpenStream, Feed!Start, Open, storeVars

LEMMA CloseStops ==
    ASSUME TypeOK, NEW s \in Stream, CloseStream(s)
    PROVE  Feed!Stop(s)
  <1>1. \A t \in Stream : pc'[t] = IF t = s THEN "closed" ELSE pc[t]
    BY DEF CloseStream, TypeOK
  <1>2. {t \in Stream : Open(t)}' = {t \in Stream : Open(t)} \ {s}
    BY <1>1 DEF Open
  <1> QED
    BY <1>2 DEF CloseStream, Feed!Stop, Open, storeVars

LEMMA YieldFeeds ==
    ASSUME IInv, NEW s \in Stream, NEW r \in pending[s], Yield(s, r)
    PROVE  r \in rows /\ Feed!Feed(s, r)
  <1>1. r \in rows /\ r.cause \in Cause /\ r.at >= cursor[s]
    BY DEF IInv, MemoryInv, TypeOK, Row
  <1>2. r.at >= from[s]
    <2>1. r.at \in Int /\ cursor[s] \in Int /\ from[s] \in Int
      BY <1>1 DEF IInv, TypeOK, Row, Time
    <2> QED
      BY <1>1, <2>1 DEF IInv, CursorInv
  <1>3. fed[s][r.cause] = 0
    <2>1. fed[s][r.cause] # 1
      BY <1>1 DEF Yield, IInv, MemoryInv, CausesOf
    <2>2. fed[s][r.cause] \in Nat /\ fed[s][r.cause] <= 1
      BY <1>1 DEF IInv, TypeOK, YieldsAtMostOnce
    <2> QED
      BY <2>1, <2>2
  <1>4. fed' = [fed EXCEPT ![s][r.cause] = 1]
    BY <1>3 DEF Yield
  <1>5. pc[s] = "rows" /\ UNCHANGED <<rows, pc, from>>
    BY DEF Yield, storeVars
  <1> QED
    BY <1>1, <1>2, <1>3, <1>4, <1>5 DEF Feed!Feed, Feed!Wanted, Open

LEMMA FeedStep ==
    ASSUME IInv, [Next]_vars
    PROVE  [Feed!FeedNext]_Feed!feedVars
  <1> USE DEF IInv
  <1>1. ASSUME UNCHANGED <<rows, from, fed>>, \A s \in Stream : Open(s)' = Open(s)
        PROVE  UNCHANGED Feed!feedVars
    BY <1>1 DEF Feed!feedVars
  <1>2. CASE Tick \/ UNCHANGED vars
    BY <1>2, <1>1 DEF Tick, vars, streamVars, Open
  <1>3. ASSUME NEW w \in Writer, WriterNext(w)
        PROVE  [Feed!FeedNext]_Feed!feedVars
    <2>1. CASE Commit(w)
      BY <2>1, CommitRecords
    <2>2. CASE (\E batch \in SUBSET Cause : AddBatch(w, batch)) \/ Abort(w)
      BY <2>2, <1>1 DEF AddBatch, Abort, streamVars, Open
    <2> QED
      BY <1>3, <2>1, <2>2 DEF WriterNext
  <1>4. ASSUME NEW s \in Stream, StreamNext(s)
        PROVE  [Feed!FeedNext]_Feed!feedVars
    <2>1. CASE \E f \in Time : OpenStream(s, f)
      BY <2>1, OpenStarts DEF Feed!FeedNext
    <2>2. CASE CloseStream(s)
      BY <2>2, CloseStops DEF Feed!FeedNext
    <2>3. CASE \E r \in pending[s] : Yield(s, r)
      BY <2>3, YieldFeeds DEF Feed!FeedNext
    <2>4. CASE ReadClock(s) \/ Query(s) \/ Advance(s) \/ TickerFires(s)
                \/ \E r \in pending[s] : SkipSeen(s, r)
      <3>1. UNCHANGED <<rows, from, fed>>
        BY <2>4 DEF ReadClock, Query, Advance, TickerFires, SkipSeen, storeVars
      <3>2. \A t \in Stream : Open(t)' = Open(t)
        BY <2>4 DEF ReadClock, Query, Advance, TickerFires, SkipSeen, TypeOK, Open
      <3> QED
        BY <3>1, <3>2, <1>1
    <2> QED
      BY <1>4, <2>1, <2>2, <2>3, <2>4 DEF StreamNext, PollStep
  <1> QED
    BY <1>2, <1>3, <1>4 DEF Next

\* The Postgres store implements the RevocationStore contract.
THEOREM Refinement == InsertsSettleInTime /\ Spec => ImplementsFeed
  <1> SUFFICES ASSUME InsertsSettleInTime PROVE Spec => ImplementsFeed
    OBVIOUS
  <1>1. Spec => []IInv
    BY InsertsSettleInTime, Invariance
  <1> QED
    BY <1>1, FeedInitStep, FeedStep, PTL DEF Spec, ImplementsFeed, Feed!FeedSpec
=============================================================================
