-------------------------- MODULE MemoryStoreProofs --------------------------
(***************************************************************************)
(* Theorems about MemoryStore for every set of revocations, delegations,   *)
(* writers and streams, and every bound.                                   *)
(***************************************************************************)
EXTENDS MemoryStore, TLAPS

\* The lock is held by the writer that runs under it, and by no other.
LockInv == \A w \in Writer : call[w].state = "locked" <=> holder = w

\* A stream has read up to its sequence number, and has yet to yield records
\* of that reading only.
ReadInv ==
    \A s \in Stream :
        /\ sequence[s] <= nextSeq
        /\ \A e \in entries[s] : e.seq <= sequence[s] /\ from[s] <= e.at
        /\ pc[s] = "closed" => entries[s] = {} /\ sequence[s] = 0

\* What was yielded of a delegation with one revocation is still in the map,
\* and was read; what is still to be yielded is in the map and was not.
FedInv ==
    \A s \in Stream :
        /\ \A c \in Sole :
              fed[s][c] = 0 \/ ( /\ fed[s][c] = 1
                                 /\ pc[s] # "closed"
                                 /\ \E e \in records : e.cause = c /\ e.seq <= sequence[s])
        /\ \A e \in entries[s] :
              e.cause \in Sole => e \in records /\ fed[s][e.cause] = 0

IInv ==
    /\ TypeOK
    /\ LockInv
    /\ MapInv
    /\ ReadInv
    /\ NoLostWakeup
    /\ FedInv

LEMMA InitIInv == Init => IInv
  <1> SUFFICES ASSUME Init PROVE IInv
    OBVIOUS
  <1> USE FreeAssumption, BoundAssumption DEF Init, IdleCall
  <1>1. TypeOK
    BY DEF TypeOK, Time, Call, Entry
  <1>2. LockInv /\ MapInv /\ ReadInv
    BY DEF LockInv, MapInv, ReadInv
  <1>3. NoLostWakeup /\ FedInv
    BY DEF NoLostWakeup, FedInv, RecordsFrom, Sole
  <1> QED
    BY <1>1, <1>2, <1>3 DEF IInv

-----------------------------------------------------------------------------
(***************************************************************************)
(* The map: one record per delegation, one per sequence number.            *)
(***************************************************************************)
\* A key in the map has one record.
LEMMA KeyUnique ==
    ASSUME MapInv, NEW e \in records, NEW f \in records, Revoked[e.cause] = Revoked[f.cause]
    PROVE  e = f
  <1>1. f \in Get(Revoked[e.cause])
    BY DEF Get
  <1> QED
    BY <1>1 DEF MapInv

\* A record of a delegation with one revocation is replaced by no other.
LEMMA SoleKept ==
    ASSUME TypeOK, NEW c \in Cause, ~IsRepeat(c), NEW e \in records, e.cause \in Sole
    PROVE  e \in Others(c)
  BY DEF Sole, Others, IsRepeat, TypeOK, Entry

LEMMA MapStep ==
    ASSUME IInv, NEW c \in Cause, ~IsRepeat(c), NEW at \in Time,
           nextSeq' = nextSeq + 1,
           records' = Others(c) \cup {[cause |-> c, at |-> at, seq |-> nextSeq + 1]}
    PROVE  MapInv'
  <1> DEFINE new == [cause |-> c, at |-> at, seq |-> nextSeq + 1]
  <1> USE DEF IInv
  <1>1. nextSeq \in Nat /\ \A e \in records : e.seq \in Nat
    BY DEF TypeOK, Entry
  <1>2. \A e \in Others(c) : e \in records /\ Revoked[e.cause] # Revoked[c]
    BY DEF Others
  <1>3. \A e \in records' : 1 <= e.seq /\ e.seq <= nextSeq'
    BY <1>1, <1>2 DEF MapInv
  <1>4. ASSUME NEW e \in records', NEW f \in records',
               Revoked[e.cause] = Revoked[f.cause] \/ e.seq = f.seq
        PROVE  e = f
    <2>1. CASE e \in Others(c) /\ f \in Others(c)
      BY <1>2, <1>4, <2>1, KeyUnique DEF MapInv
    <2>2. CASE e \in Others(c) /\ f = new
      BY <1>1, <1>2, <1>4, <2>2 DEF MapInv
    <2>3. CASE e = new /\ f \in Others(c)
      BY <1>1, <1>2, <1>4, <2>3 DEF MapInv
    <2> QED
      BY <2>1, <2>2, <2>3
  <1>5. \A e \in records' : Get(Revoked[e.cause])' = {e}
    BY <1>4 DEF Get
  <1> QED
    BY <1>3, <1>4, <1>5 DEF MapInv

-----------------------------------------------------------------------------
(***************************************************************************)
(* Steps of writers.                                                       *)
(***************************************************************************)
LEMMA CallStep ==
    ASSUME IInv, NEW w \in Writer,
           (\E batch \in Batches : AddBatch(w, batch)) \/ Lock(w) \/ Unlock(w)
    PROVE  IInv'
  <1> USE FreeAssumption DEF IInv, streamVars
  <1>1. UNCHANGED <<records, nextSeq, now, pc, from, sequence, entries, fed>>
    BY DEF AddBatch, Lock, Unlock
  <1>2. TypeOK'
    <2>1. ASSUME NEW batch \in Batches, AddBatch(w, batch) PROVE TypeOK'
      <3>1. batch \in Seq(Cause)
        BY BoundAssumption DEF Batches
      <3> QED
        BY <2>1, <3>1 DEF AddBatch, TypeOK, Call
    <2>2. CASE Lock(w)
      BY <2>2 DEF Lock, TypeOK, Call
    <2>3. CASE Unlock(w)
      BY <2>3, BoundAssumption DEF Unlock, TypeOK, Call, IdleCall, Time
    <2> QED
      BY <2>1, <2>2, <2>3
  <1>3. LockInv'
    <2>1. \A u \in Writer \ {w} : call'[u] = call[u]
      BY DEF AddBatch, Lock, Unlock, TypeOK
    <2>2. ASSUME NEW batch \in Batches, AddBatch(w, batch) PROVE LockInv'
      <3>1. call[w].state = "idle" /\ call'[w].state = "stamped" /\ holder' = holder
        BY <2>2 DEF AddBatch, TypeOK
      <3> QED
        BY <2>1, <3>1 DEF LockInv
    <2>3. CASE Lock(w)
      <3>1. call[w] \in Call
        BY DEF TypeOK
      <3>2. call'[w].state = "locked" /\ holder = Free /\ holder' = w
        BY <2>3, <3>1 DEF Lock, TypeOK, Call
      <3> QED
        BY <2>1, <3>2 DEF LockInv
    <2>4. CASE Unlock(w)
      <3>1. call[w].state = "locked" /\ call'[w].state = "idle" /\ holder' = Free
        BY <2>4 DEF Unlock, TypeOK, IdleCall
      <3> QED
        BY <2>1, <3>1 DEF LockInv
    <2> QED
      BY <2>2, <2>3, <2>4
  <1>4. MapInv' /\ ReadInv' /\ FedInv'
    BY <1>1 DEF MapInv, Get, ReadInv, FedInv, Sole
  <1>5. NoLostWakeup'
    <2>1. CASE Unlock(w)
      BY <2>1 DEF Unlock, NoLostWakeup, TypeOK
    <2>2. CASE ~Unlock(w)
      BY <1>1, <2>2 DEF AddBatch, Lock, NoLostWakeup, RecordsFrom
    <2> QED
      BY <2>1, <2>2
  <1> QED
    BY <1>2, <1>3, <1>4, <1>5

LEMMA StoreNextStep ==
    ASSUME IInv, NEW w \in Writer, StoreNext(w)
    PROVE  IInv'
  <1> DEFINE c == call[w].batch[call[w].i]
             new == [cause |-> c, at |-> call[w].at, seq |-> nextSeq + 1]
  <1> USE FreeAssumption DEF IInv, streamVars
  <1>1. c \in Cause /\ call[w].at \in Time /\ nextSeq \in Nat
    BY DEF StoreNext, TypeOK, Call
  <1>2. UNCHANGED <<now, holder, pc, from, sequence, entries, notified, fed>>
    BY DEF StoreNext
  <1>3. /\ call' \in [Writer -> Call]
        /\ \A u \in Writer : call'[u].state = call[u].state
    <2>1. call[w] \in Call /\ call[w].i + 1 \in Nat \ {0}
      BY DEF TypeOK, Call
    <2>2. [call[w] EXCEPT !.i = @ + 1] \in Call
      BY <2>1 DEF Call
    <2>3. call' = [call EXCEPT ![w] = [call[w] EXCEPT !.i = @ + 1]]
      BY DEF StoreNext
    <2>4. [call[w] EXCEPT !.i = @ + 1].state = call[w].state
      BY <2>1 DEF Call
    <2> QED
      BY <2>2, <2>3, <2>4 DEF TypeOK
  <1>4. LockInv'
    BY <1>2, <1>3 DEF LockInv
  <1>5. NoLostWakeup'
    BY <1>2 DEF NoLostWakeup, StoreNext, LockInv
  <1>6. CASE IsRepeat(c)
    <2>1. UNCHANGED <<records, nextSeq>>
      BY <1>6 DEF StoreNext
    <2>2. TypeOK'
      BY <1>2, <1>3, <2>1 DEF TypeOK
    <2>3. MapInv' /\ ReadInv' /\ FedInv'
      BY <1>2, <2>1 DEF MapInv, Get, ReadInv, FedInv, Sole
    <2> QED
      BY <1>4, <1>5, <2>2, <2>3
  <1>7. CASE ~IsRepeat(c)
    <2>1. nextSeq' = nextSeq + 1 /\ records' = Others(c) \cup {new}
      BY <1>7 DEF StoreNext
    <2>2. TypeOK'
      BY <1>1, <1>2, <1>3, <2>1 DEF TypeOK, Entry, Others
    <2>3. MapInv'
      BY <1>1, <1>7, <2>1, MapStep
    <2>4. ReadInv'
      BY <1>1, <1>2, <2>1 DEF ReadInv, TypeOK
    <2>5. FedInv'
      <3>1. \A e \in records : e.cause \in Sole => e \in records'
        BY <1>1, <1>7, <2>1, SoleKept
      <3> QED
        BY <1>2, <3>1 DEF FedInv, Sole
    <2> QED
      BY <1>4, <1>5, <2>2, <2>3, <2>4, <2>5
  <1> QED
    BY <1>6, <1>7

-----------------------------------------------------------------------------
(***************************************************************************)
(* Steps of streams. Reading finds nothing that was yielded: it was read   *)
(* before, and has a sequence number at or below the stream's.             *)
(***************************************************************************)
LEMMA ReadingStep ==
    ASSUME IInv, NEW s \in Stream,
           (\E f \in Time : Subscribe(s, f)) \/ Read(s)
    PROVE  IInv'
  <1> USE DEF IInv, mapVars
  <1>1. UNCHANGED <<now, records, nextSeq, holder, call, notified, fed>>
    BY DEF Subscribe, Read
  <1>2. TypeOK'
    <2>1. \A seq, f : RecordsFrom(seq, f) \in SUBSET Entry
      BY DEF RecordsFrom, TypeOK
    <2>2. ASSUME NEW f \in Time, Subscribe(s, f) PROVE TypeOK'
      BY <2>1, <2>2 DEF Subscribe, TypeOK
    <2>3. CASE Read(s)
      BY <2>1, <2>3 DEF Read, TypeOK
    <2> QED
      BY <2>2, <2>3
  <1>3. LockInv' /\ MapInv'
    BY <1>1 DEF LockInv, MapInv, Get
  <1>4. \A t \in Stream \ {s} :
           /\ pc'[t] = pc[t] /\ from'[t] = from[t]
           /\ sequence'[t] = sequence[t] /\ entries'[t] = entries[t]
    BY DEF Subscribe, Read, TypeOK
  <1>5. /\ pc'[s] = "emit" /\ sequence'[s] = nextSeq
        /\ entries'[s] = RecordsFrom(sequence[s], from'[s])
    BY DEF Subscribe, Read, TypeOK, ReadInv
  <1>6. \A e \in entries'[s] : /\ e \in records /\ e.seq \in Nat /\ e.at \in Time
                               /\ e.seq > sequence[s] /\ ~(e.at < from'[s])
    BY <1>5 DEF RecordsFrom, TypeOK, Entry
  <1>7. ReadInv'
    BY <1>1, <1>2, <1>4, <1>5, <1>6 DEF ReadInv, MapInv, TypeOK, Time
  <1>8. NoLostWakeup'
    <2>1. RecordsFrom(sequence[s], from[s])' = {}
      BY <1>1, <1>5 DEF RecordsFrom, MapInv, TypeOK, Entry
    <2> QED
      BY <1>1, <1>4, <2>1 DEF NoLostWakeup, RecordsFrom
  <1>9. FedInv'
    <2>1. ASSUME NEW e \in entries'[s], e.cause \in Sole
          PROVE  fed[s][e.cause] = 0
      <3>1. ASSUME NEW f \in records, f.cause = e.cause PROVE f.seq > sequence[s]
        BY <1>6, <3>1, KeyUnique
      <3> QED
        BY <1>6, <2>1, <3>1 DEF FedInv, TypeOK, Entry
    <2>2. sequence[s] <= sequence'[s] /\ sequence[s] \in Nat /\ sequence'[s] \in Nat
      BY <1>5 DEF ReadInv, TypeOK
    <2>3. \A e \in records : e.seq <= sequence[s] => e.seq <= sequence'[s]
      BY <2>2 DEF TypeOK, Entry
    <2> QED
      BY <1>1, <1>4, <1>5, <1>6, <2>1, <2>3 DEF FedInv, Sole
  <1> QED
    BY <1>2, <1>3, <1>7, <1>8, <1>9

LEMMA YieldStep ==
    ASSUME IInv, NEW s \in Stream, NEW e \in entries[s], Yield(s, e)
    PROVE  IInv'
  <1> USE DEF IInv, mapVars
  <1>1. UNCHANGED <<now, records, nextSeq, holder, call, notified, pc, from, sequence>>
    BY DEF Yield
  <1>2. e \in Entry
    BY DEF TypeOK
  <1>3. TypeOK'
    <2>1. [fed EXCEPT ![s][e.cause] = @ + 1] \in [Stream -> [Cause -> Nat]]
      BY <1>2 DEF TypeOK, Entry
    <2> QED
      BY <2>1 DEF TypeOK, Yield
  <1>4. LockInv' /\ MapInv' /\ NoLostWakeup'
    BY <1>1 DEF LockInv, MapInv, Get, NoLostWakeup, RecordsFrom
  <1>5. ReadInv'
    BY <1>1 DEF ReadInv, Yield, TypeOK
  <1>6. FedInv'
    <2>1. \A f \in entries'[s] : f \in entries[s] /\ f # e
      BY DEF Yield, TypeOK
    <2>2. \A f \in entries'[s] : e.cause \in Sole => f.cause # e.cause
      BY <2>1, KeyUnique DEF FedInv
    <2>3. \A c \in Cause \ {e.cause} : fed'[s][c] = fed[s][c]
      BY DEF Yield, TypeOK
    <2>4. e.cause \in Sole => fed'[s][e.cause] = 1 /\ e \in records /\ e.seq <= sequence[s]
      BY <1>2 DEF Yield, TypeOK, FedInv, Entry, ReadInv
    <2>5. \A t \in Stream \ {s} : fed'[t] = fed[t] /\ entries'[t] = entries[t]
      BY DEF Yield, TypeOK
    <2>6. \A f \in entries[s] : f.cause \in Cause
      BY DEF TypeOK, Entry
    <2>7. pc[s] # "closed"
      BY DEF Yield
    <2> QED
      BY <1>1, <2>1, <2>2, <2>3, <2>4, <2>5, <2>6, <2>7 DEF FedInv, Sole
  <1> QED
    BY <1>3, <1>4, <1>5, <1>6

LEMMA WaitingStep ==
    ASSUME IInv, NEW s \in Stream, Emitted(s) \/ Wake(s)
    PROVE  IInv'
  <1> USE DEF IInv, mapVars
  <1>1. UNCHANGED <<now, records, nextSeq, holder, call, from, sequence, entries, fed>>
    BY DEF Emitted, Wake
  <1>2. TypeOK'
    BY DEF Emitted, Wake, TypeOK
  <1>3. LockInv' /\ MapInv'
    BY <1>1 DEF LockInv, MapInv, Get
  <1>4. \A t \in Stream : pc'[t] = "closed" <=> pc[t] = "closed"
    BY DEF Emitted, Wake, TypeOK
  <1>5. ReadInv' /\ FedInv'
    BY <1>1, <1>4 DEF ReadInv, FedInv, Sole
  <1>6. NoLostWakeup'
    BY DEF NoLostWakeup, RecordsFrom, Emitted, Wake, TypeOK
  <1> QED
    BY <1>2, <1>3, <1>5, <1>6

LEMMA UnsubscribeStep ==
    ASSUME IInv, NEW s \in Stream, Unsubscribe(s)
    PROVE  IInv'
  <1> USE DEF IInv, mapVars, Unsubscribe
  <1>1. UNCHANGED <<now, records, nextSeq, holder, call>>
    OBVIOUS
  <1>2. TypeOK'
    BY BoundAssumption DEF TypeOK, Time
  <1>3. LockInv' /\ MapInv'
    BY DEF LockInv, MapInv, Get
  <1>4. ReadInv'
    BY DEF ReadInv, TypeOK
  <1>5. NoLostWakeup'
    BY DEF NoLostWakeup, RecordsFrom, TypeOK
  <1>6. FedInv'
    <2>1. \A t \in Stream \ {s} :
             /\ pc'[t] = pc[t] /\ sequence'[t] = sequence[t]
             /\ entries'[t] = entries[t] /\ fed'[t] = fed[t]
      BY DEF TypeOK
    <2>2. entries'[s] = {} /\ fed'[s] = [c \in Cause |-> 0]
      BY DEF TypeOK
    <2> QED
      BY <2>1, <2>2 DEF FedInv, Sole
  <1> QED
    BY <1>2, <1>3, <1>4, <1>5, <1>6

LEMMA IInvStep == IInv /\ [Next]_vars => IInv'
  <1> SUFFICES ASSUME IInv, [Next]_vars PROVE IInv'
    OBVIOUS
  <1>1. ASSUME Tick \/ UNCHANGED vars PROVE IInv'
    <2>1. UNCHANGED <<records, nextSeq, holder, call, pc, from, sequence, entries, notified, fed>>
      BY <1>1 DEF Tick, vars, streamVars
    <2>2. TypeOK'
      BY <1>1, <2>1, BoundAssumption DEF IInv, TypeOK, Tick, vars, Time
    <2>3. (LockInv /\ MapInv /\ ReadInv)'
      BY <2>1 DEF IInv, LockInv, MapInv, Get, ReadInv
    <2>4. (NoLostWakeup /\ FedInv)'
      BY <2>1 DEF IInv, NoLostWakeup, RecordsFrom, FedInv, Sole
    <2> QED
      BY <2>2, <2>3, <2>4 DEF IInv
  <1>2. ASSUME NEW w \in Writer, (\E batch \in Batches : AddBatch(w, batch)) \/ LockedStep(w)
        PROVE  IInv'
    BY <1>2, CallStep, StoreNextStep DEF LockedStep
  <1>3. ASSUME NEW s \in Stream,
               (\E f \in Time : Subscribe(s, f)) \/ StreamStep(s) \/ Unsubscribe(s)
        PROVE  IInv'
    BY <1>3, ReadingStep, YieldStep, WaitingStep, UnsubscribeStep DEF StreamStep
  <1> QED
    BY <1>1, <1>2, <1>3 DEF Next

-----------------------------------------------------------------------------
\* The inductive invariant holds in every reachable state.
THEOREM Invariance == Spec => []IInv
  BY InitIInv, IInvStep, PTL DEF Spec

\* Every variable keeps its type.
THEOREM TypeCorrect == Spec => []TypeOK
  <1>1. IInv => TypeOK
    BY DEF IInv
  <1> QED
    BY <1>1, Invariance, PTL

\* No interleaving of AddBatch with a stream that reads, drains its channel or
\* goes to wait loses the notification (store.go:86-91, 146-154).
THEOREM WakeupKept == Spec => []NoLostWakeup
  <1>1. IInv => NoLostWakeup
    BY DEF IInv
  <1> QED
    BY <1>1, Invariance, PTL

-----------------------------------------------------------------------------
(***************************************************************************)
(* For delegations with one revocation the store implements                *)
(* RevocationFeed: storing one records it, Subscribe and Unsubscribe start *)
(* and stop a stream, a yield feeds, and every other step stutters.        *)
(***************************************************************************)
LEMMA FeedInitStep == Init => Feed!FeedInit
  BY DEF Init, Feed!FeedInit, Open, SoleRecords, SoleFed, Sole

LEMMA StoringRecords ==
    ASSUME IInv, NEW w \in Writer, StoreNext(w)
    PROVE  [Feed!FeedNext]_Feed!feedVars
  <1> DEFINE c == call[w].batch[call[w].i]
             new == [cause |-> c, at |-> call[w].at, seq |-> nextSeq + 1]
  <1> USE DEF IInv
  <1>1. c \in Cause /\ call[w].at \in Time
    BY DEF StoreNext, TypeOK, Call
  <1>2. UNCHANGED <<pc, from, fed>>
    BY DEF StoreNext, streamVars
  <1>3. UNCHANGED <<{s \in Stream : Open(s)}, from, SoleFed>>
    BY <1>2 DEF Open, SoleFed, Sole
  <1>4. CASE IsRepeat(c)
    <2>1. records' = records
      BY <1>4 DEF StoreNext
    <2>2. SoleRecords' = SoleRecords
      BY <2>1 DEF SoleRecords, Sole
    <2> QED
      BY <1>3, <2>2 DEF Feed!feedVars
  <1>5. CASE ~IsRepeat(c)
    <2>1. records' = Others(c) \cup {new}
      BY <1>5 DEF StoreNext
    <2>2. {f \in records : f.cause \in Sole} = {f \in Others(c) : f.cause \in Sole}
      BY <1>1, <1>5, SoleKept DEF Others
    <2>3. CASE c \notin Sole
      <3>1. {f \in records : f.cause \in Sole}' = {f \in records : f.cause \in Sole}
        BY <2>1, <2>2, <2>3 DEF Sole
      <3>2. SoleRecords' = SoleRecords
        BY <3>1 DEF SoleRecords
      <3> QED
        BY <1>3, <3>2 DEF Feed!feedVars
    <2>4. CASE c \in Sole
      <3>1. {f \in records : f.cause \in Sole}' = {f \in records : f.cause \in Sole} \cup {new}
        BY <2>1, <2>2, <2>4 DEF Sole
      <3>2. SoleRecords' = SoleRecords \cup {[cause |-> d, at |-> call[w].at] : d \in {c}}
        <4> DEFINE rec(e) == [cause |-> e.cause, at |-> e.at]
                   kept == {f \in records : f.cause \in Sole}
        <4>1. {rec(e) : e \in kept \cup {new}} = {rec(e) : e \in kept} \cup {rec(new)}
          OBVIOUS
        <4>2. rec(new) = [cause |-> c, at |-> call[w].at]
          OBVIOUS
        <4> HIDE DEF rec, kept
        <4>3. SoleRecords = {rec(e) : e \in kept}
          BY DEF SoleRecords, rec, kept
        <4>4. SoleRecords' = {rec(e) : e \in kept'}
          BY DEF SoleRecords, rec, kept
        <4>5. kept' = kept \cup {new}
          BY <3>1 DEF kept
        <4> QED
          BY <4>1, <4>2, <4>3, <4>4, <4>5
      <3>3. {c} \cap Feed!Recorded = {}
        BY <1>5 DEF Feed!Recorded, SoleRecords, IsRepeat
      <3>4. Feed!Record({c}, call[w].at)
        BY <1>3, <3>2, <3>3 DEF Feed!Record
      <3> QED
        BY <1>1, <2>4, <3>4 DEF Feed!FeedNext
    <2> QED
      BY <2>3, <2>4
  <1> QED
    BY <1>4, <1>5

LEMMA SubscribeStarts ==
    ASSUME TypeOK, NEW s \in Stream, NEW f \in Time, Subscribe(s, f)
    PROVE  Feed!Start(s, f)
  <1>1. \A t \in Stream : pc'[t] = IF t = s THEN "emit" ELSE pc[t]
    BY DEF Subscribe, TypeOK
  <1>2. {t \in Stream : Open(t)}' = {t \in Stream : Open(t)} \cup {s}
    BY <1>1 DEF Open
  <1>3. UNCHANGED <<SoleRecords, SoleFed>>
    BY DEF Subscribe, mapVars, SoleRecords, SoleFed, Sole
  <1> QED
    BY <1>2, <1>3 DEF Subscribe, Feed!Start, Open

LEMMA UnsubscribeStops ==
    ASSUME TypeOK, NEW s \in Stream, Unsubscribe(s)
    PROVE  Feed!Stop(s)
  <1>1. \A t \in Stream : pc'[t] = IF t = s THEN "closed" ELSE pc[t]
    BY DEF Unsubscribe, TypeOK
  <1>2. {t \in Stream : Open(t)}' = {t \in Stream : Open(t)} \ {s}
    BY <1>1 DEF Open
  <1>3. UNCHANGED SoleRecords
    BY DEF Unsubscribe, mapVars, SoleRecords, Sole
  <1>4. SoleFed' = [SoleFed EXCEPT ![s] = [c \in Sole |-> 0]]
    <2>1. \A t \in Stream, c \in Sole : fed'[t][c] = IF t = s THEN 0 ELSE fed[t][c]
      BY DEF Unsubscribe, TypeOK, Sole
    <2>2. SoleFed' = [t \in Stream |-> [c \in Sole |-> IF t = s THEN 0 ELSE fed[t][c]]]
      BY <2>1 DEF SoleFed, Sole
    <2>3. \A t \in Stream : [c \in Sole |-> IF t = s THEN 0 ELSE fed[t][c]] =
              IF t = s THEN [c \in Sole |-> 0] ELSE [c \in Sole |-> fed[t][c]]
      OBVIOUS
    <2>4. [SoleFed EXCEPT ![s] = [c \in Sole |-> 0]] =
              [t \in Stream |-> IF t = s THEN [c \in Sole |-> 0] ELSE [c \in Sole |-> fed[t][c]]]
      BY DEF SoleFed
    <2> QED
      BY <2>2, <2>3, <2>4
  <1> QED
    BY <1>2, <1>3, <1>4 DEF Unsubscribe, Feed!Stop, Open

LEMMA YieldFeeds ==
    ASSUME IInv, NEW s \in Stream, NEW e \in entries[s], Yield(s, e)
    PROVE  [Feed!FeedNext]_Feed!feedVars
  <1> DEFINE r == [cause |-> e.cause, at |-> e.at]
  <1> USE DEF IInv
  <1>1. e.cause \in Cause /\ e.at \in Int /\ from[s] \in Int
    BY DEF TypeOK, Entry, Time
  <1>2. UNCHANGED <<records, pc, from>> /\ pc[s] = "emit"
    BY DEF Yield, mapVars
  <1>3. UNCHANGED <<SoleRecords, {t \in Stream : Open(t)}, from>>
    BY <1>2 DEF SoleRecords, Open, Sole
  <1>4. \A t \in Stream, c \in Cause :
           fed'[t][c] = IF t = s /\ c = e.cause THEN fed[s][c] + 1 ELSE fed[t][c]
    BY <1>1 DEF Yield, TypeOK
  <1>5. CASE e.cause \notin Sole
    <2>1. SoleFed' = SoleFed
      BY <1>4, <1>5 DEF SoleFed, Sole
    <2> QED
      BY <1>3, <2>1 DEF Feed!feedVars
  <1>6. CASE e.cause \in Sole
    <2>1. e \in records /\ fed[s][e.cause] = 0
      BY <1>6 DEF FedInv
    <2>2. r \in SoleRecords
      BY <1>6, <2>1 DEF SoleRecords
    <2>3. r.at >= from[s] /\ SoleFed[s][r.cause] = 0
      BY <1>1, <1>6, <2>1 DEF SoleFed, ReadInv
    <2>4. SoleFed' = [SoleFed EXCEPT ![s][r.cause] = 1]
      <3>1. \A t \in Stream, c \in Sole :
               fed'[t][c] = IF t = s /\ c = e.cause THEN 1 ELSE fed[t][c]
        BY <1>4, <2>1 DEF Sole
      <3>2. SoleFed' = [t \in Stream |-> [c \in Sole |->
                          IF t = s /\ c = e.cause THEN 1 ELSE fed[t][c]]]
        BY <3>1 DEF SoleFed, Sole
      <3>3. [SoleFed EXCEPT ![s][r.cause] = 1] =
              [t \in Stream |-> [c \in Sole |->
                  IF t = s /\ c = e.cause THEN 1 ELSE fed[t][c]]]
        BY <1>6 DEF SoleFed
      <3> QED
        BY <3>2, <3>3
    <2>5. Feed!Feed(s, r)
      BY <1>2, <1>3, <2>3, <2>4 DEF Feed!Feed, Feed!Wanted, Open
    <2> QED
      BY <2>2, <2>5 DEF Feed!FeedNext
  <1> QED
    BY <1>5, <1>6

LEMMA FeedStep ==
    ASSUME IInv, [Next]_vars
    PROVE  [Feed!FeedNext]_Feed!feedVars
  <1> USE DEF IInv
  <1>1. ASSUME UNCHANGED <<records, from, fed>>, \A s \in Stream : Open(s)' = Open(s)
        PROVE  UNCHANGED Feed!feedVars
    BY <1>1 DEF Feed!feedVars, SoleRecords, SoleFed, Sole
  <1>2. CASE Tick \/ UNCHANGED vars
    BY <1>2, <1>1 DEF Tick, vars, streamVars, Open
  <1>3. ASSUME NEW w \in Writer, (\E batch \in Batches : AddBatch(w, batch)) \/ LockedStep(w)
        PROVE  [Feed!FeedNext]_Feed!feedVars
    <2>1. CASE StoreNext(w)
      BY <2>1, StoringRecords
    <2>2. CASE (\E batch \in Batches : AddBatch(w, batch)) \/ Lock(w) \/ Unlock(w)
      BY <2>2, <1>1 DEF AddBatch, Lock, Unlock, streamVars, Open
    <2> QED
      BY <1>3, <2>1, <2>2 DEF LockedStep
  <1>4. ASSUME NEW s \in Stream,
               (\E f \in Time : Subscribe(s, f)) \/ StreamStep(s) \/ Unsubscribe(s)
        PROVE  [Feed!FeedNext]_Feed!feedVars
    <2>1. CASE \E f \in Time : Subscribe(s, f)
      BY <2>1, SubscribeStarts DEF Feed!FeedNext
    <2>2. CASE Unsubscribe(s)
      BY <2>2, UnsubscribeStops DEF Feed!FeedNext
    <2>3. CASE \E e \in entries[s] : Yield(s, e)
      BY <2>3, YieldFeeds
    <2>4. CASE Emitted(s) \/ Wake(s) \/ Read(s)
      <3>1. UNCHANGED <<records, from, fed>>
        BY <2>4 DEF Emitted, Wake, Read, mapVars
      <3>2. \A t \in Stream : Open(t)' = Open(t)
        BY <2>4 DEF Emitted, Wake, Read, TypeOK, Open
      <3> QED
        BY <3>1, <3>2, <1>1
    <2> QED
      BY <1>4, <2>1, <2>2, <2>3, <2>4 DEF StreamStep
  <1> QED
    BY <1>2, <1>3, <1>4 DEF Next

\* The memory store implements the RevocationStore contract for delegations
\* with one revocation, beside others whose revocations replace each other.
THEOREM Refinement == Spec => ImplementsFeed
  BY Invariance, FeedInitStep, FeedStep, PTL DEF Spec, ImplementsFeed, Feed!FeedSpec
=============================================================================
