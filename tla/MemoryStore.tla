---------------------------- MODULE MemoryStore ----------------------------
(***************************************************************************)
(* The in-memory revocation store (pkg/store/memory/store.go): a map from  *)
(* revoked delegation to its current record, guarded by a read-write lock, *)
(* and streams woken through channels that hold one notification.          *)
(*                                                                         *)
(* AddBatch reads the time before it takes the lock, so records are        *)
(* sequenced in lock order and not in time order. Under the lock it stores *)
(* one revocation per step; nobody else reads until it unlocks.            *)
(***************************************************************************)
EXTENDS Integers, Sequences

CONSTANTS
    Cause,      \* revocation invocations
    Delegation, \* revoked delegations
    Revoked,    \* the delegation at the end of each cause's path
    Writer,     \* concurrent callers of AddBatch
    Stream,     \* concurrent callers of Stream
    MaxBatch,   \* bound on the revocations of a batch
    MaxSeq,     \* no AddBatch starts once this many records were stored
    MaxTime     \* bound on the clock

ASSUME RevokedAssumption == Revoked \in [Cause -> Delegation]
ASSUME BoundAssumption == MaxBatch \in Nat \ {0} /\ MaxSeq \in Nat /\ MaxTime \in Nat

VARIABLES
    now,        \* the process clock
    records,    \* current record of each revoked delegation
    nextSeq,    \* sequence number of the last record stored
    holder,     \* the writer that holds the lock, if any
    call,       \* AddBatch call of each writer
    pc,         \* where each Stream call is
    from,       \* its argument
    sequence,   \* the store's nextSeq at its last read
    entries,    \* records of that read not yet yielded
    notified,   \* its channel holds a notification
    fed         \* how many times it yielded each cause (history)

mapVars == <<now, records, nextSeq, holder, call>>
streamVars == <<pc, from, sequence, entries, notified, fed>>
vars == <<now, records, nextSeq, holder, call, pc, from, sequence, entries, notified, fed>>

Free == "free"
ASSUME FreeAssumption == Free \notin Writer

Time == 0..MaxTime
Batches == UNION {[1..n -> Cause] : n \in 1..MaxBatch}
Entry == [cause: Cause, at: Time, seq: Nat]

\* "stamped": has its recordedAt and waits for the lock; "locked": next stores
\* batch[i].
Call == [state: {"idle", "stamped", "locked"}, at: Time, batch: Seq(Cause), i: Nat \ {0}]
IdleCall == [state |-> "idle", at |-> 0, batch |-> <<>>, i |-> 1]

TypeOK ==
    /\ now \in Time
    /\ records \subseteq Entry
    /\ nextSeq \in Nat
    /\ holder \in Writer \cup {Free}
    /\ call \in [Writer -> Call]
    /\ pc \in [Stream -> {"closed", "emit", "select", "woken"}]
    /\ from \in [Stream -> Time]
    /\ sequence \in [Stream -> Nat]
    /\ entries \in [Stream -> SUBSET Entry]
    /\ notified \in [Stream -> BOOLEAN]
    /\ fed \in [Stream -> [Cause -> Nat]]

Init ==
    /\ now = 0
    /\ records = {}
    /\ nextSeq = 0
    /\ holder = Free
    /\ call = [w \in Writer |-> IdleCall]
    /\ pc = [s \in Stream |-> "closed"]
    /\ from = [s \in Stream |-> 0]
    /\ sequence = [s \in Stream |-> 0]
    /\ entries = [s \in Stream |-> {}]
    /\ notified = [s \in Stream |-> FALSE]
    /\ fed = [s \in Stream |-> [c \in Cause |-> 0]]

Tick ==
    /\ now < MaxTime
    /\ now' = now + 1
    /\ UNCHANGED <<records, nextSeq, holder, call, streamVars>>

-----------------------------------------------------------------------------
(***************************************************************************)
(* AddBatch.                                                               *)
(***************************************************************************)
AddBatch(w, batch) ==
    /\ call[w].state = "idle"
    /\ nextSeq < MaxSeq
    /\ call' = [call EXCEPT ![w] =
                   [state |-> "stamped", at |-> now, batch |-> batch, i |-> 1]]
    /\ UNCHANGED <<now, records, nextSeq, holder, streamVars>>

Lock(w) ==
    /\ call[w].state = "stamped"
    /\ holder = Free
    /\ holder' = w
    /\ call' = [call EXCEPT ![w].state = "locked"]
    /\ UNCHANGED <<now, records, nextSeq, streamVars>>

\* The revocation of this iteration is the one stored for its delegation.
IsRepeat(c) == \E e \in records : e.cause = c
Others(c) == {e \in records : Revoked[e.cause] # Revoked[c]}

\* Mutant of StoreNext: a record takes over the number of the one it replaces.
StoreNextInPlace(w) ==
    /\ call[w].state = "locked"
    /\ call[w].i <= Len(call[w].batch)
    /\ LET c == call[w].batch[call[w].i]
           old == records \ Others(c)
       IN IF IsRepeat(c)
          THEN UNCHANGED <<records, nextSeq>>
          ELSE \E seq \in IF old = {} THEN {nextSeq + 1} ELSE {e.seq : e \in old} :
                  /\ nextSeq' = IF old = {} THEN seq ELSE nextSeq
                  /\ records' = Others(c) \cup
                                {[cause |-> c, at |-> call[w].at, seq |-> seq]}
    /\ call' = [call EXCEPT ![w].i = @ + 1]
    /\ UNCHANGED <<now, holder, streamVars>>

\* One iteration: a repeat of the stored revocation is skipped, any other
\* replaces what is stored for its delegation.
StoreNext(w) ==
    /\ call[w].state = "locked"
    /\ call[w].i <= Len(call[w].batch)
    /\ LET c == call[w].batch[call[w].i] IN
          IF IsRepeat(c)
          THEN UNCHANGED <<records, nextSeq>>
          ELSE /\ nextSeq' = nextSeq + 1
               /\ records' = Others(c) \cup
                             {[cause |-> c, at |-> call[w].at, seq |-> nextSeq + 1]}
    /\ call' = [call EXCEPT ![w].i = @ + 1]
    /\ UNCHANGED <<now, holder, streamVars>>

\* Mutant of Unlock: only streams that wait at that moment are notified.
UnlockNotifyWaiting(w) ==
    /\ call[w].state = "locked"
    /\ call[w].i > Len(call[w].batch)
    /\ notified' = [s \in Stream |-> notified[s] \/ pc[s] = "select"]
    /\ holder' = Free
    /\ call' = [call EXCEPT ![w] = IdleCall]
    /\ UNCHANGED <<now, records, nextSeq, pc, from, sequence, entries, fed>>

\* Every subscriber is notified without blocking: a channel that already holds
\* a notification stays as it is.
Unlock(w) ==
    /\ call[w].state = "locked"
    /\ call[w].i > Len(call[w].batch)
    /\ notified' = [s \in Stream |-> notified[s] \/ pc[s] # "closed"]
    /\ holder' = Free
    /\ call' = [call EXCEPT ![w] = IdleCall]
    /\ UNCHANGED <<now, records, nextSeq, pc, from, sequence, entries, fed>>

\* Get reads the map under the read lock.
Get(d) == {e \in records : Revoked[e.cause] = d}

-----------------------------------------------------------------------------
(***************************************************************************)
(* Stream.                                                                 *)
(***************************************************************************)
RecordsFrom(seq, f) == {e \in records : e.seq > seq /\ ~(e.at < f)}

\* The first read and the subscription share one critical section.
Subscribe(s, f) ==
    /\ pc[s] = "closed"
    /\ holder = Free
    /\ pc' = [pc EXCEPT ![s] = "emit"]
    /\ from' = [from EXCEPT ![s] = f]
    /\ entries' = [entries EXCEPT ![s] = RecordsFrom(0, f)]
    /\ sequence' = [sequence EXCEPT ![s] = nextSeq]
    /\ UNCHANGED <<mapVars, notified, fed>>

\* Entries are sorted by time, then by sequence number.
Before(d, e) == d.at < e.at \/ (d.at = e.at /\ d.seq <= e.seq)
IsNext(e, S) == e \in S /\ \A d \in S : Before(e, d)

Yield(s, e) ==
    /\ pc[s] = "emit"
    /\ IsNext(e, entries[s])
    /\ entries' = [entries EXCEPT ![s] = @ \ {e}]
    /\ fed' = [fed EXCEPT ![s][e.cause] = @ + 1]
    /\ UNCHANGED <<mapVars, pc, from, sequence, notified>>

\* Mutant of Emitted: the channel is drained before the wait.
EmittedDrained(s) ==
    /\ pc[s] = "emit"
    /\ entries[s] = {}
    /\ pc' = [pc EXCEPT ![s] = "select"]
    /\ notified' = [notified EXCEPT ![s] = FALSE]
    /\ UNCHANGED <<mapVars, from, sequence, entries, fed>>

Emitted(s) ==
    /\ pc[s] = "emit"
    /\ entries[s] = {}
    /\ pc' = [pc EXCEPT ![s] = "select"]
    /\ UNCHANGED <<mapVars, from, sequence, entries, notified, fed>>

\* The notification is taken without the lock...
Wake(s) ==
    /\ pc[s] = "select"
    /\ notified[s]
    /\ pc' = [pc EXCEPT ![s] = "woken"]
    /\ notified' = [notified EXCEPT ![s] = FALSE]
    /\ UNCHANGED <<mapVars, from, sequence, entries, fed>>

\* Mutant of Read: the new sequence is assigned to a variable that shadows the
\* stream's.
ReadShadowed(s) ==
    /\ pc[s] = "woken"
    /\ holder = Free
    /\ pc' = [pc EXCEPT ![s] = "emit"]
    /\ entries' = [entries EXCEPT ![s] = RecordsFrom(sequence[s], from[s])]
    /\ UNCHANGED <<mapVars, from, sequence, notified, fed>>

\* ... and the records are read under it, some time later.
Read(s) ==
    /\ pc[s] = "woken"
    /\ holder = Free
    /\ pc' = [pc EXCEPT ![s] = "emit"]
    /\ entries' = [entries EXCEPT ![s] = RecordsFrom(sequence[s], from[s])]
    /\ sequence' = [sequence EXCEPT ![s] = nextSeq]
    /\ UNCHANGED <<mapVars, from, notified, fed>>

\* The context is canceled or the consumer stops: the deferred function takes
\* the lock to unsubscribe. Both are noticed between entries or in the select.
Unsubscribe(s) ==
    /\ pc[s] \in {"emit", "select"}
    /\ holder = Free
    /\ pc' = [pc EXCEPT ![s] = "closed"]
    /\ from' = [from EXCEPT ![s] = 0]
    /\ sequence' = [sequence EXCEPT ![s] = 0]
    /\ entries' = [entries EXCEPT ![s] = {}]
    /\ notified' = [notified EXCEPT ![s] = FALSE]
    /\ fed' = [fed EXCEPT ![s] = [c \in Cause |-> 0]]
    /\ UNCHANGED mapVars

-----------------------------------------------------------------------------
LockedStep(w) == Lock(w) \/ StoreNext(w) \/ Unlock(w)
StreamStep(s) == (\E e \in entries[s] : Yield(s, e)) \/ Emitted(s) \/ Wake(s) \/ Read(s)

Next ==
    \/ Tick
    \/ \E w \in Writer :
          \/ \E batch \in Batches : AddBatch(w, batch)
          \/ LockedStep(w)
    \/ \E s \in Stream :
          \/ \E f \in Time : Subscribe(s, f)
          \/ StreamStep(s)
          \/ Unsubscribe(s)

Spec == Init /\ [][Next]_vars

\* A writer that holds the lock runs to its end, and a stream whose consumer
\* keeps reading runs whenever it can; the lock is handed out fairly
\* (sync.RWMutex does not starve readers), which Read needs when writers keep
\* coming. No call is owed.
FairSpec ==
    /\ Spec
    /\ \A w \in Writer : WF_vars(StoreNext(w) \/ Unlock(w))
    /\ \A s \in Stream : /\ WF_vars(StreamStep(s))
                         /\ SF_vars(Read(s))

-----------------------------------------------------------------------------
(***************************************************************************)
(* Properties.                                                             *)
(***************************************************************************)
Open(s) == pc[s] # "closed"

\* Get finds at most one record for a delegation and records are numbered in the
\* order stored, which the proofs build on (memory/store.go:72-84, 95-109).
MapInv ==
    /\ \A e, f \in records : Get(Revoked[e.cause]) = {e} /\ (e.seq = f.seq => e = f)
    /\ \A e \in records : 1 <= e.seq /\ e.seq <= nextSeq

\* No wake-up is lost: a stream about to wait with a record it has not read
\* has a notification in its channel, although the channel holds one and is
\* drained before the records are read (memory/store.go:86-91, 146-154).
NoLostWakeup ==
    \A s \in Stream :
        holder = Free /\ pc[s] \in {"emit", "select"}
            /\ RecordsFrom(sequence[s], from[s]) # {}
        => notified[s]

\* A stream yields a revocation once. "A repeat of the stored revocation keeps
\* its first record [...] so a retry is not streamed again"
\* (memory/store.go:70-71).
RetryNotStreamedAgain == \A s \in Stream, c \in Cause : fed[s][c] <= 1

\* For the revocations that are the only ones of their delegation the store
\* implements the interface it declares (pkg/store/store.go:39-58), liveness
\* included, beside others that overwrite each other.
Sole == {c \in Cause : \A d \in Cause \ {c} : Revoked[d] # Revoked[c]}
SoleRecords == {[cause |-> e.cause, at |-> e.at] : e \in {f \in records : f.cause \in Sole}}
SoleFed == [s \in Stream |-> [c \in Sole |-> fed[s][c]]]
Feed == INSTANCE RevocationFeed WITH
            Cause <- Sole,
            records <- SoleRecords,
            open <- {s \in Stream : Open(s)},
            fed <- SoleFed
ImplementsFeed == Feed!FeedSpec
FeedsFairly == Feed!FairFeedSpec

\* Of revocations that share their delegation, where that feed is silent, a record
\* that an open stream asked for is streamed unless another one replaces it
\* first. Records replace each other in the order of the lock, which may be
\* against that of their times, and also after they were streamed
\* (memory/store.go:61-91, 145-165).
Due(s, c) == Open(s) /\ \E e \in RecordsFrom(0, from[s]) : e.cause = c
CurrentIsStreamed ==
    \A s \in Stream, c \in Cause \ Sole : Due(s, c) ~> (~Due(s, c) \/ fed[s][c] > 0)
=============================================================================
