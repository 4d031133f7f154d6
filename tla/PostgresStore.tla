--------------------------- MODULE PostgresStore ---------------------------
(***************************************************************************)
(* The PostgreSQL revocation store (pkg/store/postgres/store.go): writers  *)
(* that insert batches in transactions of their own, and firehose streams  *)
(* that poll the table behind a moving cursor.                             *)
(*                                                                         *)
(* A row's recorded_at is NOW(), the start of the transaction that inserts *)
(* it, and the row becomes visible only when that transaction commits: a   *)
(* stream sees rows appear out of recorded_at order. It therefore re-reads *)
(* the last SettleWindow of history at every poll and skips what it has    *)
(* already yielded. Nothing in the code enforces the window; MaxInsert is  *)
(* how long an insert really may take.                                     *)
(***************************************************************************)
EXTENDS Integers

CONSTANTS
    Cause,          \* revocations, by the primary key of their row (the cause CID)
    Writer,         \* concurrent callers of AddBatch
    Stream,         \* concurrent callers of Stream
    SettleWindow,   \* streamSettleWindow
    MaxInsert,      \* longest time from a transaction's NOW() to its visibility
    MaxTime         \* bound on the database clock

ASSUME CauseAssumption == Cause \subseteq Nat   \* row ids are ordered
ASSUME TimeAssumption == /\ SettleWindow \in Nat
                         /\ MaxInsert \in Nat
                         /\ MaxTime \in Nat

VARIABLES
    now,        \* the database clock
    rows,       \* committed rows of table revocation
    call,       \* AddBatch call of each writer
    pc,         \* where each Stream call is
    from,       \* its argument
    cursor,     \* its low-water mark
    dbNow,      \* its last reading of the database clock
    pending,    \* rows of its current query not yet iterated over
    seen,       \* rows it remembers having yielded
    fed         \* how many times it yielded each cause (history)

storeVars == <<now, rows, call>>
streamVars == <<pc, from, cursor, dbNow, pending, seen, fed>>
vars == <<now, rows, call, pc, from, cursor, dbNow, pending, seen, fed>>

Time == 0..MaxTime
Row == [cause: Cause, at: Time]

\* A call of AddBatch is idle or has an open transaction, begun at "at".
Call == [state: {"idle", "open"}, at: Time, batch: SUBSET Cause]
IdleCall == [state |-> "idle", at |-> 0, batch |-> {}]

StoredCauses == {r.cause : r \in rows}
CausesOf(S) == {r.cause : r \in S}

(***************************************************************************)
(* ORDER BY recorded_at, id.                                               *)
(***************************************************************************)
Earlier(q, r) == q.at < r.at \/ (q.at = r.at /\ q.cause < r.cause)
IsNext(r, S) == r \in S /\ \A q \in S : q = r \/ Earlier(r, q)

TypeOK ==
    /\ now \in Time
    /\ rows \subseteq Row
    /\ call \in [Writer -> Call]
    /\ pc \in [Stream -> {"closed", "poll", "query", "rows", "wait"}]
    /\ from \in [Stream -> Time]
    /\ cursor \in [Stream -> Time]
    /\ dbNow \in [Stream -> Time]
    /\ pending \in [Stream -> SUBSET Row]
    /\ seen \in [Stream -> SUBSET Row]
    /\ fed \in [Stream -> [Cause -> Nat]]

Init ==
    /\ now = 0
    /\ rows = {}
    /\ call = [w \in Writer |-> IdleCall]
    /\ pc = [s \in Stream |-> "closed"]
    /\ from = [s \in Stream |-> 0]
    /\ cursor = [s \in Stream |-> 0]
    /\ dbNow = [s \in Stream |-> 0]
    /\ pending = [s \in Stream |-> {}]
    /\ seen = [s \in Stream |-> {}]
    /\ fed = [s \in Stream |-> [c \in Cause |-> 0]]

(***************************************************************************)
(* The clock advances unless that would leave a transaction open for more  *)
(* than MaxInsert: the assumption the settle window rests on.              *)
(***************************************************************************)
Tick ==
    /\ now < MaxTime
    /\ \A w \in Writer : call[w].state = "open" => now < call[w].at + MaxInsert
    /\ now' = now + 1
    /\ UNCHANGED <<rows, call, streamVars>>

-----------------------------------------------------------------------------
(***************************************************************************)
(* AddBatch: one INSERT ... ON CONFLICT (id) DO NOTHING. Repeats inside    *)
(* the batch are dropped before the statement is sent, so it is a set.     *)
(***************************************************************************)
AddBatch(w, batch) ==
    /\ call[w].state = "idle"
    /\ batch # {}
    /\ call' = [call EXCEPT ![w] = [state |-> "open", at |-> now, batch |-> batch]]
    /\ UNCHANGED <<now, rows, streamVars>>

\* The rows a transaction adds share its start time; a cause already stored
\* keeps its row.
Inserted(w) == {[cause |-> c, at |-> call[w].at] : c \in call[w].batch \ StoredCauses}

\* Mutant of Commit: ON CONFLICT (id) DO UPDATE SET recorded_at.
CommitUpdating(w) ==
    /\ call[w].state = "open"
    /\ rows' = {r \in rows : r.cause \notin call[w].batch}
                  \cup {[cause |-> c, at |-> call[w].at] : c \in call[w].batch}
    /\ call' = [call EXCEPT ![w] = IdleCall]
    /\ UNCHANGED <<now, streamVars>>

Commit(w) ==
    /\ call[w].state = "open"
    /\ rows' = rows \cup Inserted(w)
    /\ call' = [call EXCEPT ![w] = IdleCall]
    /\ UNCHANGED <<now, streamVars>>

\* The transaction rolled back: nothing of the batch is stored.
Abort(w) ==
    /\ call[w].state = "open"
    /\ call' = [call EXCEPT ![w] = IdleCall]
    /\ UNCHANGED <<now, rows, streamVars>>

-----------------------------------------------------------------------------
(***************************************************************************)
(* Stream(ctx, from).                                                      *)
(***************************************************************************)
OpenStream(s, f) ==
    /\ pc[s] = "closed"
    /\ pc' = [pc EXCEPT ![s] = "poll"]
    /\ from' = [from EXCEPT ![s] = f]
    /\ cursor' = [cursor EXCEPT ![s] = f]
    /\ UNCHANGED <<storeVars, dbNow, pending, seen, fed>>

\* SELECT now(), before the rows are read.
ReadClock(s) ==
    /\ pc[s] = "poll"
    /\ pc' = [pc EXCEPT ![s] = "query"]
    /\ dbNow' = [dbNow EXCEPT ![s] = now]
    /\ UNCHANGED <<storeVars, from, cursor, pending, seen, fed>>

\* Mutant of Query: recorded_at > cursor.
QueryExclusive(s) ==
    /\ pc[s] = "query"
    /\ pc' = [pc EXCEPT ![s] = "rows"]
    /\ pending' = [pending EXCEPT ![s] = {r \in rows : r.at > cursor[s]}]
    /\ UNCHANGED <<storeVars, from, cursor, dbNow, seen, fed>>

\* recordsFrom runs its query: the result is the snapshot of that instant,
\* inclusive at the cursor, however long the consumer takes to read it.
Query(s) ==
    /\ pc[s] = "query"
    /\ pc' = [pc EXCEPT ![s] = "rows"]
    /\ pending' = [pending EXCEPT ![s] = {r \in rows : r.at >= cursor[s]}]
    /\ UNCHANGED <<storeVars, from, cursor, dbNow, seen, fed>>

SkipSeen(s, r) ==
    /\ pc[s] = "rows"
    /\ IsNext(r, pending[s])
    /\ r.cause \in CausesOf(seen[s])
    /\ pending' = [pending EXCEPT ![s] = @ \ {r}]
    /\ UNCHANGED <<storeVars, pc, from, cursor, dbNow, seen, fed>>

\* Mutant of Yield: seen[link] is not set.
YieldForgotten(s, r) ==
    /\ pc[s] = "rows"
    /\ IsNext(r, pending[s])
    /\ r.cause \notin CausesOf(seen[s])
    /\ pending' = [pending EXCEPT ![s] = @ \ {r}]
    /\ fed' = [fed EXCEPT ![s][r.cause] = @ + 1]
    /\ UNCHANGED <<storeVars, pc, from, cursor, dbNow, seen>>

Yield(s, r) ==
    /\ pc[s] = "rows"
    /\ IsNext(r, pending[s])
    /\ r.cause \notin CausesOf(seen[s])
    /\ pending' = [pending EXCEPT ![s] = @ \ {r}]
    /\ seen' = [seen EXCEPT ![s] = @ \cup {r}]
    /\ fed' = [fed EXCEPT ![s][r.cause] = @ + 1]
    /\ UNCHANGED <<storeVars, pc, from, cursor, dbNow>>

\* Mutants of Horizon: the clock is read after the rows; no settle window.
HorizonReadLate(s) == now - SettleWindow
HorizonUnsettled(s) == dbNow[s]

\* Mutants of Prune: the row at the mark is forgotten too; nothing is.
PruneAtMark(S, mark) == {r \in S : r.at > mark}
PruneNothing(S, mark) == S

\* The cursor only moves forward, and only through settled history; seen
\* forgets the rows the next query cannot return.
Horizon(s) == dbNow[s] - SettleWindow
Prune(S, mark) == {r \in S : ~(r.at < mark)}

Advance(s) ==
    /\ pc[s] = "rows"
    /\ pending[s] = {}
    /\ pc' = [pc EXCEPT ![s] = "wait"]
    /\ IF Horizon(s) > cursor[s]
       THEN /\ cursor' = [cursor EXCEPT ![s] = Horizon(s)]
            /\ seen' = [seen EXCEPT ![s] = Prune(@, Horizon(s))]
       ELSE UNCHANGED <<cursor, seen>>
    /\ UNCHANGED <<storeVars, from, dbNow, pending, fed>>

TickerFires(s) ==
    /\ pc[s] = "wait"
    /\ pc' = [pc EXCEPT ![s] = "poll"]
    /\ UNCHANGED <<storeVars, from, cursor, dbNow, pending, seen, fed>>

\* The context is canceled, a query fails, or the consumer stops: Stream
\* returns, whatever it was doing, and its local variables are gone.
CloseStream(s) ==
    /\ pc[s] # "closed"
    /\ pc' = [pc EXCEPT ![s] = "closed"]
    /\ from' = [from EXCEPT ![s] = 0]
    /\ cursor' = [cursor EXCEPT ![s] = 0]
    /\ dbNow' = [dbNow EXCEPT ![s] = 0]
    /\ pending' = [pending EXCEPT ![s] = {}]
    /\ seen' = [seen EXCEPT ![s] = {}]
    /\ fed' = [fed EXCEPT ![s] = [c \in Cause |-> 0]]
    /\ UNCHANGED storeVars

-----------------------------------------------------------------------------
WriterNext(w) ==
    \/ \E batch \in SUBSET Cause : AddBatch(w, batch)
    \/ Commit(w)
    \/ Abort(w)

\* One turn of the polling loop, as far as the consumer lets it go.
PollStep(s) ==
    \/ ReadClock(s)
    \/ Query(s)
    \/ \E r \in pending[s] : SkipSeen(s, r) \/ Yield(s, r)
    \/ Advance(s)
    \/ TickerFires(s)

StreamNext(s) ==
    \/ \E f \in Time : OpenStream(s, f)
    \/ PollStep(s)
    \/ CloseStream(s)

Next ==
    \/ Tick
    \/ \E w \in Writer : WriterNext(w)
    \/ \E s \in Stream : StreamNext(s)

Spec == Init /\ [][Next]_vars

\* A stream that is not closed keeps polling: its consumer reads what it is
\* given, queries return and the ticker fires. No writer, clock or consumer is
\* obliged to start or to end anything.
FairSpec == Spec /\ \A s \in Stream : WF_vars(PollStep(s))

-----------------------------------------------------------------------------
(***************************************************************************)
(* Properties.                                                             *)
(***************************************************************************)

Open(s) == pc[s] # "closed"

\* A Stream call yields a revocation at most once, although every poll
\* re-reads the unsettled window and seen forgets what is older
\* (store.go:148-153).
YieldsAtMostOnce == \A s \in Stream, c \in Cause : fed[s][c] <= 1

\* Nothing is left behind the cursor: a row at or after from that the next
\* query can no longer return has been yielded, whatever the order in which
\* transactions committed (store.go:22-25, 147-153, 182-183).
NothingSkipped ==
    \A s \in Stream : \A r \in rows :
        Open(s) /\ from[s] <= r.at /\ r.at < cursor[s] => fed[s][r.cause] >= 1

\* seen stays as small as the unsettled window: it holds no row a later query
\* cannot return (store.go:184-188).
SeenIsBounded == \A s \in Stream : Open(s) => \A r \in seen[s] : r.at >= cursor[s]

\* A revocation is stored once and keeps its first record through retries and
\* concurrent batches (store.go of pkg/store, 45-46): rows are never
\* changed or removed, and no cause has two.
OneRowPerCause == \A q, r \in rows : q.cause = r.cause => q = r
KeepsFirstRecord == [][rows \subseteq rows' /\ OneRowPerCause']_vars

\* The store implements the interface it declares: each first record kept,
\* each stream fed each record it asked for at most once (pkg/store/store.go,
\* 39-58); and, as long as it stays open, eventually, those committed late
\* included. ImplementsFeed is the safety half, FeedsFairly adds liveness.
Feed == INSTANCE RevocationFeed WITH
            records <- rows,
            open <- {s \in Stream : Open(s)}
ImplementsFeed == Feed!FeedSpec
FeedsFairly == Feed!FairFeedSpec

-----------------------------------------------------------------------------
(***************************************************************************)
(* The inductive invariant behind YieldsAtMostOnce and NothingSkipped. It  *)
(* needs MaxInsert <= SettleWindow.                                        *)
(***************************************************************************)
InsertsSettleInTime == MaxInsert <= SettleWindow

\* Recorded times are in the past and no transaction is older than MaxInsert.
TimesInv ==
    /\ \A r \in rows : r.at <= now
    /\ \A w \in Writer : call[w].state = "open" =>
           call[w].at <= now /\ now <= call[w].at + MaxInsert

\* The cursor stands at from, or on history settled when the clock was read.
CursorInv ==
    \A s \in Stream :
        /\ dbNow[s] <= now
        /\ from[s] <= cursor[s]
        /\ cursor[s] = from[s] \/ cursor[s] <= Horizon(s)

\* A Stream call starts with nothing yielded and nothing remembered.
ClosedInv ==
    \A s \in Stream : ~Open(s) =>
        pending[s] = {} /\ seen[s] = {} /\ \A c \in Cause : fed[s][c] = 0

\* What a stream holds came from the table, and what it yielded it remembers
\* for as long as a query can return it.
MemoryInv ==
    \A s \in Stream :
        /\ seen[s] \subseteq rows
        /\ pending[s] \subseteq {r \in rows : r.at >= cursor[s]}
        /\ \A r \in seen[s] : fed[s][r.cause] = 1
        /\ \A r \in rows : fed[s][r.cause] = 1 /\ r.at >= cursor[s] => r \in seen[s]
        /\ \A c \in Cause : fed[s][c] = 1 => c \in StoredCauses

\* While the result is read, a row that is neither in it nor yielded has been
\* committed after the clock was read: it cannot be older than the horizon.
SnapshotInv ==
    \A s \in Stream : pc[s] = "rows" =>
        \A r \in rows : r.at >= cursor[s] /\ r \notin pending[s] =>
            fed[s][r.cause] = 1 \/ r.at >= Horizon(s)

IInv ==
    /\ TypeOK
    /\ OneRowPerCause
    /\ TimesInv
    /\ CursorInv
    /\ ClosedInv
    /\ MemoryInv
    /\ SnapshotInv
    /\ YieldsAtMostOnce
    /\ NothingSkipped
    /\ SeenIsBounded
=============================================================================
