---------------------------- MODULE BatchInsert ----------------------------
(***************************************************************************)
(* AddBatch of the PostgreSQL store (pkg/store/postgres/store.go) at the   *)
(* grain of rows: the arguments the loop over the batch builds, and the    *)
(* INSERT that takes its rows one by one. A row whose key another open     *)
(* transaction has inserted makes the statement wait for the end of that   *)
(* transaction, so batches that share revocations can wait for each other. *)
(*                                                                         *)
(* PostgreSQL itself is external: unique keys, lock waits and the deadlock *)
(* detector are modelled from what the statement asks of them.             *)
(***************************************************************************)
EXTENDS Integers, SequencesExt

CONSTANTS
    Cause,      \* revocations, by the primary key of their row
    Witness,    \* delegations
    Path,       \* the witness path that comes with each revocation
    Writer,     \* concurrent callers of AddBatch
    MaxTime     \* bound on the database clock

ASSUME PathAssumption == Path \in [Cause -> Seq(Witness)]
ASSUME BoundAssumption == MaxTime \in Nat

VARIABLES
    now,    \* the database clock
    rows,   \* committed rows
    call    \* AddBatch call of each writer

vars == <<now, rows, call>>

(***************************************************************************)
(* The arguments of the statement: one id per row, and for each row the    *)
(* 1-based inclusive bounds of its slice of the flat array of witnesses.   *)
(***************************************************************************)
Arguments == [ids: Seq(Cause), witnesses: Seq(Witness), starts: Seq(Nat), ends: Seq(Nat)]
NoArguments == [ids |-> <<>>, witnesses |-> <<>>, starts |-> <<>>, ends |-> <<>>]

\* Mutant of WithRevocation: path_end is taken before the witnesses are added.
WithRevocationEndingEarly(args, c) ==
    IF c \in ToSet(args.ids)
    THEN args
    ELSE [ids |-> Append(args.ids, c),
          witnesses |-> args.witnesses \o Path[c],
          starts |-> Append(args.starts, Len(args.witnesses) + 1),
          ends |-> Append(args.ends, Len(args.witnesses))]

\* What one turn of the loop adds: nothing for a repeat.
WithRevocation(args, c) ==
    IF c \in ToSet(args.ids)
    THEN args
    ELSE [ids |-> Append(args.ids, c),
          witnesses |-> args.witnesses \o Path[c],
          starts |-> Append(args.starts, Len(args.witnesses) + 1),
          ends |-> Append(args.ends, Len(args.witnesses) + Len(Path[c]))]

\* A call is "building" while it loops over its batch, and "open" while its
\* statement runs: "i" is the row the statement takes next, "own" what it has
\* inserted.
Time == 0..MaxTime
Row == [cause: Cause, at: Time, path: Seq(Witness)]
Call == [state: {"idle", "building", "open"}, at: Time, args: Arguments,
         i: Nat \ {0}, own: SUBSET Row]
IdleCall == [state |-> "idle", at |-> 0, args |-> NoArguments, i |-> 1, own |-> {}]

Building(w) == call[w].state = "building"
Open(w) == call[w].state = "open"
HasNext(w) == Open(w) /\ call[w].i <= Len(call[w].args.ids)
NextCause(w) == call[w].args.ids[call[w].i]
NextRow(w) ==
    LET args == call[w].args
        i == call[w].i
    IN  [cause |-> args.ids[i], at |-> call[w].at,
         path |-> SubSeq(args.witnesses, args.starts[i], args.ends[i])]

CausesOf(S) == {r.cause : r \in S}
Conflicts(w) == NextCause(w) \in CausesOf(rows \cup call[w].own)
WaitsFor(w, u) == /\ HasNext(w)
                  /\ ~Conflicts(w)
                  /\ u # w
                  /\ NextCause(w) \in CausesOf(call[u].own)

TypeOK ==
    /\ now \in Time
    /\ rows \subseteq Row
    /\ call \in [Writer -> Call]

Init ==
    /\ now = 0
    /\ rows = {}
    /\ call = [w \in Writer |-> IdleCall]

Tick ==
    /\ now < MaxTime
    /\ now' = now + 1
    /\ UNCHANGED <<rows, call>>

-----------------------------------------------------------------------------
\* The batch is not empty; which revocations it holds is chosen as the loop
\* comes to them.
AddBatch(w) ==
    /\ call[w].state = "idle"
    /\ call' = [call EXCEPT ![w] = [IdleCall EXCEPT !.state = "building"]]
    /\ UNCHANGED <<now, rows>>

AddRevocation(w, c) ==
    /\ Building(w)
    /\ Path[c] # <<>>
    /\ call' = [call EXCEPT ![w].args = WithRevocation(@, c)]
    /\ UNCHANGED <<now, rows>>

\* A revocation without a path, or one that cannot be encoded, refuses its
\* batch before any statement.
Refuse(w) ==
    /\ Building(w)
    /\ call' = [call EXCEPT ![w] = IdleCall]
    /\ UNCHANGED <<now, rows>>

\* After the last revocation the statement is sent: NOW() is read.
Send(w) ==
    /\ Building(w)
    /\ call[w].args.ids # <<>>
    /\ call' = [call EXCEPT ![w].state = "open", ![w].at = now]
    /\ UNCHANGED <<now, rows>>

\* Mutants of InsertRow: it looks at committed rows only; a conflicting row is
\* tried again; a statement per row makes each visible at once.
InsertRowUnlocked(w) ==
    /\ HasNext(w)
    /\ call' = [call EXCEPT ![w].i = @ + 1,
                            ![w].own = IF Conflicts(w) THEN @ ELSE @ \cup {NextRow(w)}]
    /\ UNCHANGED <<now, rows>>
InsertRowRetrying(w) ==
    /\ HasNext(w)
    /\ \A u \in Writer : ~WaitsFor(w, u)
    /\ call' = [call EXCEPT ![w].i = IF Conflicts(w) THEN @ ELSE @ + 1,
                            ![w].own = IF Conflicts(w) THEN @ ELSE @ \cup {NextRow(w)}]
    /\ UNCHANGED <<now, rows>>
InsertRowVisible(w) ==
    /\ HasNext(w)
    /\ \A u \in Writer : ~WaitsFor(w, u)
    /\ call' = [call EXCEPT ![w].i = @ + 1]
    /\ rows' = IF Conflicts(w) THEN rows ELSE rows \cup {NextRow(w)}
    /\ UNCHANGED now

\* ON CONFLICT (id) DO NOTHING, once no other open transaction has the key.
InsertRow(w) ==
    /\ HasNext(w)
    /\ \A u \in Writer : ~WaitsFor(w, u)
    /\ call' = [call EXCEPT ![w].i = @ + 1,
                            ![w].own = IF Conflicts(w) THEN @ ELSE @ \cup {NextRow(w)}]
    /\ UNCHANGED <<now, rows>>

\* The statement ends and so does its transaction.
Commit(w) ==
    /\ Open(w)
    /\ ~HasNext(w)
    /\ rows' = rows \cup call[w].own
    /\ call' = [call EXCEPT ![w] = IdleCall]
    /\ UNCHANGED now

\* The context is canceled, waiting or not, or the connection is lost.
Fail(w) ==
    /\ Open(w)
    /\ call' = [call EXCEPT ![w] = IdleCall]
    /\ UNCHANGED <<now, rows>>

\* The writer is on a cycle of writers each waiting for the next.
Deadlocked(w) ==
    \E S \in SUBSET Writer :
        /\ w \in S
        /\ \A u \in S : (\E v \in S : WaitsFor(u, v)) /\ (\E v \in S : WaitsFor(v, u))

\* PostgreSQL aborts a transaction of the cycle it finds.
DetectDeadlock(w) == Deadlocked(w) /\ Fail(w)

\* The loop over the batch, up to the statement.
Prepare(w) == (\E c \in Cause : AddRevocation(w, c)) \/ Refuse(w) \/ Send(w)

Next ==
    \/ Tick
    \/ \E w \in Writer :
          \/ AddBatch(w)
          \/ Prepare(w)
          \/ InsertRow(w)
          \/ Commit(w)
          \/ Fail(w)
          \/ DetectDeadlock(w)

Spec == Init /\ [][Next]_vars

\* A batch is finite, so its loop ends in a refusal or in the statement;
\* statements end and deadlocks are found; a writer whose key is freed again
\* and again gets it in the end. No call is owed, and no failure.
FairSpec ==
    /\ Spec
    /\ \A w \in Writer : /\ WF_vars(Prepare(w) \/ Commit(w) \/ DetectDeadlock(w))
                         /\ SF_vars(InsertRow(w))

-----------------------------------------------------------------------------
(***************************************************************************)
(* Properties.                                                             *)
(***************************************************************************)

\* Every stored row has the witness path of its own revocation, wherever the
\* revocation stood in its batch and whatever repeats preceded it
\* (store.go:55-57, 66-90, 95).
RowsKeepTheirPath == \A r \in rows : r.path = Path[r.cause]

\* Waiting, skipping and aborting rows, a call is still the one atomic insert
\* of PostgresStore: all the new rows of the batch with the time of its
\* transaction, or none (store.go:44-46, 92-110).
StoredRows == {[cause |-> r.cause, at |-> r.at] : r \in rows}
IdleTransaction == [state |-> "idle", at |-> 0, batch |-> {}]
Transactions ==
    [w \in Writer |-> IF Open(w)
                      THEN [state |-> "open", at |-> call[w].at,
                            batch |-> ToSet(call[w].args.ids)]
                      ELSE IdleTransaction]
NoStreams == [s \in {} |-> 0]
Store == INSTANCE PostgresStore WITH
            Stream <- {}, SettleWindow <- 0, MaxInsert <- MaxTime,
            rows <- StoredRows, call <- Transactions,
            pc <- NoStreams, from <- NoStreams, cursor <- NoStreams, dbNow <- NoStreams,
            pending <- NoStreams, seen <- NoStreams, fed <- NoStreams
ImplementsStore == Store!Spec

\* Every AddBatch returns and leaves its caller idle, batches that share
\* revocations in opposite orders included (store.go:92-110).
EveryBatchEnds == \A w \in Writer : []<>(call[w].state = "idle")
=============================================================================
