------------------------------- MODULE Service -------------------------------
(***************************************************************************)
(* The life of service processes over one database: start hooks, requests  *)
(* and firehoses that share the connection pool, and shutdown              *)
(* (cmd/swarf/main.go, pkg/fx/app.go, migrations.go, postgres/store.go).   *)
(*                                                                         *)
(* A stream takes one connection to read the clock, gives it back, takes   *)
(* one for its rows and holds that until its consumer has read them all.   *)
(* Hooks start in the order pool, server and stop in reverse; the stop     *)
(* context ends a shutdown that waits for handlers. fx, net/http, pgxpool, *)
(* goose and the clients are external.                                     *)
(***************************************************************************)
EXTENDS Integers, FiniteSets

CONSTANTS
    Instance,   \* processes of the service
    Request,    \* lookups and revoke requests, one store call each
    Firehose,   \* requests that stream
    Home,       \* the instance that each of them reaches
    MaxConns    \* cfg.Storage.Postgres.MaxConns

Handler == Request \cup Firehose

ASSUME HandlersAssumption == Request \cap Firehose = {} /\ Home \in [Handler -> Instance]
ASSUME ConnsAssumption == MaxConns \in Nat \ {0}

VARIABLES
    table,      \* table revocation exists
    phase,      \* where each process is
    todo,       \* goose found the migration missing
    pool,       \* processes whose pool is open
    attentive,  \* processes whose Run listens for signals
    signalled,  \* processes whose Run took a signal
    pc,         \* where each handler is
    inUse       \* handlers that hold a pool connection

processVars == <<table, phase, todo, pool, attentive, signalled>>
vars == <<table, phase, todo, pool, attentive, signalled, pc, inUse>>

Phases == {"down", "connecting", "migrating", "binding", "listening", "serving",
           "draining", "closing"}
Waiting == {"wants store", "wants clock", "wants rows"}
Holding == {"uses store", "reads clock", "reads rows"}

Active(h) == pc[h] # "away"
HandlersOf(i) == {h \in Handler : Home[h] = i}

\* Mutant of HasFreeConn: one connection too many.
HasFreeConnOrOneMore(i) == Cardinality(inUse \cap HandlersOf(i)) <= MaxConns

HasFreeConn(i) == Cardinality(inUse \cap HandlersOf(i)) < MaxConns

\* No more connections are taken than the pool has.
TypeOK ==
    /\ table \in BOOLEAN
    /\ phase \in [Instance -> Phases]
    /\ todo \in [Instance -> BOOLEAN]
    /\ pool \subseteq Instance
    /\ attentive \subseteq Instance
    /\ signalled \subseteq attentive
    /\ pc \in [Handler -> {"away", "waits"} \cup Waiting \cup Holding]
    /\ inUse \subseteq Handler
    /\ \A i \in Instance : Cardinality(inUse \cap HandlersOf(i)) <= MaxConns

Init ==
    /\ table = FALSE
    /\ phase = [i \in Instance |-> "down"]
    /\ todo = [i \in Instance |-> FALSE]
    /\ pool = {}
    /\ attentive = {}
    /\ signalled = {}
    /\ pc = [h \in Handler |-> "away"]
    /\ inUse = {}

Enter(i, p) == phase' = [phase EXCEPT ![i] = p]

-----------------------------------------------------------------------------
(***************************************************************************)
(* Start.                                                                  *)
(***************************************************************************)
\* fx.New builds the application; hooks run in the order they were appended.
Launch(i) ==
    /\ phase[i] = "down"
    /\ Enter(i, "connecting")
    /\ pool' = pool \cup {i}
    /\ UNCHANGED <<table, todo, attentive, signalled, pc, inUse>>

\* The ping succeeds and goose reads which migrations were applied.
ReadVersion(i) ==
    /\ phase[i] = "connecting"
    /\ Enter(i, "migrating")
    /\ todo' = [todo EXCEPT ![i] = ~table]
    /\ UNCHANGED <<table, pool, attentive, signalled, pc, inUse>>

\* Mutant of Migrate: the hook does not wait for the migration.
MigrateLater(i) ==
    /\ phase[i] = "migrating"
    /\ Enter(i, "binding")
    /\ UNCHANGED <<table, todo, pool, attentive, signalled, pc, inUse>>

\* CREATE TABLE in a transaction of its own. No lock covers the reading of the
\* version: when another process has created the table since, this fails.
Migrate(i) ==
    /\ phase[i] = "migrating"
    /\ todo[i] => ~table
    /\ table' = TRUE
    /\ Enter(i, "binding")
    /\ UNCHANGED <<todo, pool, attentive, signalled, pc, inUse>>

Bind(i) ==
    /\ phase[i] = "binding"
    /\ Enter(i, "listening")
    /\ UNCHANGED <<table, todo, pool, attentive, signalled, pc, inUse>>

\* The goroutine of the start hook runs e.Start.
Serve(i) ==
    /\ phase[i] = "listening"
    /\ Enter(i, "serving")
    /\ UNCHANGED <<table, todo, pool, attentive, signalled, pc, inUse>>

\* Start returns to Run once the hooks have, the goroutine of the server running
\* or not yet, and only then does Run listen for signals.
Wait(i) ==
    /\ phase[i] \in {"listening", "serving"}
    /\ i \notin attentive
    /\ attentive' = attentive \cup {i}
    /\ UNCHANGED <<table, phase, todo, pool, signalled, pc, inUse>>

\* The process ends, and its handlers and connections with it.
Exit(i) ==
    /\ Enter(i, "down")
    /\ pool' = pool \ {i}
    /\ attentive' = attentive \ {i}
    /\ signalled' = signalled \ {i}
    /\ todo' = [todo EXCEPT ![i] = FALSE]
    /\ pc' = [h \in Handler |-> IF Home[h] = i THEN "away" ELSE pc[h]]
    /\ inUse' = inUse \ HandlersOf(i)
    /\ UNCHANGED table

\* A start hook fails or takes too long: what was started is stopped.
StartFails(i) ==
    /\ phase[i] \in {"connecting", "migrating", "binding"}
    /\ Exit(i)

-----------------------------------------------------------------------------
(***************************************************************************)
(* Handlers.                                                               *)
(***************************************************************************)
Move(h, p) == pc' = [pc EXCEPT ![h] = p]

Accept(h) ==
    /\ phase[Home[h]] = "serving"
    /\ ~Active(h)
    /\ Move(h, IF h \in Firehose THEN "wants clock" ELSE "wants store")
    /\ UNCHANGED <<processVars, inUse>>

Acquire(h) ==
    /\ pc[h] \in Waiting
    /\ HasFreeConn(Home[h])
    /\ Move(h, CASE pc[h] = "wants store" -> "uses store"
                 [] pc[h] = "wants clock" -> "reads clock"
                 [] pc[h] = "wants rows" -> "reads rows")
    /\ inUse' = inUse \cup {h}
    /\ UNCHANGED processVars

\* Exec or QueryRow returns and the request is answered.
StoreReturns(h) ==
    /\ pc[h] = "uses store"
    /\ Move(h, "away")
    /\ inUse' = inUse \ {h}
    /\ UNCHANGED processVars

\* Mutant of ClockRead: the row of SELECT now() stays open during the poll.
ClockKept(h) ==
    /\ pc[h] = "reads clock"
    /\ Move(h, "wants rows")
    /\ UNCHANGED <<processVars, inUse>>

\* QueryRow(...).Scan gives the connection back.
ClockRead(h) ==
    /\ pc[h] = "reads clock"
    /\ Move(h, "wants rows")
    /\ inUse' = inUse \ {h}
    /\ UNCHANGED processVars

\* The consumer has read the last row: rows.Close gives the connection back.
RowsRead(h) ==
    /\ pc[h] = "reads rows"
    /\ Move(h, "waits")
    /\ inUse' = inUse \ {h}
    /\ UNCHANGED processVars

TickerFires(h) ==
    /\ pc[h] = "waits"
    /\ Move(h, "wants clock")
    /\ UNCHANGED <<processVars, inUse>>

\* Mutant of Leave: rows.Close is not deferred.
LeaveOpen(h) ==
    /\ Active(h)
    /\ Move(h, "away")
    /\ UNCHANGED <<processVars, inUse>>

\* The client goes or a store call fails: the handler returns, whatever it was
\* doing, and its deferred calls run.
Leave(h) ==
    /\ Active(h)
    /\ Move(h, "away")
    /\ inUse' = inUse \ {h}
    /\ UNCHANGED processVars

-----------------------------------------------------------------------------
(***************************************************************************)
(* Stop.                                                                   *)
(***************************************************************************)
\* main has taken SIGINT and SIGTERM from their default handlers for a context
\* that serve does not read: what comes before Run listens changes nothing.
Signal(i) ==
    /\ i \in attentive
    /\ signalled' = signalled \cup {i}
    /\ UNCHANGED <<table, phase, todo, pool, attentive, pc, inUse>>

\* e.Shutdown closes the listener and waits; contexts of requests stay alive.
Shutdown(i) ==
    /\ phase[i] \in {"listening", "serving"}
    /\ i \in signalled
    /\ Enter(i, "draining")
    /\ UNCHANGED <<table, todo, pool, attentive, signalled, pc, inUse>>

\* Mutant of Drained: the server's hook closes it without waiting.
DrainedAtOnce(i) ==
    /\ phase[i] = "draining"
    /\ Enter(i, "closing")
    /\ pool' = pool \ {i}
    /\ UNCHANGED <<table, todo, attentive, signalled, pc, inUse>>

Drained(i) ==
    /\ phase[i] = "draining"
    /\ \A h \in HandlersOf(i) : ~Active(h)
    /\ Enter(i, "closing")
    /\ pool' = pool \ {i}
    /\ UNCHANGED <<table, todo, attentive, signalled, pc, inUse>>

\* pool.Close waits for every connection that is out.
PoolClosed(i) ==
    /\ phase[i] = "closing"
    /\ inUse \cap HandlersOf(i) = {}
    /\ Exit(i)

\* Mutant of StopTimeout: serve calls Start, Wait and Stop in the place of Run, and
\* gives Stop a context without a deadline.
StopWithoutDeadline(i) == FALSE

\* The context that Run gives Stop expires: fx runs no further hook, and Run
\* returns whether or not the hook in progress has.
StopTimeout(i) ==
    /\ phase[i] \in {"draining", "closing"}
    /\ Exit(i)

-----------------------------------------------------------------------------
StartStep(i) == ReadVersion(i) \/ Migrate(i) \/ Bind(i) \/ Serve(i) \/ Wait(i) \/ StartFails(i)
StopStep(i) == Shutdown(i) \/ Drained(i) \/ PoolClosed(i) \/ StopTimeout(i)

Next ==
    \/ \E i \in Instance : Launch(i) \/ StartStep(i) \/ Signal(i) \/ StopStep(i)
    \/ \E h \in Handler :
          \/ Accept(h)
          \/ Acquire(h)
          \/ StoreReturns(h)
          \/ ClockRead(h)
          \/ RowsRead(h)
          \/ TickerFires(h)
          \/ Leave(h)

Spec == Init /\ [][Next]_vars

\* Hooks run to an end, at the latest when their context expires; the database
\* answers; the pool serves its waiters in turn. Nobody has to launch or signal
\* a process, to call it, or to read the rows of a stream.
FairSpec ==
    /\ Spec
    /\ \A i \in Instance : WF_vars(StartStep(i)) /\ WF_vars(StopStep(i))
    /\ \A h \in Handler : /\ SF_vars(Acquire(h))
                          /\ WF_vars(StoreReturns(h))
                          /\ WF_vars(ClockRead(h))

-----------------------------------------------------------------------------
(***************************************************************************)
(* Properties.                                                             *)
(***************************************************************************)

\* As long as a handler runs, its process has an open pool and the table is
\* there: the server starts last and stops first, and processes that start
\* together may race their migrations (app.go:104-117, 569-583).
HandlersHaveAStore ==
    \A h \in Handler : Active(h) => Home[h] \in pool /\ table

\* Connections that are out are being used: however a handler ends, it leaves
\* none behind (postgres/store.go:164, 216-219).
NoConnectionLeaks == inUse = {h \in Handler : pc[h] \in Holding}

\* A handler that waits for a connection gets one, unless consumers that do not
\* read hold all of them: streams never wait for a connection while holding
\* another, so nothing else can take the pool away for good
\* (postgres/store.go:162-168, 208-219).
Starved(h) ==
    /\ ~HasFreeConn(Home[h])
    /\ \A g \in inUse \cap HandlersOf(Home[h]) : pc[g] = "reads rows"
OnlySlowConsumersStarve ==
    \A h \in Handler : pc[h] \in Waiting ~> (pc[h] \notin Waiting \/ Starved(h))

\* A process whose Run has taken a signal ends, with firehoses that nobody ends
\* and consumers that do not read. Nothing is promised for a signal that comes
\* while the start hooks run (app.go:581, main.go:25-51).
ShutsDown == \A i \in Instance : i \in signalled ~> phase[i] = "down"
=============================================================================
