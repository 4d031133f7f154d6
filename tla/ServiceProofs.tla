---------------------------- MODULE ServiceProofs ----------------------------
(***************************************************************************)
(* Theorems about Service for every set of processes, requests and         *)
(* firehoses, wherever they arrive, and every size of the pool.            *)
(***************************************************************************)
EXTENDS Service, FiniteSetTheorems, TLAPS

\* Past its start hook the pool of a process is open, until its stop hook, and
\* the migration is done.
HooksInv ==
    \A i \in Instance :
        /\ phase[i] \notin {"down", "closing"} => i \in pool
        /\ phase[i] \in {"binding", "listening", "serving", "draining"} => table

\* Handlers run between the server's start hook and the end of its stop hook.
HandlerInv == \A h \in Handler : Active(h) => phase[Home[h]] \in {"serving", "draining"}

IInv ==
    /\ TypeOK
    /\ IsFiniteSet(inUse)
    /\ HooksInv
    /\ HandlerInv
    /\ NoConnectionLeaks

LEMMA InitIInv == Init => IInv
  <1> SUFFICES ASSUME Init PROVE IInv
    OBVIOUS
  <1>1. ASSUME NEW i \in Instance PROVE Cardinality(inUse \cap HandlersOf(i)) <= MaxConns
    <2>1. inUse \cap HandlersOf(i) = {}
      BY DEF Init
    <2> QED
      BY <2>1, FS_EmptySet, ConnsAssumption
  <1>2. TypeOK
    <2>1. pc \in [Handler -> {"away", "waits"} \cup Waiting \cup Holding] /\ inUse \subseteq Handler
      BY DEF Init
    <2> QED
      BY <1>1, <2>1 DEF Init, TypeOK, Phases
  <1> QED
    BY <1>2, FS_EmptySet
    DEF Init, IInv, HooksInv, HandlerInv, NoConnectionLeaks, Active, Holding

-----------------------------------------------------------------------------
(***************************************************************************)
(* The pool: giving connections back keeps the bound, and taking one does  *)
(* when there was a free one.                                              *)
(***************************************************************************)
ConnBound == \A i \in Instance : Cardinality(inUse \cap HandlersOf(i)) <= MaxConns

LEMMA FewerConns ==
    ASSUME TypeOK, IsFiniteSet(inUse), inUse' \subseteq inUse
    PROVE  IsFiniteSet(inUse)' /\ ConnBound'
  <1>1. IsFiniteSet(inUse')
    BY FS_Subset
  <1>2. ASSUME NEW i \in Instance
        PROVE  Cardinality(inUse' \cap HandlersOf(i)) <= MaxConns
    <2>1. IsFiniteSet(inUse \cap HandlersOf(i))
      BY FS_Subset
    <2>2. /\ Cardinality(inUse' \cap HandlersOf(i)) \in Nat
          /\ Cardinality(inUse \cap HandlersOf(i)) \in Nat
          /\ Cardinality(inUse' \cap HandlersOf(i)) <= Cardinality(inUse \cap HandlersOf(i))
      BY <2>1, FS_Subset, FS_CardinalityType
    <2> QED
      BY <2>2, ConnsAssumption DEF TypeOK
  <1> QED
    BY <1>1, <1>2 DEF ConnBound, HandlersOf

LEMMA OneMoreConn ==
    ASSUME TypeOK, IsFiniteSet(inUse), NEW h \in Handler, HasFreeConn(Home[h]),
           inUse' = inUse \cup {h}
    PROVE  IsFiniteSet(inUse)' /\ ConnBound'
  <1>1. IsFiniteSet(inUse')
    BY FS_AddElement
  <1>2. ASSUME NEW i \in Instance
        PROVE  Cardinality(inUse' \cap HandlersOf(i)) <= MaxConns
    <2>1. IsFiniteSet(inUse \cap HandlersOf(i)) /\ Cardinality(inUse \cap HandlersOf(i)) \in Nat
      BY FS_Subset, FS_CardinalityType
    <2>2. CASE Home[h] = i
      <3>1. inUse' \cap HandlersOf(i) = (inUse \cap HandlersOf(i)) \cup {h}
        BY <2>2 DEF HandlersOf
      <3>2. \/ Cardinality(inUse' \cap HandlersOf(i)) = Cardinality(inUse \cap HandlersOf(i))
            \/ Cardinality(inUse' \cap HandlersOf(i)) = Cardinality(inUse \cap HandlersOf(i)) + 1
        BY <2>1, <3>1, FS_AddElement, Zenon
      <3>3. Cardinality(inUse' \cap HandlersOf(i)) \in Nat
        BY <1>1, FS_Subset, FS_CardinalityType
      <3> QED
        BY <2>1, <2>2, <3>2, <3>3, ConnsAssumption DEF HasFreeConn
    <2>3. CASE Home[h] # i
      <3>1. inUse' \cap HandlersOf(i) = inUse \cap HandlersOf(i)
        BY <2>3 DEF HandlersOf
      <3> QED
        BY <3>1 DEF TypeOK
    <2> QED
      BY <2>2, <2>3
  <1> QED
    BY <1>1, <1>2 DEF ConnBound, HandlersOf

-----------------------------------------------------------------------------
(***************************************************************************)
(* Steps of processes. Only the end of a process touches handlers.         *)
(***************************************************************************)
LEMMA ExitStep ==
    ASSUME IInv, NEW i \in Instance, Exit(i)
    PROVE  IInv'
  <1> USE DEF IInv, Exit, Enter
  <1>1. IsFiniteSet(inUse)' /\ ConnBound'
    BY FewerConns
  <1>2. TypeOK'
    BY <1>1 DEF TypeOK, ConnBound, Phases
  <1>3. HooksInv'
    BY DEF HooksInv, TypeOK
  <1>4. HandlerInv'
    BY HandlersAssumption DEF HandlerInv, Active, TypeOK
  <1>5. NoConnectionLeaks'
    BY DEF NoConnectionLeaks, HandlersOf, TypeOK, Holding
  <1> QED
    BY <1>1, <1>2, <1>3, <1>4, <1>5

LEMMA PhaseStep ==
    ASSUME IInv, NEW i \in Instance,
           \/ Launch(i) \/ ReadVersion(i) \/ Migrate(i) \/ Bind(i) \/ Serve(i)
           \/ Wait(i) \/ Signal(i) \/ Shutdown(i) \/ Drained(i)
    PROVE  IInv'
  <1> USE DEF IInv, Enter, Launch, ReadVersion, Migrate, Bind, Serve, Wait, Signal,
              Shutdown, Drained
  <1>1. UNCHANGED <<pc, inUse>>
    OBVIOUS
  <1>2. IsFiniteSet(inUse)' /\ ConnBound'
    BY <1>1, FewerConns
  <1>3. TypeOK'
    BY <1>2 DEF TypeOK, ConnBound, Phases
  <1>4. HooksInv'
    BY DEF HooksInv, TypeOK
  <1>5. HandlerInv'
    BY HandlersAssumption DEF HandlerInv, Active, TypeOK, HandlersOf
  <1>6. NoConnectionLeaks'
    BY <1>1 DEF NoConnectionLeaks
  <1> QED
    BY <1>2, <1>3, <1>4, <1>5, <1>6

-----------------------------------------------------------------------------
(***************************************************************************)
(* Steps of handlers.                                                      *)
(***************************************************************************)
LEMMA HandlerStep ==
    ASSUME IInv, NEW h \in Handler,
           \/ Accept(h) \/ StoreReturns(h) \/ ClockRead(h) \/ RowsRead(h)
           \/ TickerFires(h) \/ Leave(h) \/ Acquire(h)
    PROVE  IInv'
  <1> USE DEF IInv, Move, Accept, StoreReturns, ClockRead, RowsRead, TickerFires,
              Leave, Acquire, processVars
  <1>0. UNCHANGED <<table, phase, pool, todo, attentive, signalled>>
    OBVIOUS
  <1>1. IsFiniteSet(inUse)' /\ ConnBound'
    <2>1. CASE Acquire(h)
      BY <2>1, OneMoreConn
    <2>2. CASE inUse' \subseteq inUse
      BY <2>2, FewerConns
    <2> QED
      BY <2>1, <2>2
  <1>2. TypeOK'
    BY <1>1 DEF TypeOK, ConnBound, Waiting, Holding
  <1>3. HooksInv'
    BY <1>0 DEF HooksInv
  <1>4. HandlerInv'
    BY DEF HandlerInv, Active, TypeOK, Waiting
  <1>5. NoConnectionLeaks'
    <2>1. \A g \in Handler \ {h} : pc'[g] = pc[g] /\ (g \in inUse' <=> g \in inUse)
      BY DEF TypeOK
    <2>2. h \in inUse' <=> pc'[h] \in Holding
      <3> USE DEF NoConnectionLeaks, TypeOK, Waiting, Holding
      <3>1. CASE Acquire(h)
        BY <3>1
      <3>2. CASE StoreReturns(h) \/ ClockRead(h) \/ RowsRead(h) \/ Leave(h)
        BY <3>2
      <3>3. CASE Accept(h) \/ TickerFires(h)
        BY <3>3 DEF Active
      <3> QED
        BY <3>1, <3>2, <3>3
    <2>3. inUse' \subseteq Handler
      BY <1>2 DEF TypeOK
    <2> QED
      BY <2>1, <2>2, <2>3 DEF NoConnectionLeaks
  <1> QED
    BY <1>1, <1>2, <1>3, <1>4, <1>5

LEMMA IInvStep == IInv /\ [Next]_vars => IInv'
  <1> SUFFICES ASSUME IInv, [Next]_vars PROVE IInv'
    OBVIOUS
  <1>1. ASSUME NEW i \in Instance, Launch(i) \/ StartStep(i) \/ Signal(i) \/ StopStep(i)
        PROVE  IInv'
    BY <1>1, PhaseStep, ExitStep
    DEF StartStep, StopStep, StartFails, PoolClosed, StopTimeout
  <1>2. CASE UNCHANGED vars
    BY <1>2 DEF vars, IInv, TypeOK, HooksInv, HandlerInv, NoConnectionLeaks, Active, HandlersOf
  <1> QED
    BY <1>1, <1>2, HandlerStep DEF Next

-----------------------------------------------------------------------------
\* The inductive invariant holds in every reachable state.
THEOREM Invariance == Spec => []IInv
  BY InitIInv, IInvStep, PTL DEF Spec

\* Every variable keeps its type, and no pool gives out more connections than
\* it has (app.go:90-103).
THEOREM TypeCorrect == Spec => []TypeOK
  BY Invariance, PTL DEF IInv

\* Whatever processes start, race their migrations or stop, a running handler
\* has an open pool and a table (app.go:104-117, 569-583).
THEOREM StoreForHandlers == Spec => []HandlersHaveAStore
  <1>1. IInv => HandlersHaveAStore
    BY HandlersAssumption DEF IInv, HooksInv, HandlerInv, HandlersHaveAStore
  <1> QED
    BY <1>1, Invariance, PTL

\* However handlers end, no connection stays out behind them
\* (postgres/store.go:164, 216-219).
THEOREM NoLeaks == Spec => []NoConnectionLeaks
  BY Invariance, PTL DEF IInv
=============================================================================
