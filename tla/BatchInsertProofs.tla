-------------------------- MODULE BatchInsertProofs --------------------------
(***************************************************************************)
(* Theorems about BatchInsert for every set of revocations, paths and      *)
(* writers: what the arguments of the statement hold, and that the rows    *)
(* taken one by one are one atomic insert.                                 *)
(***************************************************************************)
EXTENDS BatchInsert, SequenceTheorems, TLAPS

\* Each id comes with the bounds of its own path among the witnesses.
Sliced(args) ==
    /\ Len(args.starts) = Len(args.ids)
    /\ Len(args.ends) = Len(args.ids)
    /\ \A j \in 1..Len(args.ids) :
          /\ args.starts[j] \in 1..Len(args.witnesses)
          /\ args.ends[j] \in 1..Len(args.witnesses)
          /\ SubSeq(args.witnesses, args.starts[j], args.ends[j]) = Path[args.ids[j]]

ArgsInv == \A w \in Writer : Sliced(call[w].args)

\* A row that a transaction has inserted is one of its arguments, and every
\* argument it has come past is stored or inserted.
InsertedSoFar(w) ==
    /\ ~Open(w) => call[w].own = {} /\ call[w].i = 1
    /\ Open(w) => call[w].i <= Len(call[w].args.ids) + 1
    /\ \A r \in call[w].own :
          /\ r.at = call[w].at
          /\ r.path = Path[r.cause]
          /\ r.cause \in ToSet(call[w].args.ids)
    /\ Open(w) => \A j \in 1..(call[w].i - 1) :
          call[w].args.ids[j] \in CausesOf(rows \cup call[w].own)

OwnInv == \A w \in Writer : InsertedSoFar(w)

\* The primary key: a revocation is in one row, committed or of one open
\* transaction.
KeyInv ==
    /\ \A q, r \in rows : q.cause = r.cause => q = r
    /\ \A w \in Writer :
          /\ CausesOf(call[w].own) \cap CausesOf(rows) = {}
          /\ \A q, r \in call[w].own : q.cause = r.cause => q = r
    /\ \A u, w \in Writer : u # w => CausesOf(call[u].own) \cap CausesOf(call[w].own) = {}

IInv ==
    /\ TypeOK
    /\ ArgsInv
    /\ OwnInv
    /\ KeyInv
    /\ RowsKeepTheirPath

-----------------------------------------------------------------------------
(***************************************************************************)
(* The arguments.                                                          *)
(***************************************************************************)
LEMMA NoArgumentsSliced == NoArguments \in Arguments /\ Sliced(NoArguments)
  BY DEF NoArguments, Arguments, Sliced

LEMMA IdleCallTyped == IdleCall \in Call
  BY NoArgumentsSliced, BoundAssumption DEF IdleCall, Call, Time

\* One turn of the loop keeps every slice and adds that of its own path.
LEMMA WithRevocationSliced ==
    ASSUME NEW args \in Arguments, Sliced(args), NEW c \in Cause, Path[c] # <<>>
    PROVE  WithRevocation(args, c) \in Arguments /\ Sliced(WithRevocation(args, c))
  <1> DEFINE new == WithRevocation(args, c)
             p == Path[c]
             wit == args.witnesses
             n == Len(args.ids)
  <1>1. CASE c \in ToSet(args.ids)
    BY <1>1 DEF WithRevocation
  <1>2. CASE c \notin ToSet(args.ids)
    <2>1. /\ args.ids \in Seq(Cause) /\ wit \in Seq(Witness)
          /\ args.starts \in Seq(Nat) /\ args.ends \in Seq(Nat)
      BY DEF Arguments
    <2>2. p \in Seq(Witness) /\ Len(p) \in Nat \ {0} /\ Len(wit) \in Nat /\ n \in Nat
      BY <2>1, PathAssumption, EmptySeq, LenProperties
    <2>3. /\ new.ids = Append(args.ids, c)
          /\ new.witnesses = wit \o p
          /\ new.starts = Append(args.starts, Len(wit) + 1)
          /\ new.ends = Append(args.ends, Len(wit) + Len(p))
          /\ new = [ids |-> new.ids, witnesses |-> new.witnesses,
                    starts |-> new.starts, ends |-> new.ends]
      BY <1>2 DEF WithRevocation
    <2>slices.
          /\ n = Len(args.ids) /\ Len(args.starts) = n /\ Len(args.ends) = n
          /\ \A j \in 1..n :
                /\ args.starts[j] \in 1..Len(wit) /\ args.ends[j] \in 1..Len(wit)
                /\ SubSeq(wit, args.starts[j], args.ends[j]) = Path[args.ids[j]]
      BY DEF Sliced
    <2> HIDE DEF new, p, wit, n
    <2>4. new.witnesses \in Seq(Witness) /\ Len(new.witnesses) = Len(wit) + Len(p)
      BY <2>1, <2>2, <2>3, ConcatProperties
    <2>bounds. Len(wit) + 1 \in Nat /\ Len(wit) + Len(p) \in Nat
      BY <2>2
    <2>5. new \in Arguments
      <3>1. new.ids \in Seq(Cause)
        BY <2>1, <2>3, AppendProperties
      <3>2. new.starts \in Seq(Nat) /\ new.ends \in Seq(Nat)
        BY <2>1, <2>3, <2>bounds, AppendProperties
      <3> QED
        BY <2>3, <2>4, <3>1, <3>2 DEF Arguments
    <2>6. /\ Len(new.ids) = n + 1 /\ Len(new.starts) = n + 1 /\ Len(new.ends) = n + 1
          /\ new.ids[n + 1] = c
          /\ new.starts[n + 1] = Len(wit) + 1
          /\ new.ends[n + 1] = Len(wit) + Len(p)
          /\ \A j \in 1..n : /\ new.ids[j] = args.ids[j]
                             /\ new.starts[j] = args.starts[j]
                             /\ new.ends[j] = args.ends[j]
      <3>1. /\ Len(new.ids) = n + 1 /\ new.ids[n + 1] = c
            /\ \A j \in 1..n : new.ids[j] = args.ids[j]
        BY <2>1, <2>3, <2>slices, AppendProperties
      <3> DEFINE first == Len(wit) + 1
                 last == Len(wit) + Len(p)
      <3>a. first \in Nat /\ last \in Nat
        BY <2>bounds
      <3>b. new.starts = Append(args.starts, first) /\ new.ends = Append(args.ends, last)
        BY <2>3
      <3>c. args.starts \in Seq(Nat) /\ args.ends \in Seq(Nat)
            /\ Len(args.starts) = n /\ Len(args.ends) = n
        BY <2>1, <2>slices
      <3> HIDE DEF first, last
      <3>2. /\ Len(new.starts) = n + 1 /\ new.starts[n + 1] = first
            /\ \A j \in 1..n : new.starts[j] = args.starts[j]
        BY <3>a, <3>b, <3>c, AppendProperties
      <3>3. /\ Len(new.ends) = n + 1 /\ new.ends[n + 1] = last
            /\ \A j \in 1..n : new.ends[j] = args.ends[j]
        BY <3>a, <3>b, <3>c, AppendProperties
      <3> QED
        BY <3>1, <3>2, <3>3 DEF first, last
    <2>7. ASSUME NEW j \in 1..n
          PROVE  /\ new.starts[j] \in 1..Len(new.witnesses)
                 /\ new.ends[j] \in 1..Len(new.witnesses)
                 /\ SubSeq(new.witnesses, new.starts[j], new.ends[j]) = Path[new.ids[j]]
      <3>1. /\ args.starts[j] \in 1..Len(wit) /\ args.ends[j] \in 1..Len(wit)
            /\ SubSeq(wit, args.starts[j], args.ends[j]) = Path[args.ids[j]]
        BY <2>slices, <2>7
      <3>2. SubSeq(wit \o p, args.starts[j], args.ends[j]) =
              SubSeq(wit, args.starts[j], args.ends[j])
        BY <2>1, <2>2, <3>1, SubSeqOfConcat1
      <3>3. SubSeq(new.witnesses, new.starts[j], new.ends[j]) = Path[new.ids[j]]
        BY <2>3, <2>6, <3>1, <3>2
      <3>4. new.starts[j] \in 1..Len(wit) /\ new.ends[j] \in 1..Len(wit)
        BY <2>6, <3>1
      <3>5. \A k \in 1..Len(wit) : k \in 1..Len(new.witnesses)
        BY <2>2, <2>4
      <3> QED
        BY <3>3, <3>4, <3>5
    <2>8. /\ new.starts[n + 1] \in 1..Len(new.witnesses)
          /\ new.ends[n + 1] \in 1..Len(new.witnesses)
          /\ SubSeq(new.witnesses, new.starts[n + 1], new.ends[n + 1]) = p
      <3>1. /\ Len(wit) + 1 \in Len(wit)+1 .. Len(wit)+Len(p)
            /\ Len(wit) + Len(p) \in Len(wit)+1 .. Len(wit)+Len(p)
        BY <2>2
      <3>2. SubSeq(wit \o p, Len(wit) + 1, Len(wit) + Len(p)) =
              SubSeq(p, Len(wit) + 1 - Len(wit), Len(wit) + Len(p) - Len(wit))
        BY <2>1, <2>2, <3>1, SubSeqOfConcat2
      <3>3. Len(wit) + 1 - Len(wit) = 1 /\ Len(wit) + Len(p) - Len(wit) = Len(p)
        BY <2>2
      <3>4. SubSeq(p, 1, Len(p)) = p
        BY <2>2, SubSeqFull
      <3>5. SubSeq(new.witnesses, new.starts[n + 1], new.ends[n + 1]) = p
        BY <2>3, <2>6, <3>2, <3>3, <3>4
      <3> QED
        BY <2>2, <2>4, <2>6, <3>5
    <2>9. Sliced(new)
      <3>1. \A j \in 1..(n + 1) : j \in 1..n \/ j = n + 1
        BY <2>2
      <3>2. Path[new.ids[n + 1]] = p
        BY <2>6 DEF p
      <3> QED
        BY <2>2, <2>6, <2>7, <2>8, <3>1, <3>2 DEF Sliced
    <2> QED
      BY <2>5, <2>9 DEF new
  <1> QED
    BY <1>1, <1>2

\* The row the statement takes next has the path of its own revocation.
LEMMA NextRowTyped ==
    ASSUME TypeOK, ArgsInv, NEW w \in Writer, HasNext(w)
    PROVE  /\ NextRow(w) \in Row
           /\ NextRow(w).cause = NextCause(w)
           /\ NextRow(w).at = call[w].at
           /\ NextRow(w).path = Path[NextCause(w)]
           /\ NextCause(w) \in ToSet(call[w].args.ids)
  <1> DEFINE args == call[w].args
             j == call[w].i
  <1>1. args \in Arguments /\ j \in Nat \ {0} /\ call[w].at \in Time
    BY DEF TypeOK, Call
  <1>2. args.ids \in Seq(Cause) /\ Len(args.ids) \in Nat
    BY <1>1, LenProperties DEF Arguments
  <1>3. j \in 1..Len(args.ids)
    BY <1>1, <1>2 DEF HasNext
  <1>4. NextCause(w) \in Cause /\ NextCause(w) \in ToSet(args.ids)
    BY <1>2, <1>3, ElementOfSeq, LenProperties DEF NextCause, ToSet
  <1>5. SubSeq(args.witnesses, args.starts[j], args.ends[j]) = Path[NextCause(w)]
    BY <1>3 DEF ArgsInv, Sliced, NextCause
  <1>6. NextRow(w) = [cause |-> NextCause(w), at |-> call[w].at, path |-> Path[NextCause(w)]]
    BY <1>5 DEF NextRow, NextCause
  <1> QED
    BY <1>1, <1>4, <1>6, PathAssumption DEF Row

-----------------------------------------------------------------------------
(***************************************************************************)
(* The steps of a call.                                                    *)
(***************************************************************************)
LEMMA InitIInv == Init => IInv
  <1> SUFFICES ASSUME Init PROVE IInv
    OBVIOUS
  <1>1. \A w \in Writer : call[w] = IdleCall
    BY DEF Init
  <1>2. TypeOK
    BY IdleCallTyped, BoundAssumption DEF Init, TypeOK, Time
  <1>3. ArgsInv
    BY <1>1, NoArgumentsSliced DEF ArgsInv, IdleCall
  <1>4. OwnInv /\ KeyInv
    BY <1>1 DEF Init, OwnInv, InsertedSoFar, KeyInv, IdleCall, Open, CausesOf
  <1> QED
    BY <1>2, <1>3, <1>4 DEF Init, IInv, RowsKeepTheirPath

LEMMA Unchanged ==
    ASSUME IInv, UNCHANGED <<rows, call>>, now' \in Time
    PROVE  IInv'
  BY DEF IInv, TypeOK, ArgsInv, OwnInv, InsertedSoFar, KeyInv, RowsKeepTheirPath, Open, CausesOf

\* The call moves to a state in which it has inserted nothing.
LEMMA CallOwnsNothing ==
    ASSUME IInv, NEW w \in Writer, NEW k \in Call,
           call' = [call EXCEPT ![w] = k], UNCHANGED <<now, rows>>,
           Sliced(k.args), k.own = {}, k.i = 1
    PROVE  IInv'
  <1>1. TypeOK'
    BY DEF IInv, TypeOK
  <1>2. call'[w] = k /\ \A u \in Writer \ {w} : call'[u] = call[u]
    BY DEF IInv, TypeOK
  <1>3. ArgsInv'
    BY <1>2 DEF IInv, ArgsInv
  <1>4. OwnInv'
    <2>1. k.args.ids \in Seq(Cause)
      BY DEF Call, Arguments
    <2>2. k.i <= Len(k.args.ids) + 1 /\ 1..(k.i - 1) = {}
      BY <2>1, LenProperties
    <2> QED
      BY <1>2, <2>2 DEF IInv, OwnInv, InsertedSoFar, Open, CausesOf
  <1>5. KeyInv'
    <2>1. CausesOf(call[w].own)' = {}
      BY <1>2 DEF CausesOf
    <2>2. \A u \in Writer \ {w} : CausesOf(call[u].own)' = CausesOf(call[u].own)
      BY <1>2 DEF CausesOf
    <2>3. CausesOf(rows)' = CausesOf(rows)
      BY DEF CausesOf
    <2> QED
      BY <1>2, <2>1, <2>2, <2>3 DEF IInv, KeyInv
  <1> QED
    BY <1>1, <1>3, <1>4, <1>5 DEF IInv, RowsKeepTheirPath

LEMMA PrepareStep ==
    ASSUME IInv, NEW w \in Writer, AddBatch(w) \/ Prepare(w) \/ Fail(w)
    PROVE  IInv'
  <1> USE DEF IInv
  <1>1. call[w] \in Call /\ Sliced(call[w].args) /\ call \in [Writer -> Call]
    BY DEF TypeOK, ArgsInv
  <1>2. IdleCall \in Call /\ Sliced(IdleCall.args) /\ IdleCall.own = {} /\ IdleCall.i = 1
    BY IdleCallTyped, NoArgumentsSliced DEF IdleCall
  <1>3. CASE AddBatch(w)
    <2> DEFINE k == [IdleCall EXCEPT !.state = "building"]
    <2>1. k \in Call /\ Sliced(k.args) /\ k.own = {} /\ k.i = 1
      BY <1>2 DEF Call
    <2> QED
      BY <1>3, <2>1, CallOwnsNothing DEF AddBatch
  <1>4. ASSUME NEW c \in Cause, AddRevocation(w, c) PROVE IInv'
    <2> DEFINE k == [call[w] EXCEPT !.args = WithRevocation(@, c)]
    <2>1. call[w].args \in Arguments /\ call[w].own = {} /\ call[w].i = 1
      BY <1>1, <1>4 DEF Call, AddRevocation, Building, Open, OwnInv, InsertedSoFar
    <2>2. WithRevocation(call[w].args, c) \in Arguments /\ Sliced(WithRevocation(call[w].args, c))
      BY <1>1, <1>4, <2>1, WithRevocationSliced DEF AddRevocation
    <2>3. k \in Call /\ Sliced(k.args) /\ k.own = {} /\ k.i = 1
      BY <1>1, <2>1, <2>2 DEF Call
    <2>4. call' = [call EXCEPT ![w] = k] /\ UNCHANGED <<now, rows>>
      BY <1>4 DEF AddRevocation
    <2> HIDE DEF k
    <2> QED
      BY <2>3, <2>4, CallOwnsNothing
  <1>5. CASE Send(w)
    <2> DEFINE k == [call[w] EXCEPT !.state = "open", !.at = now]
    <2>1. call[w].own = {} /\ call[w].i = 1 /\ now \in Time
      BY <1>5 DEF Send, Building, Open, OwnInv, InsertedSoFar, TypeOK
    <2>2. k \in Call /\ Sliced(k.args) /\ k.own = {} /\ k.i = 1
      BY <1>1, <2>1 DEF Call
    <2>3. call' = [call EXCEPT ![w] = k] /\ UNCHANGED <<now, rows>>
      BY <1>5 DEF Send
    <2> HIDE DEF k
    <2> QED
      BY <2>2, <2>3, CallOwnsNothing
  <1>6. CASE Refuse(w) \/ Fail(w)
    BY <1>2, <1>6, CallOwnsNothing DEF Refuse, Fail
  <1> QED
    BY <1>3, <1>4, <1>5, <1>6 DEF Prepare

LEMMA InsertRowStep ==
    ASSUME IInv, NEW w \in Writer, InsertRow(w)
    PROVE  IInv'
  <1> DEFINE own == IF Conflicts(w) THEN call[w].own ELSE call[w].own \cup {NextRow(w)}
             c == NextCause(w)
             k == [call[w] EXCEPT !.i = @ + 1, !.own = own]
  <1> USE DEF IInv
  <1>1. /\ NextRow(w) \in Row /\ NextRow(w).cause = c /\ NextRow(w).at = call[w].at
        /\ NextRow(w).path = Path[c] /\ c \in ToSet(call[w].args.ids)
    BY NextRowTyped DEF InsertRow
  <1>2. UNCHANGED <<now, rows>> /\ HasNext(w) /\ Open(w)
    BY DEF InsertRow, HasNext
  <1>3. call[w] \in Call
    BY DEF TypeOK
  <1>4. k \in Call /\ k.state = "open" /\ k.at = call[w].at /\ k.args = call[w].args
          /\ k.i = call[w].i + 1 /\ k.own = own
    <2>1. own \in SUBSET Row
      BY <1>1, <1>3 DEF Call
    <2>2. call[w].i + 1 \in Nat \ {0} /\ call[w].state = "open"
      BY <1>2, <1>3 DEF Call, Open
    <2> HIDE DEF own
    <2> QED
      BY <1>3, <2>1, <2>2 DEF Call
  <1>5. call' = [call EXCEPT ![w] = k]
    BY DEF InsertRow
  <1>6. call'[w] = k /\ \A u \in Writer \ {w} : call'[u] = call[u]
    BY <1>5 DEF TypeOK
  <1>7. TypeOK'
    BY <1>2, <1>4, <1>5 DEF TypeOK
  <1>8. \A r \in own : r \in call[w].own \/ (r = NextRow(w) /\ ~Conflicts(w))
    OBVIOUS
  <1>9. call[w].own \subseteq own /\ c \in CausesOf(rows \cup own)
    BY <1>1 DEF Conflicts, CausesOf
  <1> HIDE DEF own, k, c
  <1>10. ArgsInv'
    BY <1>4, <1>6 DEF ArgsInv
  <1>11. OwnInv'
    <2>1. /\ k.i <= Len(k.args.ids) + 1
          /\ \A r \in k.own : /\ r.at = k.at /\ r.path = Path[r.cause]
                               /\ r.cause \in ToSet(k.args.ids)
      <3>1. call[w].i \in Nat \ {0} /\ Len(call[w].args.ids) \in Nat
        BY <1>3, LenProperties DEF Call, Arguments
      <3>2. k.i <= Len(k.args.ids) + 1
        BY <1>2, <1>4, <3>1 DEF HasNext
      <3>3. ASSUME NEW r \in own
            PROVE  r.at = call[w].at /\ r.path = Path[r.cause] /\ r.cause \in ToSet(call[w].args.ids)
        BY <1>1, <1>8, <3>3 DEF OwnInv, InsertedSoFar
      <3> QED
        BY <1>4, <3>2, <3>3
    <2>2. ASSUME NEW j \in 1..(k.i - 1)
          PROVE  k.args.ids[j] \in CausesOf(rows \cup k.own)
      <3>1. call[w].i \in Nat \ {0}
        BY <1>3 DEF Call
      <3>2. CASE j = call[w].i
        BY <1>4, <1>9, <3>2 DEF NextCause, c
      <3>3. CASE j \in 1..(call[w].i - 1)
        <4>1. k.args.ids[j] \in CausesOf(rows \cup call[w].own)
          BY <1>2, <1>4, <3>3 DEF OwnInv, InsertedSoFar
        <4> QED
          BY <1>4, <1>9, <4>1 DEF CausesOf
      <3> QED
        BY <1>4, <3>1, <3>2, <3>3
    <2>4. \A u \in Writer \ {w} : CausesOf(rows \cup call[u].own)' = CausesOf(rows \cup call[u].own)
      BY <1>2, <1>6 DEF CausesOf
    <2>5. CausesOf(rows \cup call[w].own)' = CausesOf(rows \cup k.own)
      BY <1>2, <1>6 DEF CausesOf
    <2>6. InsertedSoFar(w)'
      BY <1>4, <1>6, <2>1, <2>2, <2>5 DEF InsertedSoFar, Open
    <2>7. ASSUME NEW u \in Writer \ {w} PROVE InsertedSoFar(u)'
      <3>1. InsertedSoFar(u) /\ call'[u] = call[u] /\ rows' = rows
        BY <1>2, <1>6 DEF OwnInv
      <3> QED
        BY <3>1 DEF InsertedSoFar, Open, CausesOf
    <2> QED
      BY <2>6, <2>7 DEF OwnInv, InsertedSoFar
  <1>12. KeyInv'
    <2>1. ~Conflicts(w) => \A u \in Writer : c \notin CausesOf(call[u].own) /\ c \notin CausesOf(rows)
      BY <1>2 DEF InsertRow, WaitsFor, Conflicts, CausesOf, c
    <2>2. CausesOf(own) \subseteq CausesOf(call[w].own) \cup (IF Conflicts(w) THEN {} ELSE {c})
      BY <1>1, <1>8 DEF CausesOf
    <2>3. CausesOf(call[w].own)' = CausesOf(own)
      BY <1>4, <1>6 DEF CausesOf
    <2>4. \A u \in Writer \ {w} : CausesOf(call[u].own)' = CausesOf(call[u].own)
      BY <1>6 DEF CausesOf
    <2>5. CausesOf(rows)' = CausesOf(rows)
      BY <1>2 DEF CausesOf
    <2>6. ASSUME NEW q \in own, NEW r \in own, q.cause = r.cause
          PROVE  q = r
      BY <1>1, <1>8, <2>1, <2>6 DEF KeyInv, CausesOf
    <2>7. CausesOf(own) \cap CausesOf(rows) = {}
      BY <2>1, <2>2 DEF KeyInv
    <2>8. \A u \in Writer \ {w} : CausesOf(own) \cap CausesOf(call[u].own) = {}
      BY <2>1, <2>2 DEF KeyInv
    <2> QED
      BY <1>2, <1>4, <1>6, <2>3, <2>4, <2>5, <2>6, <2>7, <2>8 DEF KeyInv
  <1> QED
    BY <1>2, <1>7, <1>10, <1>11, <1>12 DEF RowsKeepTheirPath

LEMMA CommitStep ==
    ASSUME IInv, NEW w \in Writer, Commit(w)
    PROVE  IInv'
  <1> USE DEF IInv
  <1>1. call' = [call EXCEPT ![w] = IdleCall] /\ now' = now /\ rows' = rows \cup call[w].own
    BY DEF Commit
  <1>2. call'[w] = IdleCall /\ \A u \in Writer \ {w} : call'[u] = call[u]
    BY <1>1 DEF TypeOK
  <1>3. TypeOK'
    BY <1>1, IdleCallTyped DEF TypeOK, Call
  <1>4. ArgsInv'
    BY <1>2, NoArgumentsSliced DEF ArgsInv, IdleCall
  <1>5. OwnInv'
    <2>2. \A u \in Writer \ {w} : Open(u)' = Open(u) /\ call'[u] = call[u]
      BY <1>2 DEF Open
    <2>3. ~Open(w)' /\ call'[w].own = {} /\ call'[w].i = 1
      BY <1>2 DEF Open, IdleCall
    <2>4. InsertedSoFar(w)'
      BY <2>3 DEF InsertedSoFar
    <2>5. ASSUME NEW u \in Writer \ {w} PROVE InsertedSoFar(u)'
      <3>1. InsertedSoFar(u) /\ call'[u] = call[u] /\ Open(u)' = Open(u)
        BY <2>2 DEF OwnInv
      <3>2. CausesOf(rows \cup call[u].own) \subseteq CausesOf(rows' \cup call[u].own)
        BY <1>1 DEF CausesOf
      <3> QED
        BY <3>1, <3>2 DEF InsertedSoFar
    <2> QED
      BY <2>4, <2>5 DEF OwnInv, InsertedSoFar
  <1>6. KeyInv'
    <2>1. CausesOf(rows)' = CausesOf(rows) \cup CausesOf(call[w].own)
      BY <1>1 DEF CausesOf
    <2>2. CausesOf(call[w].own)' = {}
      BY <1>2 DEF CausesOf, IdleCall
    <2>3. \A u \in Writer \ {w} : CausesOf(call[u].own)' = CausesOf(call[u].own)
      BY <1>2 DEF CausesOf
    <2>4. ASSUME NEW q \in rows', NEW r \in rows', q.cause = r.cause PROVE q = r
      BY <1>1, <2>4 DEF KeyInv, CausesOf
    <2> QED
      BY <1>2, <2>1, <2>2, <2>3, <2>4 DEF KeyInv, IdleCall
  <1>7. RowsKeepTheirPath'
    BY <1>1 DEF RowsKeepTheirPath, OwnInv, InsertedSoFar
  <1> QED
    BY <1>3, <1>4, <1>5, <1>6, <1>7

LEMMA IInvStep == IInv /\ [Next]_vars => IInv'
  <1> SUFFICES ASSUME IInv, [Next]_vars PROVE IInv'
    OBVIOUS
  <1>1. CASE Tick
    <2>1. now' \in Time
      BY <1>1, BoundAssumption DEF Tick, IInv, TypeOK, Time
    <2> QED
      BY <1>1, <2>1, Unchanged DEF Tick
  <1>2. CASE UNCHANGED vars
    <2>1. now' \in Time
      BY <1>2 DEF vars, IInv, TypeOK
    <2> QED
      BY <1>2, <2>1, Unchanged DEF vars
  <1> QED
    BY <1>1, <1>2, PrepareStep, InsertRowStep, CommitStep DEF Next, DetectDeadlock

-----------------------------------------------------------------------------
\* The inductive invariant holds in every reachable state.
THEOREM Invariance == Spec => []IInv
  BY InitIInv, IInvStep, PTL DEF Spec

\* Every stored row has the witness path of its own revocation, for every
\* batch and whatever repeats it has (store.go:55-57, 66-90, 95).
THEOREM OwnPath == Spec => []RowsKeepTheirPath
  <1>1. IInv => RowsKeepTheirPath
    BY DEF IInv
  <1> QED
    BY <1>1, Invariance, PTL

-----------------------------------------------------------------------------
(***************************************************************************)
(* A call is the one atomic insert of PostgresStore: Send begins its       *)
(* transaction, Commit adds the rows of the batch that are not stored,     *)
(* Fail rolls it back, and the loop and the rows are stutters.             *)
(***************************************************************************)
LEMMA TransactionOf ==
    ASSUME TypeOK, NEW w \in Writer, NEW k, call' = [call EXCEPT ![w] = k]
    PROVE  Transactions' = [Transactions EXCEPT ![w] =
               IF k.state = "open"
               THEN [state |-> "open", at |-> k.at, batch |-> ToSet(k.args.ids)]
               ELSE IdleTransaction]
  <1>1. \A u \in Writer : call'[u] = IF u = w THEN k ELSE call[u]
    BY DEF TypeOK
  <1> QED
    BY <1>1 DEF Transactions, Open, IdleTransaction

LEMMA IdleCloses ==
    ASSUME TypeOK, NEW w \in Writer, call' = [call EXCEPT ![w] = IdleCall]
    PROVE  Transactions' = [Transactions EXCEPT ![w] = Store!IdleCall]
  <1>1. IdleCall.state = "idle"
    BY DEF IdleCall
  <1>2. Store!IdleCall = IdleTransaction
    BY DEF Store!IdleCall, IdleTransaction
  <1>3. Transactions' = [Transactions EXCEPT ![w] = IdleTransaction]
    BY <1>1, TransactionOf
  <1> QED
    BY <1>2, <1>3

LEMMA StoreInit == Init => Store!Init
  <1> SUFFICES ASSUME Init PROVE Store!Init
    OBVIOUS
  <1>1. \A f : [s \in {} |-> f] = NoStreams
    BY DEF NoStreams
  <1>2. StoredRows = {}
    BY DEF Init, StoredRows
  <1>3. Transactions = [w \in Writer |-> Store!IdleCall]
    BY DEF Init, Transactions, Open, IdleCall, IdleTransaction, Store!IdleCall
  <1> QED
    BY <1>1, <1>2, <1>3 DEF Init, Store!Init, NoStreams

LEMMA SendBegins ==
    ASSUME TypeOK, NEW w \in Writer, Send(w)
    PROVE  \E batch \in SUBSET Cause : Store!AddBatch(w, batch)
  <1> DEFINE batch == ToSet(call[w].args.ids)
             k == [call[w] EXCEPT !.state = "open", !.at = now]
  <1>1. call[w] \in Call /\ call[w].state = "building"
    BY DEF TypeOK, Send, Building
  <1>2. call[w].args.ids \in Seq(Cause) /\ call[w].args.ids # <<>>
    BY <1>1 DEF Call, Arguments, Send
  <1>3. batch \in SUBSET Cause /\ batch # {}
    <2>1. 1 \in DOMAIN call[w].args.ids
      BY <1>2, EmptySeq, LenProperties
    <2> QED
      <3>1. \A j \in DOMAIN call[w].args.ids : call[w].args.ids[j] \in Cause
        BY <1>2
      <3> QED
        BY <2>1, <3>1 DEF ToSet
  <1>4. k.state = "open" /\ k.at = now /\ k.args = call[w].args
    BY <1>1 DEF Call
  <1>5. call' = [call EXCEPT ![w] = k] /\ UNCHANGED <<now, rows>>
    BY DEF Send
  <1> HIDE DEF k
  <1>6. Transactions' = [Transactions EXCEPT ![w] =
                            [state |-> "open", at |-> now, batch |-> batch]]
    BY <1>4, <1>5, TransactionOf
  <1>7. Transactions[w].state = "idle"
    BY <1>1 DEF Transactions, Open, IdleTransaction
  <1>8. UNCHANGED <<StoredRows, NoStreams>>
    BY <1>5 DEF StoredRows, NoStreams
  <1> QED
    BY <1>3, <1>5, <1>6, <1>7, <1>8 DEF Store!AddBatch, Store!streamVars

LEMMA CommitCommits ==
    ASSUME IInv, NEW w \in Writer, Commit(w)
    PROVE  Store!Commit(w)
  <1> DEFINE ids == call[w].args.ids
             own == call[w].own
  <1> USE DEF IInv
  <1>1. /\ call' = [call EXCEPT ![w] = IdleCall]
        /\ now' = now /\ rows' = rows \cup own
        /\ Open(w) /\ ~HasNext(w)
    BY DEF Commit
  <1>2. Transactions[w] = [state |-> "open", at |-> call[w].at, batch |-> ToSet(ids)]
    BY <1>1 DEF Transactions
  <1>3. Transactions' = [Transactions EXCEPT ![w] = Store!IdleCall]
    BY <1>1, IdleCloses
  <1>4. Store!StoredCauses = CausesOf(rows)
    <2>1. Store!StoredCauses = {r.cause : r \in StoredRows}
      BY DEF Store!StoredCauses
    <2>2. \A r \in rows : [cause |-> r.cause, at |-> r.at] \in StoredRows
      BY DEF StoredRows
    <2>3. \A q \in StoredRows : \E r \in rows : q.cause = r.cause
      BY DEF StoredRows
    <2> QED
      BY <2>1, <2>2, <2>3 DEF CausesOf
  <1>5. CausesOf(own) = ToSet(ids) \ CausesOf(rows)
    <2>1. ids \in Seq(Cause) /\ call[w].i \in Nat \ {0} /\ Len(ids) \in Nat
      BY LenProperties DEF TypeOK, Call, Arguments
    <2>2. DOMAIN ids = 1..(call[w].i - 1)
      <3>1. call[w].i = Len(ids) + 1
        <4>1. call[w].i <= Len(ids) + 1
          BY <1>1 DEF OwnInv, InsertedSoFar
        <4>2. ~(call[w].i <= Len(ids))
          BY <1>1 DEF HasNext
        <4> QED
          BY <2>1, <4>1, <4>2
      <3> QED
        BY <2>1, <3>1, LenProperties
    <2>3. ToSet(ids) \subseteq CausesOf(rows \cup own)
      BY <1>1, <2>2 DEF OwnInv, InsertedSoFar, ToSet
    <2>4. CausesOf(own) \subseteq ToSet(ids) /\ CausesOf(own) \cap CausesOf(rows) = {}
      BY DEF OwnInv, InsertedSoFar, KeyInv, CausesOf
    <2>5. CausesOf(rows \cup own) = CausesOf(rows) \cup CausesOf(own)
      BY DEF CausesOf
    <2> QED
      BY <2>3, <2>4, <2>5
  <1>6. Store!Inserted(w) = {[cause |-> c, at |-> call[w].at] : c \in CausesOf(own)}
    BY <1>2, <1>4, <1>5 DEF Store!Inserted
  <1>7. {[cause |-> r.cause, at |-> r.at] : r \in own} =
           {[cause |-> c, at |-> call[w].at] : c \in CausesOf(own)}
    BY DEF OwnInv, InsertedSoFar, CausesOf
  <1>8. StoredRows' = StoredRows \cup {[cause |-> r.cause, at |-> r.at] : r \in own}
    BY <1>1 DEF StoredRows
  <1>9. StoredRows' = StoredRows \cup Store!Inserted(w)
    BY <1>6, <1>7, <1>8
  <1>10. NoStreams' = NoStreams
    BY DEF NoStreams
  <1> QED
    BY <1>1, <1>2, <1>3, <1>9, <1>10 DEF Store!Commit, Store!streamVars

LEMMA FailAborts ==
    ASSUME TypeOK, NEW w \in Writer, Fail(w)
    PROVE  Store!Abort(w)
  <1>1. call' = [call EXCEPT ![w] = IdleCall] /\ UNCHANGED <<now, rows>> /\ Open(w)
    BY DEF Fail
  <1>2. Transactions[w].state = "open"
    BY <1>1 DEF Transactions
  <1>3. Transactions' = [Transactions EXCEPT ![w] = Store!IdleCall]
    BY <1>1, IdleCloses
  <1>4. UNCHANGED <<StoredRows, NoStreams>>
    BY <1>1 DEF StoredRows, NoStreams
  <1> QED
    BY <1>1, <1>2, <1>3, <1>4 DEF Store!Abort, Store!streamVars

\* A step that neither opens nor closes a transaction.
LEMMA LoopAndRowsStutter ==
    ASSUME TypeOK, NEW w \in Writer,
           \/ AddBatch(w) \/ (\E c \in Cause : AddRevocation(w, c)) \/ Refuse(w)
           \/ InsertRow(w)
    PROVE  UNCHANGED Store!vars
  <1>1. UNCHANGED <<now, rows>>
    BY DEF AddBatch, AddRevocation, Refuse, InsertRow
  <1>2. \A u \in Writer \ {w} : call'[u] = call[u]
    BY DEF AddBatch, AddRevocation, Refuse, InsertRow, TypeOK
  <1>3. /\ Open(w)' = Open(w)
        /\ Open(w) => call'[w].at = call[w].at /\ call'[w].args = call[w].args
    <2>1. call[w] \in Call /\ call \in [Writer -> Call]
      BY DEF TypeOK
    <2>2. CASE AddBatch(w)
      BY <2>1, <2>2 DEF AddBatch, Open, IdleCall
    <2>3. CASE \E c \in Cause : AddRevocation(w, c)
      <3>1. call[w].state = "building" /\ call'[w].state = "building"
        BY <2>1, <2>3 DEF AddRevocation, Building, Call
      <3> QED
        BY <3>1 DEF Open
    <2>4. CASE Refuse(w)
      BY <2>1, <2>4 DEF Refuse, Building, Open, IdleCall
    <2>5. CASE InsertRow(w)
      BY <2>1, <2>5 DEF InsertRow, HasNext, Open, Call
    <2> QED
      BY <2>2, <2>3, <2>4, <2>5
  <1>4. Transactions' = Transactions
    BY <1>2, <1>3 DEF Transactions, Open, IdleTransaction
  <1> QED
    BY <1>1, <1>4 DEF Store!vars, StoredRows, NoStreams

LEMMA TickTicks ==
    ASSUME TypeOK, Tick
    PROVE  Store!Tick
  <1>1. now < MaxTime /\ now' = now + 1 /\ UNCHANGED <<rows, call>>
    BY DEF Tick
  <1>2. UNCHANGED <<StoredRows, Transactions, NoStreams>>
    BY <1>1 DEF StoredRows, Transactions, Open, IdleTransaction, NoStreams
  <1>3. ASSUME NEW w \in Writer, Transactions[w].state = "open"
        PROVE  now < Transactions[w].at + MaxTime
    <2>1. Open(w) /\ Transactions[w].at = call[w].at
      BY <1>3 DEF Transactions, IdleTransaction
    <2>2. call[w].at \in Nat
      BY DEF TypeOK, Call, Time
    <2> QED
      BY <1>1, <2>1, <2>2, BoundAssumption DEF TypeOK, Time
  <1> QED
    BY <1>1, <1>2, <1>3 DEF Store!Tick, Store!streamVars

LEMMA StoreStep ==
    ASSUME IInv, [Next]_vars
    PROVE  [Store!Next]_Store!vars
  <1> USE DEF IInv
  <1>1. CASE Tick
    BY <1>1, TickTicks DEF Store!Next
  <1>2. CASE UNCHANGED vars
    BY <1>2 DEF vars, Store!vars, StoredRows, Transactions, Open, IdleTransaction, NoStreams
  <1>3. ASSUME NEW w \in Writer, Store!WriterNext(w)
        PROVE  [Store!Next]_Store!vars
    BY <1>3 DEF Store!Next
  <1>4. ASSUME NEW w \in Writer, AddBatch(w) \/ Prepare(w) \/ InsertRow(w)
        PROVE  [Store!Next]_Store!vars
    <2>1. CASE Send(w)
      BY <2>1, <1>3, SendBegins DEF Store!WriterNext
    <2> QED
      BY <1>4, <2>1, LoopAndRowsStutter DEF Prepare
  <1>5. ASSUME NEW w \in Writer, Commit(w) \/ Fail(w)
        PROVE  [Store!Next]_Store!vars
    BY <1>5, <1>3, CommitCommits, FailAborts DEF Store!WriterNext
  <1> QED
    BY <1>1, <1>2, <1>4, <1>5 DEF Next, DetectDeadlock

\* AddBatch, row by row, implements the atomic insert of PostgresStore.
THEOREM Refinement == Spec => ImplementsStore
  BY Invariance, StoreInit, StoreStep, PTL DEF Spec, ImplementsStore, Store!Spec
=============================================================================
