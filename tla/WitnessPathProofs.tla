-------------------------- MODULE WitnessPathProofs --------------------------
(***************************************************************************)
(* Theorems about WitnessPath for every set of principals and containers   *)
(* of every size.                                                          *)
(***************************************************************************)
EXTENDS WitnessPath, FiniteSetTheorems, SequenceTheorems, TLAPS

WitnessTypeOK ==
    /\ IsFiniteSet(witnesses)
    /\ verified \subseteq witnesses
    /\ status \in {"start", "climbing", "found", "published"} \cup Failures
    /\ path \in Seq(witnesses)

\* The request that would carry the path p.
RequestOf(p) ==
    [revoker |-> revoker, revoke |-> revoke, path |-> p, witnesses |-> witnesses]

\* The paths Revocable is about, the empty one aside.
Acceptable == {p \in Paths : p # <<>> /\ Accepts(RequestOf(p), verified)}

\* The climb meets nothing twice, passes no root and stays upstream.
PathInv ==
    /\ IsInjective(path)
    /\ \A i \in 1..Len(path) : path[i] \in Upstream

\* Every acceptable path ends the way the climb went.
ClimbInv ==
    status = "climbing" =>
        /\ path # <<>> /\ path[1] = revoke /\ revoke.iss # revoker
        /\ \A i \in 1..(Len(path) - 1) : ~SelfIssued(path[i])
        /\ \A p \in Acceptable :
              /\ Len(path) <= Len(p)
              /\ \A k \in 1..Len(path) : p[Len(p) + 1 - k] = path[k]

\* The issuer needs no path; for anyone else only the path found could do.
FoundInv ==
    status \in {"found", "published"} =>
        /\ path # <<>> /\ Last(path) = revoke
        /\ \/ revoke.iss = revoker /\ path = <<revoke>>
           \/ revoke.iss # revoker /\ path \in Paths /\ Acceptable \subseteq {path}

RequestInv ==
    status = "published" =>
        request = Published(revoker, Last(path), SubSeq(path, 1, Len(path) - 1))

GiveUpInv ==
    /\ status = "start" => path = <<>>
    /\ status = "missing" => revoke \notin witnesses
    /\ status \in {"no parent", "cycle"} => revoke.iss # revoker /\ Acceptable = {}

WitnessInv ==
    /\ WitnessTypeOK
    /\ PathInv
    /\ ClimbInv
    /\ FoundInv
    /\ RequestInv
    /\ GiveUpInv

-----------------------------------------------------------------------------
(***************************************************************************)
(* Paths. The bound in Paths excludes nothing: what meets nothing twice is *)
(* no longer than the container is large.                                  *)
(***************************************************************************)
LEMMA PathsAreSequences ==
    ASSUME IsFiniteSet(witnesses), NEW p
    PROVE  p \in Paths <=> /\ p \in Seq(witnesses)
                           /\ IsInjective(p)
                           /\ \A i \in 2..Len(p) : ~SelfIssued(p[i])
  <1>1. Cardinality(witnesses) \in Nat
    BY FS_CardinalityType
  <1>2. ASSUME p \in Seq(witnesses), IsInjective(p)
        PROVE  p \in UNION {[1..n -> witnesses] : n \in 0..Cardinality(witnesses)}
    <2>1. Len(p) \in Nat /\ p \in [1..Len(p) -> witnesses]
      BY <1>2
    <2>2. p \in Injection(1..Len(p), witnesses)
      BY <1>2, <2>1 DEF Injection
    <2>3. Cardinality(1..Len(p)) <= Cardinality(witnesses)
      BY <2>2, FS_Injection
    <2>4. Cardinality(1..Len(p)) = Len(p)
      BY <2>1, FS_Interval
    <2> QED
      BY <1>1, <2>1, <2>3, <2>4
  <1>3. ASSUME p \in UNION {[1..n -> witnesses] : n \in 0..Cardinality(witnesses)}
        PROVE  p \in Seq(witnesses)
    BY <1>1, <1>3, SeqDef
  <1> QED
    BY <1>2, <1>3 DEF Paths

LEMMA AcceptablePath ==
    ASSUME IsFiniteSet(witnesses), NEW p \in Acceptable
    PROVE  /\ p \in Seq(witnesses) /\ Len(p) \in Nat /\ Len(p) >= 1
           /\ \A i, j \in 1..Len(p) : p[i] = p[j] => i = j
           /\ p[Len(p)] = revoke /\ revoke \in verified
           /\ SelfIssued(p[1])
           /\ \A i \in 2..Len(p) : ~SelfIssued(p[i]) /\ p[i].iss = p[i - 1].aud
           /\ IssuedOne(revoker, p)
  <1>1. /\ p \in Seq(witnesses) /\ IsInjective(p) /\ p # <<>>
        /\ \A i \in 2..Len(p) : ~SelfIssued(p[i])
        /\ Accepts(RequestOf(p), verified)
    BY PathsAreSequences DEF Acceptable
  <1>2. Len(p) \in Nat /\ Len(p) >= 1 /\ DOMAIN p = 1..Len(p)
    BY <1>1
  <1>3. Last(p) = revoke /\ ValidPath(p, verified) /\ IssuedOne(revoker, p)
    BY <1>1 DEF Accepts, RequestOf
  <1> QED
    BY <1>1, <1>2, <1>3 DEF Last, ValidPath, IsInjective

-----------------------------------------------------------------------------
(***************************************************************************)
(* The climb.                                                              *)
(***************************************************************************)
LEMMA InitInv == Init => WitnessInv
  <1> SUFFICES ASSUME Init PROVE WitnessInv
    OBVIOUS
  <1> USE DEF Init
  <1>1. IsFiniteSet(witnesses)
    <2>1. PICK f \in [1..MaxWitnesses -> Delegation] : witnesses = Range(f)
      BY DEF Containers
    <2>2. f \in Surjection(1..MaxWitnesses, witnesses)
      BY <2>1 DEF Surjection, Range
    <2>3. IsFiniteSet(1..MaxWitnesses)
      BY MaxWitnessesAssumption, FS_Interval
    <2> QED
      BY <2>2, <2>3, FS_Surjection
  <1>2. WitnessTypeOK
    BY <1>1 DEF WitnessTypeOK
  <1>3. PathInv
    BY DEF PathInv, IsInjective
  <1> QED
    BY <1>2, <1>3 DEF WitnessInv, ClimbInv, FoundInv, RequestInv, GiveUpInv, Failures

\* Above a delegation that is not a root an acceptable path goes on to a parent.
LEMMA GoesOn ==
    ASSUME WitnessInv, status = "climbing", ~SelfIssued(Top), NEW p \in Acceptable
    PROVE  Len(p) > Len(path) /\ p[Len(p) - Len(path)] \in Parents
  <1>1. /\ path \in Seq(witnesses) /\ Len(path) \in Nat /\ Len(path) >= 1
        /\ Len(path) <= Len(p)
        /\ p[Len(p) + 1 - Len(path)] = Top
    BY DEF WitnessInv, WitnessTypeOK, ClimbInv, Top, Last
  <1>2. /\ p \in Seq(witnesses) /\ Len(p) \in Nat
        /\ SelfIssued(p[1])
        /\ \A i \in 2..Len(p) : p[i].iss = p[i - 1].aud
    BY AcceptablePath DEF WitnessInv, WitnessTypeOK
  <1>3. Len(p) > Len(path)
    BY <1>1, <1>2
  <1> DEFINE i == Len(p) + 1 - Len(path)
  <1>4. i \in 2..Len(p) /\ i - 1 = Len(p) - Len(path)
    BY <1>1, <1>2, <1>3
  <1>5. p[i - 1] \in witnesses /\ p[i - 1].aud = Top.iss
    BY <1>1, <1>2, <1>4
  <1> QED
    BY <1>3, <1>4, <1>5 DEF Parents

LEMMA RevokeUpstream == ASSUME revoke \in witnesses PROVE revoke \in Upstream
  BY DEF Upstream

LEMMA ParentUpstream ==
    ASSUME NEW e \in Upstream, NEW d \in witnesses, d.aud = e.iss
    PROVE  d \in Upstream
  BY DEF Upstream, ClosedUpstream

LEMMA InputKept ==
    ASSUME UNCHANGED input
    PROVE  Upstream' = Upstream /\ Acceptable' = Acceptable /\ Paths' = Paths
  BY DEF input, Upstream, ClosedUpstream, Acceptable, Paths, RequestOf

LEMMA BeginStep ==
    ASSUME WitnessInv, Begin
    PROVE  WitnessInv'
  <1> USE DEF WitnessInv, Begin, Failures
  <1>1. UNCHANGED input
    OBVIOUS
  <1>2. CASE revoke \notin witnesses
    BY <1>1, <1>2, InputKept DEF input, WitnessTypeOK, PathInv, ClimbInv, FoundInv,
       RequestInv, GiveUpInv
  <1>3. CASE revoke \in witnesses
    <2>1. /\ path' = <<revoke>> /\ path' \in Seq(witnesses) /\ Len(path') = 1
          /\ path'[1] = revoke /\ path' # <<>> /\ DOMAIN path' = 1..1
      <3>1. path' = <<revoke>>
        BY <1>3
      <3>2. <<revoke>> \in Seq(witnesses) /\ Len(<<revoke>>) = 1
            /\ <<revoke>>[1] = revoke /\ <<revoke>> # <<>>
        BY <1>3
      <3>3. \A s \in Seq(witnesses) : DOMAIN s = 1..Len(s)
        OBVIOUS
      <3> QED
        BY <3>1, <3>2, <3>3
    <2>2. WitnessTypeOK'
      BY <1>1, <1>3, <2>1 DEF input, WitnessTypeOK
    <2>3. PathInv'
      BY <1>1, <1>3, <2>1, InputKept, RevokeUpstream DEF PathInv, IsInjective
    <2>4. ClimbInv'
      <3>1. \A p \in Acceptable : Len(p) \in Nat /\ 1 <= Len(p) /\ p[Len(p)] = revoke
        BY AcceptablePath DEF WitnessTypeOK
      <3> QED
        BY <1>1, <1>3, <2>1, <3>1, InputKept DEF input, ClimbInv
    <2>5. FoundInv'
      BY <1>1, <1>3, <2>1 DEF input, FoundInv, Last
    <2>6. RequestInv' /\ GiveUpInv'
      BY <1>3 DEF RequestInv, GiveUpInv
    <2> QED
      BY <2>2, <2>3, <2>4, <2>5, <2>6
  <1> QED
    BY <1>2, <1>3

LEMMA ClimbStep ==
    ASSUME WitnessInv, Climb
    PROVE  WitnessInv'
  <1> USE DEF WitnessInv
  <1>1. PICK parent \in Parents : /\ Parents = {parent}
                                  /\ parent \notin Elements(path)
                                  /\ path' = Append(path, parent)
    BY DEF Climb
  <1>2. status = "climbing" /\ ~SelfIssued(Top) /\ UNCHANGED <<input, status, request>>
    BY DEF Climb
  <1>3. /\ path \in Seq(witnesses) /\ parent \in witnesses /\ parent.aud = Top.iss
        /\ Len(path) \in Nat /\ Len(path) >= 1 /\ Top = path[Len(path)]
    BY <1>2 DEF WitnessTypeOK, ClimbInv, Parents, Top, Last
  <1>4. /\ path' \in Seq(witnesses) /\ path' # <<>>
        /\ Len(path') = Len(path) + 1 /\ DOMAIN path' = 1..(Len(path) + 1)
        /\ path'[Len(path) + 1] = parent
        /\ \A i \in 1..Len(path) : path'[i] = path[i]
    BY <1>1, <1>3
  <1>5. WitnessTypeOK'
    BY <1>2, <1>4 DEF input, WitnessTypeOK
  <1>6. PathInv'
    <2>1. \A i \in 1..Len(path) : path[i] # parent
      BY <1>1 DEF Elements
    <2>2. IsInjective(path')
      BY <1>3, <1>4, <2>1 DEF PathInv, IsInjective
    <2>3. parent \in Upstream
      BY <1>3, ParentUpstream DEF PathInv
    <2> QED
      BY <1>2, <1>3, <1>4, <2>2, <2>3, InputKept DEF PathInv
  <1>7. ClimbInv'
    <2>1. \A i \in 1..(Len(path') - 1) : ~SelfIssued(path'[i])
      BY <1>2, <1>3, <1>4 DEF ClimbInv
    <2>2. ASSUME NEW p \in Acceptable
          PROVE  /\ Len(path') <= Len(p)
                 /\ \A k \in 1..Len(path') : p[Len(p) + 1 - k] = path'[k]
      <3>1. Len(p) \in Nat /\ Len(p) > Len(path) /\ p[Len(p) - Len(path)] = parent
        BY <1>1, <1>2, GoesOn, AcceptablePath DEF WitnessTypeOK
      <3>2. \A k \in 1..Len(path) : p[Len(p) + 1 - k] = path'[k]
        BY <1>2, <1>4 DEF ClimbInv
      <3>3. p[Len(p) + 1 - (Len(path) + 1)] = path'[Len(path) + 1]
        <4>1. Len(p) + 1 - (Len(path) + 1) = Len(p) - Len(path)
          BY <1>3, <3>1
        <4> QED
          BY <1>4, <3>1, <4>1
      <3>4. \A k \in 1..Len(path') : k \in 1..Len(path) \/ k = Len(path) + 1
        BY <1>3, <1>4
      <3> QED
        BY <1>3, <1>4, <3>1, <3>2, <3>3, <3>4
    <2>3. path'[1] = revoke /\ revoke.iss # revoker
      BY <1>2, <1>3, <1>4 DEF ClimbInv
    <2> QED
      BY <1>2, <1>4, <2>1, <2>2, <2>3, InputKept DEF ClimbInv, input
  <1>8. FoundInv' /\ RequestInv' /\ GiveUpInv'
    BY <1>2 DEF FoundInv, RequestInv, GiveUpInv
  <1> QED
    BY <1>5, <1>6, <1>7, <1>8

\* At a root the climb has found the whole of every acceptable path.
LEMMA ReachRootStep ==
    ASSUME WitnessInv, ReachRoot
    PROVE  WitnessInv'
  <1> USE DEF WitnessInv
  <1> DEFINE n == Len(path)
  <1>1. /\ status = "climbing" /\ status' = "found" /\ SelfIssued(Top)
        /\ UNCHANGED <<input, request>>
        /\ path' = [i \in 1..n |-> path[n + 1 - i]]
    BY DEF ReachRoot
  <1>2. /\ path \in Seq(witnesses) /\ n \in Nat /\ n >= 1
        /\ path[1] = revoke /\ revoke.iss # revoker /\ Top = path[n]
    BY <1>1 DEF WitnessTypeOK, ClimbInv, Top, Last
  <1>3. path' \in Seq(witnesses) /\ Len(path') = n /\ DOMAIN path' = 1..n
    <2>1. \A i \in 1..n : path[n + 1 - i] \in witnesses
      BY <1>2
    <2>2. path' \in [1..n -> witnesses]
      BY <1>1, <2>1
    <2> QED
      BY <1>2, <2>2, SeqDef
  <1>4. WitnessTypeOK'
    BY <1>1, <1>3 DEF input, WitnessTypeOK
  <1>5. IsInjective(path')
    BY <1>1, <1>2, <1>3 DEF PathInv, IsInjective
  <1>6. PathInv'
    <2>1. \A i \in 1..Len(path') : path'[i] \in Upstream
      BY <1>1, <1>2, <1>3 DEF PathInv
    <2> QED
      BY <1>1, <1>5, <2>1, InputKept DEF PathInv
  <1>7. path' \in Paths
    <2>1. \A i \in 2..Len(path') : ~SelfIssued(path'[i])
      <3> SUFFICES ASSUME NEW i \in 2..n PROVE ~SelfIssued(path'[i])
        BY <1>3
      <3>1. n + 1 - i \in 1..(n - 1) /\ i \in 1..n
        BY <1>2
      <3> QED
        BY <1>1, <3>1 DEF ClimbInv
    <2> QED
      BY <1>3, <1>5, <2>1, PathsAreSequences DEF WitnessTypeOK
  <1>8. ASSUME NEW p \in Acceptable
        PROVE  p = path'
    <2>1. /\ p \in Seq(witnesses) /\ Len(p) \in Nat /\ n <= Len(p)
          /\ \A i \in 2..Len(p) : ~SelfIssued(p[i])
          /\ \A k \in 1..n : p[Len(p) + 1 - k] = path[k]
      BY <1>1, AcceptablePath DEF WitnessTypeOK, ClimbInv
    <2>2. Len(p) = n
      <3>1. SelfIssued(p[Len(p) + 1 - n])
        BY <1>1, <1>2, <2>1
      <3>2. Len(p) + 1 - n \in 1..Len(p)
        BY <1>2, <2>1
      <3> QED
        BY <1>2, <2>1, <3>1, <3>2
    <2>3. ASSUME NEW i \in 1..n PROVE p[i] = path'[i]
      <3>1. n + 1 - i \in 1..n /\ Len(p) + 1 - (n + 1 - i) = i
        BY <1>2, <2>2
      <3>2. p[i] = path[n + 1 - i]
        BY <2>1, <3>1
      <3> QED
        BY <1>1, <3>2
    <2> QED
      BY <1>3, <2>1, <2>2, <2>3
  <1>9. FoundInv'
    <2>1. path'[n] = revoke /\ path' # <<>>
      <3>1. n \in 1..n /\ n + 1 - n = 1
        BY <1>2
      <3> QED
        BY <1>1, <1>2, <1>3, <3>1
    <2> QED
      BY <1>1, <1>2, <1>3, <1>7, <1>8, <2>1, InputKept DEF FoundInv, Last, input
  <1>10. ClimbInv' /\ RequestInv' /\ GiveUpInv'
    BY <1>1 DEF ClimbInv, RequestInv, GiveUpInv
  <1> QED
    BY <1>4, <1>6, <1>9, <1>10

\* Without a parent no acceptable path goes on; with a single one that was met
\* before, none does so without meeting it twice.
LEMMA GiveUpStep ==
    ASSUME WitnessInv, GiveUp
    PROVE  WitnessInv'
  <1> USE DEF WitnessInv, Failures
  <1>1. /\ status = "climbing" /\ ~SelfIssued(Top)
        /\ UNCHANGED <<input, path, request>>
        /\ status' \in {"ambiguous", "no parent", "cycle"}
        /\ status' = "no parent" => Parents = {}
        /\ status' = "cycle" => \E parent \in Elements(path) : Parents = {parent}
    BY DEF GiveUp
  <1>2. WitnessTypeOK' /\ PathInv'
    BY <1>1, InputKept DEF WitnessTypeOK, PathInv, input
  <1>3. ClimbInv' /\ FoundInv' /\ RequestInv'
    BY <1>1 DEF ClimbInv, FoundInv, RequestInv
  <1>4. ASSUME status' = "cycle", NEW p \in Acceptable
        PROVE  FALSE
    <2>1. /\ Len(path) \in Nat /\ Len(p) \in Nat /\ Len(p) > Len(path)
          /\ \A i, j \in 1..Len(p) : p[i] = p[j] => i = j
          /\ \A k \in 1..Len(path) : p[Len(p) + 1 - k] = path[k]
      <3>1. IsFiniteSet(witnesses) /\ Len(path) \in Nat
        <4>1. IsFiniteSet(witnesses) /\ path \in Seq(witnesses)
          BY DEF WitnessTypeOK
        <4> QED
          BY <4>1
      <3>2. Len(p) > Len(path)
        BY <1>1, GoesOn
      <3>3. Len(p) \in Nat /\ \A i, j \in 1..Len(p) : p[i] = p[j] => i = j
        BY <3>1, AcceptablePath
      <3>4. \A k \in 1..Len(path) : p[Len(p) + 1 - k] = path[k]
        BY <1>1 DEF ClimbInv
      <3> QED
        BY <3>1, <3>2, <3>3, <3>4
    <2>2. PICK k \in 1..Len(path) : p[Len(p) - Len(path)] = path[k]
      BY <1>1, <1>4, GoesOn DEF Elements
    <2>3. p[Len(p) - Len(path)] = p[Len(p) + 1 - k]
      BY <2>1, <2>2
    <2>4. /\ Len(p) - Len(path) \in 1..Len(p) /\ Len(p) + 1 - k \in 1..Len(p)
          /\ Len(p) - Len(path) # Len(p) + 1 - k
      BY <2>1
    <2> QED
      BY <2>1, <2>3, <2>4
  <1>5. ASSUME status' = "no parent", NEW p \in Acceptable
        PROVE  FALSE
    BY <1>1, <1>5, GoesOn
  <1>6. revoke.iss # revoker
    BY <1>1 DEF ClimbInv
  <1>7. GiveUpInv'
    BY <1>1, <1>4, <1>5, <1>6, InputKept DEF GiveUpInv, input
  <1> QED
    BY <1>2, <1>3, <1>7

LEMMA PublishStep ==
    ASSUME WitnessInv, Publish
    PROVE  WitnessInv'
  <1>1. /\ status = "found" /\ status' = "published"
        /\ UNCHANGED <<input, path>>
        /\ request' = Published(revoker, Last(path), SubSeq(path, 1, Len(path) - 1))
    BY DEF Publish
  <1> QED
    BY <1>1, InputKept DEF WitnessInv, WitnessTypeOK, PathInv, ClimbInv, FoundInv, RequestInv,
       GiveUpInv, input

\* The inductive invariant of the command holds in every reachable state.
THEOREM WitnessInvariance == Spec => []WitnessInv
  <1>1. WitnessInv /\ [Next]_vars => WitnessInv'
    <2> SUFFICES ASSUME WitnessInv, [Next]_vars PROVE WitnessInv'
      OBVIOUS
    <2>1. CASE UNCHANGED vars
      BY <2>1, InputKept DEF vars, input, WitnessInv, WitnessTypeOK, PathInv, ClimbInv,
         FoundInv, RequestInv, GiveUpInv
    <2> QED
      BY <2>1, BeginStep, ReachRootStep, ClimbStep, GiveUpStep, PublishStep DEF Next
  <1> QED
    BY <1>1, InitInv, PTL DEF Spec

-----------------------------------------------------------------------------
(***************************************************************************)
(* What the client makes of the path that was found.                       *)
(***************************************************************************)
LEMMA RequestAlone ==
    ASSUME path = <<revoke>>
    PROVE  Published(revoker, Last(path), SubSeq(path, 1, Len(path) - 1)) =
              [revoker |-> revoker, revoke |-> revoke, path |-> <<>>, witnesses |-> {revoke}]
  <1>1. Len(path) = 1 /\ Last(path) = revoke
    BY DEF Last
  <1>2. SubSeq(path, 1, Len(path) - 1) = <<>>
    BY <1>1, SubSeqEmpty
  <1>3. Append(<<>>, revoke) = <<revoke>>
    OBVIOUS
  <1>4. Elements(<<revoke>>) = {revoke}
    BY DEF Elements
  <1> QED
    BY <1>1, <1>2, <1>3, <1>4 DEF Published

LEMMA RequestWithPath ==
    ASSUME path \in Seq(witnesses), IsInjective(path), Len(path) > 1, Last(path) = revoke
    PROVE  Published(revoker, Last(path), SubSeq(path, 1, Len(path) - 1)) =
              [revoker |-> revoker, revoke |-> revoke, path |-> path,
               witnesses |-> Elements(path)]
  <1> DEFINE w == SubSeq(path, 1, Len(path) - 1)
  <1>1. Len(path) \in Nat /\ path[Len(path)] = revoke /\ revoke \in witnesses
    BY DEF Last
  <1>2. /\ w \in Seq(witnesses) /\ Len(w) = Len(path) - 1
        /\ \A i \in 1..(Len(path) - 1) : w[i] = path[i]
    BY <1>1, SubSeqProperties
  <1> HIDE DEF w
  <1>3. w # <<>>
    BY <1>1, <1>2
  <1>4. Last(w) # revoke
    <2>1. Len(path) - 1 \in 1..Len(path) /\ Len(path) \in 1..Len(path)
          /\ DOMAIN path = 1..Len(path)
      BY <1>1
    <2>2. path[Len(path) - 1] # path[Len(path)]
      BY <2>1 DEF IsInjective
    <2> QED
      BY <1>1, <1>2, <2>1, <2>2 DEF Last
  <1>5. Append(w, revoke) = path
    <2>1. /\ Append(w, revoke) \in Seq(witnesses)
          /\ Len(Append(w, revoke)) = Len(path)
          /\ Append(w, revoke)[Len(path)] = revoke
          /\ \A i \in 1..(Len(path) - 1) : Append(w, revoke)[i] = path[i]
      BY <1>1, <1>2
    <2>2. \A i \in 1..Len(path) : i \in 1..(Len(path) - 1) \/ i = Len(path)
      BY <1>1
    <2>3. \A i \in 1..Len(path) : Append(w, revoke)[i] = path[i]
      BY <1>1, <2>1, <2>2
    <2> QED
      BY <2>1, <2>3
  <1>6. path # <<>>
    OBVIOUS
  <1> QED
    BY <1>3, <1>4, <1>5, <1>6 DEF Published, w, Last

\* What the command publishes is accepted exactly when some request over its
\* container would be, and it gives up only when none would (revoke.go:141-165).
LEMMA PublishedFits ==
    ASSUME WitnessInv, status = "published"
    PROVE  Accepts(request, verified) <=> Revocable
  <1> USE DEF WitnessInv
  <1>1. /\ IsFiniteSet(witnesses) /\ path \in Seq(witnesses) /\ path # <<>>
        /\ IsInjective(path) /\ Last(path) = revoke /\ Len(path) \in Nat /\ Len(path) >= 1
        /\ request = Published(revoker, Last(path), SubSeq(path, 1, Len(path) - 1))
    BY DEF WitnessTypeOK, PathInv, FoundInv, RequestInv
  <1>2. revoke \in witnesses
    BY <1>1 DEF Last
  <1>3. Revocable <=> \/ Accepts(RequestOf(<<>>), verified)
                      \/ Acceptable # {}
    <2>1. <<>> \in Paths
      <3>1. <<>> \in Seq(witnesses) /\ Len(<<>>) = 0
        OBVIOUS
      <3>2. IsInjective(<<>>)
        BY DEF IsInjective
      <3>3. \A i \in 2..Len(<<>>) : ~SelfIssued(<<>>[i])
        BY <3>1
      <3>4. IsFiniteSet(witnesses)
        BY <1>1
      <3> QED
        BY <3>1, <3>2, <3>3, <3>4, PathsAreSequences
    <2>2. Revocable <=> \E p \in Paths : Accepts(RequestOf(p), verified)
      BY DEF Revocable, RequestOf
    <2> QED
      BY <2>1, <2>2 DEF Acceptable
  <1>4. Accepts(RequestOf(<<>>), verified) <=> revoke.iss = revoker /\ revoke \in verified
    BY <1>2 DEF Accepts, RequestOf
  <1>5. \A p \in Acceptable : revoke \in verified
    BY <1>1, AcceptablePath
  <1>6. CASE path = <<revoke>>
    <2>1. Accepts(request, verified) <=> revoke.iss = revoker /\ revoke \in verified
      BY <1>1, <1>6, RequestAlone DEF Accepts
    <2>2. ASSUME revoke.iss # revoker PROVE Acceptable = {}
      <3> SUFFICES ASSUME NEW p \in Acceptable PROVE FALSE
        OBVIOUS
      <3>1. p = <<revoke>>
        BY <1>6, <2>2 DEF FoundInv
      <3>2. IssuedOne(revoker, p)
        BY <1>1, AcceptablePath
      <3> QED
        BY <2>2, <3>1, <3>2 DEF IssuedOne
    <2> QED
      BY <1>3, <1>4, <1>5, <2>1, <2>2
  <1>7. CASE path # <<revoke>>
    <2>1. Len(path) > 1
      <3>1. Len(path) # 1
        BY <1>1, <1>7 DEF Last
      <3>2. \A n \in Nat : n >= 1 => n = 1 \/ n > 1
        OBVIOUS
      <3> QED
        BY <1>1, <3>1, <3>2
    <2>2. request = [revoker |-> revoker, revoke |-> revoke, path |-> path,
                     witnesses |-> Elements(path)]
      BY <1>1, <2>1, RequestWithPath
    <2>3. Elements(path) \subseteq witnesses /\ revoke \in Elements(path)
      BY <1>1 DEF Elements, Last
    <2>4. Accepts(request, verified) <=> Accepts(RequestOf(path), verified)
      BY <1>1, <1>2, <2>2, <2>3 DEF Accepts, RequestOf
    <2>5. revoke.iss # revoker /\ path \in Paths /\ Acceptable \subseteq {path}
      BY <1>7 DEF FoundInv
    <2>6. Acceptable # {} <=> Accepts(RequestOf(path), verified)
      BY <1>1, <2>5 DEF Acceptable
    <2> QED
      BY <1>3, <1>4, <2>4, <2>5, <2>6
  <1> QED
    BY <1>6, <1>7

LEMMA GivesUpRightly ==
    ASSUME WitnessInv, status \in {"no parent", "cycle", "missing"}
    PROVE  ~Revocable
  <1> SUFFICES ASSUME NEW p \in Paths, Accepts(RequestOf(p), verified) PROVE FALSE
    BY DEF Revocable, RequestOf
  <1>1. revoke \in witnesses
    BY DEF Accepts, RequestOf
  <1>2. revoke.iss # revoker /\ Acceptable = {}
    BY <1>1 DEF WitnessInv, GiveUpInv
  <1>3. p # <<>>
    BY <1>2 DEF Accepts, RequestOf
  <1> QED
    BY <1>2, <1>3 DEF Acceptable

\* The command publishes an acceptable request whenever there is one, unless it
\* meets an ambiguity: over containers of every size (revoke.go:141-165).
THEOREM AcceptedIfPossible == Spec => []PublishesWhatIsAccepted
  <1>1. WitnessInv => PublishesWhatIsAccepted
    BY PublishedFits, GivesUpRightly DEF PublishesWhatIsAccepted
  <1> QED
    BY <1>1, WitnessInvariance, PTL

\* Authority never flows up: whoever is accepted as revoker issued the revoked
\* delegation or one it descends from (app.go:326-331).
THEOREM OnlyFromUpstream == Spec => []AcceptedFromUpstream
  <1>1. WitnessInv => AcceptedFromUpstream
    <2> SUFFICES ASSUME WitnessInv, status = "published", Accepts(request, verified)
                 PROVE  \E d \in Upstream : d.iss = revoker
      BY DEF AcceptedFromUpstream
    <2>1. /\ path \in Seq(witnesses) /\ path # <<>> /\ Last(path) = revoke
          /\ IsInjective(path) /\ Len(path) \in Nat /\ Len(path) >= 1
          /\ \A i \in 1..Len(path) : path[i] \in Upstream
          /\ request = Published(revoker, Last(path), SubSeq(path, 1, Len(path) - 1))
      BY DEF WitnessInv, WitnessTypeOK, PathInv, FoundInv, RequestInv
    <2>2. CASE path = <<revoke>>
      <3>1. revoke.iss = revoker
        BY <2>1, <2>2, RequestAlone DEF Accepts
      <3>2. revoke \in Upstream
        BY <2>1, <2>2
      <3> QED
        BY <3>1, <3>2
    <2>3. CASE path # <<revoke>>
      <3>1. Len(path) > 1
        BY <2>1, <2>3 DEF Last
      <3>2. IssuedOne(revoker, path)
        BY <2>1, <3>1, RequestWithPath DEF Accepts
      <3> QED
        BY <2>1, <3>2 DEF IssuedOne
    <2> QED
      BY <2>2, <2>3
  <1> QED
    BY <1>1, WitnessInvariance, PTL
=============================================================================
