----------------------------- MODULE WitnessPath -----------------------------
(***************************************************************************)
(* swarf revoke (cmd/swarf/revoke.go): from a container of delegations in  *)
(* no order, witnessPath climbs from the revoked delegation to a root, one *)
(* parent at a time, and the client publishes the path it found.           *)
(***************************************************************************)
EXTENDS RevocationPath, Functions

CONSTANTS MaxWitnesses  \* bound on the delegations of a container

ASSUME MaxWitnessesAssumption == MaxWitnesses \in Nat

VARIABLES
    witnesses,  \* the delegations of the container
    verified,   \* those ValidateToken accepts
    revoke,     \* the delegation to revoke
    revoker,    \* who runs the command
    status,     \* "climbing", or how witnessPath ended
    path,       \* the path so far, revoked delegation first
    request     \* what the client sent

input == <<witnesses, verified, revoke, revoker>>
vars == <<witnesses, verified, revoke, revoker, status, path, request>>

NoRequest == [path |-> <<>>]
Failures == {"missing", "ambiguous", "no parent", "cycle"}

Containers == {Range(f) : f \in [1..MaxWitnesses -> Delegation]}

Init ==
    /\ witnesses \in Containers
    /\ verified \in {witnesses} \cup {witnesses \ {d} : d \in witnesses}
    /\ revoke \in witnesses \cup {CHOOSE d \in Delegation : d \notin witnesses}
    /\ revoker \in Principal
    /\ status = "start"
    /\ path = <<>>
    /\ request = NoRequest

\* The revoked delegation must be in the container; its own issuer needs no
\* path.
Begin ==
    /\ status = "start"
    /\ IF revoke \notin witnesses
       THEN status' = "missing" /\ path' = path
       ELSE /\ path' = <<revoke>>
            /\ status' = IF revoke.iss = revoker THEN "found" ELSE "climbing"
    /\ UNCHANGED <<input, request>>

Top == Last(path)
Parents == {d \in witnesses : d.aud = Top.iss}

\* Mutant of ReachRoot: the path is not reversed.
ReachRootUnreversed ==
    /\ status = "climbing"
    /\ SelfIssued(Top)
    /\ status' = "found"
    /\ UNCHANGED <<input, path, request>>

\* The climb ends at a delegation issued by its own subject, and the path is
\* reversed.
ReachRoot ==
    /\ status = "climbing"
    /\ SelfIssued(Top)
    /\ status' = "found"
    /\ path' = [i \in 1..Len(path) |-> path[Len(path) + 1 - i]]
    /\ UNCHANGED <<input, request>>

\* Exactly one parent, not met before, continues it.
Climb ==
    /\ status = "climbing"
    /\ ~SelfIssued(Top)
    /\ \E parent \in Parents :
          /\ Parents = {parent}
          /\ parent \notin Elements(path)
          /\ path' = Append(path, parent)
    /\ UNCHANGED <<input, status, request>>

\* Mutant of GiveUp: a parent met before is not noticed.
GiveUpNotOnCycles ==
    /\ status = "climbing"
    /\ ~SelfIssued(Top)
    /\ \/ Cardinality(Parents) > 1 /\ status' = "ambiguous"
       \/ Parents = {} /\ status' = "no parent"
    /\ UNCHANGED <<input, path, request>>

GiveUp ==
    /\ status = "climbing"
    /\ ~SelfIssued(Top)
    /\ \/ Cardinality(Parents) > 1 /\ status' = "ambiguous"
       \/ Parents = {} /\ status' = "no parent"
       \/ \E parent \in Elements(path) : Parents = {parent} /\ status' = "cycle"
    /\ UNCHANGED <<input, path, request>>

\* RunE hands the client the path without its last element.
Publish ==
    /\ status = "found"
    /\ request' = Published(revoker, Last(path), SubSeq(path, 1, Len(path) - 1))
    /\ status' = "published"
    /\ UNCHANGED <<input, path>>

Next == Begin \/ ReachRoot \/ Climb \/ GiveUp \/ Publish

Spec == Init /\ [][Next]_vars

\* A sequential command runs to its end.
FairSpec == Spec /\ WF_vars(Next)

-----------------------------------------------------------------------------
(***************************************************************************)
(* Properties.                                                             *)
(***************************************************************************)

\* Some path over the container, from its nearest root and meeting nothing
\* twice, is one the service would accept from this revoker. (The service also
\* accepts paths that run through a root or return to an earlier delegation;
\* the command never builds one.)
Paths ==
    {p \in UNION {[1..n -> witnesses] : n \in 0..Cardinality(witnesses)} :
        IsInjective(p) /\ \A i \in 2..Len(p) : ~SelfIssued(p[i])}
Revocable ==
    \E p \in Paths : Accepts([revoker |-> revoker, revoke |-> revoke,
                              path |-> p, witnesses |-> witnesses], verified)

\* The command finds an acceptable request whenever there is one, except that
\* it reports ambiguity instead of choosing between parents: what it publishes
\* is accepted if and only if some request over the same delegations would be,
\* and it gives up for want of a parent or on a cycle only when none would.
PublishesWhatIsAccepted ==
    /\ status = "published" => (Accepts(request, verified) <=> Revocable)
    /\ status \in {"no parent", "cycle", "missing"} => ~Revocable

\* The revoked delegation and what it descends from: the least set that holds
\* it and the parents of its members.
ClosedUpstream(S) == \A e \in S, d \in witnesses : d.aud = e.iss => d \in S
Upstream ==
    {d \in witnesses : \A S \in SUBSET witnesses :
                           revoke \in S /\ ClosedUpstream(S) => d \in S}

\* Whoever the service accepts as revoker issued the revoked delegation or one
\* it descends from: authority never flows up a chain (app.go:326-331).
AcceptedFromUpstream ==
    status = "published" /\ Accepts(request, verified) =>
        revoker \in {d.iss : d \in Upstream}

\* The climb ends, on cyclic containers too (revoke.go:141-165).
ClimbEnds == <>(status \in Failures \cup {"published"})
=============================================================================
