--------------------------- MODULE RevocationPath ---------------------------
(***************************************************************************)
(* Which revocations the service accepts (pkg/fx/app.go, revocationPath    *)
(* and validateRevocationPath), over delegations reduced to who issued     *)
(* them, to whom and about whom. Signatures, times and DID resolution are  *)
(* external: Verified is the set of delegations ValidateToken accepts.     *)
(***************************************************************************)
EXTENDS Integers, Sequences, FiniteSets

CONSTANTS
    Principal,  \* DIDs
    Undef       \* the subject of a delegation that names none

ASSUME UndefAssumption == Undef \notin Principal

Delegation == [iss: Principal, aud: Principal, sub: Principal \cup {Undef}]

Elements(p) == {p[i] : i \in 1..Len(p)}
Last(p) == p[Len(p)]

(***************************************************************************)
(* validateRevocationPath: a chain from a root issued by its own subject,  *)
(* each delegation issued by the audience of the one before and about the  *)
(* root's subject or nobody in particular.                                 *)
(***************************************************************************)
SelfIssued(d) == d.iss = d.sub
SubjectFits(d, root) == d.sub \in {root.sub, Undef}

ValidPath(p, Verified) ==
    /\ p # <<>>
    /\ SelfIssued(p[1])
    /\ \A i \in 1..Len(p) :
          /\ p[i] \in Verified
          /\ i > 1 => SubjectFits(p[i], p[1]) /\ p[i].iss = p[i - 1].aud

(***************************************************************************)
(* revocationPath. A request carries the issuer of the revocation, the     *)
(* revoked delegation, the links of a path, and in its metadata the        *)
(* delegations themselves. Without a path only the issuer of the revoked   *)
(* delegation may revoke it.                                               *)
(***************************************************************************)
\* Mutant of IssuedOne: a recipient in the path may revoke too.
IssuedOrReceivedOne(revoker, p) ==
    \E i \in 1..Len(p) : p[i].iss = revoker \/ p[i].aud = revoker

IssuedOne(revoker, p) == \E i \in 1..Len(p) : p[i].iss = revoker

Accepts(req, Verified) ==
    /\ req.revoke \in req.witnesses
    /\ IF req.path = <<>>
       THEN /\ req.revoke.iss = req.revoker
            /\ req.revoke \in Verified
       ELSE /\ Elements(req.path) \subseteq req.witnesses
            /\ Last(req.path) = req.revoke
            /\ ValidPath(req.path, Verified)
            /\ IssuedOne(req.revoker, req.path)

(***************************************************************************)
(* Client.Publish: the request for a revoked delegation and a witness path *)
(* (pkg/client/client.go). A path is sent only when there is more to it    *)
(* than the revoked delegation.                                            *)
(***************************************************************************)
Published(revoker, revoke, witnessPath) ==
    LET path == IF witnessPath # <<>> /\ Last(witnessPath) = revoke
                THEN SubSeq(witnessPath, 1, Len(witnessPath) - 1)
                ELSE witnessPath
        all == Append(path, revoke)
    IN  [revoker |-> revoker,
         revoke |-> revoke,
         path |-> IF path = <<>> THEN <<>> ELSE all,
         witnesses |-> Elements(all)]
=============================================================================
