-------------------------- MODULE RevocationLookup --------------------------
(***************************************************************************)
(* GET /revocation/:cid over PostgresStore (pkg/fx/app.go,                 *)
(* revocationHandler; pkg/store/postgres/store.go, Get), with the HTTP     *)
(* caches that its headers allow: an answer with a record may be reused    *)
(* for a year without asking again, and a 404 says nothing on the matter.  *)
(***************************************************************************)
EXTENDS PostgresStore, FiniteSets

CONSTANTS
    Delegation, \* delegations
    Revoked,    \* the delegation each cause revokes
    Reader,     \* callers, one lookup at a time each
    Cached      \* whether a cache stands between the callers and the server

ASSUME RevokedAssumption == Revoked \in [Cause -> Delegation]
ASSUME CachedAssumption == Cached \subseteq Reader
ASSUME FiniteAssumption == IsFiniteSet(Cause)   \* as the table is

VARIABLES
    lookup,     \* the lookup of each reader: asked for, being answered
    cache,      \* the cache's entry for each delegation
    answer,     \* each reader's last answer for each delegation
    asked       \* the delegation's rows when each reader last asked (history)

lookupVars == <<lookup, cache, answer, asked>>
allLookupVars == <<vars, lookupVars>>

NotFound == [cause |-> -1, at |-> -1]
Answers == Row \cup {NotFound}
NoLookup == [of |-> "nothing"]
NoEntry == [cause |-> -2, at |-> -2]

\* Mutants of Latest: ties between records of one time are not broken by id;
\* the order is ascending.
LatestByTime(d) ==
    LET Of == {r \in rows : Revoked[r.cause] = d} IN
    IF Of = {} THEN NotFound ELSE CHOOSE r \in Of : \A q \in Of : q.at <= r.at
LatestAscending(d) ==
    LET Of == {r \in rows : Revoked[r.cause] = d} IN
    IF Of = {} THEN NotFound ELSE CHOOSE r \in Of : \A q \in Of : q = r \/ Earlier(r, q)

\* ORDER BY recorded_at DESC, id DESC LIMIT 1, and no row is ErrNotFound.
RowsOf(d) == {r \in rows : Revoked[r.cause] = d}
Latest(d) ==
    IF RowsOf(d) = {} THEN NotFound
    ELSE CHOOSE r \in RowsOf(d) : \A q \in RowsOf(d) : q = r \/ Earlier(q, r)

LookupInit ==
    /\ Init
    /\ lookup = [p \in Reader |-> NoLookup]
    /\ cache = [d \in Delegation |-> NoEntry]
    /\ answer = [p \in Reader |-> [d \in Delegation |-> NotFound]]
    /\ asked = [p \in Reader |-> [d \in Delegation |-> {}]]

\* The cache answers, without the server.
Hit(p, d) ==
    /\ p \in Cached
    /\ lookup[p] = NoLookup
    /\ cache[d] # NoEntry
    /\ answer' = [answer EXCEPT ![p][d] = cache[d]]
    /\ asked' = [asked EXCEPT ![p][d] = RowsOf(d)]
    /\ UNCHANGED <<vars, lookup, cache>>

\* The server runs its query; the response is under way.
Get(p, d) ==
    /\ lookup[p] = NoLookup
    /\ p \in Cached => cache[d] = NoEntry
    /\ lookup' = [lookup EXCEPT ![p] = [of |-> d, result |-> Latest(d)]]
    /\ asked' = [asked EXCEPT ![p][d] = RowsOf(d)]
    /\ UNCHANGED <<vars, cache, answer>>

\* What the response headers leave to a cache, in place of the entry it has:
\* "public, max-age=31536000, immutable" on a record lets it keep that; a 404
\* without a header may be kept by heuristics (RFC 9111, 4.2.2).
Kept(entry, result) == {entry, result}

Respond(p) ==
    /\ lookup[p] # NoLookup
    /\ LET d == lookup[p].of
           result == lookup[p].result
       IN  /\ answer' = [answer EXCEPT ![p][d] = result]
           /\ IF p \in Cached
              THEN \E entry \in Kept(cache[d], result) : cache' = [cache EXCEPT ![d] = entry]
              ELSE UNCHANGED cache
    /\ lookup' = [lookup EXCEPT ![p] = NoLookup]
    /\ UNCHANGED <<vars, asked>>

\* The entry expires or the cache drops it.
Evict(d) ==
    /\ cache[d] # NoEntry
    /\ cache' = [cache EXCEPT ![d] = NoEntry]
    /\ UNCHANGED <<vars, lookup, answer, asked>>

LookupNext ==
    \/ /\ \/ Tick
          \/ \E w \in Writer : WriterNext(w)
       /\ UNCHANGED lookupVars
    \/ \E p \in Reader :
          \/ \E d \in Delegation : Hit(p, d) \/ Get(p, d)
          \/ Respond(p)
    \/ \E d \in Delegation : Evict(d)

LookupSpec == LookupInit /\ [][LookupNext]_allLookupVars

-----------------------------------------------------------------------------
(***************************************************************************)
(* Properties.                                                             *)
(***************************************************************************)

\* A record that was told, or that a cache will tell for a year, stays true: it is
\* in the table for that delegation with that time, whatever was inserted again
\* or rolled back meanwhile. That is what "immutable" says of it (app.go:489,
\* postgres/store.go:98).
ToldIsStored ==
    \A d \in Delegation :
        /\ cache[d] \in RowsOf(d) \cup {NotFound, NoEntry}
        /\ \A p \in Reader : answer[p][d] \in RowsOf(d) \cup {NotFound}

\* "Retrieves the most recent revocation for a delegation" (README.md:92,
\* client.go:169): no answer is older than the most recent record at the time
\* the caller asked, even when transactions commit out of order. The code gives
\* this to callers that ask the server itself; the header takes it from the
\* others.
DirectAnswerIsMostRecent ==
    \A p \in Reader \ Cached, d \in Delegation :
        lookup[p] = NoLookup =>
            \A r \in asked[p][d] : r = answer[p][d] \/ Earlier(r, answer[p][d])

\* A caller that asks the server itself is never given an earlier record than
\* the last time (store.go:118-120).
NeverGoesBack ==
    [][\A p \in Reader \ Cached, d \in Delegation :
          answer'[p][d] # answer[p][d] =>
              answer[p][d] = NotFound \/ Earlier(answer[p][d], answer'[p][d])]_allLookupVars
=============================================================================
