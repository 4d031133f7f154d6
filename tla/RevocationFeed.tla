--------------------------- MODULE RevocationFeed ---------------------------
(***************************************************************************)
(* What a revocation store promises (interface RevocationStore of          *)
(* pkg/store/store.go): a table of first records that only grows, and      *)
(* streams that yield every record at or after their argument, each once,  *)
(* in any order the store likes.                                           *)
(***************************************************************************)
EXTENDS Integers

CONSTANTS Cause, Stream, Time

VARIABLES
    records,    \* the first record of each stored revocation
    open,       \* streams in progress
    from,       \* their argument
    fed         \* how many times each has yielded each cause

feedVars == <<records, open, from, fed>>

Recorded == {r.cause : r \in records}
Wanted(s, r) == r.at >= from[s] /\ fed[s][r.cause] = 0

FeedInit ==
    /\ records = {}
    /\ open = {}
    /\ from = [s \in Stream |-> 0]
    /\ fed = [s \in Stream |-> [c \in Cause |-> 0]]

\* The new revocations of one batch share their time; what was recorded stays.
Record(new, at) ==
    /\ new # {}
    /\ new \cap Recorded = {}
    /\ records' = records \cup {[cause |-> c, at |-> at] : c \in new}
    /\ UNCHANGED <<open, from, fed>>

Start(s, f) ==
    /\ s \notin open
    /\ open' = open \cup {s}
    /\ from' = [from EXCEPT ![s] = f]
    /\ UNCHANGED <<records, fed>>

Feed(s, r) ==
    /\ s \in open
    /\ Wanted(s, r)
    /\ fed' = [fed EXCEPT ![s][r.cause] = 1]
    /\ UNCHANGED <<records, open, from>>

Stop(s) ==
    /\ s \in open
    /\ open' = open \ {s}
    /\ from' = [from EXCEPT ![s] = 0]
    /\ fed' = [fed EXCEPT ![s] = [c \in Cause |-> 0]]
    /\ UNCHANGED records

FeedNext ==
    \/ \E new \in SUBSET Cause, at \in Time : Record(new, at)
    \/ \E s \in Stream :
          \/ \E f \in Time : Start(s, f)
          \/ \E r \in records : Feed(s, r)
          \/ Stop(s)

FeedSpec == FeedInit /\ [][FeedNext]_feedVars

\* A stream that stays open is eventually given every record it wants.
FeedFairness ==
    \A s \in Stream, c \in Cause :
        WF_feedVars(\E r \in records : r.cause = c /\ Feed(s, r))

FairFeedSpec == FeedSpec /\ FeedFairness
=============================================================================
