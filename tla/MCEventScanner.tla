--------------------------- MODULE MCEventScanner ---------------------------
(***************************************************************************)
(* Instances of EventScanner for TLC: up to two events, of no, one or two  *)
(* data lines, whose sizes are on both sides of both bounds.               *)
(***************************************************************************)
EXTENDS EventScanner

OneLine == {<<n>> : n \in {0} \cup (MaxEvent - 1)..(MaxEvent + Headroom)}
TwoLines == {<<m, n>> : m \in {0, 1}, n \in {0, MaxEvent - 1}}
SomeEvent == [type: EventTypes, data: {<<>>} \cup OneLine \cup TwoLines]
UpToTwoEvents == UNION {[1..n -> SomeEvent] : n \in 0..2}
=============================================================================
