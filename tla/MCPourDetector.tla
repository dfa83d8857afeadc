---------------------------- MODULE MCPourDetector ----------------------------
(* Instances of PourDetector for TLC. *)
EXTENDS PourDetector, TLC

CONSTANTS tapA, tapB

Losses == {-1, 1, 3}
TapsExchanged == Permutations(Tap)

(* One Tap has time for a second session, the other for one. *)
LongAndShort == [t \in Tap |-> IF t = tapA THEN 0 .. 4 ELSE {0, 1}]
Always == [t \in Tap |-> 0 .. MaxTime]
=============================================================================
