------------------------- MODULE MCOutboundDelivery -------------------------
(* TLC instances of OutboundDelivery. *)
EXTENDS OutboundDelivery, TLC

CONSTANTS r1, r2, s1, s2

\* The recipient moved: the older list names one relay, the newer one both.
TwoLists == 1..2
Moved == [v \in TwoLists |-> IF v = 1 THEN {r1} ELSE {r1, r2}]
=============================================================================
