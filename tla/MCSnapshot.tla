----------------------------- MODULE MCSnapshot -----------------------------
(* Snapshot for TLC: two operations, and scripts that end in another way   *)
(* before a snapshot than after it.                                        *)
EXTENDS Snapshot

CONSTANTS o1, o2

MCOutcomes == [t \in Types |-> IF t = PRE THEN {"exit124"} ELSE {"exit0"}]
=============================================================================
