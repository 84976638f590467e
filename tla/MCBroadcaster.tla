---------------------------- MODULE MCBroadcaster ----------------------------
(* Model-checking instances of Broadcaster.                                *)
EXTENDS Broadcaster, TLC

CONSTANTS a, b, c, d, k1, k2, v1, v2, r1, r2

\* Slot b follows slot a on k1, and selects a second key.  Slots c and d are
\* malformed.
Keys == [j \in Jobs |-> CASE j = a -> <<k1>> [] j = b -> <<k1, k2>> [] OTHER -> <<k2>>]

Seqs == [j \in Jobs |-> IF j = b THEN 1 ELSE 0]

Symmetry == Permutations(Data) \cup Permutations(Runs)

=============================================================================
