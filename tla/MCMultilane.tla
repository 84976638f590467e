---------------------------- MODULE MCMultilane ----------------------------
(* A model-checking instance of Multilane.                                 *)
EXTENDS Multilane, TLC

CONSTANTS a, b, j1, j2, t1, t2, w1, w2

Ok == [kind |-> "ok", delayed |-> FALSE, position |-> "last"]

Nack == [kind |-> "nack", delayed |-> FALSE, position |-> "last"]

Defer == [kind |-> "defer", delayed |-> TRUE, position |-> "first"]

SomeOutcomes == {Ok, Nack, Defer}

Symmetry == Permutations(Jobs) \cup Permutations(Tokens) \cup Permutations(Workers)

=============================================================================
