------------------------------ MODULE MCQueue ------------------------------
(* Model-checking instances of Queue.                                      *)
EXTENDS Queue, TLC

CONSTANTS j1, j2, t1, t2, w1, w2, d1, d2

Ok == [kind |-> "ok", delayed |-> FALSE, position |-> "last"]

NackNow == [kind |-> "nack", delayed |-> FALSE, position |-> "first"]

NackLater == [kind |-> "nack", delayed |-> TRUE, position |-> "first"]

Defer == [kind |-> "defer", delayed |-> TRUE, position |-> "first"]

FewOutcomes == {Ok}

LiveOutcomes == {Ok, Fail, NackNow, NackLater}

SomeOutcomes == {Ok, Fail, NackNow, NackLater, Defer}

Symmetry ==
    Permutations(Jobs) \cup Permutations(Tokens) \cup Permutations(Workers)
      \cup Permutations(Data \ Unreadable)

=============================================================================
