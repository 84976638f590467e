------------------------------ MODULE MCIntake ------------------------------
(***************************************************************************)
(* Intake on one slot that sponsored and self-paid transactions, well      *)
(* formed or not, compete for.                                             *)
(***************************************************************************)
EXTENDS Intake

CONSTANTS s1, a1

Tx(fee, payer, declared, cost) ==
    [slot |-> s1, fee |-> fee, tip |-> fee, payer |-> payer,
     declared |-> declared, cost |-> cost]

MCSenderOf == s1 :> a1

Sponsored == Tx(1, "sponsor", "sponsor", 3)

\* A fee bump of Sponsored that its sender pays for.
SelfPaid == Tx(2, "self", "self", 4)

TooExpensive == Tx(1, "sponsor", "sponsor", 4)

Undeclared == Tx(1, "external", None, 1)

Broken == Tx(1, "self", "self", 1)

MCTxs == {Sponsored, SelfPaid, TooExpensive, Undeclared, Broken}

MCMalformed == {Broken}

RetryTxs == {SelfPaid}

Symmetry == Permutations(Requests)

=============================================================================
