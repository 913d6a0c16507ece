--------------------------- MODULE MCTransactions ---------------------------
(* Model values for Transactions. *)
EXTENDS Transactions, TLC

CONSTANTS i1, i2

MCInstance == {i1, i2}
MCFaults == {"lost", "crash", "timeout"}
MCSymmetry == Permutations(MCInstance)
=============================================================================
