-------------------------- MODULE MCTransactionStore --------------------------
(* Two transactions, two principals and three clock readings: every race of *)
(* create, approve, withdraw, reject, reserve and expire on one record, and *)
(* a second record whose grants could be confused with the first's.         *)
EXTENDS TransactionStore, TLC

Symmetry == Permutations(Txn) \cup Permutations(Principal)
=============================================================================
