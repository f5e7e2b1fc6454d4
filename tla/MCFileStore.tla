----------------------------- MODULE MCFileStore -----------------------------
(* One store of two records in a log of three units, which two records fill *)
(* when one of them has a grant, under all kinds of fault in any order.     *)
EXTENDS FileStore

Symmetry == Permutations(Handle)

(* Bound: two handles race over one transaction, with all the faults, or    *)
(* one handle at a time works on several, which is what fills the store,    *)
(* with one fault.                                                          *)
Touched == {t \in Txn : \E s \in Slot : \E i \in DOMAIN log[s] : log[s][i].txn = t}

Scope == \/ /\ Cardinality({h \in Handle : cache[h].open}) <= 1
            /\ faults.left >= MaxFailures - 1
         \/ Cardinality(Touched) <= 1
=============================================================================
