------------------------------ MODULE MCRuntime ------------------------------
(* Two callers, a process without a hook and one whose hook sees every      *)
(* request, over one store.  One transaction is followed wherever it goes;  *)
(* the second only takes the one place in a process's pending map.          *)
EXTENDS Runtime, TLC

CONSTANTS p1, p2, t1, t2

Mixed == (p1 :> "none") @@ (p2 :> "AllRequests")

(* Bound: t2 is the preview of a run that has not answered yet.             *)
SecondIsPreview ==
  home[t2] # None =>
    \E c \in Call : /\ work[c].txn = t2 /\ work[c].at = p1 /\ token[c] = "open"
                    /\ work[c].receipt = "AutoApproved" /\ ~work[c].auto

Symmetry == Permutations(Call)
=============================================================================
