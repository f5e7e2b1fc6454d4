----------------------------- MODULE AtomicCommit -----------------------------
(***************************************************************************)
(* What committing one transaction promises while nobody else edits the    *)
(* workspace: the attempt is undecided, then it is decided once, and from  *)
(* then on the workspace holds the whole approved tree or the whole        *)
(* original one.  What it holds while undecided is nobody's business.      *)
(***************************************************************************)
CONSTANTS Jobs,     \* the transactions: records [before, after]
          Hidden

VARIABLES job,
          outcome,  \* "undecided", "committed" or "aborted"
          tree      \* the workspace once decided, Hidden before

Init == job \in Jobs /\ outcome = "undecided" /\ tree = Hidden

Decide(how, result) ==
  /\ outcome = "undecided"
  /\ outcome' = how
  /\ tree' = result
  /\ UNCHANGED job

Next == Decide("committed", job.after) \/ Decide("aborted", job.before)

Spec == Init /\ [][Next]_<<job, outcome, tree>>
=============================================================================
