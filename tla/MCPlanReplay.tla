----------------------------- MODULE MCPlanReplay -----------------------------
(* Every pair of trees over a directory, a directory in it and a node in    *)
(* that one.                                                                *)
EXTENDS PlanReplay

Chain == {<<"d">>, <<"d", "e">>, <<"d", "e", "x">>}
=============================================================================
