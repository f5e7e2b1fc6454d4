------------------------------- MODULE MCWorkers -------------------------------
(* Two requests over four processes and one Bash lease: a shell beside a    *)
(* Monty program that calls one, or two Monty programs.                     *)
EXTENDS Workers

Fronts == {<<"bash", "monty">>, <<"plain", "plain">>}
===============================================================================
