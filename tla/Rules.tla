-------------------------------- MODULE Rules --------------------------------
(***************************************************************************)
(* A handler that decides by early returns, written as the sequence of its *)
(* rules <<condition, result>> in the order of the code: the first one     *)
(* whose condition holds decides.                                          *)
(***************************************************************************)
EXTENDS Integers, Sequences, FiniteSetsExt

Decide(rules) == rules[Min({i \in DOMAIN rules : rules[i][1]})][2]

=============================================================================
