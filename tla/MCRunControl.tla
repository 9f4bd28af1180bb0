---------------------------- MODULE MCRunControl ----------------------------
(* Model-checking instance of RunControl: the scope control of a root run, *)
(* whose requests are routed to the current root turn, and that turn.      *)
EXTENDS RunControl

CONSTANTS scope, turn

MCRoute == [c \in Control |-> IF c = scope THEN turn ELSE c]
=============================================================================
