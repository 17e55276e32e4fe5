---------------------------- MODULE MCTelephony ----------------------------
(* Two calls of one customer and two operators of one role for TLC. *)
EXTENDS Telephony, TLC

CONSTANTS x, y, operator

OneRole == [a \in Operators |-> {operator}]

Colleagues == Permutations(Operators)
=============================================================================
