------------------------------ MODULE MCDelivery ------------------------------
(* A small instance of Delivery for TLC. *)
EXTENDS Delivery, TLC

CONSTANTS h1, h2, m1, m2, s1

Symmetry == Permutations(Handlers) \cup Permutations(MsgIds)

OneShard == [r \in Recipients |-> s1]
UnitSize == [id \in MsgIds |-> 1]
===============================================================================
