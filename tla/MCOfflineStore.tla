---------------------------- MODULE MCOfflineStore ----------------------------
(* Small instances of OfflineStore for TLC. *)
EXTENDS OfflineStore, TLC

CONSTANTS h1, h2, m1, m2, m3, s1

\* Handlers are interchangeable, and so are message ids of one size.
Symmetry == Permutations(Handlers) \cup Permutations(MsgIds \ {m1})

OneShard == [r \in Recipients |-> s1]

UnitSize == [id \in MsgIds |-> 1]
MixedSize == [id \in MsgIds |-> IF id = m1 THEN 2 ELSE 1]
===============================================================================
