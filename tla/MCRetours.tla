------------------------------ MODULE MCRetours ------------------------------
(* Instances of Retours for TLC. *)
EXTENDS Retours, TLC

CONSTANTS d1, d2, a1, a2, p1, p2

(* Two units of a1 and one of a2: 8 in all, 7 paid, and 4 for the delivery. *)
QuantitesDe == [a \in Articles |-> IF a = a1 THEN 2 ELSE 1]
PrixDesArticles == [a \in Articles |-> IF a = a1 THEN 3 ELSE 2]
Lot(n1, n2) == [a \in Articles |-> IF a = a1 THEN n1 ELSE n2]
UneUniteOuTout == {Lot(1, 0), Lot(2, 1)}
Symetrie == Permutations(Demandes) \union Permutations(Passages)
=============================================================================
