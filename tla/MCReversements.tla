---------------------------- MODULE MCReversements ----------------------------
(* Instances of Reversements for TLC. *)
EXTENDS Reversements, TLC

CONSTANTS r1, r2, t1, t2

\* The first payout is small, and its offered delivery costs more than it.
NetsDe(grand) == [r \in Reversements |-> IF r = r1 THEN 2 ELSE grand]
Nets == NetsDe(4)
ResteDuPremier == [r \in Reversements |-> IF r = r1 THEN 1 ELSE 0]
SansReste == [r \in Reversements |-> 0]
RetoursDuPremier == [t \in Retours |-> r1]
DeductionDe2 == [t \in Retours |-> 2]
DeductionDe1 == [t \in Retours |-> 1]
FraisDe1 == [t \in Retours |-> 1]
SymetrieRetours == Permutations(Retours)
SansFrais == [t \in Retours |-> 0]
===============================================================================
