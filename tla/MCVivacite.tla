------------------------------ MODULE MCVivacite ------------------------------
(***************************************************************************)
(* The tasks of Celery on an instance of the payouts and on one of the     *)
(* returns, which share no variable: a behaviour is one of the two.        *)
(***************************************************************************)
EXTENDS MCReversements

CONSTANTS d1, a1, a2, p1, p2

VARIABLES lequel, retourStatut, lot, frais, approbation, echues, delais, listes, figees, remis,
          remboursement, retourContestation, nonRecu

QuantitesDe == [a \in {a1, a2} |-> IF a = a1 THEN 2 ELSE 1]
Lot(n1, n2) == [a \in {a1, a2} |-> IF a = a1 THEN n1 ELSE n2]

R == INSTANCE Retours WITH
       statut <- retourStatut, contestation <- retourContestation,
       Demandes <- {d1}, Articles <- {a1, a2}, Quantite <- QuantitesDe,
       Prix <- [a \in {a1, a2} |-> IF a = a1 THEN 3 ELSE 2], Remise <- 1, FraisLivraison <- 4,
       Lots <- {Lot(1, 0), Lot(2, 1)}, Passages <- {p1, p2}

retourVars == <<retourStatut, lot, frais, approbation, echues, delais, listes, figees, remis,
                remboursement, retourContestation, nonRecu>>

VivaciteInit == lequel \in {"versements", "retours"} /\ Init /\ R!Init

VivaciteNext ==
  \/ lequel = "versements" /\ Next /\ UNCHANGED <<lequel, retourVars>>
  \/ lequel = "retours" /\ R!Next /\ UNCHANGED <<lequel, vars>>

\* The fairness of Reversements and that of Retours.
VivaciteEquite ==
  /\ \A r \in Reversements :
       /\ WF_vars(lequel = "versements" /\ Reconcilier(r))
       /\ WF_vars(lequel = "versements" /\ AlerterBlocage(r))
       /\ \A n \in Essais, e \in Finaux :
            WF_vars(lequel = "versements" /\ AppliquerEtat([de |-> r, n |-> n, etat |-> e]))
  /\ \A p \in {p1, p2} :
       /\ WF_retourVars(lequel = "retours" /\ R!ListerEcheances(p))
       /\ WF_retourVars(lequel = "retours" /\ R!Echoir(d1))
       /\ WF_retourVars(lequel = "retours" /\ R!LaisserEcheance(p, d1))
       /\ SF_retourVars(lequel = "retours" /\ R!AppliquerEcheance(p, d1))

VivaciteSpec ==
  VivaciteInit /\ [][VivaciteNext]_<<lequel, vars, retourVars>> /\ VivaciteEquite

\* No return waits for ever for an answer of its seller or in a refusal that
\* nobody contests (appliquer_echeances).
SansBlocage == R!SansBlocage
===============================================================================
