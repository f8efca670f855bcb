------------------------------- MODULE Argent -------------------------------
(***************************************************************************)
(* What ANITCHE promises about the money of its clients, with no word of   *)
(* webhooks, retries or locks: a collected payment pays each of its orders *)
(* that can still be paid and is owed back for every other one; cancelling *)
(* a paid order makes its money owed back; an order is paid at most once.  *)
(* Commandes implements this specification (Commandes!ArgentClients).      *)
(***************************************************************************)
CONSTANTS Commandes, Paiements

VARIABLES
    etat,   \* what became of each order
    sort    \* what became of the money of each payment, order by order

Etats == {"a_payer", "payee", "annulee"}

Init ==
    /\ etat = [c \in Commandes |-> "a_payer"]
    /\ sort = [p \in Paiements |-> [c \in Commandes |-> "libre"]]

(* The money of p arrives for the orders S, whatever happened to them meanwhile. *)
Encaisser(p, S) ==
    /\ S # {}
    /\ sort[p] = [c \in Commandes |-> "libre"]
    /\ etat' = [c \in Commandes |-> IF c \in S /\ etat[c] = "a_payer" THEN "payee" ELSE etat[c]]
    /\ sort' = [sort EXCEPT ![p] = [c \in Commandes |->
                  IF c \notin S THEN "libre"
                  ELSE IF etat[c] = "a_payer" THEN "paie" ELSE "a_rendre"]]

Annuler(c) ==
    /\ etat[c] # "annulee"
    /\ etat' = [etat EXCEPT ![c] = "annulee"]
    /\ sort' = [p \in Paiements |->
                  [sort[p] EXCEPT ![c] = IF @ = "paie" THEN "a_rendre" ELSE @]]

Rendre(p, c) ==
    /\ sort[p][c] = "a_rendre"
    /\ \E decision \in {"rendu", "refuse"} : sort' = [sort EXCEPT ![p][c] = decision]
    /\ UNCHANGED etat

Next ==
    \/ \E p \in Paiements, S \in SUBSET Commandes : Encaisser(p, S)
    \/ \E c \in Commandes : Annuler(c)
    \/ \E p \in Paiements, c \in Commandes : Rendre(p, c)

Spec == Init /\ [][Next]_<<etat, sort>>
=============================================================================
