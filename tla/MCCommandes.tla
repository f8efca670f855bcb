---------------------------- MODULE MCCommandes ----------------------------
(* Instances of Commandes for TLC. *)
EXTENDS Commandes, TLC

CONSTANTS g1, g2, c1, c2, c3, p1, p2, v1, v2, k1, k2, coupon1

(* One checkout of two orders. *)
UnGroupe == [c \in Commandes |-> g1]
UnClient == [g \in Groupes |-> k1]
VarianteParCommande == [c \in Commandes |-> IF c = c1 THEN v1 ELSE v2]
QuantiteUne == [c \in Commandes |-> 1]
DeuxGroupes == [c \in Commandes |-> IF c = c3 THEN g2 ELSE g1]
DeuxClients == [g \in Groupes |-> IF g = g1 THEN k1 ELSE k2]
VarianteCommune == [c \in Commandes |-> v1]
VariantePartagee == [c \in Commandes |-> IF c = c2 THEN v2 ELSE v1]
UneUtilisation == [k \in Coupons |-> 1]
SymetriePaiements == Permutations(Paiements)
StockDe1 == [v \in Variantes |-> 1]
StockDe2 == [v \in Variantes |-> 2]
QuantiteDeuxPourLeTroisieme == [c \in Commandes |-> IF c = c3 THEN 2 ELSE 1]

(* The bound of the run of the money and of the stock: two attempts to pay, preparations and a *)
(* grace delay that ends for one order, with the first checkout alone and no coupon; or the    *)
(* two checkouts and the coupon, with one attempt, no preparation and no grace delay that ends. *)
PremierGroupeSeul ==
    /\ \A c \in CommandesDe(g2) : statut[c] = "absente"
    /\ \A g \in Groupes : couponsDe[g] = {}
    /\ \A k \in Coupons : ~coupon[k].expire
    /\ age[c2] # GraceEcoulee
UnEssaiSansPreparation ==
    /\ Cardinality({p \in Paiements : paiement[p] # "aucun"}) <= 1
    /\ \A c \in Commandes : statut[c] \notin {"preparation", "expediee", "livree"} /\ age[c] # GraceEcoulee
ArgentOuStock == PremierGroupeSeul \/ UnEssaiSansPreparation
=============================================================================
