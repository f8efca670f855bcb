------------------------------ MODULE MCVerrous ------------------------------
(* Instances of Verrous for TLC. *)
EXTENDS Verrous

CONSTANTS g1, g2, b1, b2, coupon1

T(genre, cible, n) == [genre |-> genre, cible |-> cible, n |-> n]

(* Orders 1 (shop b1) and 2 (shop b2) of checkout g1; order 3 (shop b1) of checkout g2. *)
GroupesDesTrois == [c \in Commandes |-> IF c = 3 THEN g2 ELSE g1]
BoutiquesDesTrois == [c \in Commandes |-> IF c = 2 THEN b2 ELSE b1]
VariantesDesTrois == [c \in Commandes |-> IF c = 2 THEN {3} ELSE {1, 2}]
CouponDuPremier == [g \in Groupes |-> IF g = g1 THEN coupon1 ELSE Aucun]
CouponPartage == [g \in Groupes |-> coupon1]

(* Payment 1 covers the checkout g1, payment 2 its first order alone, payment 3 the order 3. *)
TroisPaiements == [p \in Paiements |-> IF p = 1 THEN {1, 2} ELSE IF p = 2 THEN {1} ELSE {3}]
Etats(un, deux, trois) == [p \in Paiements |-> IF p = 1 THEN un ELSE IF p = 2 THEN deux ELSE trois]

AvantAchat == [c \in Commandes |-> IF c = 3 THEN "absente" ELSE "creee"]
ApresVente == [c \in Commandes |-> IF c = 3 THEN "livree" ELSE "confirmee"]

(* A payment is pending; another client buys the same variants. *)
PaieOuAnnule ==
    [statut |-> AvantAchat, paiement |-> Etats("en_attente", "aucun", "aucun"),
     transactions |-> {T("valider", 1, 1), T("annuler", 1, 1), T("annuler", 2, 1),
                       T("checkout", g2, 1), T("checkout", g2, 2)}]

(* Nothing is paid yet: two requests open a payment, one order is cancelled. *)
DeuxInitiations ==
    [statut |-> AvantAchat, paiement |-> Etats("aucun", "aucun", "aucun"),
     transactions |-> {T("initier", 1, 1), T("initier", 2, 1), T("valider", 1, 1),
                       T("valider", 2, 1), T("annuler", 1, 1)}]

(* Order 3 was delivered, orders 1 and 2 are paid. *)
ApresPaiement ==
    [statut |-> ApresVente, paiement |-> Etats("valide", "aucun", "valide"),
     transactions |-> {T("livrer", 1, 1), T("livrer", 1, 2), T("contester", 1, 1), T("annuler", 1, 1),
                       T("receptionner", 3, 1), T("rembourser", 3, 1), T("demander_retour", 3, 1)}]

TousLesDeparts == {PaieOuAnnule, DeuxInitiations, ApresPaiement}

(* The end of a checkout with a coupon, and a purchase. *)
AnnuleEtAchete ==
    {[statut |-> AvantAchat, paiement |-> Etats("en_attente", "aucun", "aucun"),
      transactions |-> {T("annuler", 1, 1), T("annuler", 2, 1), T("checkout", g2, 1)}]}

(* No crossing in the run that must not block; one in the run that does. *)
ASSUME DepartsChoisis ==
    /\ Departs = TousLesDeparts => CroisementsEvites
    /\ Departs = AnnuleEtAchete => ~ CroisementsEvites
=============================================================================
