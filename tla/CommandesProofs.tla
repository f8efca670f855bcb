--------------------------- MODULE CommandesProofs ---------------------------
(***************************************************************************)
(* Proofs about Commandes, for any number of checkouts, orders, payments   *)
(* and coupons: its type invariant, the invariants of the clients' money,  *)
(* of the delivery sheet, of the stock and of the coupons, its action      *)
(* properties, and that it implements Argent.                              *)
(***************************************************************************)
EXTENDS Commandes, Sommes, TLAPS

-----------------------------------------------------------------------------
(* Types of what the shared effects write. *)

LEMMA StockType ==
    ASSUME TypeCommandes, NEW c \in Commandes
    PROVE  /\ VarianteDe[c] \in Variantes
           /\ Quantite[c] \in Nat
           /\ stock[VarianteDe[c]] \in Nat
<1>1. VarianteDe \in [Commandes -> Variantes] /\ Quantite \in [Commandes -> Nat \ {0}]
      BY ConstantesOk DEF ConstantesOk
<1>2. QED BY <1>1 DEF TypeCommandes

(* Creating refunds keeps the type of the refunds. *)
LEMMA CreerRemboursementsType ==
    ASSUME TypePaiements, NEW couples, CreerRemboursements(couples)
    PROVE  remboursement' \in [Paiements -> [Commandes -> StatutsRemboursement]]
BY DEF CreerRemboursements, TypePaiements, StatutsRemboursement

(* Giving a coupon back keeps its type. *)
LEMMA RestituerCouponType ==
    ASSUME TypeCoupons, NEW c, RestituerCoupon(c)
    PROVE  coupon' \in [Coupons -> [utilisations : SUBSET Groupes, nombre : Nat, epuise : BOOLEAN, expire : BOOLEAN]]
<1>. DEFINE Enregistrement == [utilisations : SUBSET Groupes, nombre : Nat, epuise : BOOLEAN, expire : BOOLEAN]
            Rend(k) == /\ k \in couponsDe[GroupeDe[c]] /\ GroupeDe[c] \in coupon[k].utilisations
                       /\ ~coupon[k].expire
                       /\ \A d \in CommandesDe(GroupeDe[c]) : statut'[d] = "annulee"
            Rendu(k) == [coupon[k] EXCEPT !.utilisations = @ \ {GroupeDe[c]},
                                          !.nombre = IF @ > 0 THEN @ - 1 ELSE 0,
                                          !.epuise = FALSE]
<1>1. coupon' = [k \in Coupons |-> IF Rend(k) THEN Rendu(k) ELSE coupon[k]]
      BY DEF RestituerCoupon
<1>2. ASSUME NEW k \in Coupons PROVE coupon[k] \in Enregistrement /\ Rendu(k) \in Enregistrement
  <2>1. coupon[k] \in Enregistrement
        BY DEF TypeCoupons
  <2>2. ASSUME NEW u \in SUBSET Groupes, NEW n \in Nat
        PROVE  [coupon[k] EXCEPT !.utilisations = u, !.nombre = n, !.epuise = FALSE] \in Enregistrement
        BY <2>1
  <2>3. coupon[k].utilisations \ {GroupeDe[c]} \in SUBSET Groupes
        BY <2>1
  <2>4. (IF coupon[k].nombre > 0 THEN coupon[k].nombre - 1 ELSE 0) \in Nat
        BY <2>1
  <2>. HIDE DEF Enregistrement
  <2>. QED BY <2>1, <2>2, <2>3, <2>4
<1>. HIDE DEF Rend, Rendu, Enregistrement
<1>3. coupon' \in [Coupons -> Enregistrement]
      BY <1>1, <1>2
<1>. QED BY <1>3 DEF Enregistrement

(* A cancellation keeps the types of what it writes. *)
LEMMA AnnulerCommandeType ==
    ASSUME TypeOK, NEW c \in Commandes, NEW motif, AnnulerCommande(c, motif)
    PROVE  TypeCommandes' /\ TypeCoupons' /\ TypePaiements' /\ TypeReseau'
<1>1. TypeCommandes'
  <2>1. stock' \in [Variantes -> Nat]
    <3>1. stock' = [stock EXCEPT ![VarianteDe[c]] = stock[VarianteDe[c]] + Quantite[c]]
          BY DEF AnnulerCommande
    <3>2. QED BY <3>1, StockType DEF TypeOK, TypeCommandes
  <2>2. age' \in [Commandes -> Recente..GraceEcoulee]
        BY DEF AnnulerCommande, OublierAge, TypeOK, TypeCommandes, Recente, GraceEcoulee
  <2>3. QED BY <2>1, <2>2 DEF AnnulerCommande, TypeOK, TypeCommandes, StatutsCommande,
                              StatutsLivraison, StatutsReversement
<1>2. TypeCoupons'
  <2>1. couponsDe' = couponsDe /\ RestituerCoupon(c)
        BY DEF AnnulerCommande
  <2>2. QED BY <2>1, RestituerCouponType DEF TypeOK, TypeCoupons
<1>3. TypePaiements'
  <2>1. remboursement' \in [Paiements -> [Commandes -> StatutsRemboursement]]
        BY CreerRemboursementsType DEF AnnulerCommande, TypeOK
  <2>2. QED BY <2>1 DEF AnnulerCommande, TypeOK, TypePaiements, StatutsPaiement
<1>4. TypeReseau'
      BY DEF AnnulerCommande, reseauVars, TypeOK, TypeReseau
<1>5. QED BY <1>1, <1>2, <1>3, <1>4

(* A validation keeps the types of what it writes. *)
LEMMA ValiderPaiementType ==
    ASSUME TypeOK, NEW p \in Paiements, ValiderPaiement(p)
    PROVE  TypeCommandes' /\ TypeCoupons' /\ TypePaiements'
<1>1. TypeCommandes'
  <2>1. age' \in [Commandes -> Recente..GraceEcoulee]
        BY DEF ValiderPaiement, OublierAge, TypeOK, TypeCommandes, Recente, GraceEcoulee
  <2>2. QED BY <2>1 DEF ValiderPaiement, TypeOK, TypeCommandes, StatutsCommande,
                        StatutsLivraison, StatutsReversement
<1>2. TypeCoupons'
      BY DEF ValiderPaiement, couponVars, TypeOK, TypeCoupons
<1>3. TypePaiements'
  <2>1. remboursement' \in [Paiements -> [Commandes -> StatutsRemboursement]]
        BY CreerRemboursementsType DEF ValiderPaiement, TypeOK
  <2>2. paiement' \in [Paiements -> StatutsPaiement]
        BY DEF ValiderPaiement, TypeOK, TypePaiements, StatutsPaiement
  <2>3. horloge' \in Nat /\ rang' \in [Paiements -> Nat]
        BY DEF ValiderPaiement, TypeOK, TypePaiements
  <2>4. couvre' = couvre
        BY DEF ValiderPaiement
  <2>. QED BY <2>1, <2>2, <2>3, <2>4 DEF TypeOK, TypePaiements
<1>4. QED BY <1>1, <1>2, <1>3

(* A failure keeps the types of what it writes. *)
LEMMA MarquerEchoueType ==
    ASSUME TypeOK, NEW p \in Paiements, MarquerEchoue(p)
    PROVE  TypeCommandes' /\ TypeCoupons' /\ TypePaiements'
BY DEF MarquerEchoue, commandeVars, couponVars, TypeOK, TypeCommandes, TypeCoupons,
       TypePaiements, StatutsPaiement

-----------------------------------------------------------------------------
(* The type invariant. *)

(* The cases of a checkout: stock and coupon. *)
LEMMA ValiderPanierType ==
    ASSUME TypeOK, NEW g \in Groupes, NEW codes \in {{}} \union {{k} : k \in Coupons}, ValiderPanier(g, codes)
    PROVE  TypeOK'
<1>1. stock' \in [Variantes -> Nat]
  <2>1. ASSUME NEW v \in Variantes, \E c \in CommandesDe(g) : VarianteDe[c] = v
        PROVE  stock[v] - Quantite[CHOOSE c \in CommandesDe(g) : VarianteDe[c] = v] \in Nat
    <3>. DEFINE d == CHOOSE c \in CommandesDe(g) : VarianteDe[c] = v
    <3>1. d \in CommandesDe(g) /\ VarianteDe[d] = v
          BY <2>1
    <3>. HIDE DEF d
    <3>2. d \in Commandes /\ Quantite[d] <= stock[v]
          BY <3>1 DEF CommandesDe, ValiderPanier, StockSuffisant
    <3>3. Quantite[d] \in Nat /\ stock[v] \in Nat
          BY <3>1, <3>2, StockType DEF TypeOK
    <3>4. stock[v] - Quantite[d] \in Nat
          BY <3>2, <3>3
    <3>. QED BY <3>4 DEF d
  <2>2. QED BY <2>1 DEF ValiderPanier, TypeOK, TypeCommandes
<1>2. TypeCommandes'
      BY <1>1 DEF ValiderPanier, TypeOK, TypeCommandes, StatutsCommande
<1>3. TypeCoupons'
  <2>1. codes \in SUBSET Coupons
        OBVIOUS
  <2>2. couponsDe' \in [Groupes -> SUBSET Coupons]
        BY <2>1 DEF ValiderPanier, TypeOK, TypeCoupons
  <2>3. ASSUME NEW k \in codes, ConsommerCoupon(k, g)
        PROVE  coupon' \in [Coupons -> [utilisations : SUBSET Groupes, nombre : Nat, epuise : BOOLEAN, expire : BOOLEAN]]
    <3>1. k \in Coupons
          BY <2>1
    <3>2. coupon' = [coupon EXCEPT ![k] = [coupon[k] EXCEPT !.utilisations = @ \union {g}, !.nombre = @ + 1,
                        !.epuise = @ \/ coupon[k].nombre + 1 >= UtilisationsMax[k]]]
          BY <2>3, <3>1 DEF ConsommerCoupon, TypeOK, TypeCoupons
    <3>. DEFINE Enregistrement == [utilisations : SUBSET Groupes, nombre : Nat, epuise : BOOLEAN, expire : BOOLEAN]
    <3>3. coupon[k] \in Enregistrement
          BY <3>1 DEF TypeOK, TypeCoupons
    <3>4. ASSUME NEW u \in SUBSET Groupes, NEW n \in Nat, NEW e \in BOOLEAN
          PROVE  [coupon[k] EXCEPT !.utilisations = u, !.nombre = n, !.epuise = e] \in Enregistrement
          BY <3>3
    <3>5. /\ coupon[k].utilisations \union {g} \in SUBSET Groupes
          /\ coupon[k].nombre + 1 \in Nat
          /\ (coupon[k].epuise \/ coupon[k].nombre + 1 >= UtilisationsMax[k]) \in BOOLEAN
          BY <3>3
    <3>6. coupon \in [Coupons -> Enregistrement]
          BY DEF TypeOK, TypeCoupons
    <3>. HIDE DEF Enregistrement
    <3>7. coupon' \in [Coupons -> Enregistrement]
          BY <3>2, <3>4, <3>5, <3>6
    <3>. QED BY <3>7 DEF Enregistrement
  <2>4. QED BY <2>2, <2>3 DEF ValiderPanier, TypeOK, TypeCoupons
<1>4. QED BY <1>2, <1>3 DEF ValiderPanier, TypeOK, TypeCommandes, TypeCoupons, TypePaiements, TypeReseau, TypeExpiration, commandeVars, couponVars, paiementVars, reseauVars

LEMMA TypageInit ==
    ASSUME Init
    PROVE  TypeOK
<1>1. TypeCommandes
      BY ConstantesOk DEF Init, TypeCommandes, ConstantesOk, StatutsCommande, StatutsLivraison,
         StatutsReversement, Recente, GraceEcoulee
<1>2. TypeCoupons
      BY DEF Init, TypeCoupons
<1>3. TypePaiements
      BY DEF Init, TypePaiements, StatutsPaiement, StatutsRemboursement
<1>4. TypeReseau /\ TypeExpiration
      BY DEF Init, TypeReseau, TypeExpiration
<1>. QED BY <1>1, <1>2, <1>3, <1>4 DEF TypeOK

LEMMA TypageEtape ==
    ASSUME TypeOK, [Next]_vars
    PROVE  TypeOK'
<1>. USE DEF TypeOK
<1>1. ASSUME NEW g \in Groupes, NEW codes \in {{}} \union {{k} : k \in Coupons}, ValiderPanier(g, codes)
      PROVE  TypeOK'
      BY <1>1, ValiderPanierType
<1>2. ASSUME NEW p \in Paiements, NEW g \in Groupes, NEW S \in Cibles(g), InitierPaiement(p, S)
      PROVE  TypeOK'
  <2>1. S \in SUBSET Commandes
        BY DEF Cibles, CommandesDe
  <2>2. QED BY <1>2, <2>1 DEF InitierPaiement, StatutsPaiement, TypeCommandes, TypeCoupons, TypePaiements, TypeReseau, TypeExpiration,
         commandeVars, couponVars, paiementVars, reseauVars
<1>3. ASSUME NEW p \in Paiements, AnnulerPaiementClient(p)
      PROVE  TypeOK'
      BY <1>3 DEF AnnulerPaiementClient, StatutsPaiement, TypeCommandes, TypeCoupons, TypePaiements, TypeReseau, TypeExpiration,
         commandeVars, couponVars, paiementVars, reseauVars
<1>4. ASSUME NEW p \in Paiements, FournisseurEncaisse(p)
      PROVE  TypeOK'
      BY <1>4 DEF FournisseurEncaisse, TypeCommandes, TypeCoupons, TypePaiements, TypeReseau, TypeExpiration,
         commandeVars, couponVars, paiementVars, reseauVars
<1>5. ASSUME NEW p \in Paiements, FournisseurRefuse(p)
      PROVE  TypeOK'
      BY <1>5 DEF FournisseurRefuse, TypeCommandes, TypeCoupons, TypePaiements, TypeReseau, TypeExpiration,
         commandeVars, couponVars, paiementVars, reseauVars
<1>6. ASSUME NEW p \in Paiements, EnregistrerSession(p)
      PROVE  TypeOK'
      BY <1>6 DEF EnregistrerSession, TypeCommandes, TypeCoupons, TypePaiements, TypeReseau, TypeExpiration,
         commandeVars, couponVars, paiementVars, reseauVars
<1>7. ASSUME NEW p \in Paiements, LireReponse(p)
      PROVE  TypeOK'
      BY <1>7 DEF LireReponse, Etats, TypeCommandes, TypeCoupons, TypePaiements, TypeReseau, TypeExpiration,
         commandeVars, couponVars, paiementVars, reseauVars
<1>8. ASSUME ListerExpirables
      PROVE  TypeOK'
      BY <1>8 DEF ListerExpirables, TypeCommandes, TypeCoupons, TypePaiements, TypeReseau, TypeExpiration,
         commandeVars, couponVars, paiementVars, reseauVars
<1>9. ASSUME NEW c \in Commandes, RienAVerifier(c)
      PROVE  TypeOK'
      BY <1>9 DEF RienAVerifier, TypeCommandes, TypeCoupons, TypePaiements, TypeReseau, TypeExpiration,
         commandeVars, couponVars, paiementVars, reseauVars
<1>10. ASSUME NEW c \in Commandes, EtatIncertain(c)
      PROVE  TypeOK'
      BY <1>10 DEF EtatIncertain, TypeCommandes, TypeCoupons, TypePaiements, TypeReseau, TypeExpiration,
         commandeVars, couponVars, paiementVars, reseauVars
<1>11. ASSUME NEW c \in Commandes, PasserEnPreparation(c)
      PROVE  TypeOK'
      BY <1>11 DEF PasserEnPreparation, StatutsCommande, TypeCommandes, TypeCoupons, TypePaiements, TypeReseau, TypeExpiration,
         commandeVars, couponVars, paiementVars, reseauVars
<1>12. ASSUME NEW c \in Commandes, NEW s \in StatutsLivraison, ChangerStatutLivraison(c, s)
      PROVE  TypeOK'
      BY <1>12 DEF ChangerStatutLivraison, StatutsCommande, StatutsReversement, TypeCommandes, TypeCoupons, TypePaiements, TypeReseau, TypeExpiration,
         commandeVars, couponVars, paiementVars, reseauVars
<1>13. ASSUME NEW c \in Commandes, Vieillir(c)
      PROVE  TypeOK'
      BY <1>13 DEF Vieillir, Recente, GraceEcoulee, TypeCommandes, TypeCoupons, TypePaiements, TypeReseau, TypeExpiration,
         commandeVars, couponVars, paiementVars, reseauVars
<1>14. ASSUME NEW p \in Paiements, FermerFenetre(p)
      PROVE  TypeOK'
      BY <1>14 DEF FermerFenetre, TypeCommandes, TypeCoupons, TypePaiements, TypeReseau, TypeExpiration,
         commandeVars, couponVars, paiementVars, reseauVars
<1>15. ASSUME NEW p \in Paiements, EchecInitiation(p)
      PROVE  TypeOK'
      BY <1>15, MarquerEchoueType DEF EchecInitiation, TypeReseau, TypeExpiration
<1>16. ASSUME NEW p \in Paiements, NEW etat \in Etats, AppliquerReponse(p, etat)
      PROVE  TypeOK'
  <2>1. TypeReseau' /\ TypeExpiration'
        BY <1>16 DEF AppliquerReponse, TypeReseau, TypeExpiration
  <2>2. CASE ValiderPaiement(p)
        BY <2>1, <2>2, ValiderPaiementType
  <2>3. CASE MarquerEchoue(p)
        BY <2>1, <2>3, MarquerEchoueType
  <2>4. CASE UNCHANGED <<commandeVars, couponVars, paiementVars, remboursement>>
        BY <2>1, <2>4 DEF TypeCommandes, TypeCoupons, TypePaiements, TypeReseau, TypeExpiration,
         commandeVars, couponVars, paiementVars, reseauVars
  <2>. QED BY <1>16, <2>2, <2>3, <2>4 DEF AppliquerReponse
<1>17. ASSUME NEW c \in Commandes, NEW p \in Paiements, NEW etat \in Etats, VerifierAvantExpiration(c, p, etat)
      PROVE  TypeOK'
  <2>1. TypeReseau' /\ TypeExpiration'
        BY <1>17 DEF VerifierAvantExpiration, TypeReseau, TypeExpiration
  <2>2. CASE ValiderPaiement(p)
        BY <2>1, <2>2, ValiderPaiementType
  <2>3. CASE MarquerEchoue(p)
        BY <2>1, <2>3, MarquerEchoueType
  <2>. QED BY <1>17, <2>2, <2>3 DEF VerifierAvantExpiration
<1>18. ASSUME NEW c \in Commandes, ExpirerCommande(c)
      PROVE  TypeOK'
  <2>1. TypeExpiration'
        BY <1>18 DEF ExpirerCommande, TypeExpiration
  <2>2. CASE AnnulerCommande(c, "expiration")
        BY <2>1, <2>2, AnnulerCommandeType
  <2>3. CASE UNCHANGED <<commandeVars, couponVars, paiementVars, reseauVars, remboursement>>
        BY <2>1, <2>3 DEF TypeCommandes, TypeCoupons, TypePaiements, TypeReseau, TypeExpiration,
         commandeVars, couponVars, paiementVars, reseauVars
  <2>. QED BY <1>18, <2>2, <2>3 DEF ExpirerCommande
<1>19. ASSUME NEW c \in Commandes, NEW motif, AnnulerCommande(c, motif), UNCHANGED expiration
      PROVE  TypeOK'
      BY <1>19, AnnulerCommandeType DEF TypeExpiration
<1>20. ASSUME NEW p \in Paiements, NEW c \in Commandes, NEW decision \in Decisions, TraiterRemboursement(p, c, decision)
      PROVE  TypeOK'
  <2>1. decision \in StatutsRemboursement
        BY ConstantesOk DEF ConstantesOk, StatutsRemboursement
  <2>. QED BY <1>20, <2>1 DEF TraiterRemboursement, TypeCommandes, TypeCoupons, TypePaiements, TypeReseau, TypeExpiration,
         commandeVars, couponVars, paiementVars, reseauVars
<1>21. ASSUME NEW k \in Coupons, ExpirerCoupon(k)
      PROVE  TypeOK'
  <2>. DEFINE Enregistrement == [utilisations : SUBSET Groupes, nombre : Nat, epuise : BOOLEAN, expire : BOOLEAN]
  <2>1. coupon \in [Coupons -> Enregistrement]
        BY DEF TypeCoupons
  <2>2. [coupon[k] EXCEPT !.expire = TRUE] \in Enregistrement
        BY <2>1
  <2>3. coupon' = [coupon EXCEPT ![k] = [coupon[k] EXCEPT !.expire = TRUE]]
        BY <1>21, <2>1 DEF ExpirerCoupon
  <2>. HIDE DEF Enregistrement
  <2>4. coupon' \in [Coupons -> Enregistrement]
        BY <2>1, <2>2, <2>3
  <2>. QED BY <1>21, <2>4 DEF ExpirerCoupon, Enregistrement, TypeCommandes, TypeCoupons, TypePaiements, TypeReseau, TypeExpiration,
         commandeVars, couponVars, paiementVars, reseauVars
<1>22. ASSUME UNCHANGED vars
      PROVE  TypeOK'
      BY <1>22 DEF vars, TypeCommandes, TypeCoupons, TypePaiements, TypeReseau, TypeExpiration,
         commandeVars, couponVars, paiementVars, reseauVars
<1>. QED BY <1>1, <1>2, <1>3, <1>4, <1>5, <1>6, <1>7, <1>8, <1>9, <1>10, <1>11, <1>12, <1>13, <1>14, <1>15, <1>16, <1>17, <1>18, <1>19, <1>20, <1>21, <1>22 DEF Next, Client, Serveur, Expiration, Suivi, Temps,
         RecevoirNotification, Reconcilier, AnnulerSur, AbandonnerLivraison

(* Every column keeps its type: in particular no interleaving of checkouts and cancellations *)
(* makes a stock negative.                                                                   *)
THEOREM Typage == Spec => []TypeOK
<1>1. Init => TypeOK
      BY TypageInit
<1>2. TypeOK /\ [Next]_vars => TypeOK'
      BY TypageEtape
<1>3. QED BY <1>1, <1>2, PTL DEF Spec

-----------------------------------------------------------------------------
(* The inductive invariant. *)

(* What the invariants of the runs need to be inductive. *)
RangsBornes == \A p \in Paiements : rang[p] <= horloge
CommandesCouvertesCreees == \A p \in Paiements : \A c \in couvre[p] : statut[c] # "absente"
PaiementsCouvrants == \A p \in Paiements : paiement[p] # "aucun" => couvre[p] # {}
PasDeReversementAvantPaiement ==
    \A c \in Commandes : statut[c] \in {"absente", "creee"} => reversement[c] = "aucun"

Inductif ==
    /\ TypeOK
    /\ RangsBornes
    /\ CommandesCouvertesCreees
    /\ PaiementsCouvrants
    /\ CommandePayee
    /\ ArgentClient
    /\ UnSeulEnAttente
    /\ PasDePaiementOrphelin
    /\ PasDeReversementAvantPaiement
    /\ FicheEtReversementAlignes

(* The other end of a pending payment: a failure, or the client gives it up. *)
ClorePaiement(p) ==
    /\ paiement[p] = "en_attente"
    /\ \E s \in {"echoue", "annule"} : paiement' = [paiement EXCEPT ![p] = s]
    /\ UNCHANGED <<statut, fiche, reversement, couvre, rang, horloge, remboursement>>

(* The step touches neither orders nor payments. *)
Neutre == UNCHANGED <<statut, fiche, reversement, paiement, couvre, rang, horloge, remboursement>>

(* A failure closes a pending payment or does nothing. *)
LEMMA MarquerEchoueEtape ==
    ASSUME TypeOK, NEW p \in Paiements, MarquerEchoue(p)
    PROVE  ClorePaiement(p) \/ Neutre
<1>. USE DEF MarquerEchoue, commandeVars
<1>1. CASE paiement[p] = "en_attente"
      BY <1>1 DEF ClorePaiement
<1>2. CASE paiement[p] # "en_attente"
      BY <1>2 DEF Neutre, TypeOK, TypePaiements
<1>3. QED BY <1>1, <1>2

(* What a step of the system can do to the orders and to the payments. *)
Etape ==
    \/ \E c \in Commandes, motif \in DOMAIN ANNULATION_POSSIBLE_DEPUIS : AnnulerCommande(c, motif)
    \/ \E p \in Paiements : ValiderPaiement(p)
    \/ \E p \in Paiements : ClorePaiement(p)
    \/ \E p \in Paiements, S \in SUBSET Commandes : InitierPaiement(p, S)
    \/ \E g \in Groupes, codes \in SUBSET Coupons : ValiderPanier(g, codes)
    \/ \E c \in Commandes : PasserEnPreparation(c)
    \/ \E c \in Commandes, s \in StatutsLivraison : ChangerStatutLivraison(c, s)
    \/ \E p \in Paiements, c \in Commandes, decision \in Decisions : TraiterRemboursement(p, c, decision)
    \/ Neutre

LEMMA Etapes ==
    ASSUME TypeOK, [Next]_vars
    PROVE  Etape
<1>. USE DEF commandeVars, couponVars, paiementVars, reseauVars
<1>1. CASE UNCHANGED vars
      BY <1>1 DEF vars, Etape, Neutre
<1>2. CASE Client
  <2>1. ASSUME NEW p \in Paiements, NEW g \in Groupes, NEW S \in Cibles(g), InitierPaiement(p, S)
        PROVE  Etape
    <3>1. S \in SUBSET Commandes
          BY DEF Cibles, CommandesDe
    <3>2. QED BY <2>1, <3>1 DEF Etape
  <2>2. ASSUME NEW g \in Groupes, NEW codes \in {{}} \union {{k} : k \in Coupons}, ValiderPanier(g, codes)
        PROVE  Etape
    <3>1. codes \in SUBSET Coupons
          OBVIOUS
    <3>2. QED BY <2>2, <3>1 DEF Etape
  <2>3. ASSUME NEW p \in Paiements, AnnulerPaiementClient(p)
        PROVE  Etape
    <3>1. ClorePaiement(p)
          BY <2>3 DEF AnnulerPaiementClient, ClorePaiement
    <3>2. QED BY <3>1 DEF Etape
  <2>4. ASSUME NEW p \in Paiements, FournisseurEncaisse(p) \/ FournisseurRefuse(p)
        PROVE  Etape
        BY <2>4 DEF FournisseurEncaisse, FournisseurRefuse, Etape, Neutre
  <2>5. QED BY <1>2, <2>1, <2>2, <2>3, <2>4 DEF Client
<1>3. CASE Serveur
  <2>1. ASSUME NEW p \in Paiements, EnregistrerSession(p) \/ RecevoirNotification(p) \/ Reconcilier(p)
        PROVE  Etape
        BY <2>1 DEF EnregistrerSession, RecevoirNotification, Reconcilier, LireReponse, Etape, Neutre
  <2>2. ASSUME NEW p \in Paiements, EchecInitiation(p)
        PROVE  Etape
        BY <2>2, MarquerEchoueEtape DEF EchecInitiation, Etape
  <2>3. ASSUME NEW p \in Paiements, NEW etat \in Etats, AppliquerReponse(p, etat)
        PROVE  Etape
    <3>1. CASE ValiderPaiement(p)
          BY <3>1 DEF Etape
    <3>2. CASE MarquerEchoue(p)
          BY <3>2, MarquerEchoueEtape DEF Etape
    <3>3. CASE UNCHANGED <<commandeVars, couponVars, paiementVars, remboursement>>
          BY <3>3 DEF Etape, Neutre
    <3>4. QED BY <2>3, <3>1, <3>2, <3>3 DEF AppliquerReponse
  <2>4. QED BY <1>3, <2>1, <2>2, <2>3 DEF Serveur
<1>4. CASE Expiration
  <2>1. ASSUME ListerExpirables \/ \E c \in Commandes : RienAVerifier(c) \/ EtatIncertain(c)
        PROVE  Etape
        BY <2>1 DEF ListerExpirables, RienAVerifier, EtatIncertain, Etape, Neutre
  <2>2. ASSUME NEW c \in Commandes, ExpirerCommande(c)
        PROVE  Etape
    <3>1. CASE AnnulerCommande(c, "expiration")
          BY <3>1 DEF Etape, ANNULATION_POSSIBLE_DEPUIS
    <3>2. CASE UNCHANGED <<commandeVars, couponVars, paiementVars, reseauVars, remboursement>>
          BY <3>2 DEF Etape, Neutre
    <3>3. QED BY <2>2, <3>1, <3>2 DEF ExpirerCommande
  <2>3. ASSUME NEW c \in Commandes, NEW p \in Paiements, NEW etat \in Etats, VerifierAvantExpiration(c, p, etat)
        PROVE  Etape
    <3>1. CASE ValiderPaiement(p)
          BY <3>1 DEF Etape
    <3>2. CASE MarquerEchoue(p)
          BY <3>2, MarquerEchoueEtape DEF Etape
    <3>3. QED BY <2>3, <3>1, <3>2 DEF VerifierAvantExpiration
  <2>4. QED BY <1>4, <2>1, <2>2, <2>3 DEF Expiration
<1>5. CASE Suivi
  <2>1. ASSUME NEW c \in Commandes, AbandonnerLivraison(c)
        PROVE  Etape
        BY <2>1 DEF AbandonnerLivraison, Etape, ANNULATION_POSSIBLE_DEPUIS
  <2>2. ASSUME NEW c \in Commandes, NEW motif \in DOMAIN ANNULATION_POSSIBLE_DEPUIS, AnnulerSur(c, motif)
        PROVE  Etape
        BY <2>2 DEF AnnulerSur, Etape
  <2>3. QED BY <1>5, <2>1, <2>2 DEF Suivi, Etape
<1>6. CASE Temps
      BY <1>6 DEF Temps, Vieillir, FermerFenetre, ExpirerCoupon, Etape, Neutre
<1>7. QED BY <1>1, <1>2, <1>3, <1>4, <1>5, <1>6 DEF Next

-----------------------------------------------------------------------------
(* Each kind of step keeps the invariant. *)

Surete ==
    /\ RangsBornes
    /\ CommandesCouvertesCreees
    /\ PaiementsCouvrants
    /\ CommandePayee
    /\ ArgentClient
    /\ UnSeulEnAttente
    /\ PasDePaiementOrphelin
    /\ PasDeReversementAvantPaiement
    /\ FicheEtReversementAlignes

(* A cancellation: its effect on the money, then each part of the invariant. *)
LEMMA AnnulerCommandeSurete ==
    ASSUME Inductif, NEW c \in Commandes, NEW motif \in DOMAIN ANNULATION_POSSIBLE_DEPUIS,
           AnnulerCommande(c, motif)
    PROVE  Surete'
<1>. USE DEF Inductif, TypeOK
<1>1. /\ statut' = [statut EXCEPT ![c] = "annulee"]
      /\ paiement' = [p \in Paiements |-> IF PaiementSansCommande(p, c) THEN "annule" ELSE paiement[p]]
      /\ UNCHANGED <<couvre, rang, horloge>>
      /\ statut[c] \in {"creee"} \union Payees
      BY DEF AnnulerCommande, AnnulationPermise, ANNULATION_POSSIBLE_DEPUIS, Payees
<1>2. \A p \in Paiements : paiement'[p] = "valide" <=> paiement[p] = "valide"
      BY <1>1 DEF PaiementSansCommande
<1>3. \A d \in Commandes : Couvrant(d, {"valide"})' = Couvrant(d, {"valide"})
      BY <1>1, <1>2 DEF Couvrant
<1>4. \A p \in Paiements, d \in Commandes : EstPaiementValideDe(p, d)' <=> EstPaiementValideDe(p, d)
      BY <1>1, <1>3 DEF EstPaiementValideDe
<1>5. \A d \in Commandes : statut'[d] = IF d = c THEN "annulee" ELSE statut[d]
      BY <1>1 DEF TypeCommandes
<1>6. RangsBornes'
      BY <1>1 DEF RangsBornes
<1>7. CommandesCouvertesCreees'
      BY <1>1, <1>5 DEF CommandesCouvertesCreees, TypePaiements
<1>8. CommandePayee'
      BY <1>3, <1>5 DEF CommandePayee, Payees
<1>9. ArgentClient'
  <2>1. \A p \in Paiements, d \in Commandes :
            remboursement'[p][d] = IF d = c /\ p \in Couvrant(c, {"valide"}) /\ remboursement[p][d] = "aucun"
                                     THEN "a_traiter" ELSE remboursement[p][d]
        BY DEF AnnulerCommande, CreerRemboursements
  <2>2. ASSUME NEW p \in Paiements, NEW d \in Commandes
        PROVE  IF d \in couvre'[p] /\ paiement'[p] = "valide"
                 THEN remboursement'[p][d] = "aucun" <=> (statut'[d] \in Payees /\ EstPaiementValideDe(p, d)')
                 ELSE remboursement'[p][d] = "aucun"
    <3>1. CASE d = c
          BY <1>1, <1>2, <1>5, <2>1, <3>1 DEF ArgentClient, Couvrant, Payees
    <3>2. CASE d # c
          BY <1>1, <1>2, <1>4, <1>5, <2>1, <3>2 DEF ArgentClient
    <3>3. QED BY <3>1, <3>2
  <2>3. QED BY <2>2 DEF ArgentClient
<1>10. UnSeulEnAttente'
       BY <1>1 DEF UnSeulEnAttente, Couvrant, PaiementSansCommande
<1>11. PasDePaiementOrphelin'
  <2>1. ASSUME NEW p \in Paiements, paiement'[p] = "en_attente"
        PROVE  \E d \in couvre'[p] : statut'[d] # "annulee"
    <3>1. paiement[p] = "en_attente" /\ ~PaiementSansCommande(p, c)
          BY <1>1, <2>1
    <3>2. couvre[p] \subseteq Commandes
          BY DEF TypePaiements
    <3>3. CASE c \in couvre[p]
          BY <1>1, <1>5, <3>1, <3>2, <3>3 DEF PaiementSansCommande
    <3>4. CASE c \notin couvre[p]
          BY <1>1, <1>5, <3>1, <3>2, <3>4 DEF PasDePaiementOrphelin
    <3>5. QED BY <3>3, <3>4
  <2>2. QED BY <2>1 DEF PasDePaiementOrphelin
<1>12. \A d \in Commandes :
          /\ fiche'[d] = IF d = c THEN IF fiche[c] = "aucune" THEN "aucune" ELSE "annulee" ELSE fiche[d]
          /\ reversement'[d] = IF d = c THEN IF reversement[c] = "aucun" THEN "aucun" ELSE "annule" ELSE reversement[d]
       BY DEF AnnulerCommande, TypeCommandes
<1>13. PasDeReversementAvantPaiement'
       BY <1>5, <1>12 DEF PasDeReversementAvantPaiement
<1>14. FicheEtReversementAlignes'
  <2>1. /\ statut[c] = "creee" => fiche[c] = "aucune" /\ reversement[c] = "aucun"
        /\ statut[c] \in Payees => fiche[c] # "aucune" /\ reversement[c] # "aucun"
        BY DEF FicheEtReversementAlignes, PasDeReversementAvantPaiement, Payees
  <2>2. QED BY <1>1, <1>5, <1>12, <2>1 DEF FicheEtReversementAlignes, Payees
<1>15. PaiementsCouvrants'
       BY <1>1 DEF PaiementsCouvrants, PaiementSansCommande
<1>16. QED BY <1>6, <1>7, <1>8, <1>9, <1>10, <1>11, <1>13, <1>14, <1>15 DEF Surete

(* A validation: the payment becomes the last validated one. *)
LEMMA ValiderPaiementSurete ==
    ASSUME Inductif, NEW q \in Paiements, ValiderPaiement(q)
    PROVE  Surete'
<1>. USE DEF Inductif, TypeOK
<1>1. /\ paiement[q] # "valide"
      /\ \A p \in Paiements : paiement'[p] = IF p = q THEN "valide" ELSE paiement[p]
      /\ \A p \in Paiements : rang'[p] = IF p = q THEN horloge + 1 ELSE rang[p]
      /\ horloge' = horloge + 1
      /\ couvre' = couvre
      BY DEF ValiderPaiement, VALIDABLE_DEPUIS, TypePaiements
<1>2. \A d \in Commandes : statut'[d] = IF d \in AConfirmer(q) THEN "confirmee" ELSE statut[d]
      BY DEF ValiderPaiement
<1>3. horloge \in Nat /\ \A p \in Paiements : rang[p] \in Nat /\ rang[p] <= horloge /\ couvre[p] \subseteq Commandes
      BY DEF RangsBornes, TypePaiements
<1>4. \A d \in Commandes : Couvrant(d, {"valide"})' =
            IF d \in couvre[q] THEN Couvrant(d, {"valide"}) \union {q} ELSE Couvrant(d, {"valide"})
      BY <1>1 DEF Couvrant
<1>5. \A d \in Commandes : d \in AConfirmer(q) <=> d \in couvre[q] /\ statut[d] = "creee"
      BY <1>1, <1>3 DEF AConfirmer, CommandePayee
<1>6. RangsBornes'
      BY <1>1, <1>3 DEF RangsBornes
<1>7. CommandesCouvertesCreees'
      BY <1>1, <1>2, <1>3 DEF CommandesCouvertesCreees
<1>8. CommandePayee'
  <2>1. ASSUME NEW d \in Commandes
        PROVE  /\ statut'[d] \in Payees => Couvrant(d, {"valide"})' # {}
               /\ statut'[d] \in {"absente", "creee"} => Couvrant(d, {"valide"})' = {}
    <3>1. CASE d \in AConfirmer(q)
          BY <1>2, <1>4, <1>5, <3>1
    <3>2. CASE d \notin AConfirmer(q)
          BY <1>2, <1>4, <1>5, <3>2 DEF CommandePayee, CommandesCouvertesCreees
    <3>3. QED BY <3>1, <3>2
  <2>2. QED BY <2>1 DEF CommandePayee
<1>9. ArgentClient'
  <2>1. \A p \in Paiements, d \in Commandes :
            remboursement'[p][d] = IF p = q /\ d \in couvre[q] \ AConfirmer(q) /\ remboursement[p][d] = "aucun"
                                     THEN "a_traiter" ELSE remboursement[p][d]
        BY <1>3 DEF ValiderPaiement, CreerRemboursements
  <2>2. ASSUME NEW p \in Paiements, NEW d \in Commandes
        PROVE  IF d \in couvre'[p] /\ paiement'[p] = "valide"
                 THEN remboursement'[p][d] = "aucun" <=> (statut'[d] \in Payees /\ EstPaiementValideDe(p, d)')
                 ELSE remboursement'[p][d] = "aucun"
    <3>1. CASE p = q /\ d \in AConfirmer(q)
      <4>1. Couvrant(d, {"valide"})' = {q}
            BY <1>4, <1>5, <3>1 DEF CommandePayee
      <4>2. EstPaiementValideDe(q, d)'
            BY <1>1, <1>3, <4>1 DEF EstPaiementValideDe
      <4>3. QED BY <1>1, <1>2, <1>5, <2>1, <3>1, <4>2 DEF ArgentClient, Payees
    <3>2. CASE p = q /\ d \in couvre[q] \ AConfirmer(q)
      <4>1. statut[d] \in Payees => ~EstPaiementValideDe(q, d)'
        <5>1. ASSUME statut[d] \in Payees
              PROVE  ~EstPaiementValideDe(q, d)'
          <6>1. PICK r \in Paiements : r \in Couvrant(d, {"valide"})
                BY <5>1 DEF CommandePayee, Couvrant
          <6>2. r # q /\ rang'[r] = rang[r] /\ r \in Couvrant(d, {"valide"})'
                BY <1>1, <1>4, <6>1 DEF Couvrant
          <6>3. ~(rang'[q] <= rang'[r])
                BY <1>1, <1>3, <6>2
          <6>4. QED BY <6>2, <6>3 DEF EstPaiementValideDe
        <5>2. QED BY <5>1
      <4>2. QED BY <1>1, <1>2, <2>1, <3>2, <4>1 DEF ArgentClient
    <3>3. CASE p = q /\ d \notin couvre[q]
          BY <1>1, <2>1, <3>3 DEF ArgentClient
    <3>4. CASE p # q /\ ~(d \in couvre[p] /\ paiement[p] = "valide")
          BY <1>1, <2>1, <3>4 DEF ArgentClient
    <3>5. CASE p # q /\ d \in couvre[p] /\ paiement[p] = "valide"
      <4>1. d \notin AConfirmer(q)
            BY <1>5, <3>5 DEF CommandePayee, Couvrant
      <4>2. EstPaiementValideDe(p, d)' <=> EstPaiementValideDe(p, d)
        <5>1. rang'[p] = rang[p] /\ (d \in couvre[q] => rang'[p] <= rang'[q])
              BY <1>1, <1>3, <3>5
        <5>2. \A r \in Couvrant(d, {"valide"}) : r # q /\ rang'[r] = rang[r]
              BY <1>1 DEF Couvrant
        <5>3. QED BY <1>4, <5>1, <5>2, <3>5 DEF EstPaiementValideDe
      <4>3. QED BY <1>1, <1>2, <2>1, <3>5, <4>1, <4>2 DEF ArgentClient
    <3>6. QED BY <3>1, <3>2, <3>3, <3>4, <3>5
  <2>3. QED BY <2>2 DEF ArgentClient
<1>10. UnSeulEnAttente'
       BY <1>1 DEF UnSeulEnAttente, Couvrant
<1>11. PasDePaiementOrphelin'
       BY <1>1, <1>2, <1>3 DEF PasDePaiementOrphelin
<1>12. \A d \in Commandes :
          /\ fiche'[d] = IF d \in AConfirmer(q) /\ fiche[d] = "aucune" THEN "en_attente" ELSE fiche[d]
          /\ reversement'[d] = IF d \in AConfirmer(q) /\ reversement[d] = "aucun"
                                 THEN "en_attente_livraison" ELSE reversement[d]
       BY DEF ValiderPaiement
<1>13. PasDeReversementAvantPaiement'
       BY <1>2, <1>12 DEF PasDeReversementAvantPaiement
<1>14. FicheEtReversementAlignes'
  <2>1. ASSUME NEW d \in Commandes, d \in AConfirmer(q)
        PROVE  statut'[d] = "confirmee" /\ fiche'[d] = "en_attente" /\ reversement'[d] = "en_attente_livraison"
        BY <1>2, <1>5, <1>12, <2>1 DEF FicheEtReversementAlignes, PasDeReversementAvantPaiement
  <2>2. QED BY <1>2, <1>12, <2>1 DEF FicheEtReversementAlignes, Payees
<1>15. PaiementsCouvrants'
       BY <1>1 DEF ValiderPaiement, VALIDABLE_DEPUIS, PaiementsCouvrants
<1>16. QED BY <1>6, <1>7, <1>8, <1>9, <1>10, <1>11, <1>13, <1>14, <1>15 DEF Surete

(* A step that leaves the validated payments and the money of the clients alone, and moves   *)
(* orders only inside the paid statuses, or out of the cart.                                 *)
SansEncaissement ==
    /\ UNCHANGED <<rang, horloge, remboursement>>
    /\ \A p \in Paiements : paiement'[p] = "valide" <=> paiement[p] = "valide"
    /\ \A p \in Paiements : paiement[p] = "valide" => couvre'[p] = couvre[p]
    /\ \A c \in Commandes : \/ statut'[c] = statut[c]
                            \/ statut[c] \in Payees /\ statut'[c] \in Payees
                            \/ statut[c] = "absente" /\ statut'[c] = "creee"

LEMMA SansEncaissementArgent ==
    ASSUME Inductif, SansEncaissement
    PROVE  RangsBornes' /\ CommandePayee' /\ ArgentClient'
<1>. USE DEF SansEncaissement
<1>1. \A c \in Commandes : Couvrant(c, {"valide"})' = Couvrant(c, {"valide"})
      BY DEF Couvrant
<1>2. \A p \in Paiements, c \in Commandes : EstPaiementValideDe(p, c)' <=> EstPaiementValideDe(p, c)
      BY <1>1 DEF EstPaiementValideDe
<1>3. RangsBornes'
      BY DEF Inductif, RangsBornes
<1>4. CommandePayee'
      BY <1>1 DEF Inductif, CommandePayee, Payees
<1>5. \A c \in Commandes : statut'[c] \in Payees <=> statut[c] \in Payees
      BY DEF Payees
<1>6. ArgentClient'
      BY <1>2, <1>5 DEF Inductif, ArgentClient
<1>7. QED BY <1>3, <1>4, <1>6

(* A step that moves no payment keeps what is said of the pending ones. *)
LEMMA SansPaiementSurete ==
    ASSUME Inductif, SansEncaissement, UNCHANGED <<paiement, couvre>>
    PROVE  CommandesCouvertesCreees' /\ PaiementsCouvrants' /\ UnSeulEnAttente' /\ PasDePaiementOrphelin'
<1>1. \A p \in Paiements : couvre[p] \subseteq Commandes
      BY DEF Inductif, TypeOK, TypePaiements
<1>2. \A c \in Commandes : statut'[c] \in {"absente", "annulee"} => statut'[c] = statut[c]
      BY DEF SansEncaissement, Payees
<1>3. \A c \in Commandes : statut[c] # "annulee" => statut'[c] # "annulee"
      BY DEF SansEncaissement, Payees
<1>4. CommandesCouvertesCreees'
      BY <1>1, <1>2 DEF Inductif, CommandesCouvertesCreees
<1>5. UnSeulEnAttente'
      BY DEF Inductif, UnSeulEnAttente, Couvrant
<1>6. PasDePaiementOrphelin'
      BY <1>1, <1>3 DEF Inductif, PasDePaiementOrphelin
<1>7. PaiementsCouvrants'
      BY DEF Inductif, PaiementsCouvrants
<1>8. QED BY <1>4, <1>5, <1>6, <1>7

LEMMA ClorePaiementSurete ==
    ASSUME Inductif, NEW p \in Paiements, ClorePaiement(p)
    PROVE  Surete' /\ SansEncaissement
<1>. USE DEF Inductif, TypeOK
<1>1. /\ paiement[p] = "en_attente"
      /\ paiement'[p] \in {"echoue", "annule"}
      /\ \A q \in Paiements : q # p => paiement'[q] = paiement[q]
      /\ UNCHANGED <<statut, fiche, reversement, couvre, rang, horloge, remboursement>>
      BY DEF ClorePaiement, TypePaiements
<1>2. SansEncaissement
      BY <1>1 DEF SansEncaissement
<1>3. RangsBornes' /\ CommandePayee' /\ ArgentClient'
      BY <1>2, SansEncaissementArgent
<1>4. \A q \in Paiements : paiement'[q] = "en_attente" => paiement[q] = "en_attente"
      BY <1>1
<1>5. UnSeulEnAttente' /\ PasDePaiementOrphelin' /\ PaiementsCouvrants'
      BY <1>1, <1>4 DEF UnSeulEnAttente, PasDePaiementOrphelin, PaiementsCouvrants, Couvrant
<1>6. CommandesCouvertesCreees' /\ PasDeReversementAvantPaiement' /\ FicheEtReversementAlignes'
      BY <1>1 DEF CommandesCouvertesCreees, PasDeReversementAvantPaiement, FicheEtReversementAlignes
<1>7. QED BY <1>2, <1>3, <1>5, <1>6 DEF Surete

LEMMA InitierPaiementSurete ==
    ASSUME Inductif, NEW p \in Paiements, NEW S \in SUBSET Commandes, InitierPaiement(p, S)
    PROVE  Surete' /\ SansEncaissement
<1>. USE DEF Inductif, TypeOK
<1>1. /\ paiement[p] = "aucun" /\ paiement'[p] = "en_attente"
      /\ \A q \in Paiements : q # p => paiement'[q] = paiement[q] /\ couvre'[q] = couvre[q]
      /\ couvre'[p] = S /\ S # {}
      /\ \A c \in S : statut[c] = "creee" /\ Couvrant(c, STATUTS_ACTIFS) = {}
      /\ UNCHANGED <<statut, fiche, reversement, rang, horloge, remboursement>>
      BY DEF InitierPaiement, SansPaiementActif, TypePaiements, commandeVars
<1>2. SansEncaissement
      BY <1>1 DEF SansEncaissement
<1>3. RangsBornes' /\ CommandePayee' /\ ArgentClient'
      BY <1>2, SansEncaissementArgent
<1>4. CommandesCouvertesCreees' /\ PaiementsCouvrants'
      BY <1>1 DEF CommandesCouvertesCreees, PaiementsCouvrants
<1>5. UnSeulEnAttente'
  <2>1. ASSUME NEW c \in Commandes, NEW q \in Couvrant(c, {"en_attente"})', NEW r \in Couvrant(c, {"en_attente"})'
        PROVE  q = r
    <3>1. \A u \in Couvrant(c, {"en_attente"})' : u # p => u \in Couvrant(c, {"en_attente"}) /\ u \in Couvrant(c, STATUTS_ACTIFS)
          BY <1>1 DEF Couvrant, STATUTS_ACTIFS
    <3>2. p \in Couvrant(c, {"en_attente"})' => c \in S
          BY <1>1 DEF Couvrant
    <3>3. QED BY <1>1, <3>1, <3>2 DEF UnSeulEnAttente
  <2>2. QED BY <2>1 DEF UnSeulEnAttente
<1>6. PasDePaiementOrphelin'
      BY <1>1 DEF PasDePaiementOrphelin
<1>7. PasDeReversementAvantPaiement' /\ FicheEtReversementAlignes'
      BY <1>1 DEF PasDeReversementAvantPaiement, FicheEtReversementAlignes
<1>8. QED BY <1>2, <1>3, <1>4, <1>5, <1>6, <1>7 DEF Surete

LEMMA ValiderPanierSurete ==
    ASSUME Inductif, NEW g \in Groupes, NEW codes \in SUBSET Coupons, ValiderPanier(g, codes)
    PROVE  Surete' /\ SansEncaissement
<1>. USE DEF paiementVars
<1>1. \A c \in Commandes : statut'[c] = statut[c] \/ (statut[c] = "absente" /\ statut'[c] = "creee")
      BY DEF ValiderPanier
<1>2. UNCHANGED <<fiche, reversement, paiement, couvre, rang, horloge, remboursement>>
      BY DEF ValiderPanier
<1>3. SansEncaissement
      BY <1>1, <1>2 DEF SansEncaissement
<1>4. PasDeReversementAvantPaiement'
      BY <1>1, <1>2 DEF Inductif, PasDeReversementAvantPaiement
<1>5. FicheEtReversementAlignes'
      BY <1>1, <1>2 DEF Inductif, FicheEtReversementAlignes, Payees
<1>6. QED BY <1>2, <1>3, <1>4, <1>5, SansEncaissementArgent, SansPaiementSurete DEF Surete

LEMMA PasserEnPreparationSurete ==
    ASSUME Inductif, NEW c \in Commandes, PasserEnPreparation(c)
    PROVE  Surete' /\ SansEncaissement
<1>. USE DEF paiementVars
<1>1. /\ statut[c] = "confirmee"
      /\ \A d \in Commandes : statut'[d] = IF d = c THEN "preparation" ELSE statut[d]
      BY DEF PasserEnPreparation, Inductif, TypeOK, TypeCommandes
<1>2. UNCHANGED <<fiche, reversement, paiement, couvre, rang, horloge, remboursement>>
      BY DEF PasserEnPreparation
<1>3. SansEncaissement
      BY <1>1, <1>2 DEF SansEncaissement, Payees
<1>4. PasDeReversementAvantPaiement'
      BY <1>1, <1>2 DEF Inductif, PasDeReversementAvantPaiement
<1>5. FicheEtReversementAlignes'
      BY <1>1, <1>2 DEF Inductif, FicheEtReversementAlignes, Payees
<1>6. QED BY <1>2, <1>3, <1>4, <1>5, SansEncaissementArgent, SansPaiementSurete DEF Surete

LEMMA ChangerStatutLivraisonSurete ==
    ASSUME Inductif, NEW c \in Commandes, NEW s \in StatutsLivraison, ChangerStatutLivraison(c, s)
    PROVE  Surete' /\ SansEncaissement
<1>. USE DEF paiementVars
<1>1. /\ <<fiche[c], s>> \in TRANSITIONS_LIVRAISON
      /\ s = "expediee" => statut[c] = "preparation"
      /\ s = "livree" => statut[c] = "expediee"
      /\ \A d \in Commandes :
            /\ fiche'[d] = IF d = c THEN s ELSE fiche[d]
            /\ statut'[d] = IF d = c /\ s \in {"expediee", "livree"} THEN s ELSE statut[d]
            /\ reversement'[d] = IF d = c /\ s = "livree" /\ reversement[c] = "en_attente_livraison"
                                   THEN "en_retractation" ELSE reversement[d]
      BY DEF ChangerStatutLivraison, Inductif, TypeOK, TypeCommandes
<1>2. UNCHANGED <<paiement, couvre, rang, horloge, remboursement>>
      BY DEF ChangerStatutLivraison
<1>3. SansEncaissement
      BY <1>1, <1>2 DEF SansEncaissement, Payees
<1>4. /\ s \in {"expediee", "en_cours", "livree", "echouee"}
      /\ s = "expediee" <=> fiche[c] = "en_attente"
      /\ s # "expediee" => fiche[c] \in {"expediee", "en_cours", "echouee"}
      BY <1>1 DEF TRANSITIONS_LIVRAISON
<1>5. s # "expediee" => statut[c] = "expediee"
      BY <1>4 DEF Inductif, FicheEtReversementAlignes, TypeOK, TypeCommandes, StatutsCommande
<1>6. statut[c] \in {"preparation", "expediee"} => reversement[c] = "en_attente_livraison"
      BY DEF Inductif, FicheEtReversementAlignes, Payees
<1>7. PasDeReversementAvantPaiement'
      BY <1>1, <1>4, <1>5 DEF Inductif, PasDeReversementAvantPaiement
<1>8. FicheEtReversementAlignes'
  <2>1. ASSUME NEW d \in Commandes, d # c
        PROVE  statut'[d] = statut[d] /\ fiche'[d] = fiche[d] /\ reversement'[d] = reversement[d]
        BY <1>1, <2>1
  <2>2. statut'[c] \in {"expediee", "livree"}
        BY <1>1, <1>4, <1>5
  <2>3. statut'[c] = "expediee" => fiche'[c] \in {"expediee", "en_cours", "echouee"} /\ reversement'[c] = "en_attente_livraison"
        BY <1>1, <1>4, <1>5, <1>6
  <2>4. statut'[c] = "livree" => fiche'[c] = "livree" /\ reversement'[c] = "en_retractation"
        BY <1>1, <1>4, <1>5, <1>6
  <2>5. QED BY <2>1, <2>2, <2>3, <2>4 DEF Inductif, FicheEtReversementAlignes, Payees
<1>9. QED BY <1>2, <1>3, <1>7, <1>8, SansEncaissementArgent, SansPaiementSurete DEF Surete

LEMMA TraiterRemboursementSurete ==
    ASSUME Inductif, NEW p \in Paiements, NEW c \in Commandes, NEW decision \in Decisions,
           TraiterRemboursement(p, c, decision)
    PROVE  Surete'
<1>. USE DEF commandeVars, paiementVars
<1>1. UNCHANGED <<statut, fiche, reversement, paiement, couvre, rang, horloge>>
      BY DEF TraiterRemboursement
<1>2. decision # "aucun"
      BY ConstantesOk DEF ConstantesOk
<1>3. \A q \in Paiements, d \in Commandes : remboursement'[q][d] = "aucun" <=> remboursement[q][d] = "aucun"
      BY <1>2 DEF TraiterRemboursement, Inductif, TypeOK, TypePaiements
<1>4. ArgentClient'
      BY <1>1, <1>3 DEF Inductif, ArgentClient, EstPaiementValideDe, Couvrant
<1>5. QED BY <1>1, <1>4 DEF Inductif, Surete, RangsBornes, CommandesCouvertesCreees, PaiementsCouvrants, CommandePayee,
                            UnSeulEnAttente, PasDePaiementOrphelin, PasDeReversementAvantPaiement,
                            FicheEtReversementAlignes, Couvrant

LEMMA NeutreSurete ==
    ASSUME Inductif, Neutre
    PROVE  Surete'
BY DEF Inductif, Neutre, Surete, RangsBornes, CommandesCouvertesCreees, PaiementsCouvrants, CommandePayee, ArgentClient,
       UnSeulEnAttente, PasDePaiementOrphelin, PasDeReversementAvantPaiement,
       FicheEtReversementAlignes, Couvrant, EstPaiementValideDe

LEMMA InductifInit ==
    ASSUME Init
    PROVE  Inductif
<1>1. TypeOK
      BY TypageInit
<1>2. QED BY <1>1 DEF Init, Inductif, RangsBornes, CommandesCouvertesCreees, PaiementsCouvrants, CommandePayee, ArgentClient,
             UnSeulEnAttente, PasDePaiementOrphelin, PasDeReversementAvantPaiement,
             FicheEtReversementAlignes, Couvrant, Payees

LEMMA InductifEtape ==
    ASSUME Inductif, [Next]_vars
    PROVE  Inductif'
<1>1. TypeOK'
      BY TypageEtape DEF Inductif
<1>2. Etape
      BY Etapes DEF Inductif
<1>3. Surete'
      BY <1>2, AnnulerCommandeSurete, ValiderPaiementSurete, ClorePaiementSurete, InitierPaiementSurete,
         ValiderPanierSurete, PasserEnPreparationSurete, ChangerStatutLivraisonSurete,
         TraiterRemboursementSurete, NeutreSurete DEF Etape
<1>4. QED BY <1>1, <1>3 DEF Inductif, Surete

(* The inductive invariant holds in every reachable state. *)
THEOREM Invariance == Spec => []Inductif
<1>1. Init => Inductif
      BY InductifInit
<1>2. Inductif /\ [Next]_vars => Inductif'
      BY InductifEtape
<1>3. QED BY <1>1, <1>2, PTL DEF Spec

-----------------------------------------------------------------------------
(* What a reader should know of. *)

(* valider_paiement, annuler_commande and creer_remboursement, in any order and number: each *)
(* validated payment either confirmed its order or is refunded, exactly.                     *)
THEOREM Argent_Client == Spec => []ArgentClient
<1>1. Inductif => ArgentClient
      BY DEF Inductif
<1>2. QED BY <1>1, Invariance, PTL

(* An order goes to its shop only once collected, and a collected order is never left to     *)
(* expire or to be paid again.                                                               *)
THEOREM Commande_Payee == Spec => []CommandePayee
<1>1. Inductif => CommandePayee
      BY DEF Inductif
<1>2. QED BY <1>1, Invariance, PTL

(* initier_paiement never leaves two payments of an order waiting for the client, and        *)
(* annuler_commande never leaves one waiting for orders that are all cancelled.              *)
THEOREM Paiements_En_Attente == Spec => [](UnSeulEnAttente /\ PasDePaiementOrphelin)
<1>1. Inductif => UnSeulEnAttente /\ PasDePaiementOrphelin
      BY DEF Inductif
<1>2. QED BY <1>1, Invariance, PTL

(* Order, delivery sheet and payout of the seller agree whatever services moved them.        *)
THEOREM Fiche_Et_Reversement == Spec => []FicheEtReversementAlignes
<1>1. Inductif => FicheEtReversementAlignes
      BY DEF Inductif
<1>2. QED BY <1>1, Invariance, PTL

(* A collected payment stays collected and a decided refund stays decided.                   *)
THEOREM Encaissement_Definitif == Spec => EncaissementDefinitif
<1>. DEFINE Definitif ==
       \A p \in Paiements :
         /\ paiement[p] = "valide" => paiement'[p] = "valide"
         /\ \A c \in Commandes :
              /\ remboursement[p][c] # "aucun" => remboursement'[p][c] # "aucun"
              /\ remboursement[p][c] \in {"effectue", "refuse"} => UNCHANGED remboursement[p][c]
<1>1. Inductif /\ [Next]_vars => Definitif
  <2>. SUFFICES ASSUME Inductif, [Next]_vars PROVE Definitif
       OBVIOUS
  <2>. USE DEF Inductif, TypeOK, TypePaiements
  <2>1. Etape
        BY Etapes
  <2>2. ASSUME NEW c \in Commandes, NEW motif, AnnulerCommande(c, motif) PROVE Definitif
        BY <2>2 DEF AnnulerCommande, PaiementSansCommande, CreerRemboursements
  <2>3. ASSUME NEW p \in Paiements, ValiderPaiement(p) PROVE Definitif
        BY <2>3 DEF ValiderPaiement, CreerRemboursements
  <2>4. ASSUME NEW p \in Paiements, ClorePaiement(p) PROVE Definitif
        BY <2>4 DEF ClorePaiement
  <2>5. ASSUME NEW p \in Paiements, NEW S \in SUBSET Commandes, InitierPaiement(p, S) PROVE Definitif
        BY <2>5 DEF InitierPaiement
  <2>6. ASSUME NEW p \in Paiements, NEW c \in Commandes, NEW decision \in Decisions,
               TraiterRemboursement(p, c, decision)
        PROVE  Definitif
    <3>1. decision # "aucun"
          BY ConstantesOk DEF ConstantesOk
    <3>2. QED BY <2>6, <3>1 DEF TraiterRemboursement, paiementVars
  <2>7. ASSUME UNCHANGED <<paiement, remboursement>> PROVE Definitif
        BY <2>7
  <2>8. QED BY <2>1, <2>2, <2>3, <2>4, <2>5, <2>6, <2>7
            DEF Etape, Neutre, ValiderPanier, PasserEnPreparation, ChangerStatutLivraison, paiementVars
<1>2. QED BY <1>1, Invariance, PTL DEF Spec, EncaissementDefinitif

(* The expiration task decides outside any transaction, then cancels: an order paid in       *)
(* between is left alone.                                                                    *)
THEOREM Expiration_Epargne == Spec => ExpirationEpargnePayees
<1>. DEFINE Epargne ==
       \A c \in Commandes :
         expiration[c] = "a_annuler" /\ expiration'[c] = "repos" /\ statut[c] \in Payees
           => statut'[c] = statut[c]
<1>1. Inductif /\ [Next]_vars => Epargne
  <2>. SUFFICES ASSUME Inductif, [Next]_vars PROVE Epargne
       OBVIOUS
  <2>. USE DEF Inductif, TypeOK, TypeExpiration, commandeVars
  <2>1. CASE UNCHANGED expiration
        BY <2>1
  <2>2. CASE UNCHANGED statut
        BY <2>2
  <2>3. ASSUME NEW c \in Commandes, NEW p \in Paiements, NEW etat \in Etats, VerifierAvantExpiration(c, p, etat)
        PROVE  Epargne
        BY <2>3 DEF VerifierAvantExpiration, EnListe
  <2>4. ASSUME NEW c \in Commandes, ExpirerCommande(c)
        PROVE  Epargne
    <3>1. \A d \in Commandes : d # c => expiration'[d] = expiration[d]
          BY <2>4 DEF ExpirerCommande
    <3>2. statut[c] \in Payees => statut'[c] = statut[c]
          BY <2>4 DEF ExpirerCommande, AnnulerCommande, AnnulationPermise, ANNULATION_POSSIBLE_DEPUIS, Payees
    <3>3. QED BY <3>1, <3>2
  <2>5. CASE Client
        BY <2>1, <2>5 DEF Client, ValiderPanier, InitierPaiement, AnnulerPaiementClient,
           FournisseurEncaisse, FournisseurRefuse
  <2>6. CASE Serveur
        BY <2>1, <2>6 DEF Serveur, EnregistrerSession, EchecInitiation, RecevoirNotification,
           Reconcilier, LireReponse, AppliquerReponse
  <2>7. CASE Expiration
        BY <2>2, <2>3, <2>4, <2>7 DEF Expiration, ListerExpirables, RienAVerifier, EtatIncertain
  <2>8. CASE Suivi
        BY <2>1, <2>8 DEF Suivi, AnnulerSur, ChangerStatutLivraison, PasserEnPreparation,
           AbandonnerLivraison, TraiterRemboursement
  <2>9. CASE Temps
        BY <2>1, <2>9 DEF Temps, Vieillir, FermerFenetre, ExpirerCoupon
  <2>10. QED BY <2>1, <2>5, <2>6, <2>7, <2>8, <2>9 DEF Next, vars
<1>2. QED BY <1>1, Invariance, PTL DEF Spec, ExpirationEpargnePayees

-----------------------------------------------------------------------------
(* Commandes implements Argent. *)

EtatDe(c) == IF statut[c] \in {"absente", "creee"} THEN "a_payer"
             ELSE IF statut[c] = "annulee" THEN "annulee" ELSE "payee"

SortDe(p, c) ==
    IF paiement[p] # "valide" \/ c \notin couvre[p] THEN "libre"
    ELSE IF remboursement[p][c] = "aucun" THEN "paie"
    ELSE IF remboursement[p][c] = "a_traiter" THEN "a_rendre"
    ELSE IF remboursement[p][c] = "effectue" THEN "rendu" ELSE "refuse"

LEMMA Vues ==
    /\ EtatDesCommandes = [c \in Commandes |-> EtatDe(c)]
    /\ SortDeLArgent = [p \in Paiements |-> [c \in Commandes |-> SortDe(p, c)]]
    /\ EtatDesCommandes' = [c \in Commandes |-> EtatDe(c)']
    /\ SortDeLArgent' = [p \in Paiements |-> [c \in Commandes |-> SortDe(p, c)']]
BY DEF EtatDesCommandes, SortDeLArgent, EtatDe, SortDe

LEMMA RaffinementInit ==
    ASSUME Init
    PROVE  Promesse!Init
BY DEF Init, Promesse!Init, EtatDesCommandes, SortDeLArgent

(* Steps that Argent does not see. *)
LEMMA RaffinementBegaiement ==
    ASSUME SansEncaissement
    PROVE  UNCHANGED <<EtatDesCommandes, SortDeLArgent>>
<1>1. \A c \in Commandes : EtatDe(c)' = EtatDe(c)
      BY DEF SansEncaissement, EtatDe, Payees
<1>2. \A p \in Paiements, c \in Commandes : SortDe(p, c)' = SortDe(p, c)
      BY DEF SansEncaissement, SortDe
<1>3. QED BY <1>1, <1>2, Vues

(* annuler_commande is Annuler. *)
LEMMA RaffinementAnnuler ==
    ASSUME Inductif, NEW c \in Commandes, NEW motif \in DOMAIN ANNULATION_POSSIBLE_DEPUIS,
           AnnulerCommande(c, motif)
    PROVE  Promesse!Annuler(c)
<1>1. /\ \A d \in Commandes : statut'[d] = IF d = c THEN "annulee" ELSE statut[d]
      /\ \A p \in Paiements : paiement'[p] = "valide" <=> paiement[p] = "valide"
      /\ couvre' = couvre
      /\ statut[c] \in {"creee"} \union Payees
      BY DEF AnnulerCommande, AnnulationPermise, ANNULATION_POSSIBLE_DEPUIS, Payees, PaiementSansCommande,
             Inductif, TypeOK, TypeCommandes, TypePaiements
<1>2. \A p \in Paiements, d \in Commandes :
          remboursement'[p][d] = IF d = c /\ p \in Couvrant(c, {"valide"}) /\ remboursement[p][d] = "aucun"
                                   THEN "a_traiter" ELSE remboursement[p][d]
      BY DEF AnnulerCommande, CreerRemboursements
<1>3. EtatDe(c) # "annulee"
      BY <1>1 DEF EtatDe, Payees
<1>4. \A d \in Commandes : EtatDe(d)' = IF d = c THEN "annulee" ELSE EtatDe(d)
      BY <1>1 DEF EtatDe
<1>5. \A p \in Paiements, d \in Commandes :
          SortDe(p, d)' = IF d = c /\ SortDe(p, d) = "paie" THEN "a_rendre" ELSE SortDe(p, d)
      BY <1>1, <1>2 DEF SortDe, Couvrant
<1>6. EtatDesCommandes' = [EtatDesCommandes EXCEPT ![c] = "annulee"]
      BY <1>4, Vues
<1>7. SortDeLArgent' = [p \in Paiements |->
                          [SortDeLArgent[p] EXCEPT ![c] = IF @ = "paie" THEN "a_rendre" ELSE @]]
  <2>1. ASSUME NEW p \in Paiements
        PROVE  [d \in Commandes |-> SortDe(p, d)'] =
                 [SortDeLArgent[p] EXCEPT ![c] = IF @ = "paie" THEN "a_rendre" ELSE @]
    <3>1. SortDeLArgent[p] = [d \in Commandes |-> SortDe(p, d)]
          BY Vues
    <3>2. QED BY <1>5, <3>1
  <2>2. QED BY <2>1, Vues
<1>8. EtatDesCommandes[c] # "annulee"
      BY <1>3, Vues
<1>9. QED BY <1>6, <1>7, <1>8 DEF Promesse!Annuler

(* valider_paiement is Encaisser, for the orders of the payment. *)
LEMMA RaffinementEncaisser ==
    ASSUME Inductif, NEW q \in Paiements, ValiderPaiement(q)
    PROVE  Promesse!Encaisser(q, couvre[q])
<1>. USE DEF Inductif, TypeOK
<1>1. /\ paiement[q] \notin {"aucun", "valide"}
      /\ \A p \in Paiements : paiement'[p] = IF p = q THEN "valide" ELSE paiement[p]
      /\ couvre' = couvre
      /\ \A d \in Commandes : statut'[d] = IF d \in AConfirmer(q) THEN "confirmee" ELSE statut[d]
      BY DEF ValiderPaiement, VALIDABLE_DEPUIS, TypePaiements
<1>2. \A d \in Commandes : d \in AConfirmer(q) <=> d \in couvre[q] /\ statut[d] = "creee"
      BY DEF AConfirmer, CommandePayee, TypePaiements
<1>3. \A d \in Commandes : d \in couvre[q] /\ EtatDe(d) = "a_payer" <=> d \in AConfirmer(q)
      BY <1>2 DEF EtatDe, CommandesCouvertesCreees
<1>4. couvre[q] # {}
      BY <1>1 DEF PaiementsCouvrants
<1>5. \A p \in Paiements, d \in Commandes :
          remboursement'[p][d] = IF p = q /\ d \in couvre[q] \ AConfirmer(q) /\ remboursement[p][d] = "aucun"
                                   THEN "a_traiter" ELSE remboursement[p][d]
      BY DEF ValiderPaiement, CreerRemboursements, TypePaiements
<1>6. \A d \in Commandes : remboursement[q][d] = "aucun" /\ SortDe(q, d) = "libre"
      BY <1>1 DEF ArgentClient, SortDe
<1>7. \A d \in Commandes : EtatDe(d)' = IF d \in couvre[q] /\ EtatDe(d) = "a_payer" THEN "payee" ELSE EtatDe(d)
      BY <1>1, <1>3 DEF EtatDe
<1>8. \A d \in Commandes :
          SortDe(q, d)' = IF d \notin couvre[q] THEN "libre"
                          ELSE IF EtatDe(d) = "a_payer" THEN "paie" ELSE "a_rendre"
      BY <1>1, <1>3, <1>5, <1>6 DEF SortDe
<1>9. \A p \in Paiements, d \in Commandes : p # q => SortDe(p, d)' = SortDe(p, d)
      BY <1>1, <1>5 DEF SortDe
<1>10. SortDeLArgent[q] = [c \in Commandes |-> "libre"]
       BY <1>6, Vues
<1>11. EtatDesCommandes' = [c \in Commandes |->
                              IF c \in couvre[q] /\ EtatDesCommandes[c] = "a_payer" THEN "payee"
                              ELSE EtatDesCommandes[c]]
       BY <1>7, Vues
<1>12. SortDeLArgent' = [SortDeLArgent EXCEPT ![q] = [c \in Commandes |->
                           IF c \notin couvre[q] THEN "libre"
                           ELSE IF EtatDesCommandes[c] = "a_payer" THEN "paie" ELSE "a_rendre"]]
  <2>1. [d \in Commandes |-> SortDe(q, d)'] =
          [c \in Commandes |-> IF c \notin couvre[q] THEN "libre"
                               ELSE IF EtatDesCommandes[c] = "a_payer" THEN "paie" ELSE "a_rendre"]
        BY <1>8, Vues
  <2>2. ASSUME NEW p \in Paiements, p # q
        PROVE  [d \in Commandes |-> SortDe(p, d)'] = SortDeLArgent[p]
        BY <1>9, <2>2, Vues
  <2>3. QED BY <2>1, <2>2, Vues
<1>13. QED BY <1>4, <1>10, <1>11, <1>12 DEF Promesse!Encaisser

(* traiter_remboursement is Rendre. *)
LEMMA RaffinementRendre ==
    ASSUME Inductif, NEW p \in Paiements, NEW c \in Commandes, NEW decision \in Decisions,
           TraiterRemboursement(p, c, decision)
    PROVE  Promesse!Rendre(p, c)
<1>. USE DEF Inductif, TypeOK, commandeVars, paiementVars
<1>1. /\ remboursement[p][c] = "a_traiter"
      /\ \A q \in Paiements, d \in Commandes :
            remboursement'[q][d] = IF q = p /\ d = c THEN decision ELSE remboursement[q][d]
      /\ UNCHANGED <<statut, paiement, couvre>>
      BY DEF TraiterRemboursement, TypePaiements
<1>2. decision \in {"effectue", "refuse"}
      BY ConstantesOk DEF ConstantesOk
<1>3. c \in couvre[p] /\ paiement[p] = "valide"
      BY <1>1 DEF ArgentClient
<1>4. EtatDesCommandes' = EtatDesCommandes
      BY <1>1 DEF EtatDesCommandes
<1>5. SortDe(p, c) = "a_rendre" /\ SortDe(p, c)' \in {"rendu", "refuse"}
      BY <1>1, <1>2, <1>3 DEF SortDe
<1>6. \A q \in Paiements, d \in Commandes : ~(q = p /\ d = c) => SortDe(q, d)' = SortDe(q, d)
      BY <1>1 DEF SortDe
<1>7. SortDeLArgent' = [SortDeLArgent EXCEPT ![p][c] = SortDe(p, c)']
      BY <1>6, Vues
<1>8. SortDeLArgent[p][c] = "a_rendre"
      BY <1>5, Vues
<1>9. QED BY <1>4, <1>5, <1>7, <1>8 DEF Promesse!Rendre

(* Webhooks, retries, stale answers and cancellations never do to the money of a client      *)
(* anything that Argent does not allow.                                                      *)
THEOREM Raffinement == Spec => ArgentClients
<1>1. Init => Promesse!Init
      BY RaffinementInit
<1>2. Inductif /\ [Next]_vars => [Promesse!Next]_<<EtatDesCommandes, SortDeLArgent>>
  <2>. SUFFICES ASSUME Inductif, [Next]_vars
                PROVE  Promesse!Next \/ UNCHANGED <<EtatDesCommandes, SortDeLArgent>>
       OBVIOUS
  <2>1. Etape
        BY Etapes DEF Inductif
  <2>2. ASSUME NEW c \in Commandes, NEW motif \in DOMAIN ANNULATION_POSSIBLE_DEPUIS, AnnulerCommande(c, motif)
        PROVE  Promesse!Next
        BY <2>2, RaffinementAnnuler DEF Promesse!Next
  <2>3. ASSUME NEW p \in Paiements, ValiderPaiement(p)
        PROVE  Promesse!Next
    <3>1. couvre[p] \in SUBSET Commandes
          BY DEF Inductif, TypeOK, TypePaiements
    <3>2. QED BY <2>3, <3>1, RaffinementEncaisser DEF Promesse!Next
  <2>4. ASSUME NEW p \in Paiements, NEW c \in Commandes, NEW decision \in Decisions,
               TraiterRemboursement(p, c, decision)
        PROVE  Promesse!Next
        BY <2>4, RaffinementRendre DEF Promesse!Next
  <2>5. ASSUME SansEncaissement
        PROVE  UNCHANGED <<EtatDesCommandes, SortDeLArgent>>
        BY <2>5, RaffinementBegaiement
  <2>6. Neutre => SansEncaissement
        BY DEF Neutre, SansEncaissement
  <2>7. QED BY <2>1, <2>2, <2>3, <2>4, <2>5, <2>6, ClorePaiementSurete, InitierPaiementSurete,
               ValiderPanierSurete, PasserEnPreparationSurete, ChangerStatutLivraisonSurete DEF Etape
<1>3. QED BY <1>1, <1>2, Invariance, PTL DEF Spec, ArgentClients, Promesse!Spec
-----------------------------------------------------------------------------
(* The stock and the coupons. *)

(* The orders that hold no unit of the stock.                                                *)
SansUnites == {"absente", "annulee"}

(* Neither stock nor coupon: an order that holds its units keeps them.                       *)
SansStock ==
    /\ UNCHANGED <<stock, couponVars>>
    /\ \A c \in Commandes :
          statut[c] \in SansUnites \/ statut'[c] \in SansUnites => statut'[c] = statut[c]

EtapeStock ==
    \/ \E c \in Commandes, motif \in DOMAIN ANNULATION_POSSIBLE_DEPUIS : AnnulerCommande(c, motif)
    \/ \E g \in Groupes, codes \in {{}} \union {{k} : k \in Coupons} : ValiderPanier(g, codes)
    \/ \E k \in Coupons : ExpirerCoupon(k)
    \/ SansStock

LEMMA EtapesStock ==
    ASSUME TypeOK, [Next]_vars
    PROVE  EtapeStock
<1>. USE DEF commandeVars, couponVars, paiementVars, reseauVars
<1>1. ASSUME UNCHANGED <<statut, stock, couponsDe, coupon>> PROVE EtapeStock
      BY <1>1 DEF EtapeStock, SansStock
<1>2. ASSUME NEW p \in Paiements, ValiderPaiement(p) PROVE EtapeStock
  <2>1. \A c \in Commandes : statut'[c] = IF c \in AConfirmer(p) THEN "confirmee" ELSE statut[c]
        BY <1>2 DEF ValiderPaiement
  <2>2. \A c \in AConfirmer(p) : statut[c] = "creee"
        BY DEF AConfirmer
  <2>3. UNCHANGED <<stock, couponVars>>
        BY <1>2 DEF ValiderPaiement
  <2>4. QED BY <2>1, <2>2, <2>3 DEF EtapeStock, SansStock, SansUnites
<1>3. ASSUME NEW p \in Paiements, MarquerEchoue(p) PROVE EtapeStock
      BY <1>1, <1>3 DEF MarquerEchoue
<1>4. CASE UNCHANGED vars
      BY <1>1, <1>4 DEF vars
<1>5. CASE Client
  <2>1. ASSUME NEW p \in Paiements, NEW g \in Groupes, NEW S \in Cibles(g), InitierPaiement(p, S)
        PROVE  EtapeStock
        BY <1>1, <2>1 DEF InitierPaiement
  <2>2. ASSUME NEW p \in Paiements, AnnulerPaiementClient(p) \/ FournisseurEncaisse(p) \/ FournisseurRefuse(p)
        PROVE  EtapeStock
        BY <1>1, <2>2 DEF AnnulerPaiementClient, FournisseurEncaisse, FournisseurRefuse
  <2>3. ASSUME NEW g \in Groupes, NEW codes \in {{}} \union {{k} : k \in Coupons}, ValiderPanier(g, codes)
        PROVE  EtapeStock
        BY <2>3 DEF EtapeStock
  <2>4. QED BY <1>5, <2>1, <2>2, <2>3 DEF Client
<1>6. CASE Serveur
  <2>1. ASSUME NEW p \in Paiements, EnregistrerSession(p) \/ RecevoirNotification(p) \/ Reconcilier(p)
        PROVE  EtapeStock
        BY <1>1, <2>1 DEF EnregistrerSession, RecevoirNotification, Reconcilier, LireReponse
  <2>2. ASSUME NEW p \in Paiements, EchecInitiation(p)
        PROVE  EtapeStock
        BY <1>3, <2>2 DEF EchecInitiation
  <2>3. ASSUME NEW p \in Paiements, NEW etat \in Etats, AppliquerReponse(p, etat)
        PROVE  EtapeStock
        BY <1>1, <1>2, <1>3, <2>3 DEF AppliquerReponse
  <2>4. QED BY <1>6, <2>1, <2>2, <2>3 DEF Serveur
<1>7. CASE Expiration
  <2>1. ASSUME ListerExpirables \/ \E c \in Commandes : RienAVerifier(c) \/ EtatIncertain(c)
        PROVE  EtapeStock
        BY <1>1, <2>1 DEF ListerExpirables, RienAVerifier, EtatIncertain
  <2>2. ASSUME NEW c \in Commandes, ExpirerCommande(c)
        PROVE  EtapeStock
    <3>1. "expiration" \in DOMAIN ANNULATION_POSSIBLE_DEPUIS
          BY DEF ANNULATION_POSSIBLE_DEPUIS
    <3>2. CASE AnnulerCommande(c, "expiration")
          BY <3>1, <3>2 DEF EtapeStock
    <3>3. CASE UNCHANGED <<commandeVars, couponVars, paiementVars, reseauVars, remboursement>>
          BY <1>1, <3>3
    <3>4. QED BY <2>2, <3>2, <3>3 DEF ExpirerCommande
  <2>3. ASSUME NEW c \in Commandes, NEW p \in Paiements, NEW etat \in Etats, VerifierAvantExpiration(c, p, etat)
        PROVE  EtapeStock
        BY <1>2, <1>3, <2>3 DEF VerifierAvantExpiration
  <2>4. QED BY <1>7, <2>1, <2>2, <2>3 DEF Expiration
<1>8. CASE Suivi
  <2>1. ASSUME NEW c \in Commandes, AbandonnerLivraison(c)
        PROVE  EtapeStock
    <3>1. "livraison_echouee" \in DOMAIN ANNULATION_POSSIBLE_DEPUIS
          BY DEF ANNULATION_POSSIBLE_DEPUIS
    <3>2. QED BY <2>1, <3>1 DEF AbandonnerLivraison, EtapeStock
  <2>2. ASSUME NEW c \in Commandes, NEW motif \in DOMAIN ANNULATION_POSSIBLE_DEPUIS, AnnulerSur(c, motif)
        PROVE  EtapeStock
        BY <2>2 DEF AnnulerSur, EtapeStock
  <2>3. ASSUME NEW c \in Commandes, NEW s \in StatutsLivraison, ChangerStatutLivraison(c, s)
        PROVE  EtapeStock
        BY <2>3 DEF ChangerStatutLivraison, EtapeStock, SansStock, SansUnites, TypeOK, TypeCommandes
  <2>4. ASSUME NEW c \in Commandes, PasserEnPreparation(c)
        PROVE  EtapeStock
        BY <2>4 DEF PasserEnPreparation, EtapeStock, SansStock, SansUnites, TypeOK, TypeCommandes
  <2>5. ASSUME NEW p \in Paiements, NEW c \in Commandes, NEW decision \in Decisions,
               TraiterRemboursement(p, c, decision)
        PROVE  EtapeStock
        BY <1>1, <2>5 DEF TraiterRemboursement
  <2>6. QED BY <1>8, <2>1, <2>2, <2>3, <2>4, <2>5 DEF Suivi
<1>9. CASE Temps
      BY <1>1, <1>9 DEF Temps, Vieillir, FermerFenetre, EtapeStock
<1>10. QED BY <1>4, <1>5, <1>6, <1>7, <1>8, <1>9 DEF Next

-----------------------------------------------------------------------------

LEMMA RetenuesFinies ==
    ASSUME NEW v
    PROVE  /\ IsFiniteSet(Retenues(v))
           /\ \A c \in Retenues(v) : Quantite[c] \in Int
<1>1. Retenues(v) \in SUBSET Commandes
      BY DEF Retenues
<1>2. QED BY <1>1, ConstantesOk, FS_Subset DEF ConstantesOk, Retenues

(* annuler_commande gives back what its order held. *)
LEMMA AnnulerCommandeStock ==
    ASSUME TypeOK, StockConserve, NEW c \in Commandes, NEW motif \in DOMAIN ANNULATION_POSSIBLE_DEPUIS,
           AnnulerCommande(c, motif)
    PROVE  StockConserve'
<1>. DEFINE w == VarianteDe[c]
<1>1. /\ statut' = [statut EXCEPT ![c] = "annulee"]
      /\ stock' = [stock EXCEPT ![w] = stock[w] + Quantite[c]]
      /\ c \in Retenues(w)
      BY DEF AnnulerCommande, AnnulationPermise, ANNULATION_POSSIBLE_DEPUIS, Retenues
<1>2. w \in Variantes /\ Quantite[c] \in Int /\ stock[w] \in Int
      BY StockType DEF TypeOK
<1>3. \A v \in Variantes : Retenues(v)' = IF v = w THEN Retenues(v) \ {c} ELSE Retenues(v)
      BY <1>1 DEF TypeOK, TypeCommandes, Retenues
<1>4. SumFunctionOnSet(Quantite, Retenues(w)) = Quantite[c] + SumFunctionOnSet(Quantite, Retenues(w) \ {c})
      BY <1>1, RetenuesFinies, SommeUn
<1>5. SumFunctionOnSet(Quantite, Retenues(w) \ {c}) \in Int
      BY RetenuesFinies, FS_RemoveElement, SommeUn
<1>. HIDE DEF w
<1>6. ASSUME NEW v \in Variantes
      PROVE  stock'[v] + SumFunctionOnSet(Quantite, Retenues(v)') = StockInitial[v]
  <2>1. CASE v = w
    <3>1. stock'[w] = stock[w] + Quantite[c]
          BY <1>1, <1>2 DEF TypeOK, TypeCommandes
    <3>2. stock[w] + SumFunctionOnSet(Quantite, Retenues(w)) = StockInitial[w]
          BY <1>2 DEF StockConserve
    <3>3. Retenues(w)' = Retenues(w) \ {c}
          BY <1>2, <1>3
    <3>4. stock'[w] + SumFunctionOnSet(Quantite, Retenues(w) \ {c}) = StockInitial[w]
          BY <1>2, <1>4, <1>5, <3>1, <3>2
    <3>5. QED BY <2>1, <3>3, <3>4
  <2>2. CASE v # w
    <3>1. stock'[v] = stock[v] /\ Retenues(v)' = Retenues(v)
          BY <1>1, <1>3, <2>2 DEF TypeOK, TypeCommandes
    <3>2. QED BY <3>1 DEF StockConserve
  <2>3. QED BY <2>1, <2>2
<1>7. QED BY <1>6 DEF StockConserve

(* A checkout takes what its orders hold: one of them at most is of a given variant. *)
LEMMA ValiderPanierStock ==
    ASSUME TypeOK, StockConserve, NEW g \in Groupes, NEW codes, ValiderPanier(g, codes)
    PROVE  StockConserve'
<1>1. /\ \A c \in CommandesDe(g) : statut[c] = "absente"
      /\ statut' = [c \in Commandes |-> IF c \in CommandesDe(g) THEN "creee" ELSE statut[c]]
      BY DEF ValiderPanier
<1>2. ASSUME NEW v \in Variantes
      PROVE  stock'[v] + SumFunctionOnSet(Quantite, Retenues(v)') = StockInitial[v]
  <2>1. stock[v] + SumFunctionOnSet(Quantite, Retenues(v)) = StockInitial[v]
        BY DEF StockConserve
  <2>2. CASE \E c \in CommandesDe(g) : VarianteDe[c] = v
    <3>. DEFINE d == CHOOSE c \in CommandesDe(g) : VarianteDe[c] = v
    <3>1. d \in CommandesDe(g) /\ VarianteDe[d] = v
          BY <2>2
    <3>2. stock'[v] = stock[v] - Quantite[d]
          BY <2>2 DEF ValiderPanier
    <3>. HIDE DEF d
    <3>3. \A c \in CommandesDe(g) : VarianteDe[c] = v => c = d
          BY <3>1, ConstantesOk DEF ConstantesOk, CommandesDe
    <3>4. d \in Commandes /\ d \notin Retenues(v) /\ Retenues(v)' = Retenues(v) \cup {d}
          BY <1>1, <3>1, <3>3 DEF Retenues, CommandesDe
    <3>5. Quantite[d] \in Int /\ stock[v] \in Int
          BY <3>4, ConstantesOk DEF ConstantesOk, TypeOK, TypeCommandes
    <3>6. /\ SumFunctionOnSet(Quantite, Retenues(v) \cup {d}) = SumFunctionOnSet(Quantite, Retenues(v)) + Quantite[d]
          /\ SumFunctionOnSet(Quantite, Retenues(v)) \in Int
          BY <3>4, <3>5, RetenuesFinies, SommeAvec, SommeUn
    <3>7. QED BY <2>1, <3>2, <3>4, <3>5, <3>6
  <2>3. CASE ~ \E c \in CommandesDe(g) : VarianteDe[c] = v
    <3>1. stock'[v] = stock[v]
          BY <2>3 DEF ValiderPanier
    <3>2. Retenues(v)' = Retenues(v)
          BY <1>1, <2>3 DEF Retenues
    <3>3. QED BY <2>1, <3>1, <3>2
  <2>4. QED BY <2>2, <2>3
<1>3. QED BY <1>2 DEF StockConserve

LEMMA StockEtape ==
    ASSUME TypeOK, StockConserve, [Next]_vars
    PROVE  StockConserve'
<1>1. CASE \E k \in Coupons : ExpirerCoupon(k)
  <2>1. UNCHANGED <<statut, stock>>
        BY <1>1 DEF ExpirerCoupon, commandeVars
  <2>2. \A v \in Variantes : Retenues(v)' = Retenues(v)
        BY <2>1 DEF Retenues
  <2>3. QED BY <2>1, <2>2 DEF StockConserve
<1>2. CASE SansStock
  <2>1. stock' = stock /\ \A v \in Variantes : Retenues(v)' = Retenues(v)
        BY <1>2 DEF SansStock, SansUnites, Retenues
  <2>2. QED BY <2>1 DEF StockConserve
<1>3. QED BY EtapesStock, AnnulerCommandeStock, ValiderPanierStock, <1>1, <1>2 DEF EtapeStock

(* Nothing is sold twice, nothing is given back twice. *)
THEOREM Stock_Conserve == Spec => []StockConserve
<1>1. Init => StockConserve
  <2>. SUFFICES ASSUME Init PROVE StockConserve
       OBVIOUS
  <2>1. \A v \in Variantes : Retenues(v) = {} /\ stock[v] \in Int /\ stock[v] = StockInitial[v]
        BY ConstantesOk DEF Init, Retenues, ConstantesOk
  <2>2. QED BY <2>1, SommeVide DEF StockConserve
<1>2. TypeOK /\ StockConserve /\ [Next]_vars => StockConserve'
      BY StockEtape
<1>3. QED BY <1>1, <1>2, Typage, PTL DEF Spec

-----------------------------------------------------------------------------
(* Coupons. *)

(* A checkout carries its coupon since its orders exist. *)
CouponsApresAchat ==
    \A g \in Groupes : couponsDe[g] # {} => \A c \in CommandesDe(g) : statut[c] # "absente"

(* The checkouts of coupon k with an order left. *)
Porteurs(k) == {g \in Groupes : k \in couponsDe[g] /\ \E c \in CommandesDe(g) : statut[c] # "annulee"}

(* The record m of coupon k is right, with checkouts P that carry it. *)
CouponJuste(k, m, P) ==
    /\ m.nombre = Cardinality(m.utilisations)
    /\ m.nombre <= UtilisationsMax[k]
    /\ m.epuise <=> m.nombre = UtilisationsMax[k]
    /\ \A g, h \in m.utilisations : ClientDe[g] = ClientDe[h] => g = h
    /\ ~m.expire => m.utilisations = P

CouponsJustes == \A k \in Coupons : CouponJuste(k, coupon[k], Porteurs(k))

Coupon == [utilisations : SUBSET Groupes, nombre : Nat, epuise : BOOLEAN, expire : BOOLEAN]

LEMMA UtilisationsFinies ==
    ASSUME NEW m \in Coupon
    PROVE  IsFiniteSet(m.utilisations) /\ Cardinality(m.utilisations) \in Nat
BY ConstantesOk, FS_Subset, FS_CardinalityType DEF ConstantesOk, Coupon

(* The use of g is added to a record that may take it. *)
LEMMA CouponConsomme ==
    ASSUME NEW k \in Coupons, NEW m \in Coupon, NEW P, NEW g \in Groupes, NEW n \in Coupon,
           CouponJuste(k, m, P),
           ~m.expire, \A h \in m.utilisations : ClientDe[h] # ClientDe[g], m.nombre < UtilisationsMax[k], ~m.epuise,
           n.utilisations = m.utilisations \union {g}, n.nombre = m.nombre + 1, n.expire = m.expire,
           n.epuise <=> m.nombre + 1 >= UtilisationsMax[k]
    PROVE  CouponJuste(k, n, P \union {g})
<1>1. g \notin m.utilisations /\ UtilisationsMax[k] \in Nat
      BY ConstantesOk DEF ConstantesOk
<1>2. n.nombre = Cardinality(n.utilisations)
      BY <1>1, UtilisationsFinies, FS_AddElement DEF CouponJuste
<1>3. m.nombre \in Nat /\ n.nombre <= UtilisationsMax[k]
      BY <1>1 DEF Coupon
<1>4. n.epuise <=> n.nombre = UtilisationsMax[k]
      BY <1>1, <1>3
<1>5. \A h, i \in n.utilisations : ClientDe[h] = ClientDe[i] => h = i
      BY DEF CouponJuste
<1>6. n.utilisations = P \union {g}
      BY DEF CouponJuste
<1>7. QED BY <1>2, <1>3, <1>4, <1>5, <1>6 DEF CouponJuste

(* The use of g is given back. *)
LEMMA CouponRendu ==
    ASSUME NEW k \in Coupons, NEW m \in Coupon, NEW P, NEW g \in Groupes, NEW n \in Coupon,
           CouponJuste(k, m, P), ~m.expire, g \in m.utilisations,
           n.utilisations = m.utilisations \ {g}, n.nombre = IF m.nombre > 0 THEN m.nombre - 1 ELSE 0,
           ~n.epuise, n.expire = m.expire
    PROVE  CouponJuste(k, n, P \ {g})
<1>1. UtilisationsMax[k] \in Nat /\ m.nombre \in Nat
      BY ConstantesOk DEF ConstantesOk, Coupon
<1>2. Cardinality(n.utilisations) = m.nombre - 1 /\ Cardinality(n.utilisations) \in Nat
      BY ZenonT(40), UtilisationsFinies, FS_RemoveElement DEF CouponJuste
<1>3. n.nombre = Cardinality(n.utilisations) /\ n.nombre < UtilisationsMax[k]
      BY <1>1, <1>2 DEF CouponJuste
<1>4. QED BY <1>1, <1>3 DEF CouponJuste

LEMMA AnnulerCommandeCoupons ==
    ASSUME TypeOK, CouponsJustes, CouponsApresAchat, NEW c \in Commandes,
           NEW motif \in DOMAIN ANNULATION_POSSIBLE_DEPUIS, AnnulerCommande(c, motif)
    PROVE  CouponsJustes'
<1>. DEFINE g == GroupeDe[c]
            Fini == \A d \in CommandesDe(g) : statut'[d] = "annulee"
<1>1. /\ statut' = [statut EXCEPT ![c] = "annulee"] /\ couponsDe' = couponsDe
      /\ statut[c] # "annulee" /\ RestituerCoupon(c)
      BY DEF AnnulerCommande, AnnulationPermise, ANNULATION_POSSIBLE_DEPUIS
<1>2. g \in Groupes /\ c \in CommandesDe(g) /\ \A h \in Groupes : c \in CommandesDe(h) => h = g
      BY ConstantesOk DEF ConstantesOk, CommandesDe
<1>3. \A k \in Coupons : Porteurs(k)' = IF Fini THEN Porteurs(k) \ {g} ELSE Porteurs(k)
  <2>1. \A h \in Groupes : h # g => \A d \in CommandesDe(h) : statut'[d] = statut[d]
        BY <1>1, <1>2 DEF TypeOK, TypeCommandes, CommandesDe
  <2>2. \E d \in CommandesDe(g) : statut[d] # "annulee"
        BY <1>1, <1>2
  <2>3. QED BY <1>1, <1>2, <2>1, <2>2 DEF Porteurs, CommandesDe
<1>4. ASSUME NEW k \in Coupons
      PROVE  CouponJuste(k, coupon'[k], Porteurs(k)')
  <2>1. PICK m \in Coupon : m = coupon[k]
        BY DEF TypeOK, TypeCoupons, Coupon
  <2>2. CouponJuste(k, m, Porteurs(k))
        BY <2>1 DEF CouponsJustes
  <2>. DEFINE Rend == k \in couponsDe[g] /\ g \in m.utilisations /\ ~m.expire /\ Fini
              n == [m EXCEPT !.utilisations = @ \ {g}, !.nombre = IF @ > 0 THEN @ - 1 ELSE 0, !.epuise = FALSE]
  <2>3. coupon'[k] = IF Rend THEN n ELSE m
        BY <1>1, <2>1 DEF RestituerCoupon
  <2>4. CASE Rend
    <3>u. PICK u : u = m.utilisations \ {g}
          OBVIOUS
    <3>x. PICK x : x = IF m.nombre > 0 THEN m.nombre - 1 ELSE 0
          OBVIOUS
    <3>b. PICK b \in BOOLEAN : b = FALSE
          OBVIOUS
    <3>a. u \in SUBSET Groupes /\ x \in Nat
          BY <3>u, <3>x DEF Coupon
    <3>n. n = [m EXCEPT !.utilisations = u, !.nombre = x, !.epuise = b]
          BY <3>u, <3>x, <3>b, Zenon
    <3>. HIDE DEF n
    <3>c. n \in Coupon /\ n.utilisations = u /\ n.nombre = x /\ n.epuise = b /\ n.expire = m.expire
      <4>1. n = [utilisations |-> u, nombre |-> x, epuise |-> b, expire |-> m.expire] /\ m.expire \in BOOLEAN
          BY <3>n DEF Coupon
      <4>2. QED BY <3>a, <4>1 DEF Coupon
    <3>1. /\ n \in Coupon /\ n.utilisations = m.utilisations \ {g} /\ ~n.epuise /\ n.expire = m.expire
          /\ n.nombre = IF m.nombre > 0 THEN m.nombre - 1 ELSE 0
          BY <3>u, <3>x, <3>b, <3>c
    <3>2. Porteurs(k)' = Porteurs(k) \ {g}
          BY <1>3, <2>4
    <3>. HIDE DEF n
    <3>3. QED BY <1>2, <2>2, <2>3, <2>4, <3>1, <3>2, CouponRendu
  <2>5. CASE ~Rend
    <3>1. ~m.expire => Porteurs(k)' = Porteurs(k)
          BY <1>2, <1>3, <2>2, <2>5 DEF CouponJuste, Porteurs
    <3>2. QED BY <2>2, <2>3, <2>5, <3>1 DEF CouponJuste
  <2>6. QED BY <2>4, <2>5
<1>5. QED BY <1>4 DEF CouponsJustes

LEMMA ValiderPanierCoupons ==
    ASSUME TypeOK, CouponsJustes, CouponsApresAchat, NEW g \in Groupes,
           NEW codes \in {{}} \union {{k} : k \in Coupons}, ValiderPanier(g, codes)
    PROVE  CouponsJustes'
<1>1. /\ CommandesDe(g) # {} /\ \A c \in CommandesDe(g) : statut[c] = "absente"
      /\ statut' = [c \in Commandes |-> IF c \in CommandesDe(g) THEN "creee" ELSE statut[c]]
      /\ couponsDe' = [couponsDe EXCEPT ![g] = codes]
      BY DEF ValiderPanier
<1>2. couponsDe[g] = {}
      BY <1>1 DEF CouponsApresAchat
<1>3. ASSUME NEW k \in Coupons
      PROVE  Porteurs(k)' = IF k \in codes THEN Porteurs(k) \union {g} ELSE Porteurs(k)
  <2>1. \A h \in Groupes : h # g => couponsDe'[h] = couponsDe[h] /\ \A c \in CommandesDe(h) : statut'[c] = statut[c]
        BY <1>1 DEF TypeOK, TypeCoupons, CommandesDe
  <2>2. couponsDe'[g] = codes /\ \A c \in CommandesDe(g) : statut'[c] = "creee"
        BY <1>1 DEF TypeOK, TypeCoupons, CommandesDe
  <2>3. QED BY <1>1, <1>2, <2>1, <2>2 DEF Porteurs, CommandesDe
<1>4. ASSUME NEW k \in Coupons
      PROVE  CouponJuste(k, coupon'[k], Porteurs(k)')
  <2>1. CASE k \notin codes
    <3>1. coupon'[k] = coupon[k]
          BY <2>1 DEF ValiderPanier, ConsommerCoupon, TypeOK, TypeCoupons
    <3>2. QED BY <1>3, <2>1, <3>1 DEF CouponsJustes
  <2>2. CASE k \in codes
    <3>1. CouponValidePour(k, ClientDe[g]) /\ ConsommerCoupon(k, g)
          BY <2>2 DEF ValiderPanier
    <3>2. PICK m \in Coupon : m = coupon[k]
          BY DEF TypeOK, TypeCoupons, Coupon
    <3>3. PICK plein \in BOOLEAN : plein <=> (m.epuise \/ m.nombre + 1 >= UtilisationsMax[k])
          OBVIOUS
    <3>. DEFINE n == [m EXCEPT !.utilisations = @ \union {g}, !.nombre = @ + 1, !.epuise = plein]
    <3>4. coupon'[k] = n
          BY <3>1, <3>2, <3>3 DEF ConsommerCoupon, TypeOK, TypeCoupons
    <3>u. PICK u : u = m.utilisations \union {g}
          OBVIOUS
    <3>x. PICK x : x = m.nombre + 1
          OBVIOUS
    <3>a. u \in SUBSET Groupes /\ x \in Nat
          BY <3>u, <3>x DEF Coupon
    <3>b. n = [m EXCEPT !.utilisations = u, !.nombre = x, !.epuise = plein]
          BY <3>u, <3>x, Zenon
    <3>. HIDE DEF n
    <3>c. n \in Coupon /\ n.utilisations = u /\ n.nombre = x /\ n.epuise = plein /\ n.expire = m.expire
      <4>1. n = [utilisations |-> u, nombre |-> x, epuise |-> plein, expire |-> m.expire] /\ m.expire \in BOOLEAN
          BY <3>b DEF Coupon
      <4>2. QED BY <3>a, <4>1 DEF Coupon
    <3>5. /\ n \in Coupon /\ n.utilisations = m.utilisations \union {g} /\ n.nombre = m.nombre + 1
          /\ n.expire = m.expire /\ n.epuise = plein
          BY <3>u, <3>x, <3>c
    <3>6. /\ ~m.expire /\ ~m.epuise /\ m.nombre < UtilisationsMax[k]
          /\ \A h \in m.utilisations : ClientDe[h] # ClientDe[g]
          BY <3>1, <3>2 DEF CouponValidePour
    <3>7. plein <=> m.nombre + 1 >= UtilisationsMax[k]
          BY <3>3, <3>6
    <3>8. CouponJuste(k, m, Porteurs(k))
          BY <3>2 DEF CouponsJustes
    <3>9. CouponJuste(k, n, Porteurs(k) \union {g})
          BY <3>5, <3>6, <3>7, <3>8, CouponConsomme
    <3>10. QED BY <1>3, <2>2, <3>4, <3>9
  <2>3. QED BY <2>1, <2>2
<1>5. QED BY <1>4 DEF CouponsJustes

LEMMA CouponsEtape ==
    ASSUME TypeOK, CouponsJustes, CouponsApresAchat, [Next]_vars
    PROVE  CouponsJustes' /\ CouponsApresAchat'
<1>1. ASSUME NEW c \in Commandes, NEW motif \in DOMAIN ANNULATION_POSSIBLE_DEPUIS, AnnulerCommande(c, motif)
      PROVE  CouponsApresAchat'
  <2>1. couponsDe' = couponsDe /\ statut' = [statut EXCEPT ![c] = "annulee"]
        BY <1>1 DEF AnnulerCommande
  <2>2. QED BY <2>1 DEF CouponsApresAchat, CommandesDe, TypeOK, TypeCommandes
<1>2. ASSUME NEW g \in Groupes, NEW codes \in {{}} \union {{k} : k \in Coupons}, ValiderPanier(g, codes)
      PROVE  CouponsApresAchat'
  <2>1. /\ couponsDe' = [couponsDe EXCEPT ![g] = codes]
        /\ statut' = [c \in Commandes |-> IF c \in CommandesDe(g) THEN "creee" ELSE statut[c]]
        BY <1>2 DEF ValiderPanier
  <2>2. QED BY <2>1 DEF CouponsApresAchat, CommandesDe, TypeOK, TypeCoupons
<1>3. ASSUME NEW k \in Coupons, ExpirerCoupon(k)
      PROVE  CouponsJustes' /\ CouponsApresAchat'
  <2>1. coupon' = [coupon EXCEPT ![k].expire = TRUE] /\ UNCHANGED <<statut, couponsDe>>
        BY <1>3 DEF ExpirerCoupon, commandeVars
  <2>2. CouponsApresAchat'
        BY <2>1 DEF CouponsApresAchat, CommandesDe
  <2>3. \A j \in Coupons : Porteurs(j)' = Porteurs(j)
        BY <2>1 DEF Porteurs, CommandesDe
  <2>4. PICK m \in Coupon : m = coupon[k]
        BY DEF TypeOK, TypeCoupons, Coupon
  <2>5. coupon'[k] = [m EXCEPT !.expire = TRUE]
        BY <2>1, <2>4 DEF TypeOK, TypeCoupons
  <2>6. CouponJuste(k, coupon'[k], Porteurs(k))
        BY <2>4, <2>5 DEF CouponsJustes, CouponJuste, Coupon
  <2>7. \A j \in Coupons : j # k => coupon'[j] = coupon[j]
        BY <2>1 DEF TypeOK, TypeCoupons
  <2>8. QED BY <2>2, <2>3, <2>6, <2>7 DEF CouponsJustes
<1>4. CASE SansStock
  <2>1. UNCHANGED <<couponsDe, coupon>>
        BY <1>4 DEF SansStock, couponVars
  <2>2. \A c \in Commandes : (statut'[c] = "annulee" <=> statut[c] = "annulee") /\ (statut'[c] = "absente" <=> statut[c] = "absente")
        BY <1>4 DEF SansStock, SansUnites
  <2>3. \A k \in Coupons : Porteurs(k)' = Porteurs(k)
        BY <2>1, <2>2 DEF Porteurs, CommandesDe
  <2>4. CouponsApresAchat'
        BY <2>1, <2>2 DEF CouponsApresAchat, CommandesDe
  <2>5. QED BY <2>1, <2>3, <2>4 DEF CouponsJustes
<1>5. QED BY EtapesStock, AnnulerCommandeCoupons, ValiderPanierCoupons, <1>1, <1>2, <1>3, <1>4 DEF EtapeStock

(* A coupon is never used beyond its limit nor twice by a client, and what is cancelled gives it back once. *)
THEOREM Coupon_Conserve == Spec => []CouponConserve
<1>1. Init => CouponsJustes /\ CouponsApresAchat
  <2>. SUFFICES ASSUME Init PROVE CouponsJustes /\ CouponsApresAchat
       OBVIOUS
  <2>1. \A k \in Coupons :
          /\ coupon[k] = [utilisations |-> {}, nombre |-> 0, epuise |-> FALSE, expire |-> FALSE]
          /\ Porteurs(k) = {} /\ UtilisationsMax[k] \in Nat \ {0}
        BY ConstantesOk DEF Init, Porteurs, ConstantesOk
  <2>2. CouponsJustes
        BY <2>1, FS_EmptySet DEF CouponsJustes, CouponJuste
  <2>3. CouponsApresAchat
        BY DEF Init, CouponsApresAchat
  <2>4. QED BY <2>2, <2>3
<1>2. TypeOK /\ CouponsJustes /\ CouponsApresAchat /\ [Next]_vars => CouponsJustes' /\ CouponsApresAchat'
      BY CouponsEtape
<1>3. CouponsJustes => CouponConserve
      BY DEF CouponsJustes, CouponJuste, CouponConserve, Porteurs
<1>4. QED BY <1>1, <1>2, <1>3, Typage, PTL DEF Spec
=============================================================================
