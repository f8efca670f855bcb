----------------------------- MODULE Checkout ------------------------------
(***************************************************************************)
(* The amounts of a checkout.  The tariff of a delivery is deduced from    *)
(* the commune, whose row the administration creates, changes and turns    *)
(* off; the discount of a coupon is split between the orders of the        *)
(* checkout, one per shop, in whole francs, the last taking what is left.  *)
(***************************************************************************)
EXTENDS Integers, Sequences, FiniteSets, Functions

CONSTANTS
  Communes,     \* the communes a tariff may name
  Tarifs,       \* the amounts of a tariff
  Montants,     \* what the articles of one shop cost
  LotsMax,      \* bound: shops in a checkout
  Pourcentages, \* CouponReduction of type POURCENTAGE
  Fixes         \* CouponReduction of type MONTANT_FIXE

\* variante_prix_strictement_positif: no article is free.
ASSUME CheckoutAssumption ==
  /\ Montants \subseteq Nat \ {0} /\ LotsMax \in Nat
  /\ Tarifs \subseteq Nat /\ Pourcentages \subseteq Nat /\ Fixes \subseteq Nat

VARIABLES
  defaut,    \* TarifLivraison without a commune: the amount of each zone
  communes,  \* TarifLivraison of a commune, or SansTarif
  devis      \* the checkout calculated with the tariffs as they are

checkoutVars == <<defaut, communes, devis>>

Zones == {"abidjan", "hors_abidjan"}
SansTarif == [zone |-> "aucune"]
LigneTarif == [zone: Zones, montant: Tarifs, actif: BOOLEAN]
AucunDevis == <<>>

Coupons == [type: {"pourcentage"}, valeur: Pourcentages] \cup [type: {"fixe"}, valeur: Fixes]

CheckoutInit ==
  /\ defaut \in [Zones -> Tarifs]
  /\ communes = [c \in Communes |-> SansTarif]
  /\ devis = AucunDevis

-----------------------------------------------------------------------------
(* The tariffs.                                                             *)

\* A commune has one row, whatever its zone, and keeps its zone.
CreerTarif(c, ligne) ==
  /\ communes[c] = SansTarif
  /\ communes' = [communes EXCEPT ![c] = ligne]
  /\ devis' = AucunDevis
  /\ UNCHANGED defaut

ModifierTarif(c, montant, actif) ==
  /\ communes[c] # SansTarif
  /\ communes' = [communes EXCEPT ![c].montant = montant, ![c].actif = actif]
  /\ devis' = AucunDevis
  /\ UNCHANGED defaut

\* The default of a zone is never turned off.
ModifierDefaut(z, montant) ==
  /\ defaut' = [defaut EXCEPT ![z] = montant]
  /\ devis' = AucunDevis
  /\ UNCHANGED communes

\* tarif_applicable: the zone is that of the row, even when it is turned off.
ZoneDe(c) == IF communes[c] = SansTarif THEN "hors_abidjan" ELSE communes[c].zone
TarifApplicable(c) ==
  IF communes[c] # SansTarif /\ communes[c].actif THEN communes[c].montant ELSE defaut[ZoneDe(c)]

\* grille_publique: the communes of the menu; the others take autres_villes.
AuMenu ==
  {c \in Communes : communes[c] # SansTarif /\ (communes[c].actif \/ communes[c].zone = "abidjan")}
AutresVilles == defaut["hors_abidjan"]
Affiche(c) ==
  IF c \notin AuMenu THEN AutresVilles
  ELSE IF communes[c].actif THEN communes[c].montant ELSE defaut[communes[c].zone]

-----------------------------------------------------------------------------
(* calculer_checkout.                                                       *)

Somme(s) == SumFunction(s)

\* calculer_remise: rounded down, never more than the amount.
CalculerRemise(coupon, total) ==
  LET brute == IF coupon.type = "pourcentage" THEN (total * coupon.valeur) \div 100 ELSE coupon.valeur
  IN  IF brute > total THEN total ELSE brute

\* The share of every lot but the last is rounded down.
PartAuProrata(remise, lots, i) == (remise * lots[i]) \div Somme(lots)

PartsAuSuperieur(remise, lots) ==
  [i \in DOMAIN lots |-> (remise * lots[i] + Somme(lots) - 1) \div Somme(lots)]
Parts(remise, lots) ==
  LET n == Len(lots)
      avant == [i \in 1..(n - 1) |-> PartAuProrata(remise, lots, i)]
  IN  Append(avant, remise - Somme(avant))

\* frais_de_la_commande: the client pays the tariff, or the shop that offers it.
FraisClient(tarif, offerte) == IF offerte THEN 0 ELSE tarif
FraisVendeur(tarif, offerte) == tarif - FraisClient(tarif, offerte)

CalculerCheckout(c, lots, offertes, coupon) ==
  LET remise == CalculerRemise(coupon, Somme(lots))
      parts == Parts(remise, lots)
      tarif == TarifApplicable(c)
  IN  [lots |-> lots, remise |-> remise, parts |-> parts, affiche |-> Affiche(c),
       totaux |-> [i \in DOMAIN lots |-> lots[i] - parts[i] + FraisClient(tarif, i \in offertes)],
       vendeurs |-> [i \in DOMAIN lots |-> FraisVendeur(tarif, i \in offertes)]]

\* SimulerFraisView, and ValiderPanierView, which writes the same amounts.
Simuler(c) ==
  /\ devis = AucunDevis
  /\ \E n \in 1..LotsMax, coupon \in Coupons :
       \E lots \in [1..n -> Montants], offertes \in {{}, {n}} :
         devis' = CalculerCheckout(c, lots, offertes, coupon)
  /\ UNCHANGED <<defaut, communes>>

CheckoutNext ==
  \E c \in Communes :
    \/ \E ligne \in LigneTarif : CreerTarif(c, ligne)
    \/ \E montant \in Tarifs, actif \in BOOLEAN : ModifierTarif(c, montant, actif)
    \/ \E z \in Zones, montant \in Tarifs : ModifierDefaut(z, montant)
    \/ Simuler(c)

CheckoutSpec == CheckoutInit /\ [][CheckoutNext]_checkoutVars

-----------------------------------------------------------------------------
(* The amounts of a checkout add up: the shares of the discount make the
   discount, none is negative nor more than a franc per other shop away from
   its prorata, and what the client pays with what the shops offer is the
   articles, less the discount, plus one tariff per parcel: the tariff of the
   public grid, which the checkout never contradicts. *)
CheckoutJuste ==
  /\ \A c \in Communes : Affiche(c) = TarifApplicable(c)
  /\ devis # AucunDevis =>
       LET n == Len(devis.lots) IN
       /\ Somme(devis.parts) = devis.remise
       /\ \A i \in 1..n :
            /\ devis.parts[i] >= 0
            /\ devis.parts[i] * Somme(devis.lots) - devis.remise * devis.lots[i]
                 \in (0 - Somme(devis.lots))..((n - 1) * Somme(devis.lots))
       /\ Somme(devis.totaux) + Somme(devis.vendeurs)
            = Somme(devis.lots) - devis.remise + n * devis.affiche
=============================================================================
