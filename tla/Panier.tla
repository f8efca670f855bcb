------------------------------- MODULE Panier -------------------------------
(***************************************************************************)
(* The cart of an account and its validation.  The addition of an article  *)
(* judges the variant as the serializer read it; the validation holds the  *)
(* lock of the cart from the reading of its lines to their deletion, and   *)
(* takes the locks of the stock in between.  A change of quantity locks    *)
(* its line only.                                                          *)
(***************************************************************************)
EXTENDS Integers, FiniteSets

CONSTANTS
  Variantes,     \* the variants on sale at first
  ASoi,          \* those of the shop of the account
  Soumissions,   \* the validations in flight at once: double click, retry
  StockInitial,
  QuantiteMax,   \* bound: units of a line
  CommandesMax   \* bound: checkouts that end with orders

ASSUME PanierOk == ASoi \subseteq Variantes /\ StockInitial \in Nat /\ QuantiteMax \in Nat \ {0}

VARIABLES
  enVente,   \* PanierItem.est_disponible, for the variant of the line
  reste,     \* Stock.quantite_disponible
  lignes,    \* PanierItem: the quantity of each line, 0 without one
  ajout,     \* an addition in flight: the variant and what was read of it
  validation,\* a validation in flight: the lines it read
  tenu,      \* the validations that hold the lock of the cart
  vendus,    \* the units ordered
  vides,     \* history: times a checkout emptied the cart
  doublons   \* history: checkouts that ordered lines another one had ordered

panierVars == <<enVente, reste, lignes, ajout, validation, tenu, vendus, vides, doublons>>

PasDAjout == [phase |-> "libre"]
PasDeValidation == [phase |-> "libre"]

PanierInit ==
  /\ enVente = [v \in Variantes |-> TRUE]
  /\ reste = [v \in Variantes |-> StockInitial]
  /\ lignes = [v \in Variantes |-> 0]
  /\ ajout = PasDAjout
  /\ validation = [s \in Soumissions |-> PasDeValidation]
  /\ tenu = {}
  /\ vendus = [v \in Variantes |-> 0]
  /\ vides = 0
  /\ doublons = 0

-----------------------------------------------------------------------------
(* The lines of the cart.                                                   *)

\* The seller, or the administration, takes the variant off sale or puts it back.
Vendre(v, oui) ==
  /\ enVente[v] # oui
  /\ enVente' = [enVente EXCEPT ![v] = oui]
  /\ UNCHANGED <<reste, lignes, ajout, validation, tenu, vendus, vides, doublons>>

\* PanierItemSerializer reads the variant with its stock and its shop.
LireVariante(v) ==
  /\ ajout = PasDAjout
  /\ ajout' = [phase |-> "lue", variante |-> v, vendable |-> enVente[v], stock |-> reste[v]]
  /\ UNCHANGED <<enVente, reste, lignes, validation, tenu, vendus, vides, doublons>>

\* _verifier_pas_auto_achat, _verifier_disponibilite
AuPanier(a) == a.variante \notin ASoi /\ a.vendable

\* ajouter_article: _verifier_stock judges the total of the line on the stock it read.
AjouterArticle ==
  /\ ajout # PasDAjout
  /\ tenu = {}
  /\ LET v == ajout.variante IN
     \E q \in 1..QuantiteMax :
       /\ AuPanier(ajout)
       /\ lignes[v] + q <= ajout.stock
       /\ lignes[v] + q <= QuantiteMax
       /\ lignes' = [lignes EXCEPT ![v] = @ + q]
  /\ ajout' = PasDAjout
  /\ UNCHANGED <<enVente, reste, validation, tenu, vendus, vides, doublons>>

RefuserAjout ==
  /\ ajout # PasDAjout
  /\ ajout' = PasDAjout
  /\ UNCHANGED <<enVente, reste, lignes, validation, tenu, vendus, vides, doublons>>

\* modifier_quantite: a rise is checked, a fall never; the serializer refuses 0.
HausseAcceptee(v, q) == v \notin ASoi /\ enVente[v] /\ q <= reste[v]
ModifierQuantite(v, q) ==
  /\ lignes[v] # 0 /\ q # lignes[v]
  /\ q > lignes[v] => HausseAcceptee(v, q)
  /\ lignes' = [lignes EXCEPT ![v] = q]
  /\ UNCHANGED <<enVente, reste, ajout, validation, tenu, vendus, vides, doublons>>

SupprimerLigne(v) ==
  /\ lignes[v] # 0
  /\ lignes' = [lignes EXCEPT ![v] = 0]
  /\ UNCHANGED <<enVente, reste, ajout, validation, tenu, vendus, vides, doublons>>

-----------------------------------------------------------------------------
(* ValiderPanierView.                                                       *)

PrendreVerrou(s) == validation[s] = PasDeValidation /\ tenu = {}

Commandees(s) == {v \in Variantes : validation[s].lignes[v] > 0}

\* calculer_checkout on the lines read under the lock of the cart.
CalculerMontants(s) ==
  /\ PrendreVerrou(s)
  /\ tenu' = tenu \cup {s}
  /\ \E v \in Variantes : lignes[v] > 0
  /\ \A v \in Variantes : lignes[v] > 0 => v \notin ASoi /\ enVente[v]
  /\ validation' = [validation EXCEPT ![s] = [phase |-> "calculee", lignes |-> lignes, vides |-> vides]]
  /\ UNCHANGED <<enVente, reste, lignes, ajout, vendus, vides, doublons>>

\* Mutant: the stock is not read again under its locks.
StockSupposeSuffisant(s) == TRUE
\* est_en_stock, on the rows of stock locked: somebody else may have ordered since.
StockSuffit(s) == \A v \in Commandees(s) : validation[s].lignes[v] <= reste[v]

FinirValidation(s) ==
  /\ validation' = [validation EXCEPT ![s] = PasDeValidation]
  /\ tenu' = tenu \ {s}

\* The orders, the stock and the deletion of the lines, in one transaction.
CreerCommandes(s) ==
  /\ validation[s] # PasDeValidation
  /\ StockSuffit(s)
  /\ vides < CommandesMax
  /\ reste' = [v \in Variantes |-> reste[v] - validation[s].lignes[v]]
  /\ vendus' = [v \in Variantes |-> vendus[v] + validation[s].lignes[v]]
  /\ lignes' = [v \in Variantes |-> 0]
  /\ vides' = vides + 1
  /\ doublons' = IF validation[s].vides = vides THEN doublons ELSE doublons + 1
  /\ FinirValidation(s)
  /\ UNCHANGED <<enVente, ajout>>

\* Out of stock, refused or stopped: nothing is written.
AnnulerValidation(s) ==
  /\ validation[s] # PasDeValidation
  /\ FinirValidation(s)
  /\ UNCHANGED <<enVente, reste, lignes, ajout, vendus, vides, doublons>>

\* Another customer orders the variant.
VendreAilleurs(v) ==
  /\ reste[v] > 0
  /\ reste' = [reste EXCEPT ![v] = @ - 1]
  /\ vendus' = [vendus EXCEPT ![v] = @ + 1]
  /\ UNCHANGED <<enVente, lignes, ajout, validation, tenu, vides, doublons>>

PanierNext ==
  \/ \E v \in Variantes :
       \/ \E oui \in BOOLEAN : Vendre(v, oui)
       \/ LireVariante(v)
       \/ \E q \in 1..QuantiteMax : ModifierQuantite(v, q)
       \/ SupprimerLigne(v)
       \/ VendreAilleurs(v)
  \/ AjouterArticle
  \/ RefuserAjout
  \/ \E s \in Soumissions :
       \/ CalculerMontants(s)
       \/ CreerCommandes(s)
       \/ AnnulerValidation(s)

PanierSpec == PanierInit /\ [][PanierNext]_panierVars

-----------------------------------------------------------------------------
(* A double click or a retry never orders a filled cart twice
   (apps/commandes/views.py:128); nothing is sold beyond the stock, although the
   additions and the lines trust a stock that others order from until the
   validation locks it; and an account never orders from its shop. *)
PanierCommandeUneFois ==
  /\ doublons = 0
  /\ \A v \in Variantes : reste[v] >= 0 /\ vendus[v] + reste[v] = StockInitial
  /\ \A v \in ASoi, s \in Soumissions :
       validation[s] # PasDeValidation => validation[s].lignes[v] = 0
=============================================================================
