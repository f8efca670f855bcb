----------------------------- MODULE Boutiques ------------------------------
(***************************************************************************)
(* A shop, its products, their variants and their galleries.  The seller   *)
(* and the administration write the same rows.  PATCH on the shop saves    *)
(* the whole row it read; on a product or a stock it writes the fields     *)
(* that were sent, and the activation of a product is a conditional        *)
(* UPDATE that keeps who decided it.                                       *)
(***************************************************************************)
EXTENDS Naturals, FiniteSets

CONSTANTS
  Produits,     \* the products of the shop, one variant each
  StockMax,     \* bound: units the seller declares
  ImagesMax     \* MAX_IMAGES_PAR_PRODUIT

ASSUME BoutiquesOk == StockMax \in Nat \ {0} /\ ImagesMax \in Nat \ {0}

VARIABLES
  titulaire,    \* the account of the seller: validated (role and KYC), active
  boutique,     \* Boutique: est_active, est_suspendue and the counters of reviews
  pages,        \* the row a PATCH on the shop in flight read, by party, or PageLibre
  produit,      \* Produit: est_actif, desactive_par, nombre_avis, somme of the notes
  fiches,       \* the products whose PATCH by the seller is authorised and read
  variante,     \* VarianteProduit: est_active
  stock,        \* Stock.quantite_disponible
  inventaire,   \* the stock a PATCH on a stock in flight read, or InventaireLibre
  galerie,      \* ImageProduit: how many images, how many of them principal
  suspension,   \* history: the shop is suspended by the last decision on it
  bloques,      \* history: the products the last decision of the administration disabled
  ventes        \* history: what the stock should be

boutiquesVars == <<titulaire, boutique, pages, produit, fiches, variante, stock, inventaire,
                   galerie, suspension, bloques, ventes>>

Parties == {"vendeur", "administration"}
PageLibre == [active |-> FALSE, suspendue |-> FALSE, nombre |-> 0, positifs |-> 1]
InventaireLibre == StockMax + 1

LigneBoutique == [active: BOOLEAN, suspendue: BOOLEAN, nombre: Nat, positifs: Nat]
LigneProduit == [actif: BOOLEAN, par: Parties \cup {"personne"}, nombre: Nat, somme: Nat]
LigneGalerie == [images: 0..ImagesMax, principales: 0..ImagesMax]

BoutiquesTypes ==
  /\ titulaire \in [valide: BOOLEAN, actif: BOOLEAN]
  /\ boutique \in LigneBoutique
  /\ pages \in [Parties -> LigneBoutique]
  /\ produit \in [Produits -> LigneProduit]
  /\ fiches \subseteq Produits
  /\ variante \in [Produits -> BOOLEAN]
  /\ stock \in [Produits -> 0..StockMax]
  /\ inventaire \in [Produits -> 0..InventaireLibre]
  /\ galerie \in [Produits -> LigneGalerie]
  /\ suspension \in BOOLEAN
  /\ bloques \subseteq Produits
  /\ ventes \in [Produits -> 0..StockMax]

BoutiquesInit ==
  /\ titulaire = [valide |-> TRUE, actif |-> TRUE]
  /\ boutique = [active |-> TRUE, suspendue |-> FALSE, nombre |-> 0, positifs |-> 0]
  /\ pages = [q \in Parties |-> PageLibre]
  /\ produit = [p \in Produits |-> [actif |-> TRUE, par |-> "personne", nombre |-> 0, somme |-> 0]]
  /\ fiches = {}
  /\ variante = [p \in Produits |-> TRUE]
  /\ stock = [p \in Produits |-> StockMax]
  /\ inventaire = [p \in Produits |-> InventaireLibre]
  /\ galerie = [p \in Produits |-> [images |-> 0, principales |-> 0]]
  /\ suspension = FALSE
  /\ bloques = {}
  /\ ventes = [p \in Produits |-> StockMax]

horsBoutique == <<titulaire, produit, fiches, variante, stock, inventaire, galerie, bloques, ventes>>

-----------------------------------------------------------------------------
(* What the public sees, and what the seller may write.                     *)

\* The account is suspended or reactivated, or loses and regains its validation.
DeciderTitulaire(t) ==
  /\ titulaire # t
  /\ titulaire' = t
  /\ UNCHANGED <<boutique, pages, produit, fiches, variante, stock, inventaire, galerie,
                 suspension, bloques, ventes>>

\* Boutique.est_publiable
EstPubliable == boutique.active /\ ~boutique.suspendue /\ titulaire.actif /\ titulaire.valide
\* Produit.est_achetable
EstAchetable(p) == produit[p].actif /\ EstPubliable
\* ProduitQuerySet.publies and visibles_publiquement
Publies == {p \in Produits :
  produit[p].actif /\ boutique.active /\ ~boutique.suspendue /\ titulaire.valide /\ titulaire.actif}
VisiblesPubliquement == {p \in Publies : variante[p]}
\* catalogue_produit_public, which FastAPI reads.
VueProduitPublic == {p \in Produits :
  /\ produit[p].actif /\ variante[p]
  /\ boutique.active /\ ~boutique.suspendue
  /\ titulaire.valide /\ titulaire.actif}

\* EstVendeurValide and BoutiqueDuVendeurNonSuspendue, judged when the request starts.
VendeurPeutEcrire == titulaire.actif /\ titulaire.valide /\ ~boutique.suspendue

-----------------------------------------------------------------------------
(* PATCH on the shop: MaBoutiqueView and BoutiqueAdministrationDetailView.  *)

LirePage(q) ==
  /\ pages[q] = PageLibre
  /\ q = "vendeur" => VendeurPeutEcrire
  /\ pages' = [pages EXCEPT ![q] = boutique]
  /\ UNCHANGED <<boutique, suspension, horsBoutique>>

\* The seller closes and opens it; the serializer saves the whole row.
EnregistrerBoutique(active) ==
  /\ pages["vendeur"] # PageLibre
  /\ boutique' = [pages["vendeur"] EXCEPT !.active = active]
  /\ pages' = [pages EXCEPT !["vendeur"] = PageLibre]
  /\ UNCHANGED <<suspension, horsBoutique>>

\* The administration suspends it and lifts the suspension, and saves the row too.
SuspendreBoutique(oui) ==
  /\ pages["administration"] # PageLibre
  /\ boutique' = [pages["administration"] EXCEPT !.suspendue = oui]
  /\ pages' = [pages EXCEPT !["administration"] = PageLibre]
  /\ suspension' = oui
  /\ UNCHANGED horsBoutique

-----------------------------------------------------------------------------
(* The activation of a product.                                             *)

\* Produit.desactiver: the administration prevails, the seller never takes over.
Desactiver(p, par) ==
  IF par = "administration" \/ produit[p].actif
  THEN [produit EXCEPT ![p].actif = FALSE, ![p].par = par] ELSE produit

\* Produit.reactiver
Reactivable(p, par) == par = "administration" \/ produit[p].par = "vendeur"
Reactiver(p, par) ==
  IF ~produit[p].actif /\ Reactivable(p, par)
  THEN [produit EXCEPT ![p].actif = TRUE, ![p].par = "personne"] ELSE produit

LireFiche(p) ==
  /\ p \notin fiches
  /\ VendeurPeutEcrire
  /\ fiches' = fiches \cup {p}
  /\ UNCHANGED <<titulaire, boutique, pages, produit, variante, stock, inventaire, galerie,
                 suspension, bloques, ventes>>

\* ProduitVendeurSerializer.update and perform_destroy: the other fields say nothing here.
EnregistrerFiche(p, actif) ==
  /\ p \in fiches
  /\ fiches' = fiches \ {p}
  /\ produit' = IF actif THEN Reactiver(p, "vendeur") ELSE Desactiver(p, "vendeur")
  /\ UNCHANGED <<titulaire, boutique, pages, variante, stock, inventaire, galerie,
                 suspension, bloques, ventes>>

ModererProduit(p, actif) ==
  /\ produit' = IF actif THEN Reactiver(p, "administration") ELSE Desactiver(p, "administration")
  /\ bloques' = IF actif THEN bloques \ {p} ELSE bloques \cup {p}
  /\ UNCHANGED <<titulaire, boutique, pages, fiches, variante, stock, inventaire, galerie,
                 suspension, ventes>>

\* VarianteVendeurDetailView: PATCH saves est_active, DELETE turns it off.
EnregistrerVariante(p, active) ==
  /\ VendeurPeutEcrire
  /\ variante[p] # active
  /\ variante' = [variante EXCEPT ![p] = active]
  /\ UNCHANGED <<titulaire, boutique, pages, produit, fiches, stock, inventaire, galerie,
                 suspension, bloques, ventes>>

-----------------------------------------------------------------------------
(* The stock.                                                               *)

LireInventaire(p) ==
  /\ inventaire[p] = InventaireLibre
  /\ VendeurPeutEcrire
  /\ inventaire' = [inventaire EXCEPT ![p] = stock[p]]
  /\ UNCHANGED <<titulaire, boutique, pages, produit, fiches, variante, stock, galerie,
                 suspension, bloques, ventes>>

SeuilEcritLaLigneLue(p) == [stock EXCEPT ![p] = inventaire[p]]
\* The threshold alone: the quantity is read again under the lock and not written.
EcrireSeuil(p) == stock

EnregistrerSeuil(p) ==
  /\ inventaire[p] # InventaireLibre
  /\ stock' = EcrireSeuil(p)
  /\ inventaire' = [inventaire EXCEPT ![p] = InventaireLibre]
  /\ UNCHANGED <<titulaire, boutique, pages, produit, fiches, variante, galerie,
                 suspension, bloques, ventes>>

EnregistrerQuantite(p, n) ==
  /\ inventaire[p] # InventaireLibre
  /\ stock' = [stock EXCEPT ![p] = n]
  /\ ventes' = [ventes EXCEPT ![p] = n]
  /\ inventaire' = [inventaire EXCEPT ![p] = InventaireLibre]
  /\ UNCHANGED <<titulaire, boutique, pages, produit, fiches, variante, galerie,
                 suspension, bloques>>

\* Stock.decrementer: a conditional UPDATE, whatever the caller read.
Decrementer(p) ==
  /\ EstAchetable(p) /\ variante[p]
  /\ stock[p] >= 1
  /\ stock' = [stock EXCEPT ![p] = @ - 1]
  /\ ventes' = [ventes EXCEPT ![p] = @ - 1]
  /\ UNCHANGED <<titulaire, boutique, pages, produit, fiches, variante, inventaire, galerie,
                 suspension, bloques>>

-----------------------------------------------------------------------------
(* The gallery.                                                             *)

\* ImageProduit.save: a principal image takes the place of the others.
Ajoutee(g, principale) ==
  [images |-> g.images + 1, principales |-> IF principale THEN 1 ELSE g.principales]

\* The images are counted under the lock of the product.
AjouterImage(p, principale) ==
  /\ VendeurPeutEcrire
  /\ galerie' = IF galerie[p].images >= ImagesMax THEN galerie
                ELSE [galerie EXCEPT ![p] = Ajoutee(@, principale)]
  /\ UNCHANGED <<titulaire, boutique, pages, produit, fiches, variante, stock, inventaire,
                 suspension, bloques, ventes>>

SupprimerImage(p, principale) ==
  /\ VendeurPeutEcrire
  /\ galerie[p].images > IF principale THEN 0 ELSE galerie[p].principales
  /\ principale => galerie[p].principales > 0
  /\ galerie' = [galerie EXCEPT ![p].images = @ - 1,
                                ![p].principales = IF principale THEN @ - 1 ELSE @]
  /\ UNCHANGED <<titulaire, boutique, pages, produit, fiches, variante, stock, inventaire,
                 suspension, bloques, ventes>>

PagesNext ==
  \/ \E q \in Parties : LirePage(q)
  \/ \E oui \in BOOLEAN : EnregistrerBoutique(oui) \/ SuspendreBoutique(oui)

ProduitsNext ==
  \E p \in Produits :
    \/ LireFiche(p)
    \/ \E oui \in BOOLEAN :
         \/ EnregistrerFiche(p, oui)
         \/ ModererProduit(p, oui)
         \/ EnregistrerVariante(p, oui)
         \/ AjouterImage(p, oui)
         \/ SupprimerImage(p, oui)
    \/ LireInventaire(p)
    \/ EnregistrerSeuil(p)
    \/ \E n \in 0..StockMax : EnregistrerQuantite(p, n)
    \/ Decrementer(p)

BoutiquesNext ==
  \/ \E t \in [valide: BOOLEAN, actif: BOOLEAN] : DeciderTitulaire(t)
  \/ PagesNext
  \/ ProduitsNext

BoutiquesSpec == BoutiquesInit /\ [][BoutiquesNext]_boutiquesVars

-----------------------------------------------------------------------------
(* The seller and the administration never undo each other's work on a
   product: one the administration disabled is not sold until it says so, a
   change of threshold loses no sale, the gallery has one principal image at
   most; and the three rules of what is public (Django, the cart, the SQL view
   of FastAPI) show the same products. *)
CatalogueTenu ==
  /\ \A p \in bloques : ~produit[p].actif /\ ~EstAchetable(p)
  /\ stock = ventes
  /\ \A p \in Produits :
       /\ produit[p].actif <=> produit[p].par = "personne"
       /\ galerie[p].principales <= 1
  /\ VisiblesPubliquement = VueProduitPublic
  /\ VueProduitPublic = {p \in Produits : EstAchetable(p) /\ variante[p]}

(* A suspension lasts until the administration lifts it: "le vendeur ne peut
   pas la lever lui-même" (apps/vendeurs/models.py:82). *)
SuspensionTenue == suspension => boutique.suspendue
=============================================================================
