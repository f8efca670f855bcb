------------------------------ MODULE Commandes ------------------------------
(***************************************************************************)
(* Orders, client payments, refunds, delivery sheet, stock and coupon of   *)
(* the ANITCHE back end: apps/commandes/services.py, apps/paiements/       *)
(* services.py and what they call in livraison, fidelite and catalogue.    *)
(*                                                                         *)
(* One action is one database transaction, with every call it makes. The   *)
(* places where the code works outside a transaction (the calls to the     *)
(* payment provider, the loop of the expiration task) are split: the state *)
(* read before is kept in a variable and used, possibly stale, later.      *)
(* Constants and variables keep the (French) names of the source.          *)
(***************************************************************************)
EXTENDS Integers, FiniteSets, FiniteSetsExt

CONSTANTS
    Groupes,          \* checkouts (GroupeCommande): one per validated cart
    Commandes,        \* orders: one per shop of a checkout
    Paiements,        \* attempts to pay
    Variantes,        \* product variants, each with one row of stock
    Clients,
    GroupeDe,         \* the checkout of an order
    ClientDe,         \* the client of a checkout
    VarianteDe,       \* an order is abstracted to one line: a variant
    Quantite,         \* and a quantity
    StockInitial,
    Coupons,          \* reduction coupons
    UtilisationsMax,  \* utilisations_max of a coupon
    Preparees,        \* bound: the orders their shop prepares
    Fermables,        \* bound: the payments that may get older than FENETRE_HEURES
    Decisions         \* bound: what the administration answers to a refund

(***************************************************************************)
(* calculer_checkout makes one order per shop and a variant belongs to one *)
(* shop: two orders of a checkout never hold the same variant.             *)
(***************************************************************************)
ASSUME ConstantesOk ==
    /\ IsFiniteSet(Groupes) /\ IsFiniteSet(Commandes)
    /\ GroupeDe \in [Commandes -> Groupes]
    /\ ClientDe \in [Groupes -> Clients]
    /\ VarianteDe \in [Commandes -> Variantes]
    /\ Quantite \in [Commandes -> Nat \ {0}]
    /\ StockInitial \in [Variantes -> Nat]
    /\ UtilisationsMax \in [Coupons -> Nat \ {0}]
    /\ Preparees \subseteq Commandes /\ Fermables \subseteq Paiements
    /\ Decisions \subseteq {"effectue", "refuse"}
    /\ \A c, d \in Commandes :
          GroupeDe[c] = GroupeDe[d] /\ VarianteDe[c] = VarianteDe[d] => c = d

VARIABLES
    statut,           \* Commande.status ("absente" before the checkout)
    fiche,            \* Livraison.status ("aucune": no row)
    reversement,      \* Reversement.statut, up to the withdrawal period
    stock,            \* Stock.quantite_disponible
    age,              \* age of an order against the two expiration delays
    expiration,       \* where the expiration task is with an order
    couponsDe,        \* Commande.coupon_code of a checkout: a coupon, or none
    coupon,           \* CouponReduction and its UtilisationCoupon rows
    paiement,         \* Paiement.statut ("aucun": no row)
    couvre,           \* Paiement.commandes
    rang,             \* order of Paiement.date_validation (0: not validated)
    horloge,          \* last value given to rang
    session,          \* the call that opens the transaction at the provider
    fournisseur,      \* the transaction as the provider sees it (external)
    reponses,         \* answers of verifier_transaction not yet applied
    fenetre,          \* created less than FENETRE_HEURES ago
    remboursement     \* Remboursement.statut of (payment, order)

commandeVars == <<statut, fiche, reversement, stock, age>>
couponVars   == <<couponsDe, coupon>>
paiementVars == <<paiement, couvre, rang, horloge>>
reseauVars   == <<session, fournisseur, reponses, fenetre>>
vars == <<commandeVars, couponVars, paiementVars, reseauVars, expiration, remboursement>>

-----------------------------------------------------------------------------
(* Statuses and transition tables. *)

StatutsCommande == {"absente", "creee", "confirmee", "preparation", "expediee", "livree", "annulee"}
StatutsLivraison == {"aucune", "en_attente", "expediee", "en_cours", "livree", "echouee", "annulee"}
StatutsReversement == {"aucun", "en_attente_livraison", "en_retractation", "annule"}
StatutsPaiement == {"aucun", "en_attente", "valide", "echoue", "annule"}
StatutsRemboursement == {"aucun", "a_traiter", "effectue", "refuse"}
Etats == {"succes", "echec"}

STATUTS_ACTIFS == {"en_attente", "valide"}
VALIDABLE_DEPUIS == {"en_attente", "echoue", "annule"}

(* Mutant: the expiration may cancel what the client may cancel. *)
ANNULATION_TROP_LARGE ==
    [client |-> {"creee", "confirmee"},
     expiration |-> {"creee", "confirmee"},
     boutique_indisponible |-> {"creee"},
     administration |-> {"creee", "confirmee", "preparation"},
     livraison_echouee |-> {"expediee"}]

ANNULATION_POSSIBLE_DEPUIS ==
    [client |-> {"creee", "confirmee"},
     expiration |-> {"creee"},
     boutique_indisponible |-> {"creee"},
     administration |-> {"creee", "confirmee", "preparation"},
     livraison_echouee |-> {"expediee"}]

(* Mutant: a parcel may be marked failed before it leaves the shop. *)
TRANSITIONS_LIVRAISON_LARGES ==
    {<<"en_attente", "expediee">>, <<"expediee", "en_cours">>, <<"expediee", "echouee">>,
     <<"en_cours", "livree">>, <<"en_cours", "echouee">>, <<"echouee", "en_cours">>,
     <<"en_attente", "echouee">>}

TRANSITIONS_LIVRAISON ==
    {<<"en_attente", "expediee">>, <<"expediee", "en_cours">>, <<"expediee", "echouee">>,
     <<"en_cours", "livree">>, <<"en_cours", "echouee">>, <<"echouee", "en_cours">>}

(* Age of a creee order: within the payment delay, past it, past the grace delay too. *)
Recente == 0
DelaiEcoule == 1
GraceEcoulee == 2

CommandesDe(g) == {c \in Commandes : GroupeDe[c] = g}
Couvrant(c, S) == {p \in Paiements : c \in couvre[p] /\ paiement[p] \in S}

(* paiement_valide_de: the first payment validated for the order confirmed it. *)
EstPaiementValideDe(p, c) ==
    /\ p \in Couvrant(c, {"valide"})
    /\ \A q \in Couvrant(c, {"valide"}) : rang[p] <= rang[q]

-----------------------------------------------------------------------------
Init ==
    /\ statut = [c \in Commandes |-> "absente"]
    /\ fiche = [c \in Commandes |-> "aucune"]
    /\ reversement = [c \in Commandes |-> "aucun"]
    /\ stock = StockInitial
    /\ age = [c \in Commandes |-> Recente]
    /\ expiration = [c \in Commandes |-> "repos"]
    /\ couponsDe = [g \in Groupes |-> {}]
    /\ coupon = [k \in Coupons |-> [utilisations |-> {}, nombre |-> 0, epuise |-> FALSE, expire |-> FALSE]]
    /\ paiement = [p \in Paiements |-> "aucun"]
    /\ couvre = [p \in Paiements |-> {}]
    /\ rang = [p \in Paiements |-> 0]
    /\ horloge = 0
    /\ session = [p \in Paiements |-> "aucune"]
    /\ fournisseur = [p \in Paiements |-> "inconnue"]
    /\ reponses = [p \in Paiements |-> {}]
    /\ fenetre = [p \in Paiements |-> TRUE]
    /\ remboursement = [p \in Paiements |-> [c \in Commandes |-> "aucun"]]

-----------------------------------------------------------------------------
(* Checkout. *)

(* est_valide_pour: not expired, one use per client, limit not reached. *)
CouponValidePour(k, client) ==
    /\ ~coupon[k].expire
    /\ \A h \in coupon[k].utilisations : ClientDe[h] # client
    /\ ~coupon[k].epuise
    /\ coupon[k].nombre < UtilisationsMax[k]

ConsommerCoupon(k, g) ==
    coupon' = [coupon EXCEPT ![k].utilisations = @ \union {g},
                             ![k].nombre = @ + 1,
                             ![k].epuise = @ \/ coupon[k].nombre + 1 >= UtilisationsMax[k]]

StockSuffisant(c) == Quantite[c] <= stock[VarianteDe[c]]

(* ValiderPanierView: under the locks of the cart, the coupon and the stock rows. *)
ValiderPanier(g, codes) ==
    /\ CommandesDe(g) # {}
    /\ \A c \in CommandesDe(g) : statut[c] = "absente" /\ StockSuffisant(c)
    /\ statut' = [c \in Commandes |-> IF c \in CommandesDe(g) THEN "creee" ELSE statut[c]]
    /\ stock' = [v \in Variantes |->
                   IF \E c \in CommandesDe(g) : VarianteDe[c] = v
                     THEN stock[v] - Quantite[CHOOSE c \in CommandesDe(g) : VarianteDe[c] = v]
                     ELSE stock[v]]
    /\ couponsDe' = [couponsDe EXCEPT ![g] = codes]
    /\ \/ codes = {} /\ UNCHANGED coupon
       \/ \E k \in codes : CouponValidePour(k, ClientDe[g]) /\ ConsommerCoupon(k, g)
    /\ UNCHANGED <<fiche, reversement, age, expiration, paiementVars, reseauVars, remboursement>>

-----------------------------------------------------------------------------
(* Effects shared by several transactions. *)

(* Mutant: a refund is unique per order, whatever the payment. *)
CreerRemboursementsParCommande(couples) ==
    remboursement' = [p \in Paiements |-> [c \in Commandes |->
                        IF <<p, c>> \in couples /\ \A q \in Paiements : remboursement[q][c] = "aucun"
                          THEN "a_traiter" ELSE remboursement[p][c]]]

(* creer_remboursement, outside returns: once per (payment, order). *)
CreerRemboursements(couples) ==
    remboursement' = [p \in Paiements |-> [c \in Commandes |->
                        IF <<p, c>> \in couples /\ remboursement[p][c] = "aucun"
                          THEN "a_traiter" ELSE remboursement[p][c]]]

(* Mutant: the coupon is given back with the first cancelled order. *)
RestituerCouponTropTot(c) ==
    LET g == GroupeDe[c] IN
    coupon' = [k \in Coupons |->
                 IF k \in couponsDe[g] /\ g \in coupon[k].utilisations /\ ~coupon[k].expire
                   THEN [coupon[k] EXCEPT !.utilisations = @ \ {g}, !.nombre = @ - 1, !.epuise = FALSE]
                   ELSE coupon[k]]

(* restituer_coupon: gives the use back once no order of the checkout is left. *)
RestituerCoupon(c) ==
    LET g == GroupeDe[c] IN
    coupon' = [k \in Coupons |->
                 IF /\ k \in couponsDe[g] /\ g \in coupon[k].utilisations
                    /\ ~coupon[k].expire
                    /\ \A d \in CommandesDe(g) : statut'[d] = "annulee"
                   THEN [coupon[k] EXCEPT !.utilisations = @ \ {g},
                                          !.nombre = IF @ > 0 THEN @ - 1 ELSE 0,
                                          !.epuise = FALSE]
                   ELSE coupon[k]]

(* created_at is only read while an order is creee: its age is forgotten with that status. *)
OublierAge == age' = [c \in Commandes |-> IF statut'[c] = "creee" THEN age[c] ELSE Recente]

(* Mutant: a second cancellation is not refused. *)
AnnulationRejouable(c, motif) ==
    /\ fiche[c] \in {"aucune", "annulee", "en_attente", "echouee"}
    /\ statut[c] \in ANNULATION_POSSIBLE_DEPUIS[motif] \union {"annulee"}

(* annuler_livraison_de refuses a delivery that left, changer_statut_commande a wrong status. *)
AnnulationPermise(c, motif) ==
    /\ fiche[c] \in {"aucune", "annulee", "en_attente", "echouee"}
    /\ statut[c] \in ANNULATION_POSSIBLE_DEPUIS[motif]

(* traiter_paiements_apres_annulation closes a pending payment all of whose orders are cancelled. *)
PaiementSansCommande(p, c) ==
    /\ paiement[p] = "en_attente"
    /\ c \in couvre[p]
    /\ \A d \in couvre[p] \ {c} : statut[d] = "annulee"

(* annuler_commande: every write of the transaction. *)
AnnulerCommande(c, motif) ==
    /\ AnnulationPermise(c, motif)
    /\ statut' = [statut EXCEPT ![c] = "annulee"]
    /\ fiche' = [fiche EXCEPT ![c] = IF @ = "aucune" THEN @ ELSE "annulee"]
    /\ stock' = [stock EXCEPT ![VarianteDe[c]] = @ + Quantite[c]]
    /\ paiement' = [p \in Paiements |-> IF PaiementSansCommande(p, c) THEN "annule" ELSE paiement[p]]
    /\ CreerRemboursements({<<p, c>> : p \in Couvrant(c, {"valide"})})
    /\ reversement' = [reversement EXCEPT ![c] = IF @ = "aucun" THEN @ ELSE "annule"]
    /\ RestituerCoupon(c)
    /\ OublierAge
    /\ UNCHANGED <<couponsDe, couvre, rang, horloge, reseauVars>>

(* Mutant: a cancelled order is confirmed again. *)
AConfirmerMemeAnnulee(p) ==
    {c \in couvre[p] : statut[c] \in {"creee", "annulee"} /\ Couvrant(c, {"valide"}) \ {p} = {}}

(* Orders that the validation of p confirms: still creee, paid by no other payment. *)
AConfirmer(p) ==
    {c \in couvre[p] : statut[c] = "creee" /\ Couvrant(c, {"valide"}) \ {p} = {}}

(* valider_paiement: confirms what can be, refunds the rest. *)
ValiderPaiement(p) ==
    /\ paiement[p] \in VALIDABLE_DEPUIS
    /\ paiement' = [paiement EXCEPT ![p] = "valide"]
    /\ horloge' = horloge + 1
    /\ rang' = [rang EXCEPT ![p] = horloge + 1]
    /\ statut' = [c \in Commandes |-> IF c \in AConfirmer(p) THEN "confirmee" ELSE statut[c]]
    /\ fiche' = [c \in Commandes |->
                   IF c \in AConfirmer(p) /\ fiche[c] = "aucune" THEN "en_attente" ELSE fiche[c]]
    /\ reversement' = [c \in Commandes |->
                   IF c \in AConfirmer(p) /\ reversement[c] = "aucun"
                     THEN "en_attente_livraison" ELSE reversement[c]]
    /\ CreerRemboursements({<<p, c>> : c \in couvre[p] \ AConfirmer(p)})
    /\ OublierAge
    /\ UNCHANGED <<stock, couponVars, couvre>>

(* Mutant: the status is not read again under the lock. *)
MarquerEchoueToujours(p) ==
    /\ paiement' = [paiement EXCEPT ![p] = "echoue"]
    /\ UNCHANGED <<commandeVars, couponVars, couvre, rang, horloge, remboursement>>

(* _passer_statut(ECHOUE), from en_attente only: what marquer_echoue writes. *)
MarquerEchoue(p) ==
    /\ paiement' = [paiement EXCEPT ![p] = IF @ = "en_attente" THEN "echoue" ELSE @]
    /\ UNCHANGED <<commandeVars, couponVars, couvre, rang, horloge, remboursement>>

-----------------------------------------------------------------------------
(* Opening a payment. *)

(* _cible: one order, or the orders of the checkout that are not cancelled. *)
Cibles(g) == {{c} : c \in CommandesDe(g)} \union {{c \in CommandesDe(g) : statut[c] # "annulee"}}

SansPaiementActif(c) == Couvrant(c, STATUTS_ACTIFS) = {}

(* initier_paiement, its transaction: every order still creee, none with an active payment. *)
InitierPaiement(p, S) ==
    /\ paiement[p] = "aucun"
    /\ S # {}
    /\ \A c \in S : statut[c] = "creee" /\ SansPaiementActif(c)
    /\ paiement' = [paiement EXCEPT ![p] = "en_attente"]
    /\ couvre' = [couvre EXCEPT ![p] = S]
    /\ session' = [session EXCEPT ![p] = "appel"]
    /\ UNCHANGED <<commandeVars, couponVars, expiration, rang, horloge, fournisseur, reponses,
                   fenetre, remboursement>>

(* The provider answered: its identifier is saved whatever became of the payment meanwhile.   *)
(* A crash of the server here leaves session at "appel" for ever: the client never has the URL. *)
EnregistrerSession(p) ==
    /\ session[p] = "appel"
    /\ session' = [session EXCEPT ![p] = "ouverte"]
    /\ fournisseur' = [fournisseur EXCEPT ![p] = "en_attente"]
    /\ UNCHANGED <<commandeVars, couponVars, expiration, paiementVars, reponses, fenetre, remboursement>>

(* ErreurFournisseur during the call. *)
EchecInitiation(p) ==
    /\ session[p] = "appel"
    /\ session' = [session EXCEPT ![p] = "refusee"]
    /\ MarquerEchoue(p)
    /\ UNCHANGED <<expiration, fournisseur, reponses, fenetre>>

(* annuler_paiement_client: the client gives a pending payment up. *)
AnnulerPaiementClient(p) ==
    /\ paiement[p] = "en_attente"
    /\ paiement' = [paiement EXCEPT ![p] = "annule"]
    /\ UNCHANGED <<commandeVars, couponVars, expiration, couvre, rang, horloge, reseauVars, remboursement>>

-----------------------------------------------------------------------------
(* The provider (external) and the answers of verifier_transaction. *)

(* The client pays on the provider's page, also after a failed attempt on the same page. *)
FournisseurEncaisse(p) ==
    /\ fournisseur[p] \in {"en_attente", "echec"}
    /\ fournisseur' = [fournisseur EXCEPT ![p] = "succes"]
    /\ UNCHANGED <<commandeVars, couponVars, expiration, paiementVars, session, reponses, fenetre, remboursement>>

FournisseurRefuse(p) ==
    /\ fournisseur[p] = "en_attente"
    /\ fournisseur' = [fournisseur EXCEPT ![p] = "echec"]
    /\ UNCHANGED <<commandeVars, couponVars, expiration, paiementVars, session, reponses, fenetre, remboursement>>

(* The answer of the provider, read outside any transaction. *)
LireReponse(p) ==
    /\ fournisseur[p] \in Etats
    /\ reponses' = [reponses EXCEPT ![p] = @ \union {fournisseur[p]}]
    /\ UNCHANGED <<commandeVars, couponVars, expiration, paiementVars, session, fournisseur,
                   fenetre, remboursement>>

(* traiter_notification_paiement up to the verification: early, late, repeated, or never. *)
RecevoirNotification(p) == LireReponse(p)

(* Mutant: the payments closed recently are not verified. *)
AReconcilierEnAttente(p) == paiement[p] = "en_attente"

(* The selection of reconcilier_paiements_en_suspens. *)
AReconcilier(p) ==
    \/ paiement[p] = "en_attente"
    \/ paiement[p] \in {"annule", "echoue"} /\ fenetre[p] /\ session[p] = "ouverte"

(* reconcilier_paiement up to the verification. *)
Reconcilier(p) ==
    /\ AReconcilier(p)
    /\ LireReponse(p)

(* The end of both paths, under the locks: valider_paiement or marquer_echoue. *)
AppliquerReponse(p, etat) ==
    /\ etat \in reponses[p]
    /\ reponses' = [reponses EXCEPT ![p] = @ \ {etat}]
    /\ \/ etat = "succes" /\ ValiderPaiement(p)
       \/ /\ etat = "succes"
          /\ paiement[p] \notin VALIDABLE_DEPUIS
          /\ UNCHANGED <<commandeVars, couponVars, paiementVars, remboursement>>
       \/ etat = "echec" /\ MarquerEchoue(p)
    /\ UNCHANGED <<expiration, session, fournisseur, fenetre>>

-----------------------------------------------------------------------------
(* Cancellation by the client, the administration, or a shop no longer published. *)

AnnulerSur(c, motif) ==
    /\ motif \in {"client", "administration", "boutique_indisponible"}
    /\ AnnulerCommande(c, motif)
    /\ UNCHANGED expiration

(* The expiration task. Its list and the age of the orders are frozen when it starts. *)
Expirables == {c \in Commandes : statut[c] = "creee" /\ age[c] >= DelaiEcoule /\ expiration[c] = "repos"}

ListerExpirables ==
    /\ Expirables # {}
    /\ expiration' = [c \in Commandes |->
                        IF c \notin Expirables THEN expiration[c]
                        ELSE IF age[c] = GraceEcoulee THEN "grace_ecoulee" ELSE "a_verifier"]
    /\ UNCHANGED <<commandeVars, couponVars, paiementVars, reseauVars, remboursement>>

EnListe(c) == expiration[c] \in {"a_verifier", "grace_ecoulee"}

(* reconcilier_avant_expiration with no pending payment. *)
RienAVerifier(c) ==
    /\ EnListe(c)
    /\ Couvrant(c, {"en_attente"}) = {}
    /\ expiration' = [expiration EXCEPT ![c] = "a_annuler"]
    /\ UNCHANGED <<commandeVars, couponVars, paiementVars, reseauVars, remboursement>>

(* It found a final state of the pending payment p: a success ends it, a failure lets the order expire. *)
VerifierAvantExpiration(c, p, etat) ==
    /\ EnListe(c)
    /\ p \in Couvrant(c, {"en_attente"})
    /\ etat \in reponses[p]
    /\ reponses' = [reponses EXCEPT ![p] = @ \ {etat}]
    /\ IF etat = "succes"
         THEN ValiderPaiement(p) /\ expiration' = [expiration EXCEPT ![c] = "repos"]
         ELSE MarquerEchoue(p) /\ expiration' = [expiration EXCEPT ![c] = "a_annuler"]
    /\ UNCHANGED <<session, fournisseur, fenetre>>

(* Mutant: an uncertain payment postpones the expiration for ever. *)
EtatIncertainSansFin(c) ==
    /\ EnListe(c)
    /\ Couvrant(c, {"en_attente"}) # {}
    /\ expiration' = [expiration EXCEPT ![c] = "repos"]
    /\ UNCHANGED <<commandeVars, couponVars, paiementVars, reseauVars, remboursement>>

(* Pending, unknown or unreachable provider: postponed until the end of the grace delay. *)
EtatIncertain(c) ==
    /\ EnListe(c)
    /\ Couvrant(c, {"en_attente"}) # {}
    /\ expiration' = [expiration EXCEPT ![c] = IF @ = "grace_ecoulee" THEN "a_annuler" ELSE "repos"]
    /\ UNCHANGED <<commandeVars, couponVars, paiementVars, reseauVars, remboursement>>

(* annuler_commande(EXPIRATION), or TransitionImpossible when the order was paid or cancelled meanwhile. *)
ExpirerCommande(c) ==
    /\ expiration[c] = "a_annuler"
    /\ expiration' = [expiration EXCEPT ![c] = "repos"]
    /\ \/ AnnulerCommande(c, "expiration")
       \/ /\ ~AnnulationPermise(c, "expiration")
          /\ UNCHANGED <<commandeVars, couponVars, paiementVars, reseauVars, remboursement>>

-----------------------------------------------------------------------------
(* Preparation and delivery. *)

PasserEnPreparation(c) ==
    /\ c \in Preparees
    /\ statut[c] = "confirmee"
    /\ statut' = [statut EXCEPT ![c] = "preparation"]
    /\ UNCHANGED <<fiche, reversement, stock, age, couponVars, expiration, paiementVars, reseauVars, remboursement>>

(* changer_statut and synchroniser_depuis_livraison; who may act, the code and the number *)
(* of attempts, which only refuse more, are left to the module of the delivery.           *)
ChangerStatutLivraison(c, s) ==
    /\ <<fiche[c], s>> \in TRANSITIONS_LIVRAISON
    /\ s = "expediee" => statut[c] = "preparation"
    /\ s = "livree" => statut[c] = "expediee"
    /\ fiche' = [fiche EXCEPT ![c] = s]
    /\ statut' = [statut EXCEPT ![c] = IF s \in {"expediee", "livree"} THEN s ELSE @]
    /\ reversement' = [reversement EXCEPT ![c] =
                         IF s = "livree" /\ @ = "en_attente_livraison" THEN "en_retractation" ELSE @]
    /\ UNCHANGED <<stock, age, couponVars, expiration, paiementVars, reseauVars, remboursement>>

(* abandonner_livraison: the administration gives a failed delivery up. *)
AbandonnerLivraison(c) ==
    /\ fiche[c] = "echouee"
    /\ AnnulerCommande(c, "livraison_echouee")
    /\ UNCHANGED expiration

(* traiter_remboursement: decided once. *)
TraiterRemboursement(p, c, decision) ==
    /\ remboursement[p][c] = "a_traiter"
    /\ remboursement' = [remboursement EXCEPT ![p][c] = decision]
    /\ UNCHANGED <<commandeVars, couponVars, expiration, paiementVars, reseauVars>>

-----------------------------------------------------------------------------
(* Time. *)

(* An order gets older: past the payment delay, then past the grace delay. *)
Vieillir(c) ==
    /\ statut[c] = "creee"
    /\ age[c] < GraceEcoulee
    /\ age' = [age EXCEPT ![c] = @ + 1]
    /\ UNCHANGED <<statut, fiche, reversement, stock, couponVars, expiration, paiementVars, reseauVars, remboursement>>

(* PAIEMENT_RECONCILIATION_FENETRE_HEURES have passed since the payment was created; *)
(* only read for a payment cancelled or failed, so only closed for such a payment.    *)
FermerFenetre(p) ==
    /\ p \in Fermables
    /\ paiement[p] \in {"annule", "echoue"}
    /\ fenetre[p]
    /\ fenetre' = [fenetre EXCEPT ![p] = FALSE]
    /\ UNCHANGED <<commandeVars, couponVars, expiration, paiementVars, session, fournisseur, reponses, remboursement>>

ExpirerCoupon(k) ==
    /\ ~coupon[k].expire
    /\ coupon' = [coupon EXCEPT ![k].expire = TRUE]
    /\ UNCHANGED <<commandeVars, couponsDe, expiration, paiementVars, reseauVars, remboursement>>

-----------------------------------------------------------------------------
Client ==
    \/ \E g \in Groupes : \E codes \in {{}} \union {{k} : k \in Coupons} : ValiderPanier(g, codes)
    \/ \E p \in Paiements, g \in Groupes : \E S \in Cibles(g) : InitierPaiement(p, S)
    \/ \E p \in Paiements : AnnulerPaiementClient(p) \/ FournisseurEncaisse(p) \/ FournisseurRefuse(p)

Serveur ==
    \/ \E p \in Paiements : EnregistrerSession(p) \/ EchecInitiation(p) \/ RecevoirNotification(p) \/ Reconcilier(p)
    \/ \E p \in Paiements, etat \in Etats : AppliquerReponse(p, etat)

Expiration ==
    \/ ListerExpirables
    \/ \E c \in Commandes : RienAVerifier(c) \/ EtatIncertain(c) \/ ExpirerCommande(c)
    \/ \E c \in Commandes, p \in Paiements, etat \in Etats : VerifierAvantExpiration(c, p, etat)

Suivi ==
    \/ \E c \in Commandes, motif \in DOMAIN ANNULATION_POSSIBLE_DEPUIS : AnnulerSur(c, motif)
    \/ \E c \in Commandes, s \in StatutsLivraison : ChangerStatutLivraison(c, s)
    \/ \E c \in Commandes : PasserEnPreparation(c) \/ AbandonnerLivraison(c)
    \/ \E p \in Paiements, c \in Commandes, decision \in Decisions : TraiterRemboursement(p, c, decision)

Temps ==
    \/ \E c \in Commandes : Vieillir(c)
    \/ \E p \in Paiements : FermerFenetre(p)
    \/ \E k \in Coupons : ExpirerCoupon(k)

Next == Client \/ Serveur \/ Expiration \/ Suivi \/ Temps

(***************************************************************************)
(* Fairness: time passes for an order; celery beat starts the expiration   *)
(* and reconciliation tasks again and again (config/settings/base.py); an  *)
(* answer that was read is applied by one of their runs. Clients, the      *)
(* administration, the provider and its notifications owe nothing.         *)
(***************************************************************************)
Equite ==
    /\ \A c \in Commandes : WF_vars(Vieillir(c)) /\ WF_vars(ExpirerCommande(c))
    /\ WF_vars(ListerExpirables)
    /\ \A c \in Commandes : WF_vars(RienAVerifier(c) \/ EtatIncertain(c)
                                     \/ \E p \in Paiements, etat \in Etats : VerifierAvantExpiration(c, p, etat))
    /\ \A p \in Paiements : WF_vars(Reconcilier(p)) /\ \A etat \in Etats : WF_vars(AppliquerReponse(p, etat))

Spec == Init /\ [][Next]_vars /\ Equite

-----------------------------------------------------------------------------
TypeCommandes ==
    /\ statut \in [Commandes -> StatutsCommande]
    /\ fiche \in [Commandes -> StatutsLivraison]
    /\ reversement \in [Commandes -> StatutsReversement]
    /\ stock \in [Variantes -> Nat]
    /\ age \in [Commandes -> Recente..GraceEcoulee]

TypeCoupons ==
    /\ couponsDe \in [Groupes -> SUBSET Coupons]
    /\ coupon \in [Coupons -> [utilisations : SUBSET Groupes, nombre : Nat, epuise : BOOLEAN, expire : BOOLEAN]]

TypePaiements ==
    /\ paiement \in [Paiements -> StatutsPaiement]
    /\ couvre \in [Paiements -> SUBSET Commandes]
    /\ rang \in [Paiements -> Nat]
    /\ horloge \in Nat
    /\ remboursement \in [Paiements -> [Commandes -> StatutsRemboursement]]

TypeReseau ==
    /\ session \in [Paiements -> {"aucune", "appel", "ouverte", "refusee"}]
    /\ fournisseur \in [Paiements -> {"inconnue", "en_attente", "succes", "echec"}]
    /\ reponses \in [Paiements -> SUBSET Etats]
    /\ fenetre \in [Paiements -> BOOLEAN]

TypeExpiration == expiration \in [Commandes -> {"repos", "a_verifier", "grace_ecoulee", "a_annuler"}]

(* The values of the columns, in particular a stock (PositiveIntegerField) that is never     *)
(* negative, whatever checkouts compete for it.                                              *)
TypeOK == TypeCommandes /\ TypeCoupons /\ TypePaiements /\ TypeReseau /\ TypeExpiration

-----------------------------------------------------------------------------
(* Correctness. *)

Payees == {"confirmee", "preparation", "expediee", "livree"}

(* Every validated payment, for every order it covers, either is the payment that            *)
(* confirmed this order (paiement_valide_de) or has a refund: never both, never neither,     *)
(* whatever the order of validations, late successes and cancellations.                      *)
ArgentClient ==
    \A p \in Paiements, c \in Commandes :
        IF c \in couvre[p] /\ paiement[p] = "valide"
          THEN remboursement[p][c] = "aucun" <=> (statut[c] \in Payees /\ EstPaiementValideDe(p, c))
          ELSE remboursement[p][c] = "aucun"

(* An order is prepared, sent or delivered only when a payment covering it is collected,     *)
(* and no collected payment leaves its order to be paid again (or to expire).                *)
CommandePayee ==
    \A c \in Commandes :
        /\ statut[c] \in Payees => Couvrant(c, {"valide"}) # {}
        /\ statut[c] \in {"absente", "creee"} => Couvrant(c, {"valide"}) = {}

(* initier_paiement: an order paid alone and through its checkout, or by two requests at     *)
(* once, never has two payments waiting for the client.                                      *)
UnSeulEnAttente ==
    \A c \in Commandes : \A p, q \in Couvrant(c, {"en_attente"}) : p = q

(* Sister orders cancelled one after the other, by anybody: the payment they share does not  *)
(* stay pending once the last of them is cancelled.                                          *)
PasDePaiementOrphelin ==
    \A p \in Paiements : paiement[p] = "en_attente" => \E c \in couvre[p] : statut[c] # "annulee"

(* The status of the order, its delivery sheet and the seller's payout never tell different  *)
(* stories: in particular a cancelled order has no active sheet and owes its seller nothing. *)
FicheEtReversementAlignes ==
    \A c \in Commandes :
        /\ statut[c] \in {"absente", "creee"} => fiche[c] = "aucune"
        /\ statut[c] \in {"confirmee", "preparation"} => fiche[c] = "en_attente"
        /\ statut[c] = "expediee" => fiche[c] \in {"expediee", "en_cours", "echouee"}
        /\ statut[c] = "livree" => fiche[c] = "livree" /\ reversement[c] = "en_retractation"
        /\ statut[c] = "annulee" => <<fiche[c], reversement[c]>> \in {<<"aucune", "aucun">>, <<"annulee", "annule">>}
        /\ statut[c] \in Payees \ {"livree"} => reversement[c] = "en_attente_livraison"

(* The orders that hold units of the variant. *)
Retenues(v) == {c \in Commandes : VarianteDe[c] = v /\ statut[c] \notin {"absente", "annulee"}}

(* Units on sale and units held by orders that are not cancelled always add up to the        *)
(* initial stock: nothing is sold twice and a cancellation gives the units back once.        *)
StockConserve ==
    \A v \in Variantes : stock[v] + SumFunctionOnSet(Quantite, Retenues(v)) = StockInitial[v]

(* The counter of a coupon counts its uses, never above its limit, at most one per client;   *)
(* while it has not expired, it is used by exactly the checkouts that carry it and have an   *)
(* order left.                                                                               *)
CouponConserve ==
    \A k \in Coupons :
        /\ coupon[k].nombre = Cardinality(coupon[k].utilisations)
        /\ coupon[k].nombre <= UtilisationsMax[k]
        /\ coupon[k].epuise <=> coupon[k].nombre = UtilisationsMax[k]
        /\ \A g, h \in coupon[k].utilisations : ClientDe[g] = ClientDe[h] => g = h
        /\ ~coupon[k].expire =>
             coupon[k].utilisations =
               {g \in Groupes : k \in couponsDe[g] /\ \E c \in CommandesDe(g) : statut[c] # "annulee"}

(* A collected payment stays collected, whatever stale failure arrives after the success,    *)
(* and a refund, once owed, is decided once and never forgotten.                             *)
EncaissementDefinitif ==
    [][\A p \in Paiements :
         /\ paiement[p] = "valide" => paiement'[p] = "valide"
         /\ \A c \in Commandes :
              /\ remboursement[p][c] # "aucun" => remboursement'[p][c] # "aucun"
              /\ remboursement[p][c] \in {"effectue", "refuse"} => UNCHANGED remboursement[p][c]]_vars

(* The expiration task never cancels an order that was paid between its verification, made   *)
(* outside any transaction, and its cancellation.                                            *)
ExpirationEpargnePayees ==
    [][\A c \in Commandes :
         expiration[c] = "a_annuler" /\ expiration'[c] = "repos" /\ statut[c] \in Payees
           => statut'[c] = statut[c]]_vars

(* A client debited by the provider is never forgotten, all notifications lost: the payment  *)
(* ends validated (so its orders are paid or refunded, ArgentClient), unless it was closed   *)
(* and the reconciliation window of its creation has passed.                                 *)
DebitTraite ==
    \A p \in Paiements :
        fournisseur[p] = "succes"
          ~> \/ paiement[p] = "valide"
             \/ paiement[p] \in {"annule", "echoue"} /\ ~fenetre[p]

(* An order does not hold its stock for ever: it ends paid or cancelled, even with a         *)
(* provider that never gives a final answer.                                                 *)
CommandeTranchee ==
    \A c \in Commandes : statut[c] = "creee" ~> statut[c] # "creee"

(* docs/MODULE_PAIEMENTS.md and the docstring of expirer_commandes_impayees: an order with a *)
(* pending payment is not cancelled by the expiration before the end of the grace delay.     *)
ExpirationRepoussee ==
    [][\A c \in Commandes :
         (/\ expiration[c] = "a_annuler" /\ expiration'[c] = "repos"
          /\ statut[c] = "creee" /\ statut'[c] = "annulee"
          /\ Couvrant(c, {"en_attente"}) # {}) => age[c] = GraceEcoulee]_vars

(* How the orders and the payments show the state of Argent. *)
EtatDesCommandes ==
    [c \in Commandes |->
       IF statut[c] \in {"absente", "creee"} THEN "a_payer"
       ELSE IF statut[c] = "annulee" THEN "annulee" ELSE "payee"]

SortDeLArgent ==
    [p \in Paiements |-> [c \in Commandes |->
       IF paiement[p] # "valide" \/ c \notin couvre[p] THEN "libre"
       ELSE IF remboursement[p][c] = "aucun" THEN "paie"
       ELSE IF remboursement[p][c] = "a_traiter" THEN "a_rendre"
       ELSE IF remboursement[p][c] = "effectue" THEN "rendu" ELSE "refuse"]]

Promesse == INSTANCE Argent WITH etat <- EtatDesCommandes, sort <- SortDeLArgent

(* The money of the clients, seen through the statuses of the payments and refunds, only     *)
(* moves as Argent allows.                                                                   *)
ArgentClients == Promesse!Spec
=============================================================================
