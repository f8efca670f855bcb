------------------------------ MODULE MCServices ------------------------------
(***************************************************************************)
(* The services around an order, each on an instance of its own.  They are *)
(* checked in one run: a behaviour is that of one service, and the         *)
(* variables of the others keep their initial values.                      *)
(***************************************************************************)
EXTENDS Livraison, Checkout, Panier, Avis, Passeport, Acces, Onglets, Support, Fidelite, Suivi,
        Geniuspay, Avertissements, Recherche, Carnet, Baremes, Conseiller, TLC

CONSTANTS Services, k1, k2, p1, x1, x2, l1, l2, c1, c2, r1, r2, g1, n1, n2, n3

VARIABLE service

PourTous(x) == [auteur \in Auteurs |-> x]
MontantPaye == [c \in Achats |-> IF c = c1 THEN 100500 ELSE 52000]
PartRenvoyee == [r \in Renvois |-> IF r = r1 THEN 60600 ELSE 39900]
AchatRenvoye == [r \in Renvois |-> c1]
ProduitUnique == PourTous(p1)
Clientes == [w \in Sockets |-> "client"]
PaiementAnnonce == [e \in Evenements |-> g1]
GenreAnnonce == [e \in Evenements |-> IF e = n3 THEN "webhook.test" ELSE "payment"]

Rayon ==
  (c1 :> [id |-> 1, prix |-> 4999, date |-> 1, palier |-> 2, proximite |-> 1, categorie |-> 1, parent |-> 2]) @@
  (c2 :> [id |-> 2, prix |-> 5000, date |-> 2, palier |-> 2, proximite |-> 1, categorie |-> 2, parent |-> 0]) @@
  (g1 :> [id |-> 3, prix |-> 5000, date |-> 2, palier |-> 2, proximite |-> 1, categorie |-> 3, parent |-> 0])
Cherche(tri, texte, categorie, max) ==
  [tri |-> tri, texte |-> texte, categorie |-> categorie, min |-> 1, max |-> max]
FiltresEssayes ==
  {Cherche("prix_asc", FALSE, 0, 5000), Cherche("pertinence", TRUE, 0, 5000), Cherche("date_desc", FALSE, 2, 5000),
   Cherche("date_asc", FALSE, 0, 0)}
Seuils == <<0, 5000>>

TarifsVoulus ==
  {[taux |-> 12, fixe |-> 200, seuil |-> 0, petit |-> 0], [taux |-> 14, fixe |-> 200, seuil |-> 1000, petit |-> 100]}
PetitsArticles == {[prix |-> 999, quantite |-> 3]}
JourDeux == [t \in 0..2 |-> IF t = 2 THEN 1 ELSE 0]

comptesEtColis == <<comptesVars, colisVars, avertissementsVars, carnetVars>>
boutique_et_catalogue == <<boutiquesVars, feuillets, passeportVars, rechercheVars>>
achats == <<checkoutVars, panierVars, fideliteVars, geniuspayVars, baremesVars>>
sessions == <<accesVars, ongletsVars, supportVars, suiviVars, conseillerVars>>

ServicesVars == <<service, comptesEtColis, boutique_et_catalogue, achats, sessions>>

\* The services with several initial states start from one of them when they are not the one that runs.
ServicesInit ==
  /\ service \in Services
  /\ ComptesInit /\ LivraisonInit /\ AvertissementsInit /\ CarnetInit
  /\ BoutiquesInit /\ AvisInit /\ PasseportInit /\ RechercheInit
  /\ CheckoutInit /\ PanierInit /\ FideliteInit /\ GeniuspayInit /\ BaremesInit
  /\ AccesInit /\ OngletsInit /\ SupportInit /\ SuiviInit /\ ConseillerInit
  /\ service # "checkout" => defaut = [z \in Zones |-> CHOOSE t \in Tarifs : TRUE]
  /\ service # "geniuspay" => \A e \in Encaissements :
       transactionG[e].amount = "du" /\ transactionG[e].metadata
  /\ service # "recherche" => filtre = CHOOSE r \in Recherches : Recevable(r)
  /\ service # "support" => ticket.boutique
  /\ grilles[c1] # SansGrille

ServicesNext ==
  \/ /\ \/ service = "comptes" /\ ComptesNext /\ UNCHANGED <<colisVars, avertissementsVars, carnetVars>>
        \/ service = "livraison" /\ LivraisonNext /\ UNCHANGED <<avertissementsVars, carnetVars>>
        \/ service = "avertissements" /\ AvertissementsNext /\ UNCHANGED <<comptesVars, colisVars, carnetVars>>
        \/ service = "carnet" /\ CarnetNext /\ UNCHANGED <<comptesVars, colisVars, avertissementsVars>>
     /\ UNCHANGED <<service, boutique_et_catalogue, achats, sessions>>
  \/ /\ \/ service = "boutiques" /\ BoutiquesNext /\ UNCHANGED <<feuillets, passeportVars, rechercheVars>>
        \/ service = "avis" /\ AvisNext /\ UNCHANGED <<passeportVars, rechercheVars>>
        \/ service = "passeport" /\ PasseportNext /\ UNCHANGED <<feuillets, rechercheVars>>
        \/ service = "recherche" /\ RechercheNext /\ UNCHANGED <<boutiquesVars, feuillets, passeportVars>>
     /\ UNCHANGED <<service, comptesEtColis, achats, sessions>>
  \/ /\ \/ service = "checkout" /\ CheckoutNext /\ UNCHANGED <<panierVars, fideliteVars, geniuspayVars, baremesVars>>
        \/ service = "panier" /\ PanierNext /\ UNCHANGED <<checkoutVars, fideliteVars, geniuspayVars, baremesVars>>
        \/ service = "fidelite" /\ FideliteNext /\ UNCHANGED <<checkoutVars, panierVars, geniuspayVars, baremesVars>>
        \/ service = "geniuspay" /\ GeniuspayNext /\ UNCHANGED <<checkoutVars, panierVars, fideliteVars, baremesVars>>
        \/ service = "baremes" /\ BaremesNext /\ UNCHANGED <<checkoutVars, panierVars, fideliteVars, geniuspayVars>>
     /\ UNCHANGED <<service, comptesEtColis, boutique_et_catalogue, sessions>>
  \/ /\ \/ service = "acces" /\ AccesNext /\ UNCHANGED <<ongletsVars, supportVars, suiviVars, conseillerVars>>
        \/ service = "onglets" /\ OngletsNext /\ UNCHANGED <<accesVars, supportVars, suiviVars, conseillerVars>>
        \/ service = "support" /\ SupportNext /\ UNCHANGED <<accesVars, ongletsVars, suiviVars, conseillerVars>>
        \/ service = "suivi" /\ SuiviNext /\ UNCHANGED <<accesVars, ongletsVars, supportVars, conseillerVars>>
        \/ service = "conseiller" /\ ConseillerNext /\ UNCHANGED <<accesVars, ongletsVars, supportVars, suiviVars>>
     /\ UNCHANGED <<service, comptesEtColis, boutique_et_catalogue, achats>>

ServicesSpec == ServicesInit /\ [][ServicesNext]_ServicesVars

ServicesTypes ==
  /\ ComptesTypes /\ LivraisonTypes /\ BoutiquesTypes /\ AvisTypes /\ PasseportTypes
  /\ AccesTypes /\ OngletsTypes /\ SupportTypes /\ FideliteTypes /\ SuiviTypes /\ GeniuspayTypes
  /\ AvertissementsTypes /\ RechercheTypes /\ CarnetTypes /\ BaremesTypes /\ ConseillerTypes

\* A row that a stale write replaced is followed no further: the README tells what it shows.
SansEcrasement == ~remplace /\ ~rouvert
\* The accounts do not touch each other: one of them moves.
UnSeulCompte == service = "comptes" => compte[k2] = Inscrit /\ profil[k2] = LigneLibre /\ fichiers[k2] = {}
\* No account is closed while the delivery is followed.
ComptesSuivis == comptes_actifs = Livreurs \cup Auditeurs
\* The test event of the provider is sent alone, and a gallery filled while nothing else is written.
EssaiSeul == n3 \in emis => emis = {n3}
GalerieSeule == (\E x \in Produits : galerie[x].images > 0) =>
  fiches = {} /\ inventaire = [x \in Produits |-> InventaireLibre] /\ pages = [q \in Parties |-> PageLibre]
\* Two signals or e-mails wait at most, and a return opens once those of its order are settled.
AvertissementsEtales ==
  /\ Cardinality(signaux_retour) <= 2 /\ Cardinality(courrielsAvis) <= 2
  /\ retour.etape # "aucune" => courrielsAvis = {} /\ ecritureAvis = SansEcriture /\ emailActif
\* A code expires before the sessions are opened, and a connection to Redis breaks during the delivery.
CodesEtales == (\E i \in DOMAIN codes : codes[i].expire) => jetons = <<>>
CoupureEnCours == perdue => course.statut = "en_cours" /\ envoi = {}
\* While an answer of the adviser is being sent, the other request has not read the catalogue.
UneReponse == \A r, autre \in Conseils : conseils[r].etape = "servie" /\ autre # r =>
  conseils[autre].etape \in {"libre", "recue", "verifiee", "admise", "comptee"}
\* One product is hidden at a time.
UnSeulMasque == Cardinality(publics) >= Cardinality(Articles) - 1
\* Once a review is reported the seller does not edit the shop: the two share no row.
SignalementSansPage == (\E a \in Signales : signalant[a] # "non" \/ signalement[a] # "aucun") =>
  pages["vendeur"] = PageLibre
Bornes ==
  /\ SignalementSansPage /\ UnSeulMasque /\ UneReponse /\ CodesEtales /\ CoupureEnCours /\ AvertissementsEtales
  /\ SansEcrasement /\ UnSeulCompte /\ ComptesSuivis /\ EssaiSeul /\ GalerieSeule

\* Two parties of a service, and two couriers, are interchangeable.
Symetrie == Permutations({x1, x2}) \cup Permutations({l1, l2})
===============================================================================
