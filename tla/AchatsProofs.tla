---------------------------- MODULE AchatsProofs ----------------------------
(***************************************************************************)
(* What the steps of a purchase promise, for any number of articles, of    *)
(* payments, of events and of requests that treat them at once.            *)
(***************************************************************************)
EXTENDS Fidelite, Checkout, Panier, Geniuspay, Baremes, Sommes

\* The cart: it is ordered once, and within the stock.

EnCours == [phase : {"calculee"}, lignes : [Variantes -> Nat], vides : Nat]

TypesPanier ==
  /\ enVente \in [Variantes -> BOOLEAN]
  /\ reste \in [Variantes -> Nat] /\ vendus \in [Variantes -> Nat]
  /\ lignes \in [Variantes -> Nat] /\ vides \in Nat
  /\ ajout \in {PasDAjout} \cup [phase : {"lue"}, variante : Variantes, vendable : BOOLEAN, stock : Nat]
  /\ validation \in [Soumissions -> {PasDeValidation} \cup EnCours]
  /\ tenu \subseteq Soumissions

\* The validation in flight holds the lock, alone, and nobody emptied the cart
\* since it read its lines.
SeuleAValider ==
  \A s \in Soumissions : validation[s] # PasDeValidation =>
    /\ tenu = {s} /\ validation[s].vides = vides
    /\ \A v \in ASoi : validation[s].lignes[v] = 0

PanierInv ==
  /\ TypesPanier /\ SeuleAValider
  /\ doublons = 0
  /\ \A v \in Variantes : vendus[v] + reste[v] = StockInitial
  /\ \A v \in ASoi : lignes[v] = 0

-----------------------------------------------------------------------------
\* The lines

LEMMA LignesConserve ==
  ASSUME PanierInv, NEW v \in Variantes,
         \/ \E oui \in BOOLEAN : Vendre(v, oui)
         \/ LireVariante(v) \/ SupprimerLigne(v)
         \/ \E q \in 1..QuantiteMax : ModifierQuantite(v, q)
  PROVE  PanierInv'
<1>1. /\ UNCHANGED <<reste, validation, tenu, vendus, vides, doublons>>
      /\ lignes' \in [Variantes -> Nat] /\ \A w \in ASoi : lignes'[w] = 0
  BY PanierOk DEF Vendre, LireVariante, SupprimerLigne, ModifierQuantite, HausseAcceptee, PanierInv, TypesPanier
<1>2. enVente' \in [Variantes -> BOOLEAN]
      /\ ajout' \in {PasDAjout} \cup [phase : {"lue"}, variante : Variantes, vendable : BOOLEAN, stock : Nat]
  BY DEF Vendre, LireVariante, SupprimerLigne, ModifierQuantite, PanierInv, TypesPanier
<1> QED
  BY <1>1, <1>2 DEF PanierInv, TypesPanier, SeuleAValider

LEMMA AjoutConserve ==
  ASSUME PanierInv, AjouterArticle \/ RefuserAjout
  PROVE  PanierInv'
<1>1. /\ UNCHANGED <<enVente, reste, validation, tenu, vendus, vides, doublons>> /\ ajout' = PasDAjout
  BY DEF AjouterArticle, RefuserAjout
<1>2. lignes' \in [Variantes -> Nat] /\ \A w \in ASoi : lignes'[w] = 0
  <2>1. CASE RefuserAjout
    BY <2>1 DEF RefuserAjout, PanierInv, TypesPanier
  <2>2. CASE AjouterArticle
    <3>1. PICK a \in [phase : {"lue"}, variante : Variantes, vendable : BOOLEAN, stock : Nat] : a = ajout
      BY <2>2 DEF AjouterArticle, PanierInv, TypesPanier
    <3>2. a.variante \in Variantes
      OBVIOUS
    <3>3. PICK q \in 1..QuantiteMax :
            AuPanier(a) /\ lignes' = [lignes EXCEPT ![a.variante] = @ + q]
      BY <2>2, <3>1 DEF AjouterArticle
    <3>4. PICK v \in Variantes : v = a.variante /\ v \notin ASoi /\ lignes' = [lignes EXCEPT ![v] = @ + q]
      BY <3>2, <3>3 DEF AuPanier
    <3> QED
      BY <3>3, <3>4, PanierOk DEF PanierInv, TypesPanier
  <2> QED
    BY <2>1, <2>2
<1> QED
  BY <1>1, <1>2 DEF PanierInv, TypesPanier, SeuleAValider

-----------------------------------------------------------------------------
\* The validation

LEMMA CalculConserve ==
  ASSUME PanierInv, NEW s \in Soumissions, CalculerMontants(s)
  PROVE  PanierInv'
<1>1. /\ validation[s] = PasDeValidation /\ tenu = {} /\ tenu' = {s}
      /\ validation' = [validation EXCEPT ![s] = [phase |-> "calculee", lignes |-> lignes, vides |-> vides]]
      /\ UNCHANGED <<enVente, reste, lignes, ajout, vendus, vides, doublons>>
  BY DEF CalculerMontants, PrendreVerrou
<1>2. PICK c \in EnCours : c = [phase |-> "calculee", lignes |-> lignes, vides |-> vides]
  BY DEF EnCours, PanierInv, TypesPanier
<1>3. /\ c.vides = vides /\ c.lignes = lignes /\ validation' = [validation EXCEPT ![s] = c]
  BY <1>1, <1>2
<1>4. TypesPanier'
  BY <1>1, <1>3 DEF PanierInv, TypesPanier
<1>5. SeuleAValider'
  <2>1. \A t \in Soumissions : validation[t] = PasDeValidation
    BY <1>1 DEF PanierInv, SeuleAValider
  <2> QED
    BY <1>1, <1>3, <2>1 DEF PanierInv, TypesPanier, SeuleAValider
<1> QED
  BY <1>1, <1>4, <1>5 DEF PanierInv

\* The lock goes back with the end of a validation.
LEMMA FinConserve ==
  ASSUME TypesPanier, SeuleAValider, NEW s \in Soumissions, validation[s] # PasDeValidation, FinirValidation(s)
  PROVE  /\ validation' = [t \in Soumissions |-> PasDeValidation]
         /\ tenu' = {}
<1>1. tenu = {s} /\ \A t \in Soumissions \ {s} : validation[t] = PasDeValidation
  BY DEF SeuleAValider
<1> QED
  BY <1>1 DEF FinirValidation, TypesPanier

LEMMA CommandeConserve ==
  ASSUME PanierInv, NEW s \in Soumissions, CreerCommandes(s)
  PROVE  PanierInv'
<1>1. PICK c \in EnCours : c = validation[s] /\ validation[s] # PasDeValidation
  BY DEF CreerCommandes, PanierInv, TypesPanier
<1>2. PICK l \in [Variantes -> Nat] : l = c.lignes
  BY DEF EnCours
<1>3. /\ validation' = [t \in Soumissions |-> PasDeValidation] /\ tenu' = {}
  BY <1>1, FinConserve DEF CreerCommandes, PanierInv
<1>4. \A v \in Variantes : l[v] <= reste[v]
  BY <1>1, <1>2 DEF CreerCommandes, StockSuffit, Commandees, PanierInv, TypesPanier
<1>5. /\ reste' = [v \in Variantes |-> reste[v] - l[v]]
      /\ vendus' = [v \in Variantes |-> vendus[v] + l[v]]
      /\ lignes' = [v \in Variantes |-> 0] /\ vides' = vides + 1 /\ UNCHANGED <<enVente, ajout>>
      /\ doublons' = 0
  BY <1>1, <1>2 DEF CreerCommandes, PanierInv, SeuleAValider
<1>6. TypesPanier'
  BY <1>3, <1>4, <1>5 DEF PanierInv, TypesPanier
<1>7. \A v \in Variantes : vendus'[v] + reste'[v] = StockInitial
  BY <1>5 DEF PanierInv, TypesPanier
<1>8. \A v \in ASoi : lignes'[v] = 0
  BY <1>5, PanierOk
<1> QED
  BY <1>3, <1>5, <1>6, <1>7, <1>8 DEF PanierInv, SeuleAValider

LEMMA AnnulationConserve ==
  ASSUME PanierInv, NEW s \in Soumissions, AnnulerValidation(s)
  PROVE  PanierInv'
<1>1. /\ validation' = [t \in Soumissions |-> PasDeValidation] /\ tenu' = {}
      /\ UNCHANGED <<enVente, reste, lignes, ajout, vendus, vides, doublons>>
  BY FinConserve DEF AnnulerValidation, PanierInv
<1> QED
  BY <1>1 DEF PanierInv, TypesPanier, SeuleAValider

LEMMA VenteConserve ==
  ASSUME PanierInv, NEW v \in Variantes, VendreAilleurs(v)
  PROVE  PanierInv'
<1>1. /\ reste' = [reste EXCEPT ![v] = reste[v] - 1] /\ vendus' = [vendus EXCEPT ![v] = vendus[v] + 1]
      /\ reste[v] > 0 /\ UNCHANGED <<enVente, lignes, ajout, validation, tenu, vides, doublons>>
  BY DEF VendreAilleurs
<1>2. TypesPanier' /\ \A w \in Variantes : vendus'[w] + reste'[w] = StockInitial
  BY <1>1 DEF PanierInv, TypesPanier
<1> QED
  BY <1>1, <1>2 DEF PanierInv, SeuleAValider

-----------------------------------------------------------------------------
\* Theorems

\* The lock of the cart, its lines, the stock and the units sold hold together.
THEOREM Invariance_Panier == PanierSpec => []PanierInv
<1>1. PanierInit => PanierInv
  BY PanierOk DEF PanierInit, PanierInv, TypesPanier, SeuleAValider
<1>2. PanierInv /\ [PanierNext]_panierVars => PanierInv'
  <2> SUFFICES ASSUME PanierInv, [PanierNext]_panierVars PROVE PanierInv'
    OBVIOUS
  <2>1. CASE UNCHANGED panierVars
    BY <2>1 DEF panierVars, PanierInv, TypesPanier, SeuleAValider
  <2>2. CASE PanierNext
    BY <2>2, LignesConserve, AjoutConserve, CalculConserve, CommandeConserve, AnnulationConserve, VenteConserve
    DEF PanierNext
  <2> QED
    BY <2>1, <2>2
<1> QED
  BY <1>1, <1>2, PTL DEF PanierSpec

\* A cart is ordered once whatever is clicked twice or retried, the orders stay
\* within the stock, and nobody orders from himself: ValiderPanierView,
\* ajouter_article and modifier_quantite in any order.  The stock is never negative because
\* the quantity is judged again under its lock (StockSuffit).
THEOREM Panier_Commande_Une_Fois == PanierSpec => []PanierCommandeUneFois
<1>1. PanierInv => PanierCommandeUneFois
  BY DEF PanierInv, TypesPanier, SeuleAValider, PanierCommandeUneFois
<1> QED
  BY <1>1, Invariance_Panier, PTL

-----------------------------------------------------------------------------
\* The events of GeniusPay: what their journal promises of the payments.

\* GeniusPay collected the amount due on a transaction that names the payment.
Encaisse(p) ==
    /\ transactionG[p].status \in {"completed", "refunded"}
    /\ transactionG[p].amount = "du" /\ transactionG[p].metadata

\* What was read of a final transaction stays true: success and failure are final.
LuEstVrai(p, etat) ==
    /\ etat = "succes" => Encaisse(p)
    /\ etat = "echec" => transactionG[p].status = "failed"

\* Nothing is left to apply to the payment.
Tranche(p) ==
    \/ paiementG[p].statut = "valide"
    \/ paiementG[p].statut # "en_attente" /\ transactionG[p].status = "failed"

TypesLus ==
    /\ paiementG \in [Encaissements -> Paiement]
    /\ transactionG \in [Encaissements -> TransactionGeniuspay]
    /\ journal \in [Evenements -> StatutTraitement]
    /\ traitement \in [Traitements -> Requete]
    /\ reconcilie \in [Encaissements -> EtatsLus]

LecturesVraies ==
    /\ \A t \in Traitements : traitement[t].etape = "verifie" =>
          LuEstVrai(Annonce[traitement[t].evt], traitement[t].etat)
    /\ \A p \in Encaissements : LuEstVrai(p, reconcilie[p])

EffetsAvantJournal ==
    /\ \A t \in Traitements : traitement[t].etape = "applique" => Tranche(Annonce[traitement[t].evt])
    /\ \A e \in Evenements : journal[e] = "traite" => Tranche(Annonce[e])

ValidesEncaisses == \A p \in Encaissements : paiementG[p].statut = "valide" => Encaisse(p)

IInv == TypesLus /\ LecturesVraies /\ EffetsAvantJournal /\ ValidesEncaisses

-----------------------------------------------------------------------------
\* The two sides of a payment

\* What was collected, refused and settled stays so when the payments and the
\* transactions only move as the handlers and GeniusPay move them.
LEMMA Stabilite ==
    ASSUME TypesLus, NEW p \in Encaissements,
           transactionG'[p] = transactionG[p]
             \/ /\ transactionG'[p].amount = transactionG[p].amount
                /\ transactionG'[p].metadata = transactionG[p].metadata
                /\ \/ transactionG[p].status \in {"absente", "pending"}
                   \/ transactionG[p].status = "completed" /\ transactionG'[p].status = "refunded",
           \/ paiementG'[p].statut = paiementG[p].statut
           \/ paiementG'[p].statut = "valide"
           \/ paiementG[p].statut = "en_attente"
    PROVE  /\ Encaisse(p) => Encaisse(p)'
           /\ transactionG[p].status = "failed" => (transactionG[p].status = "failed")'
           /\ Tranche(p) => Tranche(p)'
  BY DEF TypesLus, Encaisse, Tranche, Paiement, TransactionGeniuspay

\* What is read of a transaction is true of it.
LEMMA Lecture ==
    ASSUME NEW p \in Encaissements, TypesLus, Recoupe(p)
    PROVE  LuEstVrai(p, EtatTransaction(p)) /\ EtatTransaction(p) \in EtatsLus
  BY DEF TypesLus, Recoupe, LuEstVrai, Encaisse, EtatTransaction, _statut, EtatsLus, TransactionGeniuspay

\* A true reading is applied to a payment: it becomes validated only if it was
\* collected, and a final reading settles it.
LEMMA Application ==
    ASSUME NEW p \in Encaissements, NEW etat \in EtatsLus, TypesLus, LuEstVrai(p, etat), ValidesEncaisses,
           paiementG' = Applique(p, etat), UNCHANGED transactionG
    PROVE  /\ paiementG' \in [Encaissements -> Paiement]
           /\ ValidesEncaisses'
           /\ etat \in {"succes", "echec"} => Tranche(p)'
           /\ \A q \in Encaissements :
                 \/ paiementG'[q].statut = paiementG[q].statut
                 \/ paiementG'[q].statut = "valide"
                 \/ paiementG[q].statut = "en_attente"
  BY DEF TypesLus, Paiement, Applique, LuEstVrai, ValidesEncaisses, Encaisse, Tranche

\* A step that leaves the requests alone and moves payments and transactions
\* only forward keeps what the requests and the journal know.
LEMMA SavoirStable ==
    ASSUME IInv,
           \A p \in Encaissements :
             /\ Encaisse(p) => Encaisse(p)'
             /\ transactionG[p].status = "failed" => (transactionG[p].status = "failed")'
             /\ Tranche(p) => Tranche(p)',
           UNCHANGED <<journal, traitement>>, TypesLus', ValidesEncaisses',
           \A p \in Encaissements : LuEstVrai(p, reconcilie[p])'
    PROVE  IInv'
  BY GeniuspayAssumption DEF IInv, TypesLus, LecturesVraies, EffetsAvantJournal, LuEstVrai, Requete

-----------------------------------------------------------------------------
\* The steps of a request leave the transactions alone

\* How a request moves to another phase.
LEMMA Phase ==
    ASSUME TypesLus, NEW t \in Traitements, NEW etape \in {"libre", "verifie", "applique"}, NEW etat \in EtatsLus,
           \/ traitement' = [traitement EXCEPT ![t].etape = etape, ![t].etat = etat]
           \/ traitement' = [traitement EXCEPT ![t].etape = etape] /\ etat = traitement[t].etat
    PROVE  /\ traitement' \in [Traitements -> Requete]
           /\ \A u \in Traitements \ {t} : traitement'[u] = traitement[u]
           /\ traitement'[t].etape = etape /\ traitement'[t].etat = etat
           /\ traitement'[t].evt = traitement[t].evt
  BY DEF TypesLus, Requete

LEMMA Liberation ==
    ASSUME TypesLus, NEW t \in Traitements, LibererTraitement(t)
    PROVE  /\ traitement' \in [Traitements -> Requete]
           /\ \A u \in Traitements \ {t} : traitement'[u] = traitement[u]
           /\ traitement'[t].etape = "libre"
<1>1. "rien" \in EtatsLus
  BY DEF EtatsLus
<1> QED
  BY <1>1, Phase DEF LibererTraitement

\* A step that releases a request and writes the journal of one event.
LEMMA LiberationConserve ==
    ASSUME IInv, NEW t \in Traitements, LibererTraitement(t), NEW e \in Evenements, NEW s \in StatutTraitement,
           s = "traite" => Tranche(Annonce[e]),
           UNCHANGED journal \/ journal' = [journal EXCEPT ![e] = s],
           UNCHANGED <<paiementG, transactionG, reconcilie>>
    PROVE  IInv'
<1>1. /\ traitement' \in [Traitements -> Requete]
      /\ \A u \in Traitements \ {t} : traitement'[u] = traitement[u]
      /\ traitement'[t].etape = "libre"
  BY Liberation DEF IInv
<1>2. TypesLus' /\ ValidesEncaisses'
  BY <1>1 DEF IInv, TypesLus, ValidesEncaisses, Encaisse
<1>3. LecturesVraies'
  BY <1>1 DEF IInv, LecturesVraies, LuEstVrai, Encaisse
<1>4. EffetsAvantJournal'
  <2>1. \A f \in Evenements : journal'[f] = "traite" => Tranche(Annonce[f])
    BY DEF IInv, TypesLus, EffetsAvantJournal
  <2>2. \A u \in Traitements : traitement'[u].etape = "applique" => Tranche(Annonce[traitement'[u].evt])
    BY <1>1 DEF IInv, EffetsAvantJournal
  <2> QED
    BY <2>1, <2>2 DEF EffetsAvantJournal, Tranche
<1> QED
  BY <1>2, <1>3, <1>4 DEF IInv

\* Only the request t and the journal of its event move.
LEMMA TraitementConserve ==
    ASSUME IInv, NEW t \in Traitements,
           \/ \E e \in Evenements : LireNotification(t, e)
           \/ VerifierTransaction(t)
           \/ JournaliserTraite(t)
           \/ Mourir(t)
    PROVE  IInv'
<1> USE GeniuspayAssumption
<1>1. CASE \E e \in Evenements : LireNotification(t, e)
  <2>1. PICK e \in Evenements : LireNotification(t, e)
    BY <1>1
  <2>2. UNCHANGED <<paiementG, transactionG, reconcilie>>
    BY <2>1 DEF LireNotification
  <2>3. \/ UNCHANGED <<journal, traitement>>
        \/ /\ journal[e] # "traite" /\ journal' = [journal EXCEPT ![e] = EtatDuJournal(e)]
           /\ traitement' = [traitement EXCEPT ![t] = [etape |-> "ouvert", evt |-> e, etat |-> "rien"]]
    BY <2>1 DEF LireNotification
  <2>4. EtatDuJournal(e) \in StatutTraitement /\ (journal[e] # "traite" => EtatDuJournal(e) # "traite")
    BY DEF EtatDuJournal, IInv, TypesLus, StatutTraitement
  <2>5. [etape |-> "ouvert", evt |-> e, etat |-> "rien"] \in Requete
    BY DEF Requete, EtatsLus
  <2>6. /\ traitement' \in [Traitements -> Requete]
        /\ \A u \in Traitements : traitement'[u] # traitement[u] => traitement'[u].etape = "ouvert"
    BY <2>3, <2>5 DEF IInv, TypesLus
  <2>7. /\ journal' \in [Evenements -> StatutTraitement]
        /\ \A f \in Evenements : journal'[f] = "traite" => journal[f] = "traite"
    BY <2>3, <2>4 DEF IInv, TypesLus
  <2>8. TypesLus' /\ ValidesEncaisses'
    BY <2>2, <2>6, <2>7 DEF IInv, TypesLus, ValidesEncaisses, Encaisse
  <2>9. LecturesVraies'
    BY <2>2, <2>6 DEF IInv, LecturesVraies, LuEstVrai, Encaisse
  <2>10. EffetsAvantJournal'
    BY <2>2, <2>6, <2>7 DEF IInv, EffetsAvantJournal, Tranche
  <2> QED
    BY <2>8, <2>9, <2>10 DEF IInv
<1>2. CASE VerifierTransaction(t)
  <2> DEFINE e == traitement[t].evt
             p == Annonce[e]
  <2>1. e \in Evenements /\ p \in Encaissements
    BY DEF IInv, TypesLus, Requete
  <2>2. UNCHANGED <<paiementG, transactionG, reconcilie>>
    BY <1>2 DEF VerifierTransaction
  <2>3. \/ LibererTraitement(t) /\ journal' = [journal EXCEPT ![e] = "erreur"]
        \/ /\ Recoupe(p) /\ UNCHANGED journal
           /\ traitement' = [traitement EXCEPT ![t].etape = "verifie", ![t].etat = EtatTransaction(p)]
    BY <1>2 DEF VerifierTransaction, _journaliser
  <2>4. CASE LibererTraitement(t) /\ journal' = [journal EXCEPT ![e] = "erreur"]
    <3>1. "erreur" \in StatutTraitement
      BY DEF StatutTraitement
    <3> HIDE DEF e, p
    <3> QED
      BY <2>1, <2>2, <2>4, <3>1, LiberationConserve
  <2>5. CASE /\ Recoupe(p) /\ UNCHANGED journal
             /\ traitement' = [traitement EXCEPT ![t].etape = "verifie", ![t].etat = EtatTransaction(p)]
    <3>1. LuEstVrai(p, EtatTransaction(p)) /\ EtatTransaction(p) \in EtatsLus
      BY <2>1, <2>5, Lecture DEF IInv
    <3> DEFINE lu == EtatTransaction(p)
    <3> HIDE DEF lu
    <3>2. /\ traitement' = [traitement EXCEPT ![t].etape = "verifie", ![t].etat = lu]
          /\ lu \in EtatsLus /\ LuEstVrai(p, lu)
      BY <2>5, <3>1 DEF lu
    <3>3. /\ traitement' \in [Traitements -> Requete]
          /\ \A u \in Traitements \ {t} : traitement'[u] = traitement[u]
          /\ traitement'[t].etape = "verifie" /\ traitement'[t].etat = lu
          /\ traitement'[t].evt = traitement[t].evt
      BY <3>2, Phase DEF IInv
    <3>4. TypesLus' /\ ValidesEncaisses' /\ EffetsAvantJournal'
      BY <2>2, <2>5, <3>3 DEF IInv, TypesLus, ValidesEncaisses, EffetsAvantJournal, Encaisse, Tranche
    <3>5. ASSUME NEW u \in Traitements, traitement'[u].etape = "verifie"
          PROVE  LuEstVrai(Annonce[traitement[u].evt], traitement[u].etat)'
      <4>1. CASE u = t
        BY <2>2, <3>2, <3>3, <4>1 DEF LuEstVrai, Encaisse
      <4>2. CASE u # t
        BY <2>2, <3>3, <3>5, <4>2 DEF IInv, LecturesVraies, LuEstVrai, Encaisse
      <4> QED
        BY <4>1, <4>2
    <3>6. \A q \in Encaissements : LuEstVrai(q, reconcilie[q])'
      BY <2>2 DEF IInv, LecturesVraies, LuEstVrai, Encaisse
    <3> QED
      BY <3>4, <3>5, <3>6 DEF IInv, LecturesVraies
  <2> QED
    BY <2>3, <2>4, <2>5
<1>3. CASE JournaliserTraite(t)
  <2> DEFINE e == traitement[t].evt
  <2>1. e \in Evenements /\ Tranche(Annonce[e]) /\ "traite" \in StatutTraitement
    BY <1>3 DEF IInv, TypesLus, Requete, EffetsAvantJournal, JournaliserTraite, StatutTraitement
  <2>2. /\ LibererTraitement(t) /\ journal' = [journal EXCEPT ![e] = "traite"]
        /\ UNCHANGED <<paiementG, transactionG, reconcilie>>
    BY <1>3 DEF JournaliserTraite, _journaliser
  <2> HIDE DEF e
  <2> QED
    BY <2>1, <2>2, LiberationConserve
<1>4. CASE Mourir(t)
  <2>1. PICK e \in Evenements : TRUE
    OBVIOUS
  <2>2. "recu" \in StatutTraitement
    BY DEF StatutTraitement
  <2> QED
    BY <1>4, <2>1, <2>2, LiberationConserve DEF Mourir
<1> QED
  BY <1>1, <1>2, <1>3, <1>4

\* The application of the state read: effect first, journal later.
LEMMA AppliquerConserve ==
    ASSUME IInv, NEW t \in Traitements, AppliquerEtat(t)
    PROVE  IInv'
<1> USE GeniuspayAssumption
<1>0. PICK e \in Evenements, p \in Encaissements, etat \in EtatsLus :
        e = traitement[t].evt /\ p = Annonce[e] /\ etat = traitement[t].etat
  BY DEF IInv, TypesLus, Requete
<1>1. traitement[t].etape = "verifie" /\ LuEstVrai(p, etat)
  BY <1>0 DEF IInv, LecturesVraies, AppliquerEtat
<1>2. UNCHANGED <<transactionG, reconcilie>>
  BY DEF AppliquerEtat
<1>3. CASE /\ etat \in {"succes", "echec"} /\ paiementG' = Applique(p, etat)
           /\ traitement' = [traitement EXCEPT ![t].etape = "applique"] /\ UNCHANGED journal
  <2>1. /\ paiementG' \in [Encaissements -> Paiement] /\ ValidesEncaisses' /\ Tranche(p)'
        /\ \A q \in Encaissements : \/ paiementG'[q].statut = paiementG[q].statut
                                    \/ paiementG'[q].statut = "valide"
                                    \/ paiementG[q].statut = "en_attente"
    BY <1>1, <1>2, <1>3, Application DEF IInv
  <2>2. \A q \in Encaissements : Tranche(q) => Tranche(q)'
    BY <1>2, <2>1, Stabilite DEF IInv
  <2>3. /\ traitement' \in [Traitements -> Requete]
        /\ \A u \in Traitements \ {t} : traitement'[u] = traitement[u]
        /\ traitement'[t].etape = "applique" /\ traitement'[t].evt = e /\ Annonce[e] = p
    BY <1>0, <1>3, Phase DEF IInv
  <2>4. TypesLus'
    BY <1>2, <1>3, <2>1, <2>3 DEF IInv, TypesLus
  <2>5. LecturesVraies'
    BY <1>2, <2>3 DEF IInv, LecturesVraies, LuEstVrai, Encaisse
  <2>6. EffetsAvantJournal'
    <3>1. ASSUME NEW u \in Traitements, traitement'[u].etape = "applique"
          PROVE  Tranche(Annonce[traitement[u].evt])'
      <4>1. CASE u = t
        BY <2>1, <2>3, <4>1 DEF Tranche
      <4>2. CASE u # t
        <5>1. /\ traitement'[u] = traitement[u] /\ traitement[u].evt \in Evenements
              /\ Tranche(Annonce[traitement[u].evt])
          BY <2>3, <3>1, <4>2 DEF IInv, TypesLus, Requete, EffetsAvantJournal
        <5>2. Annonce[traitement[u].evt] \in Encaissements
          BY <5>1
        <5> QED
          BY <2>2, <5>1, <5>2 DEF Tranche
      <4> QED
        BY <4>1, <4>2
    <3>2. ASSUME NEW f \in Evenements, journal'[f] = "traite"
          PROVE  Tranche(Annonce[f])'
      BY <1>3, <2>2, <3>2 DEF IInv, EffetsAvantJournal, Tranche
    <3> QED
      BY <3>1, <3>2 DEF EffetsAvantJournal, Tranche
  <2> QED
    BY <2>1, <2>4, <2>5, <2>6 DEF IInv
<1>4. CASE /\ LibererTraitement(t) /\ UNCHANGED paiementG
           /\ \/ journal' = [journal EXCEPT ![e] = "ignore"]
              \/ journal' = [journal EXCEPT ![e] = "erreur"]
              \/ paiementG[p].statut = "valide" /\ journal' = [journal EXCEPT ![e] = "traite"]
  <2>1. {"ignore", "erreur", "traite"} \subseteq StatutTraitement
    BY DEF StatutTraitement
  <2>2. paiementG[p].statut = "valide" => Tranche(p)
    BY DEF Tranche
  <2> QED
    BY <1>2, <1>4, <2>1, <2>2, <1>0, LiberationConserve
<1> QED
  BY <1>0, <1>3, <1>4 DEF AppliquerEtat, _journaliser

-----------------------------------------------------------------------------
\* The other steps leave the requests alone

\* Opening, abandonment, GeniusPay and the reconciliation.
LEMMA AilleursConserve ==
    ASSUME IInv, NEW p \in Encaissements,
           AppelInitier(p) \/ AnnulerPaiement(p) \/ Geniuspay(p) \/ ReconcilierLire(p) \/ ReconcilierAppliquer(p)
    PROVE  IInv'
<1> USE GeniuspayAssumption
<1>1. CASE AppelInitier(p) \/ AnnulerPaiement(p) \/ Geniuspay(p)
  <2>0. UNCHANGED <<journal, traitement, reconcilie>>
    BY <1>1 DEF AppelInitier, AnnulerPaiement, Geniuspay
  <2>1. /\ TypesLus'
        /\ \A q \in Encaissements \ {p} : paiementG'[q] = paiementG[q] /\ transactionG'[q] = transactionG[q]
        /\ \/ transactionG'[p] = transactionG[p]
           \/ /\ transactionG'[p].amount = transactionG[p].amount
              /\ transactionG'[p].metadata = transactionG[p].metadata
              /\ \/ transactionG[p].status \in {"absente", "pending"}
                 \/ transactionG[p].status = "completed" /\ transactionG'[p].status = "refunded"
        /\ \/ paiementG'[p].statut = paiementG[p].statut
           \/ paiementG[p].statut = "en_attente" /\ paiementG'[p].statut # "valide"
    <3>1. CASE AppelInitier(p)
      <4>1. \/ paiementG' = [paiementG EXCEPT ![p].initie = TRUE]
            \/ paiementG' = [paiementG EXCEPT ![p].statut = "echoue"]
        BY <3>1 DEF AppelInitier
      <4>2. UNCHANGED transactionG \/ transactionG' = [transactionG EXCEPT ![p].status = "pending"]
        BY <3>1 DEF AppelInitier
      <4>3. paiementG[p].statut = "en_attente" /\ transactionG[p].status = "absente"
        BY <3>1 DEF AppelInitier
      <4>4. /\ paiementG' \in [Encaissements -> Paiement] /\ paiementG'[p].statut # "valide"
            /\ \A q \in Encaissements \ {p} : paiementG'[q] = paiementG[q]
        <5>1. CASE paiementG' = [paiementG EXCEPT ![p].initie = TRUE]
          <6>1. PICK initie \in BOOLEAN : initie = TRUE
            OBVIOUS
          <6>2. paiementG' = [paiementG EXCEPT ![p].initie = initie]
            BY <5>1, <6>1
          <6> QED
            BY <4>3, <6>2 DEF IInv, TypesLus, Paiement
        <5>2. CASE paiementG' = [paiementG EXCEPT ![p].statut = "echoue"]
          BY <4>3, <5>2 DEF IInv, TypesLus, Paiement
        <5> QED
          BY <4>1, <5>1, <5>2
      <4>5. /\ transactionG' \in [Encaissements -> TransactionGeniuspay]
            /\ \A q \in Encaissements \ {p} : transactionG'[q] = transactionG[q]
            /\ transactionG'[p].amount = transactionG[p].amount
            /\ transactionG'[p].metadata = transactionG[p].metadata
        BY <4>2 DEF IInv, TypesLus, TransactionGeniuspay
      <4> QED
        BY <2>0, <4>3, <4>4, <4>5 DEF IInv, TypesLus
    <3>2. CASE AnnulerPaiement(p)
      BY <2>0, <3>2 DEF IInv, TypesLus, AnnulerPaiement, Paiement, TransactionGeniuspay
    <3>3. CASE Geniuspay(p)
      <4>1. PICK s \in {"completed", "failed", "refunded"} :
              /\ transactionG[p].status = IF s = "refunded" THEN "completed" ELSE "pending"
              /\ transactionG' = [transactionG EXCEPT ![p].status = s]
        BY <3>3 DEF Geniuspay
      <4> QED
        BY ZenonT(40), <2>0, <3>3, <4>1 DEF IInv, TypesLus, Geniuspay, Paiement, TransactionGeniuspay
    <3> QED
      BY <1>1, <3>1, <3>2, <3>3
  <2>2. \A q \in Encaissements :
          /\ Encaisse(q) => Encaisse(q)'
          /\ transactionG[q].status = "failed" => (transactionG[q].status = "failed")'
          /\ Tranche(q) => Tranche(q)'
    BY <2>1, Stabilite DEF IInv
  <2>3. ValidesEncaisses'
    <3>1. \A q \in Encaissements : paiementG'[q].statut = "valide" => paiementG[q].statut = "valide"
      BY <2>1
    <3> QED
      BY <2>2, <3>1 DEF IInv, ValidesEncaisses, Encaisse
  <2>4. \A q \in Encaissements : LuEstVrai(q, reconcilie[q])'
    BY <2>0, <2>2 DEF IInv, LecturesVraies, LuEstVrai, Encaisse
  <2> QED
    BY <2>0, <2>1, <2>2, <2>3, <2>4, SavoirStable
<1>2. CASE ReconcilierLire(p)
  <2>1. LuEstVrai(p, EtatTransaction(p)) /\ EtatTransaction(p) \in EtatsLus
    BY <1>2, Lecture DEF IInv, ReconcilierLire
  <2> DEFINE lu == EtatTransaction(p)
  <2>2. reconcilie' = [reconcilie EXCEPT ![p] = lu] /\ UNCHANGED <<paiementG, transactionG, journal, traitement>>
    BY <1>2 DEF ReconcilierLire
  <2> HIDE DEF lu
  <2>3. lu \in EtatsLus /\ LuEstVrai(p, lu)
    BY <2>1 DEF lu
  <2> QED
    BY <2>2, <2>3
    DEF IInv, TypesLus, LecturesVraies, EffetsAvantJournal, ValidesEncaisses, LuEstVrai, Encaisse, Tranche
<1>3. CASE ReconcilierAppliquer(p)
  <2> DEFINE etat == reconcilie[p]
  <2>0. /\ etat \in EtatsLus /\ LuEstVrai(p, etat) /\ paiementG' = Applique(p, etat)
        /\ UNCHANGED <<transactionG, journal, traitement>>
        /\ reconcilie' = [reconcilie EXCEPT ![p] = "rien"]
    BY <1>3 DEF ReconcilierAppliquer, IInv, TypesLus, LecturesVraies
  <2>1. /\ paiementG' \in [Encaissements -> Paiement] /\ ValidesEncaisses'
        /\ \A q \in Encaissements : \/ paiementG'[q].statut = paiementG[q].statut
                                    \/ paiementG'[q].statut = "valide"
                                    \/ paiementG[q].statut = "en_attente"
    BY <2>0, Application DEF IInv
  <2>2. \A q \in Encaissements :
          /\ Encaisse(q) => Encaisse(q)'
          /\ transactionG[q].status = "failed" => (transactionG[q].status = "failed")'
          /\ Tranche(q) => Tranche(q)'
    BY <2>0, <2>1, Stabilite DEF IInv
  <2>3. TypesLus'
    BY <2>0, <2>1 DEF IInv, TypesLus, EtatsLus
  <2>4. \A q \in Encaissements : LuEstVrai(q, reconcilie[q])'
    BY <2>0, <2>2 DEF IInv, TypesLus, LecturesVraies, LuEstVrai, Encaisse
  <2> QED
    BY <2>0, <2>1, <2>2, <2>3, <2>4, SavoirStable
<1> QED
  BY <1>1, <1>2, <1>3

-----------------------------------------------------------------------------
\* Theorems

\* The inductive invariant holds in every state.
THEOREM Invariance == GeniuspaySpec => []IInv
<1> USE GeniuspayAssumption
<1>1. GeniuspayInit => IInv
  BY DEF GeniuspayInit, IInv, TypesLus, LecturesVraies, EffetsAvantJournal, ValidesEncaisses, LuEstVrai,
         Paiement, TransactionGeniuspay, StatutTraitement, Requete, EtatsLus
<1>2. IInv /\ [GeniuspayNext]_geniuspayVars => IInv'
  <2> SUFFICES ASSUME IInv, [GeniuspayNext]_geniuspayVars PROVE IInv'
    OBVIOUS
  <2>1. CASE UNCHANGED geniuspayVars
    BY <2>1 DEF geniuspayVars, IInv, TypesLus, LecturesVraies, EffetsAvantJournal, ValidesEncaisses, LuEstVrai,
                Encaisse, Tranche
  <2>2. ASSUME NEW e \in Evenements, EmettreEvenement(e) PROVE IInv'
    BY <2>2 DEF EmettreEvenement, IInv, TypesLus, LecturesVraies, EffetsAvantJournal, ValidesEncaisses,
                LuEstVrai, Encaisse, Tranche
  <2> QED
    BY <2>1, <2>2, TraitementConserve, AppliquerConserve, AilleursConserve DEF GeniuspayNext
<1> QED
  BY <1>1, <1>2, PTL DEF GeniuspaySpec

\* An event is recorded as treated only once its payment is settled, and a
\* payment is validated only if GeniusPay collected it: initier_paiement,
\* WebhookPaiementView and reconcilier_paiement together.
THEOREM Evenement_Traite == GeniuspaySpec => []EvenementTraite
<1>1. IInv => EvenementTraite
  BY GeniuspayAssumption
  DEF IInv, TypesLus, EffetsAvantJournal, ValidesEncaisses, Tranche, Encaisse, EvenementTraite
<1> QED
  BY <1>1, Invariance, PTL

-----------------------------------------------------------------------------
\* Fee schedules: what was in force at the instant of a sale stays so, because a row that
\* is saved, however stale, tells that instant what the row of the table tells it.

\* What the sales of instant t see of a row: nothing, or the shop, the beginning and the rate.
Vue(ligne, t) ==
  IF /\ ligne # SansGrille /\ ligne.debut # SansDate /\ ligne.debut <= t
     /\ ligne.fin = Ouverte \/ ligne.fin > t
  THEN [pour |-> ligne.pour, debut |-> ligne.debut, tarif |-> ligne.tarif]
  ELSE SansGrille

RequeteEnCours ==
  [etape : {"lue", "validee", "a_supprimer"}, g : Grilles, ligne : LigneGrille]

TypesBaremes ==
  /\ grilles \in [Grilles -> LigneGrille \cup {SansGrille}]
  /\ \A g \in Grilles : grilles[g] # SansGrille => grilles[g].debut # SansDate
  /\ reglages \in [Reglages -> RequeteEnCours \cup {SansReglage}]
  /\ instant \in 1..InstantsMax

VenteJuste(v) ==
  /\ v.ligne \in LignesVendues /\ v.moment \in Nat /\ v.moment < instant
  /\ v.frais.commission \in Nat
  /\ v.frais \in FraisPossibles(v.ligne, v.moment)

\* What request m will save, or delete, changes nothing for the sales of instant t.
RequeteFidele(m, t) ==
  reglages[m] # SansReglage =>
    /\ Vue(reglages[m].ligne, t) = Vue(grilles[reglages[m].g], t)
    /\ reglages[m].etape = "a_supprimer" => Vue(reglages[m].ligne, t) = SansGrille

BaremesInv ==
  /\ TypesBaremes
  /\ \A v \in facturees : VenteJuste(v) /\ \A m \in Reglages : RequeteFidele(m, v.moment)

\* Rounded to the franc: at most half a franc from the exact amount.
LEMMA Arrondi ==
  ASSUME NEW a \in Nat, NEW b \in Nat \ {0}
  PROVE  /\ AuFranc(a, b) \in Nat
         /\ 2 * (b * AuFranc(a, b)) <= 2 * a + b /\ 2 * a + b < 2 * (b * AuFranc(a, b)) + 2 * b
<1>1. PICK x \in Nat : x = 2 * a + b
  OBVIOUS
<1>2. PICK y \in Nat : y = 2 * b /\ y > 0
  OBVIOUS
<1>3. PICK q : q = x \div y
  OBVIOUS
<1>4. q \in Nat /\ y * q <= x /\ x < y * q + y
  BY <1>2, <1>3
<1>5. y * q = 2 * (b * q) /\ b * q \in Nat
  BY <1>2, <1>4
<1> QED
  BY <1>1, <1>2, <1>3, <1>4, <1>5 DEF AuFranc

LEMMA Simplifiable ==
  ASSUME NEW b \in Nat \ {0}, NEW x \in Int, NEW k \in Int, b * x < b * k
  PROVE  x < k
OBVIOUS

\* The whole line: the commission given back is the one that was taken.
LEMMA ArrondiEntier ==
  ASSUME NEW c \in Nat, NEW q \in Nat \ {0}
  PROVE  AuFranc(c * q, q) = c
<1>1. PICK a \in Nat : a = c * q
  OBVIOUS
<1>2. PICK r : r = AuFranc(a, q)
  OBVIOUS
<1>3. r \in Nat /\ 2 * (q * r) <= 2 * a + q /\ 2 * a + q < 2 * (q * r) + 2 * q
  BY <1>2, Arrondi
<1>4. q * r < q * (c + 1)
  <2>1. q * (c + 1) = a + q
    BY <1>1
  <2>2. q * r \in Nat
    BY <1>3
  <2> QED
    BY <1>3, <2>1, <2>2
<1>5. q * c < q * (r + 1)
  <2>1. q * (r + 1) = q * r + q /\ q * c = a
    BY <1>1, <1>3
  <2>2. q * r \in Nat
    BY <1>3
  <2> QED
    BY <1>3, <2>1, <2>2
<1>6. r < c + 1 /\ c < r + 1
  BY <1>3, <1>4, <1>5, Simplifiable
<1> QED
  BY <1>1, <1>2, <1>3, <1>6

\* In two parts: a franc more or less.
LEMMA ArrondiParParts ==
  ASSUME NEW c \in Nat, NEW q \in Nat \ {0}, NEW n \in Nat, NEW p \in Nat
  PROVE  AuFranc(c * n, q) + AuFranc(c * p, q) - AuFranc(c * (n + p), q) \in -1..1
<1>1. PICK a \in Nat : a = c * n
  OBVIOUS
<1>2. PICK b \in Nat : b = c * p
  OBVIOUS
<1>3. c * (n + p) = a + b /\ a + b \in Nat
  BY <1>1, <1>2
<1>4. PICK x : x = AuFranc(a, q)
  OBVIOUS
<1>5. PICK y : y = AuFranc(b, q)
  OBVIOUS
<1>6. PICK z : z = AuFranc(a + b, q)
  OBVIOUS
<1>7. x \in Nat /\ 2 * (q * x) <= 2 * a + q /\ 2 * a + q < 2 * (q * x) + 2 * q
  BY <1>4, Arrondi
<1>8. y \in Nat /\ 2 * (q * y) <= 2 * b + q /\ 2 * b + q < 2 * (q * y) + 2 * q
  BY <1>5, Arrondi
<1>9. z \in Nat /\ 2 * (q * z) <= 2 * (a + b) + q /\ 2 * (a + b) + q < 2 * (q * z) + 2 * q
  BY <1>3, <1>6, Arrondi
<1>10. PICK d \in Int : d = x + y - z
  BY <1>7, <1>8, <1>9
<1>11. q * d = q * x + q * y - q * z /\ q * x \in Nat /\ q * y \in Nat /\ q * z \in Nat
  BY <1>7, <1>8, <1>9, <1>10
<1>12. q * d < q * 2 /\ q * (-2) < q * d
  <2>1. q * 2 = 2 * q /\ q * (-2) = -(2 * q)
    OBVIOUS
  <2> QED
    BY <1>7, <1>8, <1>9, <1>11, <2>1
<1>13. d < 2 /\ -2 < d
  BY <1>10, <1>12, Simplifiable
<1> QED
  BY <1>1, <1>2, <1>3, <1>4, <1>5, <1>6, <1>10, <1>13

\* bareme_en_vigueur reads no more than the views.
LEMMA VueSuffit ==
  ASSUME NEW r \in LigneGrille \cup {SansGrille}, r # SansGrille => r.debut # SansDate,
         NEW t \in Nat, NEW pour \in {"plateforme", "boutique"}
  PROVE  (r.pour = pour /\ r.debut <= t /\ (r.fin = Ouverte \/ r.fin > t)) <=>
           (Vue(r, t) # SansGrille /\ Vue(r, t).pour = pour)
<1>1. CASE r = SansGrille
  <2>1. r.pour = "aucune"
    BY <1>1 DEF SansGrille
  <2>2. Vue(r, t) = SansGrille
    BY <1>1 DEF Vue
  <2> QED
    BY <2>1, <2>2
<1>2. CASE r # SansGrille
  <2>1. r \in LigneGrille /\ r.debut # SansDate
    BY <1>2
  <2>2. [pour |-> r.pour, debut |-> r.debut, tarif |-> r.tarif] # SansGrille
    BY DEF SansGrille
  <2>3. CASE r.debut <= t /\ (r.fin = Ouverte \/ r.fin > t)
    BY <1>2, <2>1, <2>2, <2>3 DEF Vue
  <2>4. CASE ~(r.debut <= t /\ (r.fin = Ouverte \/ r.fin > t))
    BY <2>4 DEF Vue
  <2> QED
    BY <2>3, <2>4
<1> QED
  BY <1>1, <1>2

LEMMA VueLue ==
  ASSUME NEW r, NEW t, Vue(r, t) # SansGrille
  PROVE  Vue(r, t).pour = r.pour /\ Vue(r, t).debut = r.debut /\ Vue(r, t).tarif = r.tarif
BY DEF Vue

LEMMA VigueurGardee ==
  ASSUME TypesBaremes, TypesBaremes', NEW t \in Nat, NEW l,
         \A g \in Grilles : Vue(grilles'[g], t) = Vue(grilles[g], t)
  PROVE  FraisPossibles(l, t)' = FraisPossibles(l, t)
<1>1. ASSUME NEW pour \in {"plateforme", "boutique"}
      PROVE  CommenceesPour(pour, t)' = CommenceesPour(pour, t)
  <2>1. ASSUME NEW g \in Grilles
        PROVE  g \in CommenceesPour(pour, t) <=>
                 Vue(grilles[g], t) # SansGrille /\ Vue(grilles[g], t).pour = pour
    <3>1. PICK r \in LigneGrille \cup {SansGrille} : r = grilles[g]
      BY DEF TypesBaremes
    <3>2. r # SansGrille => r.debut # SansDate
      BY <3>1 DEF TypesBaremes
    <3> QED
      BY <3>1, <3>2, VueSuffit DEF CommenceesPour
  <2>2. ASSUME NEW g \in Grilles
        PROVE  g \in CommenceesPour(pour, t)' <=>
                 Vue(grilles'[g], t) # SansGrille /\ Vue(grilles'[g], t).pour = pour
    <3>1. PICK r \in LigneGrille \cup {SansGrille} : r = grilles'[g]
      BY DEF TypesBaremes
    <3>2. r # SansGrille => r.debut # SansDate
      BY <3>1 DEF TypesBaremes
    <3> QED
      BY <3>1, <3>2, VueSuffit DEF CommenceesPour
  <2>3. CommenceesPour(pour, t) \subseteq Grilles /\ CommenceesPour(pour, t)' \subseteq Grilles
    BY DEF CommenceesPour
  <2> QED
    BY <2>1, <2>2, <2>3
<1>2. ASSUME NEW pour \in {"plateforme", "boutique"}, NEW g \in CommenceesPour(pour, t)
      PROVE  grilles'[g].debut = grilles[g].debut /\ grilles'[g].tarif = grilles[g].tarif
  <2>1. g \in Grilles /\ Vue(grilles[g], t) # SansGrille
    <3>1. g \in Grilles
      BY <1>2 DEF CommenceesPour
    <3>2. PICK r \in LigneGrille \cup {SansGrille} : r = grilles[g]
      BY <3>1 DEF TypesBaremes
    <3>3. r # SansGrille => r.debut # SansDate
      BY <3>1, <3>2 DEF TypesBaremes
    <3> QED
      BY <1>2, <3>1, <3>2, <3>3, VueSuffit DEF CommenceesPour
  <2>2. Vue(grilles'[g], t) = Vue(grilles[g], t)
    BY <2>1
  <2> QED
    BY <2>1, <2>2, VueLue
<1>3. PICK propres : propres = CommenceesPour("boutique", t)
  OBVIOUS
<1>4. PICK partagees : partagees = CommenceesPour("plateforme", t)
  OBVIOUS
<1>5. PICK celles : celles = IF propres # {} THEN propres ELSE partagees
  OBVIOUS
<1>6. EnVigueur(t) = {g \in celles : \A h \in celles : grilles[h].debut <= grilles[g].debut}
  BY <1>3, <1>4, <1>5 DEF EnVigueur
<1>7. EnVigueur(t)' = {g \in celles : \A h \in celles : grilles'[h].debut <= grilles'[g].debut}
  BY <1>1, <1>3, <1>4, <1>5 DEF EnVigueur
<1>8. \A g \in celles : grilles'[g].debut = grilles[g].debut /\ grilles'[g].tarif = grilles[g].tarif
  BY <1>2, <1>3, <1>4, <1>5
<1>9. EnVigueur(t)' = EnVigueur(t) /\ EnVigueur(t) \subseteq celles
  BY <1>6, <1>7, <1>8
<1>10. FraisPossibles(l, t)' = {FraisDeLigne(l, grilles'[g].tarif) : g \in EnVigueur(t)}
  BY <1>9 DEF FraisPossibles
<1> QED
  BY <1>8, <1>9, <1>10 DEF FraisPossibles

LEMMA FraisNaturels ==
  ASSUME TypesBaremes, NEW l \in LignesVendues, NEW t \in Nat, NEW f \in FraisPossibles(l, t)
  PROVE  f.commission \in Nat
<1>1. PICK g \in EnVigueur(t) : f = FraisDeLigne(l, grilles[g].tarif)
  BY DEF FraisPossibles
<1>2. g \in Grilles /\ grilles[g].pour \in {"plateforme", "boutique"}
  BY <1>1 DEF EnVigueur, CommenceesPour
<1>3. grilles[g] # SansGrille
  <2>1. SansGrille.pour = "aucune"
    BY DEF SansGrille
  <2> QED
    BY <1>2, <2>1
<1>4. PICK b \in Tarifications : b = grilles[g].tarif
  BY <1>2, <1>3 DEF TypesBaremes, LigneGrille
<1>5. b.taux \in Nat /\ l.prix \in Nat /\ l.quantite \in Nat
  BY BaremesOk
<1>6. PICK brut \in Nat : brut = l.prix * l.quantite
  BY <1>5
<1>7. brut * b.taux \in Nat /\ 100 \in Nat \ {0}
  BY <1>5
<1>8. PICK c : c = AuFranc(brut * b.taux, 100)
  OBVIOUS
<1>9. c \in Nat
  BY <1>7, <1>8, Arrondi
<1>10. LeMoindre(c, brut) \in Nat
  BY <1>9 DEF LeMoindre
<1> QED
  BY <1>1, <1>4, <1>6, <1>8, <1>10 DEF FraisDeLigne

LEMMA PasDesBaremes ==
  ASSUME BaremesInv, TypesBaremes', instant' >= instant, UNCHANGED facturees,
         \A v \in facturees : \A g \in Grilles : Vue(grilles'[g], v.moment) = Vue(grilles[g], v.moment),
         \A v \in facturees : \A m \in Reglages :
           \/ reglages'[m] = reglages[m] \/ reglages'[m] = SansReglage
           \/ /\ reglages'[m].g \in Grilles
              /\ Vue(reglages'[m].ligne, v.moment) = Vue(grilles[reglages'[m].g], v.moment)
              /\ reglages'[m].etape = "a_supprimer" => Vue(reglages'[m].ligne, v.moment) = SansGrille
  PROVE  BaremesInv'
<1>1. ASSUME NEW v \in facturees PROVE VenteJuste(v)'
  <2>1. VenteJuste(v) /\ TypesBaremes
    BY DEF BaremesInv
  <2>2. PICK t \in Nat : t = v.moment
    BY <2>1 DEF VenteJuste
  <2>3. t < instant'
    BY <2>1, <2>2 DEF VenteJuste, TypesBaremes
  <2>4. FraisPossibles(v.ligne, t)' = FraisPossibles(v.ligne, t)
    BY <2>1, <2>2, VigueurGardee
  <2> QED
    BY <2>1, <2>2, <2>3, <2>4 DEF VenteJuste
<1>2. ASSUME NEW v \in facturees, NEW m \in Reglages PROVE RequeteFidele(m, v.moment)'
  <2>1. PICK t \in Nat : t = v.moment
    BY DEF BaremesInv, VenteJuste
  <2>2. CASE reglages'[m] = SansReglage
    BY <2>2 DEF RequeteFidele
  <2>3. CASE reglages'[m] = reglages[m] /\ reglages[m] # SansReglage
    <3>1. PICK r \in RequeteEnCours : r = reglages[m] /\ r # SansReglage
      BY <2>3 DEF BaremesInv, TypesBaremes
    <3>2. r.g \in Grilles
      BY <3>1 DEF RequeteEnCours
    <3>3. /\ Vue(r.ligne, t) = Vue(grilles[r.g], t)
          /\ r.etape = "a_supprimer" => Vue(r.ligne, t) = SansGrille
      BY <2>1, <3>1 DEF BaremesInv, RequeteFidele
    <3>4. Vue(grilles'[r.g], t) = Vue(grilles[r.g], t)
      BY <2>1, <3>2
    <3> QED
      BY <2>1, <2>3, <3>1, <3>3, <3>4 DEF RequeteFidele
  <2>4. CASE /\ reglages'[m].g \in Grilles
             /\ Vue(reglages'[m].ligne, t) = Vue(grilles[reglages'[m].g], t)
             /\ reglages'[m].etape = "a_supprimer" => Vue(reglages'[m].ligne, t) = SansGrille
    <3>1. Vue(grilles'[reglages'[m].g], t) = Vue(grilles[reglages'[m].g], t)
      BY <2>1, <2>4
    <3> QED
      BY <2>1, <2>4, <3>1 DEF RequeteFidele
  <2> QED
    BY <2>1, <2>2, <2>3, <2>4
<1> QED
  BY <1>1, <1>2 DEF BaremesInv

\* A row the serializer accepts tells the past what the row that was read tells it.
LEMMA ValideFidele ==
  ASSUME NEW t \in Nat, instant \in 1..InstantsMax, t < instant, NEW ligne \in LigneGrille,
         NEW r \in Valides(ligne)
  PROVE  r \in LigneGrille /\ Vue(r, t) = Vue(ligne, t)
<1>1. \A d \in Envoyees : d \in Dates /\ LePlusTard(d) \in Dates /\ LePlusTard(d) >= instant
  BY BaremesOk DEF Envoyees, LePlusTard, Dates
<1>2. CASE r = ligne
  BY <1>2
<1>3. CASE Commencee(ligne) /\ r # ligne
  <2>1. r \in Clotures(ligne)
    BY <1>3 DEF Valides
  <2>2. PICK d \in Envoyees : r = [ligne EXCEPT !.fin = LePlusTard(d)]
    BY <2>1 DEF Clotures
  <2>3. ligne.fin = Ouverte \/ ligne.fin > instant
    BY <2>1 DEF Clotures
  <2>4. PICK n \in Dates : n = LePlusTard(d) /\ n >= instant
    BY <1>1, <2>2
  <2>5. r = [ligne EXCEPT !.fin = n]
    BY <2>2, <2>4
  <2>6. r \in LigneGrille /\ r.pour = ligne.pour /\ r.debut = ligne.debut /\ r.tarif = ligne.tarif /\ r.fin = n
    BY <2>5 DEF LigneGrille
  <2>7. r # SansGrille /\ ligne # SansGrille
    <3>1. SansGrille.pour = "aucune"
      BY DEF SansGrille
    <3> QED
      BY <2>6, <3>1 DEF LigneGrille
  <2>8. n > t /\ (ligne.fin = Ouverte \/ ligne.fin > t)
    BY <2>3, <2>4 DEF LigneGrille, Dates, Ouverte
  <2> QED
    BY <2>6, <2>7, <2>8 DEF Vue
<1>4. CASE ~Commencee(ligne)
  <2>1. r \in Reprogrammations(ligne)
    BY <1>4 DEF Valides
  <2>2. /\ r \in [pour : {"plateforme", "boutique"}, tarif : Tarifications,
                  debut : {ligne.debut} \cup {DebutRetenu(d) : d \in Envoyees},
                  fin : {ligne.fin, Ouverte} \cup Envoyees]
    BY <2>1 DEF Reprogrammations
  <2>3. r.debut \in Dates \cup {SansDate} /\ (r.debut = ligne.debut \/ r.debut >= instant)
    BY <1>1, <2>2 DEF DebutRetenu, LigneGrille
  <2>4. r.fin \in Dates \cup {Ouverte} /\ r.pour \in {"plateforme", "boutique"} /\ r.tarif \in Tarifications
    BY <1>1, <2>2 DEF LigneGrille
  <2>5. r \in LigneGrille
    <3>1. r = [pour |-> r.pour, tarif |-> r.tarif, debut |-> r.debut, fin |-> r.fin]
      BY <2>2
    <3> QED
      BY <2>3, <2>4, <3>1 DEF LigneGrille
  <2>6. ligne.debut > t
    BY <1>4 DEF Commencee, LigneGrille, Dates, SansDate
  <2>7. r.debut > t
    BY <2>3, <2>6 DEF LigneGrille, Dates, SansDate
  <2>8. ligne.debut \in Nat /\ r.debut \in Nat
    BY <2>3, BaremesOk DEF LigneGrille, Dates, SansDate
  <2> QED
    BY <2>5, <2>6, <2>7, <2>8 DEF Vue
<1> QED
  BY <1>2, <1>3, <1>4

LEMMA RegleType ==
  ASSUME TypesBaremes, NEW m \in Reglages, NEW r \in RequeteEnCours \cup {SansReglage}, Regler(m, r)
  PROVE  /\ reglages' \in [Reglages -> RequeteEnCours \cup {SansReglage}]
         /\ reglages'[m] = r /\ \A k \in Reglages : k # m => reglages'[k] = reglages[k]
BY DEF TypesBaremes, Regler

LEMMA RequeteLue ==
  ASSUME TypesBaremes, NEW m \in Reglages, reglages[m].etape \in {"lue", "validee", "a_supprimer"}
  PROVE  reglages[m] \in RequeteEnCours /\ reglages[m] # SansReglage
BY DEF TypesBaremes, SansReglage

LEMMA TempsJuste ==
  ASSUME TypesBaremes, PrendreInstant
  PROVE  instant' \in 1..InstantsMax /\ instant' >= instant /\ instant' = instant + 1
BY BaremesOk DEF TypesBaremes, PrendreInstant

\* A schedule to come: the sales that were made do not see it.
LEMMA DemandeFidele ==
  ASSUME BaremesInv, NEW m \in Reglages, NEW g \in Grilles, DemanderGrille(m, g)
  PROVE  BaremesInv'
<1>1. TypesBaremes
  BY DEF BaremesInv
<1>2. PICK r \in [pour : {"plateforme", "boutique"}, tarif : Tarifications,
                  debut : {SansDate} \cup {DebutRetenu(d) : d \in Envoyees},
                  fin : {Ouverte} \cup Envoyees] :
        Regler(m, [etape |-> "validee", g |-> g, ligne |-> r])
  BY DEF DemanderGrille
<1>3. \A d \in Envoyees : d \in Dates /\ DebutRetenu(d) \in Dates /\ DebutRetenu(d) >= instant
  BY <1>1, BaremesOk DEF TypesBaremes, Envoyees, LePlusTard, Dates, DebutRetenu
<1>4. /\ r.pour \in {"plateforme", "boutique"} /\ r.tarif \in Tarifications
      /\ r.debut \in Dates \cup {SansDate} /\ r.fin \in Dates \cup {Ouverte}
      /\ r.debut = SansDate \/ r.debut >= instant
      /\ r = [pour |-> r.pour, tarif |-> r.tarif, debut |-> r.debut, fin |-> r.fin]
  BY <1>2, <1>3
<1>5. r \in LigneGrille
  BY <1>4 DEF LigneGrille
<1>6. PICK q : q = [etape |-> "validee", g |-> g, ligne |-> r]
  OBVIOUS
<1>7. q \in RequeteEnCours /\ q.etape = "validee" /\ q.g = g /\ q.ligne = r
  BY <1>5, <1>6 DEF RequeteEnCours
<1>8. /\ reglages' \in [Reglages -> RequeteEnCours \cup {SansReglage}]
      /\ reglages'[m] = q /\ \A k \in Reglages : k # m => reglages'[k] = reglages[k]
  BY <1>1, <1>2, <1>6, <1>7, RegleType
<1>9. instant' \in 1..InstantsMax /\ instant' >= instant /\ UNCHANGED <<grilles, facturees>>
  BY <1>1, TempsJuste DEF DemanderGrille
<1>10. TypesBaremes'
  BY <1>1, <1>8, <1>9 DEF TypesBaremes
<1>11. ASSUME NEW v \in facturees PROVE Vue(r, v.moment) = Vue(grilles[g], v.moment)
  <2>1. v.moment \in Nat /\ v.moment < instant /\ grilles[g] = SansGrille
    BY DEF BaremesInv, VenteJuste, DemanderGrille
  <2>2. Vue(grilles[g], v.moment) = SansGrille
    BY <2>1 DEF Vue
  <2>3. r.debut = SansDate \/ ~(r.debut <= v.moment)
    BY <1>1, <1>4, <2>1 DEF TypesBaremes, Dates
  <2> QED
    BY <2>2, <2>3 DEF Vue
<1> QED
  BY <1>7, <1>8, <1>9, <1>10, <1>11, PasDesBaremes

LEMMA LectureFidele ==
  ASSUME BaremesInv, NEW m \in Reglages, NEW g \in Grilles, LireGrille(m, g)
  PROVE  BaremesInv'
<1>1. TypesBaremes
  BY DEF BaremesInv
<1>2. PICK r \in LigneGrille : r = grilles[g]
  BY <1>1 DEF TypesBaremes, LireGrille
<1>3. PICK q : q = [etape |-> "lue", g |-> g, ligne |-> r]
  OBVIOUS
<1>4. q \in RequeteEnCours /\ q.etape = "lue" /\ q.g = g /\ q.ligne = r
  BY <1>3 DEF RequeteEnCours
<1>5. Regler(m, q) /\ UNCHANGED <<grilles, instant, facturees>>
  BY <1>2, <1>3 DEF LireGrille
<1>6. /\ reglages' \in [Reglages -> RequeteEnCours \cup {SansReglage}]
      /\ reglages'[m] = q /\ \A k \in Reglages : k # m => reglages'[k] = reglages[k]
  BY <1>1, <1>4, <1>5, RegleType
<1>7. TypesBaremes' /\ instant' >= instant
  BY <1>1, <1>5, <1>6 DEF TypesBaremes
<1> QED
  BY <1>2, <1>4, <1>5, <1>6, <1>7, PasDesBaremes

LEMMA ValidationFidele ==
  ASSUME BaremesInv, NEW m \in Reglages,
         ValiderGrille(m) \/ ValiderSuppression(m) \/ RefuserReglage(m)
  PROVE  BaremesInv'
<1>1. TypesBaremes /\ reglages[m].etape = "lue"
  BY DEF BaremesInv, ValiderGrille, ValiderSuppression, RefuserReglage
<1>2. PICK q \in RequeteEnCours : q = reglages[m] /\ q # SansReglage /\ q.etape = "lue"
  BY <1>1, RequeteLue
<1>3. PICK ligne \in LigneGrille : ligne = q.ligne
  BY <1>2 DEF RequeteEnCours
<1>4. q.g \in Grilles
  BY <1>2 DEF RequeteEnCours
<1>5. ASSUME NEW v \in facturees
      PROVE  /\ v.moment \in Nat /\ v.moment < instant
             /\ Vue(ligne, v.moment) = Vue(grilles[q.g], v.moment)
  BY <1>2, <1>3 DEF BaremesInv, VenteJuste, RequeteFidele
<1>6. ASSUME NEW n \in RequeteEnCours \cup {SansReglage}, Regler(m, n),
             instant' \in 1..InstantsMax, instant' >= instant, UNCHANGED <<grilles, facturees>>,
             \/ n = SansReglage
             \/ /\ n.g = q.g
                /\ \A v \in facturees :
                     /\ Vue(n.ligne, v.moment) = Vue(ligne, v.moment)
                     /\ n.etape = "a_supprimer" => Vue(n.ligne, v.moment) = SansGrille
      PROVE  BaremesInv'
  <2>1. /\ reglages' \in [Reglages -> RequeteEnCours \cup {SansReglage}]
        /\ reglages'[m] = n /\ \A k \in Reglages : k # m => reglages'[k] = reglages[k]
    BY <1>1, <1>6, RegleType
  <2>2. TypesBaremes'
    BY <1>1, <1>6, <2>1 DEF TypesBaremes
  <2> QED
    BY <1>4, <1>5, <1>6, <2>1, <2>2, PasDesBaremes
<1>7. CASE ValiderGrille(m)
  <2>1. PICK r \in Valides(ligne) : Regler(m, [q EXCEPT !.etape = "validee", !.ligne = r])
    BY <1>2, <1>3, <1>7 DEF ValiderGrille
  <2>2. instant' \in 1..InstantsMax /\ instant' >= instant /\ UNCHANGED <<grilles, facturees>>
    BY <1>1, <1>7, TempsJuste DEF ValiderGrille
  <2>3. r \in LigneGrille
    <3>1. 0 \in Nat /\ 0 < instant /\ instant \in 1..InstantsMax
      BY <1>1 DEF TypesBaremes
    <3> QED
      BY <2>1, <3>1, ValideFidele
  <2>4. PICK n : n = [q EXCEPT !.etape = "validee", !.ligne = r]
    OBVIOUS
  <2>5. n \in RequeteEnCours /\ n.g = q.g /\ n.ligne = r /\ n.etape = "validee"
    BY <2>3, <2>4 DEF RequeteEnCours
  <2>6. \A v \in facturees : Vue(r, v.moment) = Vue(ligne, v.moment)
    BY <1>1, <1>5, <2>1, ValideFidele DEF TypesBaremes
  <2> QED
    BY <1>6, <2>1, <2>2, <2>4, <2>5, <2>6
<1>8. CASE ValiderSuppression(m)
  <2>1. PICK n : n = [q EXCEPT !.etape = "a_supprimer"]
    OBVIOUS
  <2>2. n \in RequeteEnCours /\ n.g = q.g /\ n.ligne = ligne
    BY <1>3, <2>1 DEF RequeteEnCours
  <2>3. Regler(m, n) /\ UNCHANGED <<grilles, facturees>> /\ ~Commencee(ligne)
    BY <1>2, <1>3, <1>8, <2>1 DEF ValiderSuppression
  <2>4. instant' \in 1..InstantsMax /\ instant' >= instant
    BY <1>1, <1>8, TempsJuste DEF ValiderSuppression
  <2>5. ASSUME NEW v \in facturees PROVE Vue(ligne, v.moment) = SansGrille
    <3>1. ~(ligne.debut <= v.moment)
      BY <1>1, <1>5, <2>3 DEF Commencee, LigneGrille, Dates, SansDate, TypesBaremes
    <3> QED
      BY <3>1 DEF Vue
  <2> QED
    BY <1>6, <2>2, <2>3, <2>4, <2>5
<1>9. CASE RefuserReglage(m)
  BY <1>1, <1>6, <1>9 DEF RefuserReglage, TypesBaremes
<1> QED
  BY <1>7, <1>8, <1>9

LEMMA EcritureFidele ==
  ASSUME BaremesInv, NEW m \in Reglages, EcrireGrille(m) \/ SupprimerGrille(m)
  PROVE  BaremesInv'
<1>1. TypesBaremes /\ reglages[m].etape \in {"lue", "validee", "a_supprimer"}
  BY DEF BaremesInv, EcrireGrille, SupprimerGrille
<1>2. PICK q \in RequeteEnCours : q = reglages[m] /\ q # SansReglage
  BY <1>1, RequeteLue
<1>3. PICK r \in LigneGrille : r = q.ligne
  BY <1>2 DEF RequeteEnCours
<1>4. PICK g \in Grilles : g = q.g
  BY <1>2 DEF RequeteEnCours
<1>5. Regler(m, SansReglage) /\ UNCHANGED <<instant, facturees>>
  BY DEF EcrireGrille, SupprimerGrille
<1>6. /\ reglages' \in [Reglages -> RequeteEnCours \cup {SansReglage}]
      /\ reglages'[m] = SansReglage /\ \A k \in Reglages : k # m => reglages'[k] = reglages[k]
  BY <1>1, <1>5, RegleType
<1>7. ASSUME NEW v \in facturees
      PROVE  /\ v.moment \in Nat /\ v.moment < instant
             /\ Vue(r, v.moment) = Vue(grilles[g], v.moment)
             /\ q.etape = "a_supprimer" => Vue(r, v.moment) = SansGrille
  BY <1>2, <1>3, <1>4 DEF BaremesInv, VenteJuste, RequeteFidele
<1>8. ASSUME NEW n \in LigneGrille \cup {SansGrille}, grilles' = [grilles EXCEPT ![g] = n],
             n # SansGrille => n.debut # SansDate,
             \A v \in facturees : Vue(n, v.moment) = Vue(grilles[g], v.moment)
      PROVE  BaremesInv'
  <2>1. /\ grilles' \in [Grilles -> LigneGrille \cup {SansGrille}]
        /\ \A h \in Grilles : grilles'[h] = IF h = g THEN n ELSE grilles[h]
    BY <1>1, <1>8 DEF TypesBaremes
  <2>2. TypesBaremes'
    BY <1>1, <1>5, <1>6, <1>8, <2>1 DEF TypesBaremes
  <2>3. \A v \in facturees : \A h \in Grilles : Vue(grilles'[h], v.moment) = Vue(grilles[h], v.moment)
    BY <1>8, <2>1
  <2>4. instant' >= instant
    BY <1>1, <1>5 DEF TypesBaremes
  <2> QED
    BY <1>5, <1>6, <2>2, <2>3, <2>4, PasDesBaremes
<1>9. CASE EcrireGrille(m)
  <2>1. PICK ligne : ligne = IF r.debut = SansDate THEN [r EXCEPT !.debut = instant] ELSE r
    OBVIOUS
  <2>2. /\ ligne \in LigneGrille /\ ligne.debut # SansDate
        /\ r.debut = SansDate => ligne.debut = instant
        /\ r.debut # SansDate => ligne = r
    <3>1. instant \in Dates /\ instant # SansDate
      BY <1>1, BaremesOk DEF TypesBaremes, Dates, SansDate
    <3>2. CASE r.debut = SansDate
      <4>1. PICK i \in Dates : i = instant /\ i # SansDate
        BY <3>1
      <4>2. ligne = [r EXCEPT !.debut = i]
        BY <2>1, <3>2, <4>1
      <4> QED
        BY <3>2, <4>1, <4>2 DEF LigneGrille
    <3>3. CASE r.debut # SansDate
      BY <2>1, <3>3
    <3> QED
      BY <3>2, <3>3
  <2>3. \A v \in facturees : Vue(ligne, v.moment) = Vue(grilles[g], v.moment)
    <3> TAKE v \in facturees
    <3>1. PICK t \in Nat : t = v.moment /\ t < instant
      BY <1>7
    <3>2. CASE r.debut = SansDate
      <4>1. ~(ligne.debut <= t)
        BY <1>1, <2>2, <3>1, <3>2 DEF TypesBaremes
      <4>2. Vue(ligne, t) = SansGrille /\ Vue(r, t) = SansGrille
        BY <3>2, <4>1 DEF Vue
      <4> QED
        BY <1>7, <3>1, <4>2
    <3>3. CASE r.debut # SansDate
      BY <1>7, <2>2, <3>3
    <3> QED
      BY <3>2, <3>3
  <2>4. grilles' = IF DatesCoherentes(ligne) THEN [grilles EXCEPT ![g] = ligne] ELSE grilles
    BY <1>2, <1>3, <1>4, <1>9, <2>1 DEF EcrireGrille
  <2>5. CASE grilles' = grilles
    <3>1. TypesBaremes' /\ instant' >= instant
      BY <1>1, <1>5, <1>6, <2>5 DEF TypesBaremes
    <3> QED
      BY <1>5, <1>6, <2>5, <3>1, PasDesBaremes
  <2> QED
    BY <1>8, <2>2, <2>3, <2>4, <2>5
<1>10. CASE SupprimerGrille(m)
  <2>1. grilles' = [grilles EXCEPT ![g] = SansGrille] /\ q.etape = "a_supprimer"
    BY <1>2, <1>4, <1>10 DEF SupprimerGrille
  <2>2. \A v \in facturees : Vue(SansGrille, v.moment) = Vue(grilles[g], v.moment)
    BY <1>7, <2>1 DEF Vue
  <2> QED
    BY <1>8, <2>1, <2>2
<1> QED
  BY <1>9, <1>10

LEMMA VenteFidele ==
  ASSUME BaremesInv, PasserInstant \/ \E l \in LignesVendues : FacturerLigne(l)
  PROVE  BaremesInv'
<1>1. TypesBaremes
  BY DEF BaremesInv
<1>2. /\ UNCHANGED <<grilles, reglages>> /\ instant' = instant + 1
      /\ instant' \in 1..InstantsMax /\ instant' >= instant
  BY <1>1, BaremesOk DEF TypesBaremes, PasserInstant, FacturerLigne
<1>3. TypesBaremes'
  BY <1>1, <1>2 DEF TypesBaremes
<1>4. CASE UNCHANGED facturees
  BY <1>2, <1>3, <1>4, PasDesBaremes
<1>5. ASSUME NEW l \in LignesVendues, NEW f \in FraisPossibles(l, instant),
             \A m \in Reglages : reglages[m] = SansReglage,
             facturees' = facturees \cup {[ligne |-> l, moment |-> instant, frais |-> f]}
      PROVE  BaremesInv'
  <2>1. \A m \in Reglages : reglages'[m] = SansReglage
    BY <1>2, <1>5
  <2>2. ASSUME NEW v \in facturees PROVE VenteJuste(v)'
    <3>1. PICK t \in Nat : t = v.moment /\ t < instant
      BY DEF BaremesInv, VenteJuste
    <3>2. t < instant'
      BY <1>1, <1>2, <3>1 DEF TypesBaremes
    <3>3. FraisPossibles(v.ligne, t)' = FraisPossibles(v.ligne, t)
      BY <1>1, <1>2, <1>3, VigueurGardee
    <3> QED
      BY <3>1, <3>2, <3>3 DEF BaremesInv, VenteJuste
  <2>3. PICK t \in Nat : t = instant
    BY <1>1 DEF TypesBaremes
  <2>4. PICK v : v = [ligne |-> l, moment |-> t, frais |-> f]
    OBVIOUS
  <2>5. VenteJuste(v)'
    <3>1. v.ligne = l /\ v.moment = t /\ v.frais = f /\ t < instant'
      BY <1>2, <2>3, <2>4
    <3>2. f.commission \in Nat
      BY <1>1, <1>5, <2>3, FraisNaturels
    <3>3. FraisPossibles(l, t)' = FraisPossibles(l, t)
      BY <1>1, <1>2, <1>3, VigueurGardee
    <3> QED
      BY <1>5, <2>3, <3>1, <3>2, <3>3 DEF VenteJuste
  <2>6. facturees' = facturees \cup {v}
    BY <1>5, <2>3, <2>4
  <2> QED
    BY <1>3, <2>1, <2>2, <2>5, <2>6 DEF BaremesInv, RequeteFidele
<1> QED
  BY <1>4, <1>5 DEF PasserInstant, FacturerLigne

\* The schedules, whatever requests of the administration overlap and however late they save.
THEOREM Invariance_Baremes == BaremesSpec => []BaremesInv
<1>1. BaremesInit => BaremesInv
  <2> SUFFICES ASSUME BaremesInit PROVE BaremesInv
    OBVIOUS
  <2>1. PICK p : p = Premier
    OBVIOUS
  <2>2. p \in Tarifications
    BY <2>1, BaremesOk DEF Premier
  <2>3. PICK r : r = [pour |-> "plateforme", tarif |-> p, debut |-> 1, fin |-> Ouverte]
    OBVIOUS
  <2>4. r \in LigneGrille /\ r.debut # SansDate
    BY <2>2, <2>3, BaremesOk DEF LigneGrille, Dates, Ouverte, SansDate
  <2>5. PICK g \in Grilles : grilles = [h \in Grilles |-> IF h = g THEN r ELSE SansGrille]
    BY <2>1, <2>3 DEF BaremesInit
  <2>6. TypesBaremes
    BY <2>4, <2>5, BaremesOk DEF BaremesInit, TypesBaremes
  <2> QED
    BY <2>6 DEF BaremesInit, BaremesInv
<1>2. BaremesInv /\ [BaremesNext]_baremesVars => BaremesInv'
  <2> SUFFICES ASSUME BaremesInv, [BaremesNext]_baremesVars PROVE BaremesInv'
    OBVIOUS
  <2>1. CASE UNCHANGED baremesVars
    BY <2>1 DEF baremesVars, BaremesInv, TypesBaremes, VenteJuste, RequeteFidele, FraisPossibles,
                EnVigueur, CommenceesPour
  <2> QED
    BY <2>1, VenteFidele, DemandeFidele, LectureFidele, ValidationFidele, EcritureFidele
       DEF BaremesNext
<1> QED
  BY <1>1, <1>2, PTL DEF BaremesSpec

\* The schedule read afterwards gives the fees of the sale, and parts of a line give the
\* commission back to a franc (bareme_en_vigueur, part_vendeur_retournee).
THEOREM Baremes_Tenus == BaremesSpec => []BaremesTenus
<1>1. BaremesInv => BaremesTenus
  <2> SUFFICES ASSUME BaremesInv, NEW v \in facturees
               PROVE  LET q == v.ligne.quantite IN
                      /\ v.frais \in FraisPossibles(v.ligne, v.moment)
                      /\ PartRetournee(v, q) = v.ligne.prix * q - v.frais.commission
                      /\ \A n, p \in 1..q : n + p <= q =>
                           PartRetournee(v, n) + PartRetournee(v, p) - PartRetournee(v, n + p) \in -1..1
    BY DEF BaremesTenus
  <2>1. v.frais \in FraisPossibles(v.ligne, v.moment)
    BY DEF BaremesInv, VenteJuste
  <2>2. PICK q \in Nat \ {0} : q = v.ligne.quantite
    BY BaremesOk DEF BaremesInv, VenteJuste
  <2>3. PICK x \in Nat : x = v.ligne.prix
    BY BaremesOk DEF BaremesInv, VenteJuste
  <2>4. PICK c \in Nat : c = v.frais.commission
    BY DEF BaremesInv, VenteJuste
  <2>5. \A n : PartRetournee(v, n) = x * n - AuFranc(c * n, q)
    BY <2>2, <2>3, <2>4 DEF PartRetournee
  <2>6. PartRetournee(v, q) = x * q - c
    BY <2>5, ArrondiEntier
  <2>7. ASSUME NEW n \in 1..q, NEW p \in 1..q
        PROVE  PartRetournee(v, n) + PartRetournee(v, p) - PartRetournee(v, n + p) \in -1..1
    <3>1. n \in Nat /\ p \in Nat
      OBVIOUS
    <3>2. PICK a : a = AuFranc(c * n, q)
      OBVIOUS
    <3>3. PICK b : b = AuFranc(c * p, q)
      OBVIOUS
    <3>4. PICK d : d = AuFranc(c * (n + p), q)
      OBVIOUS
    <3>5. a \in Nat /\ b \in Nat /\ d \in Nat
      <4>1. c * n \in Nat /\ c * p \in Nat /\ c * (n + p) \in Nat
        BY <3>1
      <4> QED
        BY <3>2, <3>3, <3>4, <4>1, Arrondi
    <3>6. a + b - d \in -1..1
      BY <3>1, <3>2, <3>3, <3>4, ArrondiParParts
    <3>7. PartRetournee(v, n) = x * n - a /\ PartRetournee(v, p) = x * p - b
            /\ PartRetournee(v, n + p) = x * (n + p) - d
      BY <2>5, <3>2, <3>3, <3>4
    <3>8. x * n \in Nat /\ x * p \in Nat /\ x * (n + p) = x * n + x * p
      BY <3>1
    <3>9. PICK y \in Nat, z \in Nat : y = x * n /\ z = x * p
      BY <3>8
    <3>10. (y - a) + (z - b) - (y + z - d) \in -1..1
      <4>1. a + b - d = -1 \/ a + b - d = 0 \/ a + b - d = 1
        BY <3>5, <3>6
      <4>2. (y - a) + (z - b) - (y + z - d) = d - a - b
        BY <3>5
      <4> QED
        BY <3>5, <4>1, <4>2
    <3>11. PartRetournee(v, n) = y - a /\ PartRetournee(v, p) = z - b
      BY <3>7, <3>9
    <3>12. PartRetournee(v, n + p) = y + z - d
      <4>1. x * (n + p) = y + z
        BY <3>8, <3>9
      <4>2. PICK s : s = x * (n + p)
        OBVIOUS
      <4>3. PartRetournee(v, n + p) = s - d
        BY <3>7, <4>2
      <4>4. s = y + z
        BY <4>1, <4>2
      <4> QED
        BY <3>5, <4>3, <4>4
    <3> QED
      BY <3>10, <3>11, <3>12
  <2> QED
    BY <2>1, <2>2, <2>3, <2>4, <2>6, <2>7
<1> QED
  BY <1>1, Invariance_Baremes, PTL

\* An interval is finite.
LEMMA IntervalleFini == ASSUME NEW n \in Int PROVE IsFiniteSet(1..n)
BY FS_Interval

-----------------------------------------------------------------------------
\* A checkout: the shares of the discount are rounded down, and the last one absorbs what the
\* others left.

\* What rounding leaves adds up: less than c for each term.
LEMMA SommeDesRestes ==
  ASSUME NEW n \in Nat, NEW f, NEW g, NEW b \in Nat, NEW k \in Nat, NEW c \in Nat,
         \A i \in 1..n : f[i] \in Int /\ g[i] \in Int /\ k * f[i] - b * g[i] <= c
  PROVE  k * SumFunctionOnSet(f, 1..n) - b * SumFunctionOnSet(g, 1..n) <= n * c
<1> DEFINE T == {m \in Nat : m <= n => k * SumFunctionOnSet(f, 1..m) - b * SumFunctionOnSet(g, 1..m) <= m * c}
<1>1. 0 \in T
  <2>1. 1..0 = {}
    OBVIOUS
  <2>2. SumFunctionOnSet(f, 1..0) = 0 /\ SumFunctionOnSet(g, 1..0) = 0
    BY <2>1, SommeVide
  <2> QED
    BY <2>2
<1>2. ASSUME NEW m \in Nat, m \in T PROVE m + 1 \in T
  <2> SUFFICES ASSUME m + 1 <= n
               PROVE  k * SumFunctionOnSet(f, 1..(m + 1)) - b * SumFunctionOnSet(g, 1..(m + 1)) <= (m + 1) * c
    OBVIOUS
  <2>1. 1..(m + 1) = (1..m) \cup {m + 1} /\ m + 1 \notin 1..m /\ 1..m \subseteq 1..n /\ m + 1 \in 1..n
    OBVIOUS
  <2>2. IsFiniteSet(1..m)
    BY IntervalleFini
  <2>10. /\ f[m + 1] \in Int /\ g[m + 1] \in Int
         /\ \A i \in 1..m : f[i] \in Int /\ g[i] \in Int
    BY <2>1
  <2>3. /\ SumFunctionOnSet(f, 1..(m + 1)) = SumFunctionOnSet(f, 1..m) + f[m + 1]
        /\ SumFunctionOnSet(g, 1..(m + 1)) = SumFunctionOnSet(g, 1..m) + g[m + 1]
    <3>1. SumFunctionOnSet(f, (1..m) \cup {m + 1}) = SumFunctionOnSet(f, 1..m) + f[m + 1]
      BY <2>1, <2>2, <2>10, SommeAvec
    <3>2. SumFunctionOnSet(g, (1..m) \cup {m + 1}) = SumFunctionOnSet(g, 1..m) + g[m + 1]
      BY <2>1, <2>2, <2>10, SommeAvec
    <3> QED
      BY <2>1, <3>1, <3>2
  <2>4. PICK x, y, u, v : /\ x = SumFunctionOnSet(f, 1..m) /\ y = SumFunctionOnSet(g, 1..m)
                          /\ u = f[m + 1] /\ v = g[m + 1]
    OBVIOUS
  <2>5. x \in Int /\ y \in Int /\ u \in Int /\ v \in Int /\ k * u - b * v <= c
    BY <2>1, <2>2, <2>4, SommeUn
  <2>6. k * x - b * y <= m * c
    BY <1>2, <2>4
  <2>7. k * (x + u) = k * x + k * u /\ b * (y + v) = b * y + b * v /\ (m + 1) * c = m * c + c
    BY <2>5
  <2>8. k * x \in Int /\ k * u \in Int /\ b * y \in Int /\ b * v \in Int /\ m * c \in Int
    BY <2>5
  <2>9. k * (x + u) - b * (y + v) <= (m + 1) * c
    BY <2>5, <2>6, <2>7, <2>8
  <2> QED
    BY <2>3, <2>4, <2>9
<1>3. n \in T
  <2> HIDE DEF T
  <2> QED
    BY <1>1, <1>2, Recurrence
<1> QED
  BY <1>3

\* A sum over 1..n and its last term.
LEMMA SommeDernier ==
  ASSUME NEW n \in Nat \ {0}, NEW f, \A i \in 1..n : f[i] \in Int
  PROVE  /\ SumFunctionOnSet(f, 1..n) = SumFunctionOnSet(f, 1..(n - 1)) + f[n]
         /\ SumFunctionOnSet(f, 1..(n - 1)) \in Int /\ SumFunctionOnSet(f, 1..n) \in Int
<1>1. 1..n = (1..(n - 1)) \cup {n} /\ n \notin 1..(n - 1)
  OBVIOUS
<1>2. IsFiniteSet(1..(n - 1)) /\ IsFiniteSet(1..n)
  BY IntervalleFini
<1>3. f[n] \in Int /\ \A i \in 1..(n - 1) : f[i] \in Int
  BY <1>1
<1>4. SumFunctionOnSet(f, 1..n) = SumFunctionOnSet(f, 1..(n - 1)) + f[n]
  BY <1>1, <1>2, <1>3, SommeAvec
<1> QED
  BY <1>2, <1>3, <1>4, SommeUn

\* A quotient rounded down.
LEMMA QuotientEntier ==
  ASSUME NEW a \in Int, NEW b \in Nat \ {0}
  PROVE  a \div b \in Int /\ b * (a \div b) <= a /\ a - b * (a \div b) <= b - 1
OBVIOUS

\* Products grow with their factors.
LEMMA ProduitCroissant ==
  ASSUME NEW k \in Nat, NEW a \in Nat, NEW b \in Nat, a <= b
  PROVE  k * a <= k * b
OBVIOUS

LEMMA ProduitSimplifie ==
  ASSUME NEW b \in Nat \ {0}, NEW k \in Nat, NEW s \in Nat, NEW p, p <= k * b, b * s <= p, NEW a \in Nat, p = k * a
  PROVE  s <= k
<1>1. p \in Nat
  OBVIOUS
<1>2. CASE s > k
  <2>1. PICK d \in Nat : s = k + 1 + d
    BY <1>2
  <2>2. b * s = b * k + b + b * d
    BY <2>1
  <2>3. b * k = k * b /\ b * k \in Nat /\ b * d \in Nat
    OBVIOUS
  <2> QED
    BY <1>1, <2>2, <2>3
<1> QED
  BY <1>2

\* The shares of the discount.
LEMMA PartsJustes ==
  ASSUME NEW n \in Nat \ {0}, NEW lots \in [1..n -> Montants], NEW remise \in Nat, remise <= Somme(lots)
  PROVE  /\ Len(Parts(remise, lots)) = n /\ DOMAIN Parts(remise, lots) = 1..n
         /\ Somme(Parts(remise, lots)) = remise
         /\ \A i \in 1..n :
              /\ Parts(remise, lots)[i] \in Nat
              /\ Parts(remise, lots)[i] * Somme(lots) - remise * lots[i]
                   \in (0 - Somme(lots))..((n - 1) * Somme(lots))
<1>1. \A i \in 1..n : lots[i] \in Nat \ {0}
  BY CheckoutAssumption
<1>2. Len(lots) = n /\ DOMAIN lots = 1..n
  <2>1. lots \in Seq(Montants)
    OBVIOUS
  <2> QED
    OBVIOUS
<1>3. PICK b : b = Somme(lots)
  OBVIOUS
<1>4. b = SumFunctionOnSet(lots, 1..n)
  BY <1>2, <1>3 DEF Somme, SumFunction
<1>5. PICK a : a = SumFunctionOnSet(lots, 1..(n - 1))
  OBVIOUS
<1>6. b = a + lots[n] /\ a \in Nat /\ b \in Nat \ {0}
  <2>1. \A i \in 1..n : lots[i] \in Int
    BY <1>1
  <2>2. b = a + lots[n]
    BY <1>4, <1>5, <2>1, SommeDernier
  <2>3. a \in Nat
    <3>1. IsFiniteSet(1..(n - 1)) /\ \A i \in 1..(n - 1) : lots[i] \in Nat
      BY <1>1, IntervalleFini
    <3> QED
      BY <1>5, <3>1, SommeNaturelle
  <2>4. lots[n] \in Nat \ {0}
    BY <1>1
  <2> QED
    BY <2>2, <2>3, <2>4
<1>7. PICK avant : avant = [i \in 1..(n - 1) |-> (remise * lots[i]) \div b]
  OBVIOUS
<1>8. ASSUME NEW i \in 1..(n - 1)
      PROVE  /\ avant[i] \in Nat /\ b * avant[i] <= remise * lots[i]
             /\ remise * lots[i] - b * avant[i] <= b
  <2>1. PICK p : p = remise * lots[i]
    OBVIOUS
  <2>2. lots[i] \in Nat
    BY <1>1
  <2>3. p \in Nat
    BY <2>1, <2>2
  <2>4. avant[i] = p \div b
    BY <1>7, <2>1
  <2>5. p \div b \in Int /\ b * (p \div b) <= p /\ p - b * (p \div b) <= b - 1
    <3>1. p \in Int
      BY <2>3
    <3> QED
      BY <1>6, <3>1, QuotientEntier, Zenon
  <2>6. p \div b \in Nat
    BY <1>6, <2>3
  <2> QED
    BY <1>6, <2>1, <2>3, <2>4, <2>5, <2>6
<1>9. PICK s : s = SumFunctionOnSet(avant, 1..(n - 1))
  OBVIOUS
<1>10. IsFiniteSet(1..(n - 1)) /\ \A i \in 1..(n - 1) : avant[i] \in Int /\ lots[i] \in Int
  BY <1>1, <1>8, IntervalleFini
<1>11. s \in Nat /\ b * s <= remise * a /\ remise * a - b * s <= (n - 1) * b
  <2>1. s \in Nat
    BY <1>8, <1>9, <1>10, SommeNaturelle
  <2>2. b * s <= remise * a
    <3>1. \A i \in 1..(n - 1) : b * avant[i] <= remise * lots[i]
      BY <1>8
    <3>2. b \in Nat
      BY <1>6
    <3> QED
      BY <1>5, <1>9, <1>10, <3>1, <3>2, SommeProportion
  <2>3. remise * a - b * s <= (n - 1) * b
    <3>1. \A i \in 1..(n - 1) : remise * lots[i] - b * avant[i] <= b
      BY <1>8
    <3>2. b \in Nat /\ n - 1 \in Nat
      BY <1>6
    <3> QED
      BY <1>5, <1>9, <1>10, <3>1, <3>2, SommeDesRestes
  <2> QED
    BY <2>1, <2>2, <2>3
<1>12. s <= remise
  <2>1. b \in Nat \ {0} /\ a \in Nat /\ a <= b
    <3>1. PICK l : l = lots[n]
      OBVIOUS
    <3>2. l \in Nat
      BY <1>1, <3>1
    <3> QED
      BY <1>6, <3>1, <3>2
  <2>2. remise * a <= remise * b
    BY <2>1, ProduitCroissant
  <2>3. b * s <= remise * a /\ s \in Nat
    BY <1>11
  <2> QED
    BY <2>1, <2>2, <2>3, ProduitSimplifie
<1>13. PICK parts : parts = Parts(remise, lots)
  OBVIOUS
<1>14. /\ Len(parts) = n /\ DOMAIN parts = 1..n
       /\ \A i \in 1..(n - 1) : parts[i] = avant[i]
       /\ parts[n] = remise - s
  <2>1. Somme(avant) = s
    BY <1>7, <1>9 DEF Somme, SumFunction
  <2>2. parts = Append(avant, remise - s)
    BY <1>2, <1>3, <1>7, <1>13, <2>1 DEF Parts, PartAuProrata
  <2>3. avant \in Seq(Int) /\ Len(avant) = n - 1
    <3>1. avant \in [1..(n - 1) -> Int]
      BY <1>7, <1>10
    <3>2. n - 1 \in Nat
      OBVIOUS
    <3> QED
      BY <3>1, <3>2
  <2>4. remise - s \in Int
    BY <1>11
  <2> QED
    BY <2>2, <2>3, <2>4
<1>15. Somme(parts) = remise
  <2>1. \A i \in 1..n : parts[i] \in Int
    BY <1>8, <1>11, <1>14
  <2>2. SumFunctionOnSet(parts, 1..n) = SumFunctionOnSet(parts, 1..(n - 1)) + parts[n]
    BY <2>1, SommeDernier
  <2>3. SumFunctionOnSet(parts, 1..(n - 1)) = s
    BY ZenonT(40), <1>9, <1>10, <1>14, SommeEgale
  <2> QED
    BY <1>11, <1>14, <2>2, <2>3 DEF Somme, SumFunction
<1>16. ASSUME NEW i \in 1..n
       PROVE  parts[i] \in Nat /\ parts[i] * b - remise * lots[i] \in (0 - b)..((n - 1) * b)
  <2>1. CASE i \in 1..(n - 1)
    <3>1. PICK p, q, r : p = avant[i] /\ q = remise * lots[i] /\ r = (n - 1) * b
      OBVIOUS
    <3>2. p \in Nat /\ b * p <= q /\ q - b * p <= b
      BY <1>8, <2>1, <3>1
    <3>3. q \in Int /\ r \in Nat
      <4>1. lots[i] \in Nat /\ n - 1 \in Nat
        BY <1>1
      <4> QED
        BY SMTT(30), <1>6, <3>1, <4>1
    <3>4. p * b = b * p /\ b * p \in Int
      BY <1>6, <3>2
    <3>5. p * b - q \in (0 - b)..r
      BY SMTT(30), <1>6, <3>2, <3>3, <3>4
    <3> QED
      BY <1>14, <2>1, <3>1, <3>2, <3>5
  <2>2. CASE i = n
    <3>1. PICK l : l = lots[n]
      OBVIOUS
    <3>2. l \in Nat /\ b = a + l
      BY <1>1, <1>6, <3>1
    <3>3. PICK p, q, r : p = remise * a /\ q = b * s /\ r = (n - 1) * b
      OBVIOUS
    <3>4. p \in Int /\ q \in Int /\ r \in Int /\ q <= p /\ p - q <= r
      BY SMTT(30), <1>6, <1>11, <3>3
    <3>5. (remise - s) * b = remise * b - s * b
      BY <1>6, <1>11
    <3>6. remise * b = remise * a + remise * l
      BY <1>6, <3>2
    <3>7. (remise - s) * b - remise * l = p - q
      <4>1. s * b = q
        BY <1>6, <1>11, <3>3
      <4>2. PICK u : u = remise * l
        OBVIOUS
      <4>3. u \in Int
        BY <3>2, <4>2
      <4>4. (remise - s) * b = (p + u) - q
        BY <3>3, <3>5, <3>6, <4>1, <4>2
      <4> QED
        BY <3>4, <4>2, <4>3, <4>4
    <3>8. remise - s \in Nat
      BY <1>11, <1>12
    <3>9. p - q \in (0 - b)..r
      BY <1>6, <3>4
    <3> QED
      BY <1>14, <2>2, <3>1, <3>3, <3>7, <3>8, <3>9
  <2> QED
    BY <2>1, <2>2
<1> QED
  BY <1>3, <1>13, <1>14, <1>15, <1>16

\* The sum of one amount, n times.
LEMMA SommeConstante ==
  ASSUME NEW n \in Nat, NEW f, NEW c \in Int, \A i \in 1..n : f[i] = c
  PROVE  SumFunctionOnSet(f, 1..n) = n * c
<1> DEFINE T == {m \in Nat : m <= n => SumFunctionOnSet(f, 1..m) = m * c}
<1>1. 0 \in T
  <2>1. 1..0 = {}
    OBVIOUS
  <2>2. SumFunctionOnSet(f, 1..0) = 0
    BY <2>1, SommeVide
  <2> QED
    BY <2>2
<1>2. ASSUME NEW m \in Nat, m \in T PROVE m + 1 \in T
  <2> SUFFICES ASSUME m + 1 <= n PROVE SumFunctionOnSet(f, 1..(m + 1)) = (m + 1) * c
    OBVIOUS
  <2>1. \A i \in 1..(m + 1) : f[i] \in Int
    OBVIOUS
  <2>2. SumFunctionOnSet(f, 1..(m + 1)) = SumFunctionOnSet(f, 1..m) + f[m + 1]
    <3>1. PICK k \in Nat \ {0} : k = m + 1
      OBVIOUS
    <3>2. SumFunctionOnSet(f, 1..k) = SumFunctionOnSet(f, 1..(k - 1)) + f[k]
      BY <2>1, <3>1, SommeDernier
    <3>3. k - 1 = m
      BY <3>1
    <3> QED
      BY <3>1, <3>2, <3>3
  <2>3. f[m + 1] = c /\ (m + 1) * c = m * c + c
    OBVIOUS
  <2> QED
    BY <1>2, <2>2, <2>3
<1>3. n \in T
  <2> HIDE DEF T
  <2> QED
    BY <1>1, <1>2, Recurrence
<1> QED
  BY <1>3

\* What a client pays for a shop, and what the shop offers, is its articles less its share,
\* plus one tariff.
PrixPayes(n, lots, parts, totaux, vendeurs, tarif) ==
  \A i \in 1..n : /\ lots[i] \in Int /\ parts[i] \in Int /\ totaux[i] \in Int /\ vendeurs[i] \in Int
                  /\ totaux[i] + vendeurs[i] = lots[i] - parts[i] + tarif

LEMMA TotauxJustes ==
  ASSUME NEW n \in Nat, NEW lots, NEW parts, NEW totaux, NEW vendeurs, NEW tarif \in Int,
         PrixPayes(n, lots, parts, totaux, vendeurs, tarif)
  PROVE  SumFunctionOnSet(totaux, 1..n) + SumFunctionOnSet(vendeurs, 1..n)
           = SumFunctionOnSet(lots, 1..n) - SumFunctionOnSet(parts, 1..n) + n * tarif
<1>1. IsFiniteSet(1..n)
  BY IntervalleFini
<1> USE DEF PrixPayes
<1>2. PICK e : e = [i \in 1..n |-> totaux[i] + vendeurs[i]]
  OBVIOUS
<1>3. PICK t : t = [i \in 1..n |-> tarif]
  OBVIOUS
<1>4. PICK h : h = [i \in 1..n |-> lots[i] + t[i]]
  OBVIOUS
<1>5. SumFunctionOnSet(e, 1..n) = SumFunctionOnSet(totaux, 1..n) + SumFunctionOnSet(vendeurs, 1..n)
  <2>1. \A i \in 1..n : totaux[i] \in Int /\ vendeurs[i] \in Int /\ e[i] = totaux[i] + vendeurs[i]
    BY <1>2
  <2> QED
    BY <1>1, <2>1, SommePlus
<1>6. SumFunctionOnSet(h, 1..n) = SumFunctionOnSet(lots, 1..n) + SumFunctionOnSet(t, 1..n)
  <2>1. \A i \in 1..n : lots[i] \in Int /\ t[i] \in Int /\ h[i] = lots[i] + t[i]
    BY <1>3, <1>4
  <2> QED
    BY <1>1, <2>1, SommePlus
<1>7. SumFunctionOnSet(h, 1..n) = SumFunctionOnSet(e, 1..n) + SumFunctionOnSet(parts, 1..n)
  <2>1. \A i \in 1..n : e[i] \in Int /\ parts[i] \in Int /\ h[i] = e[i] + parts[i]
    BY <1>2, <1>3, <1>4
  <2> QED
    BY <1>1, <2>1, SommePlus
<1>8. SumFunctionOnSet(t, 1..n) = n * tarif
  BY <1>3, SommeConstante
<1>9. /\ SumFunctionOnSet(totaux, 1..n) \in Int /\ SumFunctionOnSet(vendeurs, 1..n) \in Int
      /\ SumFunctionOnSet(lots, 1..n) \in Int /\ SumFunctionOnSet(parts, 1..n) \in Int
  BY <1>1, SommeUn
<1>10. PICK x \in Int : x = n * tarif
  OBVIOUS
<1>11. PICK se, sh, st : /\ se = SumFunctionOnSet(e, 1..n) /\ sh = SumFunctionOnSet(h, 1..n)
                         /\ st = SumFunctionOnSet(t, 1..n)
  OBVIOUS
<1>12. PICK a, b, c, d : /\ a = SumFunctionOnSet(totaux, 1..n) /\ b = SumFunctionOnSet(vendeurs, 1..n)
                         /\ c = SumFunctionOnSet(lots, 1..n) /\ d = SumFunctionOnSet(parts, 1..n)
  OBVIOUS
<1>13. se = a + b /\ sh = c + st /\ sh = se + d /\ st = x
  BY <1>5, <1>6, <1>7, <1>8, <1>10, <1>11, <1>12
<1>14. a \in Int /\ b \in Int /\ c \in Int /\ d \in Int
  BY <1>9, <1>12
<1>15. a + b = c - d + x
  BY <1>13, <1>14
<1> QED
  BY <1>10, <1>12, <1>15

TarifsJustes ==
  /\ defaut \in [Zones -> Tarifs]
  /\ communes \in [Communes -> LigneTarif \cup {SansTarif}]

DevisJuste(d) ==
  LET n == Len(d.lots) IN
  /\ Somme(d.parts) = d.remise
  /\ \A i \in 1..n :
       /\ d.parts[i] >= 0
       /\ d.parts[i] * Somme(d.lots) - d.remise * d.lots[i] \in (0 - Somme(d.lots))..((n - 1) * Somme(d.lots))
  /\ Somme(d.totaux) + Somme(d.vendeurs) = Somme(d.lots) - d.remise + n * d.affiche

CheckoutInv == TarifsJustes /\ (devis # AucunDevis => DevisJuste(devis))

\* The grid shows the tariff that applies.
LEMMA AfficheJuste ==
  ASSUME TarifsJustes, NEW c \in Communes
  PROVE  Affiche(c) = TarifApplicable(c) /\ TarifApplicable(c) \in Nat
<1>1. communes[c] = SansTarif \/ communes[c] \in LigneTarif
  BY DEF TarifsJustes
<1>2. defaut["hors_abidjan"] \in Nat /\ defaut["abidjan"] \in Nat
  BY CheckoutAssumption DEF TarifsJustes, Zones
<1>3. CASE communes[c] = SansTarif
  BY <1>2, <1>3 DEF Affiche, TarifApplicable, AuMenu, ZoneDe, AutresVilles
<1>4. CASE communes[c] # SansTarif
  <2>1. PICK l \in LigneTarif : l = communes[c]
    BY <1>1, <1>4
  <2>2. l.zone \in {"abidjan", "hors_abidjan"} /\ l.montant \in Nat /\ l.actif \in BOOLEAN
    BY CheckoutAssumption DEF LigneTarif, Zones
  <2> QED
    BY <1>2, <1>4, <2>1, <2>2 DEF Affiche, TarifApplicable, AuMenu, ZoneDe, AutresVilles
<1> QED
  BY <1>3, <1>4

\* The discount is a whole number of francs, and never more than the articles.
LEMMA RemiseBornee ==
  ASSUME NEW coupon \in Coupons, NEW total \in Nat
  PROVE  CalculerRemise(coupon, total) \in Nat /\ CalculerRemise(coupon, total) <= total
<1>1. coupon.valeur \in Nat
  BY CheckoutAssumption DEF Coupons
<1>2. PICK v \in Nat : v = coupon.valeur
  BY <1>1
<1>3. PICK p \in Nat : p = total * v
  OBVIOUS
<1>4. p \div 100 \in Nat
  OBVIOUS
<1>5. PICK brute \in Nat : brute = IF coupon.type = "pourcentage" THEN p \div 100 ELSE v
  BY <1>4
<1>6. CalculerRemise(coupon, total) = IF brute > total THEN total ELSE brute
  BY <1>2, <1>3, <1>5 DEF CalculerRemise
<1> QED
  BY <1>6

LEMMA CalculJuste ==
  ASSUME TarifsJustes, NEW c \in Communes, NEW n \in Nat, n # 0, NEW lots, lots \in [1..n -> Montants], NEW offertes,
         NEW coupon \in Coupons, NEW d, d = CalculerCheckout(c, lots, offertes, coupon)
  PROVE  DevisJuste(d)
<1>1. PICK tarif \in Nat : tarif = TarifApplicable(c) /\ tarif = Affiche(c)
  BY AfficheJuste
<1>2. \A i \in 1..n : lots[i] \in Nat
  BY CheckoutAssumption
<1>3. Len(lots) = n /\ DOMAIN lots = 1..n
  <2>1. lots \in Seq(Montants)
    OBVIOUS
  <2> QED
    OBVIOUS
<1>4. Somme(lots) = SumFunctionOnSet(lots, 1..n) /\ Somme(lots) \in Nat
  <2>1. IsFiniteSet(1..n)
    BY IntervalleFini
  <2>2. SumFunctionOnSet(lots, 1..n) \in Nat
    BY <1>2, <2>1, SommeNaturelle
  <2> QED
    BY <1>3, <2>2 DEF Somme, SumFunction
<1>5. PICK remise \in Nat : remise = CalculerRemise(coupon, Somme(lots)) /\ remise <= Somme(lots)
  BY <1>4, RemiseBornee
<1>6. PICK parts : parts = Parts(remise, lots)
  OBVIOUS
<1>7. /\ DOMAIN parts = 1..n /\ Somme(parts) = remise
      /\ \A i \in 1..n : /\ parts[i] \in Nat
                         /\ parts[i] * Somme(lots) - remise * lots[i] \in (0 - Somme(lots))..((n - 1) * Somme(lots))
  <2>1. n \in Nat \ {0}
    OBVIOUS
  <2> QED
    BY <1>5, <1>6, <2>1, PartsJustes
<1>8. PICK totaux : totaux = [i \in 1..n |-> lots[i] - parts[i] + FraisClient(tarif, i \in offertes)]
  OBVIOUS
<1>9. PICK vendeurs : vendeurs = [i \in 1..n |-> FraisVendeur(tarif, i \in offertes)]
  OBVIOUS
<1>10. d = [lots |-> lots, remise |-> remise, parts |-> parts, affiche |-> tarif, totaux |-> totaux, vendeurs |-> vendeurs]
  BY <1>1, <1>3, <1>5, <1>6, <1>8, <1>9 DEF CalculerCheckout
<1>11. Somme(totaux) + Somme(vendeurs) = Somme(lots) - remise + n * tarif
  <2>2. SumFunctionOnSet(totaux, 1..n) + SumFunctionOnSet(vendeurs, 1..n)
          = SumFunctionOnSet(lots, 1..n) - SumFunctionOnSet(parts, 1..n) + n * tarif
    <3>1. ASSUME NEW i \in 1..n
          PROVE  /\ lots[i] \in Int /\ parts[i] \in Int /\ totaux[i] \in Int /\ vendeurs[i] \in Int
                 /\ totaux[i] + vendeurs[i] = lots[i] - parts[i] + tarif
      <4>1. PICK f \in Nat : f = FraisClient(tarif, i \in offertes)
        BY DEF FraisClient
      <4>2. totaux[i] = lots[i] - parts[i] + f /\ vendeurs[i] = tarif - f
        BY <1>8, <1>9, <4>1 DEF FraisVendeur
      <4>3. PICK l \in Nat : l = lots[i]
        BY <1>2
      <4>4. PICK q \in Nat : q = parts[i]
        BY <1>7
      <4>5. PICK t, v : t = totaux[i] /\ v = vendeurs[i]
        OBVIOUS
      <4>6. t = l - q + f /\ v = tarif - f
        BY <4>2, <4>3, <4>4, <4>5
      <4>7. l \in Int /\ q \in Int /\ t \in Int /\ v \in Int /\ t + v = l - q + tarif
        BY <4>6
      <4> QED
        BY <4>3, <4>4, <4>5, <4>7
    <3>2. PrixPayes(n, lots, parts, totaux, vendeurs, tarif)
      BY <3>1 DEF PrixPayes
    <3>3. n \in Nat /\ tarif \in Int
      OBVIOUS
    <3> QED
      BY <3>2, <3>3, TotauxJustes, SMT
  <2>3. /\ Somme(totaux) = SumFunctionOnSet(totaux, 1..n) /\ Somme(vendeurs) = SumFunctionOnSet(vendeurs, 1..n)
        /\ Somme(parts) = SumFunctionOnSet(parts, 1..n)
    BY <1>7, <1>8, <1>9 DEF Somme, SumFunction
  <2> QED
    BY <1>4, <1>7, <2>2, <2>3
<1>12. \A i \in 1..n : parts[i] >= 0
  BY <1>7
<1>13. /\ d.lots = lots /\ d.remise = remise /\ d.parts = parts /\ d.affiche = tarif /\ d.totaux = totaux
       /\ d.vendeurs = vendeurs
  BY <1>10
<1> QED
  BY <1>3, <1>7, <1>11, <1>12, <1>13 DEF DevisJuste

\* The amounts of a checkout add up, for every number of shops and every coupon: the shares of
\* the discount make the discount, none is negative, and the grid shows the tariff that applies.
THEOREM Checkout_Juste == CheckoutSpec => []CheckoutJuste
<1>1. CheckoutInit => CheckoutInv
  BY DEF CheckoutInit, CheckoutInv, TarifsJustes
<1>2. ASSUME CheckoutInv, [CheckoutNext]_checkoutVars PROVE CheckoutInv'
  <2>1. ASSUME NEW c \in Communes, NEW ligne \in LigneTarif, CreerTarif(c, ligne) PROVE CheckoutInv'
    BY <1>2, <2>1 DEF CheckoutInv, TarifsJustes, CreerTarif
  <2>2. ASSUME NEW c \in Communes, NEW montant \in Tarifs, NEW actif \in BOOLEAN, ModifierTarif(c, montant, actif)
        PROVE  CheckoutInv'
    <3>1. PICK l \in LigneTarif : l = communes[c]
      BY <1>2, <2>2 DEF ModifierTarif, CheckoutInv, TarifsJustes
    <3>2. PICK m : m = [l EXCEPT !.montant = montant, !.actif = actif]
      OBVIOUS
    <3>3. m \in LigneTarif
      BY <3>2 DEF LigneTarif
    <3>4. communes' = [communes EXCEPT ![c] = m]
      BY <1>2, <2>2, <3>1, <3>2 DEF ModifierTarif, CheckoutInv, TarifsJustes
    <3> QED
      BY <1>2, <2>2, <3>3, <3>4 DEF ModifierTarif, CheckoutInv, TarifsJustes
  <2>3. ASSUME NEW z \in Zones, NEW montant \in Tarifs, ModifierDefaut(z, montant) PROVE CheckoutInv'
    BY <1>2, <2>3 DEF CheckoutInv, TarifsJustes, ModifierDefaut
  <2>4. ASSUME NEW c \in Communes, Simuler(c) PROVE CheckoutInv'
    <3>1. PICK n \in 1..LotsMax : \E coupon \in Coupons : \E lots \in [1..n -> Montants], offertes \in {{}, {n}} :
            devis' = CalculerCheckout(c, lots, offertes, coupon)
      BY <2>4 DEF Simuler
    <3>2. PICK coupon \in Coupons : \E lots \in [1..n -> Montants], offertes \in {{}, {n}} :
            devis' = CalculerCheckout(c, lots, offertes, coupon)
      BY <3>1
    <3>3. PICK lots \in [1..n -> Montants] : \E offertes \in {{}, {n}} : devis' = CalculerCheckout(c, lots, offertes, coupon)
      BY <3>2
    <3>4. PICK offertes : devis' = CalculerCheckout(c, lots, offertes, coupon)
      BY <3>3
    <3>5. n \in Nat \ {0}
      BY CheckoutAssumption
    <3>6. TarifsJustes /\ UNCHANGED <<defaut, communes>>
      BY <1>2, <2>4 DEF Simuler, CheckoutInv
    <3>7. DevisJuste(devis')
      BY <3>4, <3>5, <3>6, CalculJuste
    <3> QED
      BY <3>6, <3>7 DEF CheckoutInv, TarifsJustes, DevisJuste
  <2>5. CASE UNCHANGED checkoutVars
    BY <1>2, <2>5 DEF CheckoutInv, TarifsJustes, DevisJuste, checkoutVars
  <2> QED
    BY <1>2, <2>1, <2>2, <2>3, <2>4, <2>5 DEF CheckoutNext
<1>3. CheckoutInv => CheckoutJuste
  BY AfficheJuste DEF CheckoutInv, CheckoutJuste, DevisJuste
<1> QED
  BY <1>1, <1>2, <1>3, PTL DEF CheckoutSpec

-----------------------------------------------------------------------------
\* The loyalty points

\* What a client may keep grows by a point of rounding for each refund taken back.
LEMMA VautMoins ==
  ASSUME NEW c \in Achats, NEW x \in Nat, NEW y \in Nat
  PROVE  /\ Vaut(c, x) \in Nat /\ Vaut(c, x + y) <= Vaut(c, x)
         /\ Vaut(c, x) <= Vaut(c, x + y) + points_pour(y) + 1 /\ points_pour(y) \in Nat
<1>1. PICK p \in Nat : p = Paye[c]
  BY FideliteAssumption
<1>2. /\ Vaut(c, x) = IF x >= p THEN 0 ELSE (p - x) \div 1000
      /\ Vaut(c, x + y) = IF x + y >= p THEN 0 ELSE (p - (x + y)) \div 1000
      /\ points_pour(y) = y \div 1000
  BY <1>1 DEF Vaut, points_pour, TRANCHE_FCFA
<1>3. ASSUME NEW m \in Nat, NEW n \in Nat, m <= n PROVE m \div 1000 <= n \div 1000
  BY <1>3
<1>4. ASSUME NEW m \in Nat, NEW n \in Nat PROVE m \div 1000 + n \div 1000 + 1 >= (m + n) \div 1000
  BY <1>4
<1>5. \A m \in Nat : m \div 1000 \in Nat
  OBVIOUS
<1>6. CASE x >= p
  BY <1>2, <1>5, <1>6
<1>7. CASE x < p /\ x + y >= p
  <2>1. PICK m \in Nat : m = p - x
    BY <1>7
  <2>2. m <= y
    BY <1>7, <2>1
  <2>3. m \div 1000 \in Nat /\ y \div 1000 \in Nat /\ m \div 1000 <= y \div 1000
    BY <1>3, <1>5, <2>2
  <2>4. Vaut(c, x) = m \div 1000 /\ Vaut(c, x + y) = 0 /\ points_pour(y) = y \div 1000
    BY <1>2, <1>7, <2>1
  <2> QED
    BY <2>3, <2>4
<1>8. CASE x + y < p
  <2>1. PICK m \in Nat : m = p - (x + y)
    BY <1>8
  <2>2. p - x = m + y
    BY <2>1
  <2>3. /\ m \div 1000 \in Nat /\ y \div 1000 \in Nat /\ (m + y) \div 1000 \in Nat
        /\ m \div 1000 <= (m + y) \div 1000 /\ m \div 1000 + y \div 1000 + 1 >= (m + y) \div 1000
    BY <1>3, <1>4, <1>5
  <2>4. Vaut(c, x) = (m + y) \div 1000 /\ Vaut(c, x + y) = m \div 1000 /\ points_pour(y) = y \div 1000
    <3>1. ~(x >= p) /\ ~(x + y >= p)
      BY <1>8
    <3> QED
      BY <1>2, <2>1, <2>2, <3>1
  <2> QED
    BY <2>3, <2>4
<1> QED
  BY <1>6, <1>7, <1>8

MouvementsDe(M, type, refs) == {t \in M : t.type = type /\ t.ref \in refs}
Total(M, type, refs) == Points(MouvementsDe(M, type, refs))

\* One movement more.
LEMMA TotalAvec ==
  ASSUME NEW M, IsFiniteSet(M), M \subseteq Transaction, NEW m \in Transaction, m \notin M, NEW type, NEW refs
  PROVE  Total(M \cup {m}, type, refs)
           = Total(M, type, refs) + (IF m.type = type /\ m.ref \in refs THEN m.points ELSE 0)
<1>1. PICK S : S = MouvementsDe(M, type, refs)
  OBVIOUS
<1>2. S \subseteq M /\ IsFiniteSet(S) /\ m \notin S /\ \A t \in S : t.points \in Nat
  <2>1. S \subseteq M /\ \A t \in S : t.points \in Nat
    BY <1>1 DEF MouvementsDe, Transaction
  <2> QED
    BY <2>1, FS_Subset
<1>3. CASE m.type = type /\ m.ref \in refs
  <2>1. MouvementsDe(M \cup {m}, type, refs) = S \cup {m}
    BY <1>1, <1>3 DEF MouvementsDe
  <2>2. PICK f : f = [t \in S |-> t.points]
    OBVIOUS
  <2>3. PICK g : g = [t \in S \cup {m} |-> t.points]
    OBVIOUS
  <2>4. m.points \in Nat
    BY DEF Transaction
  <2>5. SumFunctionOnSet(g, S \cup {m}) = SumFunctionOnSet(g, S) + g[m]
    BY <1>2, <2>3, <2>4, SommeAvec
  <2>6. SumFunctionOnSet(g, S) = SumFunctionOnSet(f, S)
    BY <1>2, <2>2, <2>3, SommeEgale
  <2>7. Total(M, type, refs) = SumFunctionOnSet(f, S)
    BY <1>1, <2>2 DEF Total, Points
  <2>8. Total(M \cup {m}, type, refs) = SumFunctionOnSet(g, S \cup {m})
    BY <2>1, <2>3 DEF Total, Points
  <2>9. g[m] = m.points
    BY <2>3
  <2> QED
    BY <1>3, <2>5, <2>6, <2>7, <2>8, <2>9
<1>4. CASE ~(m.type = type /\ m.ref \in refs)
  <2>1. MouvementsDe(M \cup {m}, type, refs) = S
    BY <1>1, <1>4 DEF MouvementsDe
  <2>2. Total(M, type, refs) \in Int
    <3>1. \A t \in S : [u \in S |-> u.points][t] \in Int
      BY <1>2
    <3> QED
      BY <1>1, <1>2, <3>1, SommeUn DEF Total, Points
  <2> QED
    BY <1>1, <1>4, <2>1, <2>2 DEF Total
<1> QED
  BY <1>3, <1>4

\* A total of points is a natural number, zero without a movement.
LEMMA TotalNaturel ==
  ASSUME NEW M, IsFiniteSet(M), M \subseteq Transaction, NEW type, NEW refs
  PROVE  Total(M, type, refs) \in Nat
<1>1. PICK S : S = MouvementsDe(M, type, refs)
  OBVIOUS
<1>2. S \subseteq M /\ \A t \in S : t.points \in Nat
  BY <1>1 DEF MouvementsDe, Transaction
<1>3. IsFiniteSet(S)
  BY <1>2, FS_Subset
<1>4. \A t \in S : [u \in S |-> u.points][t] \in Nat
  BY <1>2
<1> QED
  BY <1>1, <1>3, <1>4, SommeNaturelle DEF Total, Points

LEMMA TotalVide == ASSUME NEW type, NEW refs PROVE Total({}, type, refs) = 0
BY SommeVide DEF Total, Points, MouvementsDe

-----------------------------------------------------------------------------
\* The balance and its movements

\* The balance after the movements M.
Compte(s, k, M) ==
  /\ IsFiniteSet(M) /\ M \subseteq Transaction /\ s \in Nat /\ k \in Nat /\ s <= k
  /\ s + Total(M, "depense", Echanges) + Total(M, "reprise", Renvois) = Total(M, "gain", Achats)

Payes(e, M) == {x \in Echanges : e[x] = "coupon"} = {t.ref : t \in MouvementsDe(M, "depense", Echanges)}

\* A gain.
LEMMA CompteGain ==
  ASSUME NEW s, NEW k, NEW M, Compte(s, k, M), NEW c \in Achats, NEW n \in Nat,
         NEW m, m = [type |-> "gain", ref |-> c, points |-> n], m \notin M
  PROVE  Compte(s + n, k + n, M \cup {m})
<1>1. m \in Transaction /\ m.type = "gain" /\ m.ref = c /\ m.points = n
  BY DEF Transaction
<1>2. /\ Total(M \cup {m}, "gain", Achats) = Total(M, "gain", Achats) + n
      /\ Total(M \cup {m}, "depense", Echanges) = Total(M, "depense", Echanges) + 0
      /\ Total(M \cup {m}, "reprise", Renvois) = Total(M, "reprise", Renvois) + 0
  <2>1. \A a, R : Total(M \cup {m}, a, R) = Total(M, a, R) + (IF m.type = a /\ m.ref \in R THEN m.points ELSE 0)
    <3>1. IsFiniteSet(M) /\ M \subseteq Transaction /\ m \in Transaction
      BY <1>1 DEF Compte
    <3> QED
      BY <3>1, TotalAvec
  <2> QED
    BY <1>1, <2>1
<1>3. Total(M, "gain", Achats) \in Nat /\ Total(M, "depense", Echanges) \in Nat /\ Total(M, "reprise", Renvois) \in Nat
  BY TotalNaturel DEF Compte
<1>4. IsFiniteSet(M \cup {m})
  BY FS_AddElement DEF Compte
<1>5. M \cup {m} \subseteq Transaction
  BY <1>1 DEF Compte
<1> QED
  BY <1>2, <1>3, <1>4, <1>5 DEF Compte

\* A debit the balance can bear.
LEMMA CompteDebit ==
  ASSUME NEW s, NEW k, NEW M, Compte(s, k, M), NEW n \in Nat, n <= s,
         NEW type, NEW ref, (type = "depense" /\ ref \in Echanges) \/ (type = "reprise" /\ ref \in Renvois),
         NEW m, m = [type |-> type, ref |-> ref, points |-> n], m \notin M
  PROVE  Compte(s - n, k, M \cup {m})
<1>1. m \in Transaction /\ m.type = type /\ m.ref = ref /\ m.points = n
  BY DEF Transaction
<1>2. /\ Total(M \cup {m}, "gain", Achats) = Total(M, "gain", Achats) + 0
      /\ Total(M \cup {m}, "depense", Echanges) + Total(M \cup {m}, "reprise", Renvois)
           = Total(M, "depense", Echanges) + Total(M, "reprise", Renvois) + n
  <2>1. Total(M, "depense", Echanges) \in Nat /\ Total(M, "reprise", Renvois) \in Nat
    BY TotalNaturel DEF Compte
  <2>2. \A a, R : Total(M \cup {m}, a, R) = Total(M, a, R) + (IF type = a /\ ref \in R THEN n ELSE 0)
    BY <1>1, TotalAvec DEF Compte
  <2>3. CASE type = "depense" /\ ref \in Echanges
    <3>1. /\ Total(M \cup {m}, "gain", Achats) = Total(M, "gain", Achats) + 0
          /\ Total(M \cup {m}, "depense", Echanges) = Total(M, "depense", Echanges) + n
          /\ Total(M \cup {m}, "reprise", Renvois) = Total(M, "reprise", Renvois) + 0
      BY <2>2, <2>3
    <3> QED
      BY <2>1, <3>1
  <2>4. CASE type = "reprise" /\ ref \in Renvois
    <3>1. /\ Total(M \cup {m}, "gain", Achats) = Total(M, "gain", Achats) + 0
          /\ Total(M \cup {m}, "depense", Echanges) = Total(M, "depense", Echanges) + 0
          /\ Total(M \cup {m}, "reprise", Renvois) = Total(M, "reprise", Renvois) + n
      BY <2>2, <2>4
    <3> QED
      BY <2>1, <3>1
  <2> QED
    BY <2>3, <2>4
<1>3. /\ Total(M, "gain", Achats) \in Nat /\ Total(M, "depense", Echanges) \in Nat /\ Total(M, "reprise", Renvois) \in Nat
      /\ Total(M \cup {m}, "depense", Echanges) \in Nat /\ Total(M \cup {m}, "reprise", Renvois) \in Nat
  <2>1. IsFiniteSet(M \cup {m}) /\ M \cup {m} \subseteq Transaction
    BY <1>1, FS_AddElement DEF Compte
  <2> QED
    BY <2>1, TotalNaturel DEF Compte
<1>4. IsFiniteSet(M \cup {m})
  BY FS_AddElement DEF Compte
<1>5. M \cup {m} \subseteq Transaction
  BY <1>1 DEF Compte
<1>6. PICK g, d, r, x, y : /\ g = Total(M, "gain", Achats)
                           /\ d = Total(M, "depense", Echanges) /\ r = Total(M, "reprise", Renvois)
                           /\ x = Total(M \cup {m}, "depense", Echanges) /\ y = Total(M \cup {m}, "reprise", Renvois)
  OBVIOUS
<1>7. g \in Nat /\ d \in Nat /\ r \in Nat /\ x \in Nat /\ y \in Nat /\ s \in Nat /\ k \in Nat /\ s <= k /\ s + d + r = g
      /\ x + y = d + r + n
  BY <1>2, <1>3, <1>6 DEF Compte
<1>8. (s - n) + x + y = g + 0 /\ s - n \in Nat /\ s - n <= k
  BY <1>7
<1> QED
  BY <1>2, <1>4, <1>5, <1>6, <1>7, <1>8 DEF Compte

-----------------------------------------------------------------------------
\* The returns, their signals, and what the credited gains entitle to

StatutsRenvoi == {"aucun", "ouvert", "rejete", "rembourse"}
StatutsEchange == {"aucun", "verifie", "coupon", "refuse"}

EtatsJustes ==
  /\ gain \in [Achats -> GainFidelite] /\ renvoi \in [Renvois -> StatutsRenvoi] /\ echange \in [Echanges -> StatutsEchange]
  /\ signaux \subseteq Renvois /\ signaux_perdus \subseteq Renvois /\ signaux \cap signaux_perdus = {}
  /\ \A r \in signaux \cup signaux_perdus : renvoi[r] = "rembourse"
  /\ \A r \in Renvois : renvoi[r] # "aucun" => gain[AchatDe[r]].statut # "aucun"

\* The points of a return are taken back once its signal is treated.
ReprisesJustes ==
  \A t \in mouvements : t.type = "reprise" => t.ref \in Renvois /\ t.ref \notin signaux /\ renvoi[t.ref] = "rembourse"

Rendu(c) == SumFunctionOnSet(Part, Traites(c))
AttentesJustes == \A c \in Achats : gain[c].statut = "en_attente" => gain[c].points <= Vaut(c, Rendu(c))

DusDe == [c \in Achats |-> IF gain[c].statut = "credite" THEN PointsDus(c) ELSE 0]
Borne == SumFunctionOnSet(DusDe, Achats)

FideliteInv ==
  /\ EtatsJustes /\ ReprisesJustes /\ AttentesJustes
  /\ Compte(solde, cumul, mouvements) /\ Payes(echange, mouvements) /\ solde <= Borne

\* What was refunded, in any set of returns.
LEMMA PartSommee ==
  ASSUME NEW T, T \subseteq Renvois
  PROVE  IsFiniteSet(T) /\ SumFunctionOnSet(Part, T) \in Nat /\ Cardinality(T) \in Nat
<1>1. IsFiniteSet(T) /\ \A r \in T : Part[r] \in Nat
  BY FideliteAssumption, FS_Subset
<1> QED
  BY <1>1, SommeNaturelle, FS_CardinalityType

LEMMA TraitesType ==
  ASSUME NEW c \in Achats
  PROVE  Traites(c) \subseteq Renvois /\ Rendu(c) \in Nat /\ PointsDus(c) \in Nat
<1>1. Traites(c) \subseteq Renvois
  BY DEF Traites, Renvoyes
<1>2. SumFunctionOnSet(Part, Traites(c)) \in Nat /\ Cardinality(Traites(c)) \in Nat
  BY <1>1, PartSommee
<1>3. \A x \in Nat : Vaut(c, x) \in Nat
  <2>1. \A x \in Nat, y \in Nat : Vaut(c, x) \in Nat
    BY VautMoins
  <2>2. 0 \in Nat
    OBVIOUS
  <2> QED
    BY <2>1, <2>2
<1> QED
  BY <1>1, <1>2, <1>3 DEF Rendu, PointsDus

LEMMA BorneNaturelle == Borne \in Nat /\ \A c \in Achats : DusDe[c] \in Nat
<1>1. \A c \in Achats : DusDe[c] \in Nat
  BY TraitesType DEF DusDe
<1> QED
  BY <1>1, SommeNaturelle, FideliteAssumption DEF Borne

\* Nothing that a credited gain entitles to changes.
LEMMA BorneMeme ==
  ASSUME \A c \in Achats : /\ (gain'[c].statut = "credite" <=> gain[c].statut = "credite")
                           /\ (gain[c].statut = "credite" => Traites(c)' = Traites(c))
  PROVE  Borne' = Borne
<1>1. \A c \in Achats : gain[c].statut = "credite" => PointsDus(c)' = PointsDus(c)
  BY DEF PointsDus
<1>2. DusDe' = DusDe
  BY <1>1 DEF DusDe
<1> QED
  BY <1>2 DEF Borne

\* One order only is credited, or has a return treated.
LEMMA BorneChange ==
  ASSUME NEW c \in Achats,
         \A a \in Achats \ {c} : gain'[a].statut = gain[a].statut /\ Traites(a)' = Traites(a)
  PROVE  Borne' = Borne - DusDe[c] + (DusDe[c])'
<1>1. \A a \in Achats \ {c} : PointsDus(a)' = PointsDus(a)
  BY DEF PointsDus
<1>2. \A a \in Achats \ {c} : (DusDe[a])' = DusDe[a]
  BY <1>1 DEF DusDe
<1>3. PICK f : f = DusDe
  OBVIOUS
<1>4. PICK g : g = DusDe'
  OBVIOUS
<1>5. /\ \A a \in Achats : f[a] \in Int
      /\ \A a \in Achats \ {c} : g[a] = f[a]
  BY <1>2, <1>3, <1>4, BorneNaturelle
<1>6. g[c] \in Int
  <2>1. Traites(c)' \subseteq Renvois
    BY DEF Traites, Renvoyes
  <2>2. PointsDus(c)' \in Nat
    <3>1. PICK T : T = Traites(c)'
      OBVIOUS
    <3>2. SumFunctionOnSet(Part, T) \in Nat /\ Cardinality(T) \in Nat
      BY <2>1, <3>1, PartSommee
    <3>3. Vaut(c, SumFunctionOnSet(Part, T)) \in Nat
      BY <3>2, VautMoins
    <3>4. PointsDus(c)' = Vaut(c, SumFunctionOnSet(Part, T)) + Cardinality(T)
      BY <3>1 DEF PointsDus
    <3> QED
      BY <3>2, <3>3, <3>4
  <2>3. (DusDe[c])' = IF gain'[c].statut = "credite" THEN PointsDus(c)' ELSE 0
    BY DEF DusDe
  <2> QED
    BY <1>4, <2>2, <2>3
<1>7. SumFunctionOnSet(g, Achats) = SumFunctionOnSet(f, Achats) - f[c] + g[c]
  BY <1>5, <1>6, SommeChange, FideliteAssumption
<1> QED
  BY <1>3, <1>4, <1>7 DEF Borne

\* The points do not move.
LEMMA SansPoints ==
  ASSUME FideliteInv, EtatsJustes', ReprisesJustes', AttentesJustes', UNCHANGED <<solde, cumul, mouvements>>,
         \A e \in Echanges : echange'[e] = "coupon" <=> echange[e] = "coupon",
         \A c \in Achats : /\ (gain'[c].statut = "credite" <=> gain[c].statut = "credite")
                           /\ (gain[c].statut = "credite" => Traites(c)' = Traites(c))
  PROVE  FideliteInv'
<1>1. Borne' = Borne
  BY BorneMeme
<1>2. Payes(echange', mouvements')
  BY DEF FideliteInv, Payes
<1> QED
  BY <1>1, <1>2 DEF FideliteInv

\* The signals of an order whose returns do not change.
LEMMA TraitesMemes ==
  ASSUME UNCHANGED <<renvoi, signaux, signaux_perdus>>
  PROVE  \A c \in Achats : Traites(c)' = Traites(c) /\ Rendu(c)' = Rendu(c)
BY DEF Traites, Renvoyes, Rendu

LEMMA RenduMeme ==
  ASSUME NEW c, Traites(c)' = Traites(c)
  PROVE  Rendu(c)' = Rendu(c)
BY DEF Rendu

\* A gain is written.
LEMMA EtatsDuGain ==
  ASSUME EtatsJustes, NEW c \in Achats, NEW n \in GainFidelite, n.statut # "aucun", gain' = [gain EXCEPT ![c] = n],
         UNCHANGED <<renvoi, echange, signaux, signaux_perdus>>
  PROVE  EtatsJustes'
<1>1. gain' \in [Achats -> GainFidelite]
  BY DEF EtatsJustes
<1>2. \A a \in Achats : gain'[a] = IF a = c THEN n ELSE gain[a]
  BY DEF EtatsJustes
<1>3. \A r \in Renvois : AchatDe[r] \in Achats
  BY FideliteAssumption
<1> QED
  BY <1>1, <1>2, <1>3 DEF EtatsJustes

\* A gain that is not credited changes.
LEMMA GainChange ==
  ASSUME FideliteInv, NEW c \in Achats, NEW n \in GainFidelite, n.statut # "aucun", n.statut # "credite",
         gain[c].statut # "credite", n.statut = "en_attente" => n.points <= Vaut(c, Rendu(c)),
         gain' = [gain EXCEPT ![c] = n],
         UNCHANGED <<renvoi, echange, signaux, signaux_perdus, solde, cumul, mouvements>>
  PROVE  FideliteInv'
<1>1. EtatsJustes'
  BY EtatsDuGain DEF FideliteInv
<1>2. \A a \in Achats : gain'[a] = IF a = c THEN n ELSE gain[a]
  BY DEF FideliteInv, EtatsJustes
<1>3. \A a \in Achats : Traites(a)' = Traites(a) /\ Rendu(a)' = Rendu(a)
  BY TraitesMemes
<1>4. AttentesJustes'
  BY <1>2, <1>3 DEF FideliteInv, AttentesJustes
<1>5. ReprisesJustes'
  BY DEF FideliteInv, ReprisesJustes
<1> QED
  BY <1>1, <1>2, <1>3, <1>4, <1>5, SansPoints

\* Only the returns change, and no signal is treated.
LEMMA RenvoiChange ==
  ASSUME FideliteInv, EtatsJustes', ReprisesJustes', UNCHANGED <<gain, solde, cumul, mouvements, echange>>,
         \A c \in Achats : Traites(c)' = Traites(c)
  PROVE  FideliteInv'
<1>1. \A c \in Achats : Rendu(c)' = Rendu(c)
  BY RenduMeme
<1>2. AttentesJustes'
  BY <1>1 DEF FideliteInv, AttentesJustes
<1> QED
  BY <1>2, SansPoints

\* ouvrir_gain, annuler_gain and RecalculerGain
LEMMA OuvrirConserve ==
  ASSUME FideliteInv, NEW c \in Achats, ouvrir_gain(c)
  PROVE  FideliteInv'
<1>1. PICK p \in Nat : p = points_pour(Paye[c])
  BY FideliteAssumption DEF points_pour, TRANCHE_FCFA
<1>2. PICK n : n = [statut |-> "en_attente", points |-> p]
  OBVIOUS
<1>3. n \in GainFidelite /\ n.statut = "en_attente" /\ n.points = p
  BY <1>2 DEF GainFidelite, StatutGain
<1>4. Traites(c) = {}
  BY <1>3 DEF ouvrir_gain, FideliteInv, EtatsJustes, Traites, Renvoyes
<1>5. Vaut(c, Rendu(c)) >= p
  <2>1. Rendu(c) = 0
    BY <1>4, SommeVide DEF Rendu
  <2>2. PICK q \in Nat : q = Paye[c]
    BY FideliteAssumption
  <2>3. p = q \div 1000 /\ Vaut(c, 0) = IF 0 >= q THEN 0 ELSE (q - 0) \div 1000
    BY <1>1, <2>2 DEF Vaut, points_pour, TRANCHE_FCFA
  <2>4. q = 0 => p = 0
    BY <2>3
  <2>5. q - 0 = q
    OBVIOUS
  <2> QED
    BY <2>1, <2>3, <2>4, <2>5
<1>6. /\ gain' = [gain EXCEPT ![c] = n] /\ gain[c].statut = "aucun"
      /\ UNCHANGED <<renvoi, echange, signaux, signaux_perdus, solde, cumul, mouvements>>
  BY <1>1, <1>2 DEF ouvrir_gain
<1>7. n.points <= Vaut(c, Rendu(c))
  <2>1. Vaut(c, Rendu(c)) \in Nat
    BY TraitesType, VautMoins
  <2> QED
    BY <1>3, <1>5, <2>1
<1> QED
  BY <1>3, <1>6, <1>7, GainChange

LEMMA TrancherConserve ==
  ASSUME FideliteInv, NEW c \in Achats, Trancher(c)
  PROVE  FideliteInv'
<1>1. UNCHANGED <<renvoi, echange, signaux, signaux_perdus, solde, cumul, mouvements>>
  BY DEF Trancher
<1>2. CASE gain' = gain
  BY <1>1, <1>2, TraitesMemes, RenvoiChange DEF FideliteInv, EtatsJustes, ReprisesJustes
<1>3. CASE gain' # gain
  <2>1. gain[c].statut = "en_attente" /\ gain' = [gain EXCEPT ![c].statut = "annule"]
    BY <1>3 DEF Trancher, annuler_gain
  <2>2. PICK g \in GainFidelite : g = gain[c]
    BY DEF FideliteInv, EtatsJustes
  <2>3. PICK n : n = [g EXCEPT !.statut = "annule"]
    OBVIOUS
  <2>4. n \in GainFidelite /\ n.statut = "annule"
    BY <2>3 DEF GainFidelite, StatutGain
  <2>5. gain' = [gain EXCEPT ![c] = n]
    BY <2>1, <2>2, <2>3 DEF FideliteInv, EtatsJustes
  <2> QED
    BY <1>1, <2>1, <2>4, <2>5, GainChange
<1> QED
  BY <1>2, <1>3

\* The returns: opened, closed, and the signals that are lost.
LEMMA RenvoisConserves ==
  ASSUME FideliteInv, NEW r \in Renvois, OuvrirRenvoi(r) \/ CloreRenvoi(r) \/ PerdreSignal(r)
  PROVE  FideliteInv'
<1>0. \A x \in Renvois : AchatDe[x] \in Achats
  BY FideliteAssumption
<1>1. CASE OuvrirRenvoi(r)
  <2>1. /\ renvoi' = [renvoi EXCEPT ![r] = "ouvert"] /\ renvoi[r] = "aucun" /\ gain[AchatDe[r]].statut # "aucun"
        /\ UNCHANGED <<gain, signaux, signaux_perdus, solde, cumul, mouvements, echange>>
    BY <1>1 DEF OuvrirRenvoi
  <2>2. \A x \in Renvois : renvoi'[x] = IF x = r THEN "ouvert" ELSE renvoi[x]
    BY <2>1 DEF FideliteInv, EtatsJustes
  <2>3. EtatsJustes'
    <3>1. renvoi' \in [Renvois -> StatutsRenvoi]
      BY <2>1 DEF FideliteInv, EtatsJustes, StatutsRenvoi
    <3>2. \A x \in signaux' \cup signaux_perdus' : renvoi'[x] = "rembourse"
      BY <2>1, <2>2 DEF FideliteInv, EtatsJustes
    <3> QED
      BY <2>1, <2>2, <3>1, <3>2 DEF FideliteInv, EtatsJustes
  <2>4. \A c \in Achats : Traites(c)' = Traites(c)
    BY <2>1, <2>2 DEF Traites, Renvoyes
  <2>5. ReprisesJustes'
    BY <2>1, <2>2 DEF FideliteInv, ReprisesJustes
  <2> QED
    BY <2>1, <2>3, <2>4, <2>5, RenvoiChange
<1>2. CASE CloreRenvoi(r)
  <2>1. /\ renvoi[r] = "ouvert" /\ UNCHANGED <<gain, signaux_perdus, solde, cumul, mouvements, echange>>
        /\ \/ renvoi' = [renvoi EXCEPT ![r] = "rejete"] /\ signaux' = signaux
           \/ renvoi' = [renvoi EXCEPT ![r] = "rembourse"] /\ signaux' = signaux \cup {r}
    BY <1>2 DEF CloreRenvoi
  <2>2. r \notin signaux \cup signaux_perdus /\ gain[AchatDe[r]].statut # "aucun"
    BY <2>1 DEF FideliteInv, EtatsJustes
  <2>3. PICK v \in {"rejete", "rembourse"} : /\ renvoi' = [renvoi EXCEPT ![r] = v]
                                             /\ signaux' = IF v = "rembourse" THEN signaux \cup {r} ELSE signaux
    BY <2>1
  <2>4. \A x \in Renvois : renvoi'[x] = IF x = r THEN v ELSE renvoi[x]
    BY <2>3 DEF FideliteInv, EtatsJustes
  <2>5. EtatsJustes'
    <3>1. renvoi' \in [Renvois -> StatutsRenvoi]
      BY <2>3 DEF FideliteInv, EtatsJustes, StatutsRenvoi
    <3>2. \A x \in signaux' \cup signaux_perdus' : renvoi'[x] = "rembourse"
      BY <2>1, <2>2, <2>3, <2>4 DEF FideliteInv, EtatsJustes
    <3>3. signaux' \subseteq Renvois /\ signaux' \cap signaux_perdus' = {}
      BY <2>1, <2>2, <2>3 DEF FideliteInv, EtatsJustes
    <3> QED
      BY <2>1, <2>2, <2>4, <3>1, <3>2, <3>3 DEF FideliteInv, EtatsJustes
  <2>6. \A c \in Achats : Traites(c)' = Traites(c)
    BY <2>1, <2>2, <2>3, <2>4 DEF Traites, Renvoyes
  <2>7. ReprisesJustes'
    <3>1. \A t \in mouvements : t.type = "reprise" => t.ref # r
      BY <2>1 DEF FideliteInv, ReprisesJustes
    <3> QED
      BY <2>1, <2>3, <2>4, <3>1 DEF FideliteInv, ReprisesJustes
  <2> QED
    BY <2>1, <2>5, <2>6, <2>7, RenvoiChange
<1>3. CASE PerdreSignal(r)
  <2>1. /\ r \in signaux /\ signaux' = signaux \ {r} /\ signaux_perdus' = signaux_perdus \cup {r}
        /\ UNCHANGED <<gain, renvoi, solde, cumul, mouvements, echange>>
    BY <1>3 DEF PerdreSignal
  <2>2. EtatsJustes'
    BY <2>1 DEF FideliteInv, EtatsJustes
  <2>3. \A c \in Achats : Traites(c)' = Traites(c)
    BY <2>1 DEF Traites, Renvoyes
  <2>4. ReprisesJustes'
    BY <2>1 DEF FideliteInv, ReprisesJustes
  <2> QED
    BY <2>1, <2>2, <2>3, <2>4, RenvoiChange
<1> QED
  BY <1>1, <1>2, <1>3

\* The signal of a refunded return is treated.
LEMMA SignalTraite ==
  ASSUME FideliteInv, NEW r \in signaux, signaux' = signaux \ {r}, UNCHANGED <<renvoi, signaux_perdus>>,
         NEW c, c = AchatDe[r]
  PROVE  /\ c \in Achats /\ r \in Renvois /\ r \notin Traites(c) /\ Traites(c)' = Traites(c) \cup {r}
         /\ \A a \in Achats \ {c} : Traites(a)' = Traites(a)
         /\ Rendu(c)' = Rendu(c) + Part[r] /\ Part[r] \in Nat /\ Rendu(c)' <= Rembourse(c)
         /\ (PointsDus(c))' + points_pour(Part[r]) >= PointsDus(c) /\ (PointsDus(c))' \in Nat
         /\ points_pour(Part[r]) \in Nat
<1>1. r \in Renvois /\ c \in Achats /\ Part[r] \in Nat /\ renvoi[r] = "rembourse" /\ r \notin signaux_perdus
  BY FideliteAssumption DEF FideliteInv, EtatsJustes
<1>2. r \notin Traites(c) /\ Traites(c)' = Traites(c) \cup {r}
  BY <1>1 DEF Traites, Renvoyes
<1>3. \A a \in Achats \ {c} : Traites(a)' = Traites(a)
  BY DEF Traites, Renvoyes
<1>4. PICK T : T = Traites(c)
  OBVIOUS
<1>5. T \subseteq Renvois /\ T \cup {r} \subseteq Renvoyes(c, {"rembourse"}) /\ Renvoyes(c, {"rembourse"}) \subseteq Renvois
  BY <1>1, <1>4 DEF Traites, Renvoyes
<1>6. SumFunctionOnSet(Part, T \cup {r}) = SumFunctionOnSet(Part, T) + Part[r]
  <2>1. IsFiniteSet(T) /\ \A x \in T : Part[x] \in Int
    BY <1>5, PartSommee, FideliteAssumption
  <2>2. r \notin T /\ Part[r] \in Int
    BY <1>1, <1>2, <1>4
  <2> QED
    BY <2>1, <2>2, SommeAvec, Zenon
<1>7. Rendu(c) = SumFunctionOnSet(Part, T) /\ Rendu(c)' = SumFunctionOnSet(Part, T \cup {r})
  BY <1>2, <1>4 DEF Rendu
<1>8. Rendu(c)' <= Rembourse(c)
  <2>1. PICK S : S = Renvoyes(c, {"rembourse"})
    OBVIOUS
  <2>2. IsFiniteSet(S) /\ \A x \in S : Part[x] \in Nat
    BY <1>5, <2>1, PartSommee, FideliteAssumption
  <2>3. SumFunctionOnSet(Part, T \cup {r}) <= SumFunctionOnSet(Part, S)
    BY <1>5, <2>1, <2>2, SommeInclusion
  <2> QED
    BY <1>7, <2>1, <2>3 DEF Rembourse
<1>9. PICK x \in Nat : x = SumFunctionOnSet(Part, T)
  BY <1>5, PartSommee
<1>10. PICK y \in Nat : y = Part[r]
  BY <1>1
<1>11. PICK k \in Nat : k = Cardinality(T)
  BY <1>5, PartSommee
<1>12. Cardinality(T \cup {r}) = k + 1
  BY <1>2, <1>4, <1>5, <1>11, PartSommee, FS_AddElement
<1>13. PointsDus(c) = Vaut(c, x) + k /\ (PointsDus(c))' = Vaut(c, x + y) + (k + 1)
  BY <1>2, <1>4, <1>6, <1>9, <1>10, <1>11, <1>12 DEF PointsDus
<1>14. /\ Vaut(c, x) \in Nat /\ Vaut(c, x) <= Vaut(c, x + y) + points_pour(y) + 1 /\ points_pour(y) \in Nat
       /\ Vaut(c, x + y) \in Nat
  <2>1. x + y \in Nat
    OBVIOUS
  <2> QED
    BY <1>1, <2>1, VautMoins
<1>15. PICK v, w, p : v = Vaut(c, x) /\ w = Vaut(c, x + y) /\ p = points_pour(y)
  OBVIOUS
<1>16. w + (k + 1) + p >= v + k /\ w + (k + 1) \in Nat /\ p \in Nat
  BY <1>14, <1>15
<1> QED
  BY <1>1, <1>2, <1>3, <1>6, <1>7, <1>8, <1>10, <1>13, <1>15, <1>16

\* ajuster_points_apres_retour
LEMMA AjusterConserve ==
  ASSUME FideliteInv, NEW r \in Renvois, ajuster_points_apres_retour(r)
  PROVE  FideliteInv'
<1>1. PICK c : c = AchatDe[r]
  OBVIOUS
<1>2. /\ r \in signaux /\ signaux' = signaux \ {r} /\ UNCHANGED <<renvoi, signaux_perdus, echange>>
      /\ \/ RecalculerGain(c) \/ ReprendrePoints(c, r)
         \/ gain[c].statut = "annule" /\ UNCHANGED <<gain, solde, cumul, mouvements>>
  BY <1>1 DEF ajuster_points_apres_retour
<1>3. /\ c \in Achats /\ r \notin Traites(c) /\ Traites(c)' = Traites(c) \cup {r}
      /\ \A a \in Achats \ {c} : Traites(a)' = Traites(a)
      /\ Rendu(c)' = Rendu(c) + Part[r] /\ Part[r] \in Nat /\ Rendu(c)' <= Rembourse(c)
      /\ (PointsDus(c))' + points_pour(Part[r]) >= PointsDus(c) /\ (PointsDus(c))' \in Nat
      /\ points_pour(Part[r]) \in Nat
  BY <1>1, <1>2, SignalTraite
<1>4. \A a \in Achats \ {c} : Rendu(a)' = Rendu(a)
  BY <1>3, RenduMeme
<1>5. PICK g \in GainFidelite : g = gain[c]
  BY <1>3 DEF FideliteInv, EtatsJustes
<1>6. Rendu(c) \in Nat /\ Rembourse(c) \in Nat
  <2>1. Renvoyes(c, {"rembourse"}) \subseteq Renvois
    BY DEF Renvoyes
  <2> QED
    BY <1>3, <2>1, TraitesType, PartSommee DEF Rembourse
<1>7. ASSUME NEW x \in Nat, NEW y \in Nat, x <= y PROVE Vaut(c, x) \in Nat /\ Vaut(c, y) \in Nat /\ Vaut(c, y) <= Vaut(c, x)
  <2>1. PICK d \in Nat : y = x + d
    BY <1>7
  <2> QED
    BY <1>3, <2>1, VautMoins
<1>8. signaux' \subseteq signaux
  BY <1>2
<1>9. CASE RecalculerGain(c)
  <2>1. gain[c].statut = "en_attente" /\ UNCHANGED <<solde, cumul, mouvements>>
    BY <1>9 DEF RecalculerGain
  <2>2. PICK garde \in Nat : garde = Reste(c)
    BY <1>6, <1>7 DEF Reste
  <2>3. PICK n : n = IF garde = 0 THEN [g EXCEPT !.statut = "annule"]
                     ELSE [g EXCEPT !.points = IF garde < g.points THEN garde ELSE g.points]
    OBVIOUS
  <2>4. n \in GainFidelite /\ n.statut \in {"en_attente", "annule"} /\ (n.statut = "en_attente" => n.points <= garde)
    <3>1. CASE garde = 0
      BY <2>1, <2>3, <3>1 DEF GainFidelite, StatutGain
    <3>2. CASE garde # 0
      <4>1. PICK p \in Nat : p = (IF garde < g.points THEN garde ELSE g.points) /\ p <= garde
        BY DEF GainFidelite
      <4>2. n = [g EXCEPT !.points = p]
        BY <2>3, <3>2, <4>1
      <4> QED
        BY <1>5, <2>1, <4>1, <4>2 DEF GainFidelite
    <3> QED
      BY <3>1, <3>2
  <2>5. gain' = [gain EXCEPT ![c] = n]
    <3>1. gain' = [gain EXCEPT ![c] = IF Reste(c) = 0 THEN [gain[c] EXCEPT !.statut = "annule"]
             ELSE [gain[c] EXCEPT !.points = IF Reste(c) < gain[c].points THEN Reste(c) ELSE gain[c].points]]
      BY <1>9 DEF RecalculerGain
    <3> QED
      BY <1>5, <2>2, <2>3, <3>1
  <2>6. \A a \in Achats : gain'[a] = IF a = c THEN n ELSE gain[a]
    BY <2>5 DEF FideliteInv, EtatsJustes
  <2>7. EtatsJustes'
    <3>1. gain' \in [Achats -> GainFidelite]
      BY <2>4, <2>5 DEF FideliteInv, EtatsJustes
    <3>2. \A x \in Renvois : AchatDe[x] \in Achats
      BY FideliteAssumption
    <3> QED
      BY <1>2, <1>8, <2>4, <2>6, <3>1, <3>2 DEF FideliteInv, EtatsJustes
  <2>8. ReprisesJustes'
    BY <1>2, <2>1 DEF FideliteInv, ReprisesJustes
  <2>9. AttentesJustes'
    <3>1. Vaut(c, Rendu(c)') >= garde /\ Vaut(c, Rendu(c)') \in Nat
      <4>1. PICK x \in Nat : x = Rendu(c)' /\ x <= Rembourse(c)
        BY <1>3, <1>6
      <4>2. Vaut(c, x) \in Nat /\ Vaut(c, Rembourse(c)) \in Nat /\ Vaut(c, Rembourse(c)) <= Vaut(c, x)
        BY <1>6, <1>7, <4>1
      <4> QED
        BY <2>2, <4>1, <4>2 DEF Reste
    <3>2. n.statut = "en_attente" => n.points <= Vaut(c, Rendu(c)')
      BY <2>4, <3>1 DEF GainFidelite
    <3> QED
      BY <1>4, <2>6, <3>2 DEF FideliteInv, AttentesJustes
  <2>10. \A a \in Achats : /\ (gain'[a].statut = "credite" <=> gain[a].statut = "credite")
                           /\ (gain[a].statut = "credite" => Traites(a)' = Traites(a))
    BY <1>3, <2>1, <2>4, <2>6
  <2> QED
    BY <1>2, <2>1, <2>7, <2>8, <2>9, <2>10, SansPoints
<1>10. CASE gain[c].statut = "annule" /\ UNCHANGED <<gain, solde, cumul, mouvements>>
  <2>1. EtatsJustes' /\ ReprisesJustes'
    BY <1>2, <1>10 DEF FideliteInv, EtatsJustes, ReprisesJustes
  <2>2. AttentesJustes'
    BY <1>4, <1>10 DEF FideliteInv, AttentesJustes
  <2> QED
    BY <1>2, <1>3, <1>10, <2>1, <2>2, SansPoints
<1>11. CASE ReprendrePoints(c, r)
  <2>1. gain[c].statut = "credite" /\ gain' = gain
    BY <1>11 DEF ReprendrePoints
  <2>2. PICK p \in Nat : p = points_pour(Part[r])
    BY <1>3
  <2>3. solde \in Nat /\ cumul \in Nat /\ IsFiniteSet(mouvements)
    BY DEF FideliteInv, Compte
  <2>4. PICK n \in Nat : n = ADebiter(p) /\ n <= solde /\ (n = p \/ n = solde)
    BY <2>3 DEF ADebiter
  <2>5. Inedit("reprise", r)
    BY <1>2 DEF FideliteInv, ReprisesJustes, Inedit
  <2>6. PICK m : m = [type |-> "reprise", ref |-> r, points |-> n]
    OBVIOUS
  <2>7. m \notin mouvements /\ m.type = "reprise" /\ m.ref = r
    BY <2>5, <2>6 DEF Inedit
  <2>8. \/ n = 0 /\ UNCHANGED <<solde, cumul, mouvements>>
        \/ solde' = solde - n /\ cumul' = cumul /\ mouvements' = mouvements \cup {m}
    BY <1>11, <2>2, <2>4, <2>5, <2>6 DEF ReprendrePoints, debiter_points
  <2>9. Compte(solde', cumul', mouvements')
    <3>1. CASE n = 0 /\ UNCHANGED <<solde, cumul, mouvements>>
      BY <3>1 DEF FideliteInv
    <3>2. CASE solde' = solde - n /\ cumul' = cumul /\ mouvements' = mouvements \cup {m}
      <4>1. Compte(solde - n, cumul, mouvements \cup {m})
        BY <2>4, <2>6, <2>7, CompteDebit DEF FideliteInv
      <4> QED
        BY <3>2, <4>1
    <3> QED
      BY <2>8, <3>1, <3>2
  <2>10. /\ mouvements' \subseteq mouvements \cup {m}
         /\ MouvementsDe(mouvements', "depense", Echanges) = MouvementsDe(mouvements, "depense", Echanges)
    BY <2>7, <2>8 DEF MouvementsDe
  <2>11. Payes(echange', mouvements')
    BY <1>2, <2>10 DEF FideliteInv, Payes
  <2>12. EtatsJustes' /\ ReprisesJustes'
    <3>1. renvoi[r] = "rembourse" /\ r \notin signaux'
      BY <1>2 DEF FideliteInv, EtatsJustes
    <3> QED
      BY <1>2, <2>1, <2>7, <2>10, <3>1 DEF FideliteInv, EtatsJustes, ReprisesJustes
  <2>13. AttentesJustes'
    BY <1>4, <2>1 DEF FideliteInv, AttentesJustes
  <2>14. solde' <= Borne'
    <3>1. Borne' = Borne - DusDe[c] + (DusDe[c])'
      BY <1>3, <2>1, BorneChange
    <3>2. DusDe[c] = PointsDus(c) /\ (DusDe[c])' = (PointsDus(c))'
      BY <1>3, <2>1 DEF DusDe
    <3>3. PICK b, d, e : b = Borne /\ d = PointsDus(c) /\ e = (PointsDus(c))'
      OBVIOUS
    <3>4. b \in Nat /\ d \in Nat /\ e \in Nat /\ e + p >= d /\ d <= b /\ solde <= b
      <4>1. DusDe[c] <= Borne
        BY <1>3, BorneNaturelle, SommeNaturelle, FideliteAssumption DEF Borne
      <4> QED
        BY <1>3, <2>2, <3>2, <3>3, <4>1, BorneNaturelle, TraitesType DEF FideliteInv
    <3>5. Borne' = b - d + e /\ solde' = solde - n
      BY <2>3, <2>4, <2>8, <3>1, <3>2, <3>3
    <3> QED
      BY <2>3, <2>4, <3>4, <3>5
  <2> QED
    BY <2>9, <2>11, <2>12, <2>13, <2>14 DEF FideliteInv
<1> QED
  BY <1>2, <1>9, <1>10, <1>11

\* crediter_gain
LEMMA CrediterConserve ==
  ASSUME FideliteInv, NEW c \in Achats, crediter_gain(c)
  PROVE  FideliteInv'
<1>1. UNCHANGED <<renvoi, echange, signaux, signaux_perdus>>
  BY DEF crediter_gain
<1>2. \A a \in Achats : Traites(a)' = Traites(a) /\ Rendu(a)' = Rendu(a)
  BY <1>1, TraitesMemes
<1>3. CASE ~Creditable(c)
  <2>1. UNCHANGED <<gain, solde, cumul, mouvements>>
    BY <1>3 DEF crediter_gain
  <2>2. EtatsJustes' /\ ReprisesJustes'
    BY <1>1, <2>1 DEF FideliteInv, EtatsJustes, ReprisesJustes
  <2> QED
    BY <1>1, <1>2, <2>1, <2>2, RenvoiChange
<1>4. CASE Creditable(c)
  <2>1. PICK g \in GainFidelite : g = gain[c]
    BY DEF FideliteInv, EtatsJustes
  <2>2. PICK n \in Nat : n = gain[c].points
    BY <2>1 DEF GainFidelite
  <2>3. PICK h : h = [g EXCEPT !.statut = "credite"]
    OBVIOUS
  <2>4. h \in GainFidelite /\ h.statut = "credite"
    BY <2>3 DEF GainFidelite, StatutGain
  <2>5. gain' = [gain EXCEPT ![c] = h] /\ gain[c].statut = "en_attente"
    BY <1>4, <2>1, <2>3 DEF crediter_gain, Creditable, FideliteInv, EtatsJustes
  <2>6. \A a \in Achats : gain'[a] = IF a = c THEN h ELSE gain[a]
    BY <2>5 DEF FideliteInv, EtatsJustes
  <2>7. EtatsJustes'
    BY <1>1, <2>4, <2>5, EtatsDuGain DEF FideliteInv
  <2>8. PICK m : m = [type |-> "gain", ref |-> c, points |-> n]
    OBVIOUS
  <2>9. \/ n = 0 /\ UNCHANGED <<solde, cumul, mouvements>>
        \/ /\ m \notin mouvements /\ solde' = solde + n /\ cumul' = cumul + n /\ mouvements' = mouvements \cup {m}
    BY <1>4, <2>2, <2>8 DEF crediter_gain, crediter_points, Inedit
  <2>10. Compte(solde', cumul', mouvements')
    <3>1. CASE n = 0 /\ UNCHANGED <<solde, cumul, mouvements>>
      BY <3>1 DEF FideliteInv
    <3>2. CASE m \notin mouvements /\ solde' = solde + n /\ cumul' = cumul + n /\ mouvements' = mouvements \cup {m}
      <4>1. Compte(solde + n, cumul + n, mouvements \cup {m})
        BY <2>8, <3>2, CompteGain DEF FideliteInv
      <4> QED
        BY <3>2, <4>1
    <3> QED
      BY <2>9, <3>1, <3>2
  <2>11. /\ m.type = "gain" /\ mouvements' \subseteq mouvements \cup {m}
         /\ MouvementsDe(mouvements', "depense", Echanges) = MouvementsDe(mouvements, "depense", Echanges)
    BY <2>8, <2>9 DEF MouvementsDe
  <2>12. Payes(echange', mouvements')
    BY <1>1, <2>11 DEF FideliteInv, Payes
  <2>13. ReprisesJustes'
    BY <1>1, <2>11 DEF FideliteInv, ReprisesJustes
  <2>14. AttentesJustes'
    BY <1>2, <2>4, <2>6 DEF FideliteInv, AttentesJustes
  <2>15. solde' <= Borne'
    <3>1. Borne' = Borne - DusDe[c] + (DusDe[c])'
      BY <1>2, <2>6, BorneChange
    <3>2. DusDe[c] = 0 /\ (DusDe[c])' = PointsDus(c)
      <4>1. (PointsDus(c))' = PointsDus(c)
        BY <1>2 DEF PointsDus
      <4> QED
        BY <2>4, <2>5, <2>6, <4>1 DEF DusDe
    <3>3. PICK b \in Nat : b = Borne /\ solde <= b
      BY BorneNaturelle DEF FideliteInv
    <3>4. PICK d \in Nat : d = PointsDus(c) /\ n <= d
      <4>1. n <= Vaut(c, Rendu(c))
        BY <2>2, <2>5 DEF FideliteInv, AttentesJustes
      <4>2. Cardinality(Traites(c)) \in Nat
        BY TraitesType, PartSommee
      <4>3. Vaut(c, Rendu(c)) \in Nat
        BY TraitesType, VautMoins
      <4>4. PointsDus(c) = Vaut(c, Rendu(c)) + Cardinality(Traites(c))
        BY DEF PointsDus, Rendu
      <4> QED
        BY <4>1, <4>2, <4>3, <4>4
    <3>5. Borne' = b + d /\ solde' = solde + n /\ solde \in Nat
      <4>1. solde \in Nat
        BY DEF FideliteInv, Compte
      <4> QED
        BY <2>9, <3>1, <3>2, <3>3, <3>4, <4>1
    <3> QED
      BY <3>3, <3>4, <3>5
  <2> QED
    BY <2>7, <2>10, <2>12, <2>13, <2>14, <2>15 DEF FideliteInv
<1> QED
  BY <1>3, <1>4

\* VerifierSolde and ConvertirPoints
LEMMA EchangeConserve ==
  ASSUME FideliteInv, NEW e \in Echanges, VerifierSolde(e) \/ ConvertirPoints(e)
  PROVE  FideliteInv'
<1>1. UNCHANGED <<gain, renvoi, signaux, signaux_perdus>>
  BY DEF VerifierSolde, ConvertirPoints
<1>2. \A a \in Achats : Traites(a)' = Traites(a) /\ Rendu(a)' = Rendu(a)
  BY <1>1, TraitesMemes
<1>3. PICK v \in {"verifie", "coupon", "refuse"} :
        /\ echange' = [echange EXCEPT ![e] = v] /\ echange[e] # "coupon"
        /\ \/ v # "coupon" /\ UNCHANGED <<solde, cumul, mouvements>>
           \/ v = "coupon" /\ SoldeSuffit(Option) /\ debiter_points("depense", e, Option)
  BY DEF VerifierSolde, ConvertirPoints
<1>4. \A x \in Echanges : echange'[x] = IF x = e THEN v ELSE echange[x]
  BY <1>3 DEF FideliteInv, EtatsJustes
<1>5. EtatsJustes'
  <2>1. echange' \in [Echanges -> StatutsEchange]
    BY <1>3 DEF FideliteInv, EtatsJustes, StatutsEchange
  <2> QED
    BY <1>1, <2>1 DEF FideliteInv, EtatsJustes
<1>6. AttentesJustes'
  BY <1>1, <1>2 DEF FideliteInv, AttentesJustes
<1>7. CASE v # "coupon" /\ UNCHANGED <<solde, cumul, mouvements>>
  <2>1. ReprisesJustes'
    BY <1>1, <1>7 DEF FideliteInv, ReprisesJustes
  <2> QED
    BY <1>1, <1>2, <1>3, <1>4, <1>5, <1>6, <1>7, <2>1, SansPoints
<1>8. CASE v = "coupon" /\ SoldeSuffit(Option) /\ debiter_points("depense", e, Option)
  <2>1. PICK m : m = [type |-> "depense", ref |-> e, points |-> Option]
    OBVIOUS
  <2>2. /\ m \notin mouvements /\ m.type = "depense" /\ m.ref = e /\ Option \in Nat /\ Option <= solde
        /\ solde' = solde - Option /\ cumul' = cumul /\ mouvements' = mouvements \cup {m}
    BY <1>8, <2>1, FideliteAssumption DEF debiter_points, Inedit, SoldeSuffit
  <2>3. Compte(solde', cumul', mouvements')
    <3>1. Compte(solde - Option, cumul, mouvements \cup {m})
      BY <2>1, <2>2, CompteDebit DEF FideliteInv
    <3> QED
      BY <2>2, <3>1
  <2>4. Payes(echange', mouvements')
    <3>1. MouvementsDe(mouvements', "depense", Echanges) = MouvementsDe(mouvements, "depense", Echanges) \cup {m}
      BY <2>2 DEF MouvementsDe
    <3>2. {x \in Echanges : echange'[x] = "coupon"} = {x \in Echanges : echange[x] = "coupon"} \cup {e}
      BY <1>4, <1>8
    <3>3. {t.ref : t \in MouvementsDe(mouvements', "depense", Echanges)}
            = {t.ref : t \in MouvementsDe(mouvements, "depense", Echanges)} \cup {e}
      BY <2>2, <3>1
    <3> QED
      BY <3>2, <3>3 DEF FideliteInv, Payes
  <2>5. ReprisesJustes'
    BY <1>1, <2>2 DEF FideliteInv, ReprisesJustes
  <2>6. solde' <= Borne'
    <3>1. Borne' = Borne /\ Borne \in Nat
      BY <1>1, <1>2, BorneMeme, BorneNaturelle
    <3>2. solde \in Nat /\ solde <= Borne
      BY DEF FideliteInv, Compte
    <3> QED
      BY <2>2, <3>1, <3>2
  <2> QED
    BY <1>5, <1>6, <2>3, <2>4, <2>5, <2>6 DEF FideliteInv
<1> QED
  BY <1>3, <1>7, <1>8

\* The loyalty points of a client: the balance is what its movements leave, a coupon was paid by points
\* the client had, and the client never holds more than what it still pays for is worth.
THEOREM Points_Exacts == FideliteSpec => []PointsExacts
<1>1. FideliteInit => FideliteInv
  <2> SUFFICES ASSUME FideliteInit PROVE FideliteInv
    OBVIOUS
  <2>1. PICK g \in GainFidelite : g = [statut |-> "aucun", points |-> 0]
    BY DEF GainFidelite, StatutGain
  <2>2. gain = [c \in Achats |-> g] /\ g.statut = "aucun"
    BY <2>1 DEF FideliteInit
  <2>3. EtatsJustes
    BY <2>2 DEF FideliteInit, EtatsJustes, StatutsRenvoi, StatutsEchange
  <2>4. ReprisesJustes /\ AttentesJustes
    BY <2>2 DEF FideliteInit, ReprisesJustes, AttentesJustes
  <2>5. Compte(solde, cumul, mouvements)
    BY TotalVide, FS_EmptySet DEF FideliteInit, Compte
  <2>6. Payes(echange, mouvements)
    BY DEF FideliteInit, Payes, MouvementsDe
  <2>7. solde <= Borne
    BY BorneNaturelle DEF FideliteInit
  <2> QED
    BY <2>3, <2>4, <2>5, <2>6, <2>7 DEF FideliteInv
<1>2. ASSUME FideliteInv, [FideliteNext]_fideliteVars PROVE FideliteInv'
  <2>1. CASE UNCHANGED <<gain, renvoi, signaux, signaux_perdus, solde, cumul, mouvements, echange>>
    <3>1. \A c \in Achats : Traites(c)' = Traites(c)
      BY <2>1, TraitesMemes
    <3>2. EtatsJustes' /\ ReprisesJustes'
      BY <1>2, <2>1 DEF FideliteInv, EtatsJustes, ReprisesJustes
    <3> QED
      BY <1>2, <2>1, <3>1, <3>2, RenvoiChange
  <2>2. ASSUME NEW c \in Achats, ouvrir_gain(c) \/ DelaiEcoule(c) \/ Contester(c) \/ Trancher(c) PROVE FideliteInv'
    BY <1>2, <2>1, <2>2, OuvrirConserve, TrancherConserve DEF DelaiEcoule, Contester
  <2>3. ASSUME NEW r \in Renvois,
               OuvrirRenvoi(r) \/ CloreRenvoi(r) \/ ajuster_points_apres_retour(r) \/ PerdreSignal(r)
        PROVE  FideliteInv'
    BY <1>2, <2>3, RenvoisConserves, AjusterConserve
  <2>4. CASE crediter_gains_echus \/ UNCHANGED fideliteVars
    BY <2>1, <2>4 DEF crediter_gains_echus, fideliteVars
  <2>5. ASSUME NEW c \in Achats, crediter_gain(c) PROVE FideliteInv'
    BY <1>2, <2>5, CrediterConserve
  <2>6. ASSUME NEW e \in Echanges, VerifierSolde(e) \/ ConvertirPoints(e) PROVE FideliteInv'
    BY <1>2, <2>6, EchangeConserve
  <2> QED
    BY <1>2, <2>2, <2>3, <2>4, <2>5, <2>6 DEF FideliteNext
<1>3. FideliteInv => PointsExacts
  BY DEF FideliteInv, Compte, Payes, Borne, DusDe, Total, MouvementsDe, Mouvements, PointsExacts, SoldeExact
<1> QED
  BY <1>1, <1>2, <1>3, PTL DEF FideliteSpec
=============================================================================
