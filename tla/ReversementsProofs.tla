-------------------------- MODULE ReversementsProofs --------------------------
(***************************************************************************)
(* Proofs about Reversements, for any payouts, returns, amounts and number *)
(* of transfers: an order is paid at most once, and only if the money      *)
(* left, a dispute holds the payout, and the debts of the shop are exact.  *)
(***************************************************************************)
EXTENDS Reversements, Sommes, SequenceTheorems

Engages == {"en_cours", "verse"}
Perdus == {"perdu", "refuse", "echec"}
Payants == {"succes", "non_conforme"}

(* The last transfer of r, if any, is over and sent nothing. *)
DernierPerdu(r) == tentative[r] = 0 \/ transferts[r][tentative[r]] \in Perdus

(* Transfers are started one after the other, each once the previous one sent nothing. *)
Chronologie ==
    \A r \in Reversements : \A n \in Essais :
        /\ n > tentative[r] => transferts[r][n] = "aucun"
        /\ n < tentative[r] => transferts[r][n] \in Perdus

(* What the status of the payout says of its money. *)
EngagementDe(r) ==
    /\ statut[r] \notin Engages => DernierPerdu(r) /\ ~manuel[r]
    /\ statut[r] = "en_cours" => tentative[r] > 0 /\ ~manuel[r]
    /\ statut[r] = "verse" /\ manuel[r] => DernierPerdu(r)
    /\ statut[r] = "verse" /\ ~manuel[r] =>
          tentative[r] > 0 /\ transferts[r][tentative[r]] \in Payants

Engagement == \A r \in Reversements : EngagementDe(r)

(* Answers and calls are about the last transfer, whose final state does not change. *)
EchangesActuels ==
    /\ \A rep \in reponses : rep.n = tentative[rep.de] /\ transferts[rep.de][rep.n] = rep.etat
    /\ \A r \in Reversements, n \in Essais : <<r, n>> \in appels => n = tentative[r]

(* Only a transfer that was started can be in progress. *)
EnCoursEntame == \A r \in Reversements : statut[r] = "en_cours" => tentative[r] \in Essais

Types == TypeDossier /\ TypeTransferts /\ EnCoursEntame

Inductif == Types /\ Chronologie /\ Engagement /\ EchangesActuels

-----------------------------------------------------------------------------
(* Types. *)

LEMMA SuspensionType ==
    ASSUME TypeDossier, NEW r \in Reversements
    PROVE  Suspension(r) \in Statuts
BY DEF TypeDossier, Suspension, Statuts

LEMMA RepriseType ==
    ASSUME TypeDossier, NEW r \in Reversements, NEW etats, NEW contestations
    PROVE  Reprise(r, etats, contestations) \in Statuts
BY DEF TypeDossier, Reprise, Statuts

LEMMA RetourConnu ==
    ASSUME NEW t \in Retours PROVE RetourDe[t] \in Reversements
BY ConstantesOk DEF ConstantesOk

(* A dispute, a delivery or a date moves no money: it changes the status of payouts that are *)
(* neither being transferred nor paid, and into such a status.                               *)
Neutre ==
    /\ UNCHANGED <<chezFournisseur, echanges, suivi, versement>>
    /\ \A r \in Reversements :
          statut'[r] = statut[r] \/ (statut[r] \notin Engages /\ statut'[r] \notin Engages)

LEMMA LitigeNeutre ==
    ASSUME Types, Litige
    PROVE  TypeDossier' /\ Neutre
<1>. USE DEF Types
<1>1. ASSUME NEW r \in Reversements, Livrer(r) PROVE TypeDossier' /\ Neutre
      BY <1>1 DEF Livrer, TypeDossier, Neutre, Engages, Statuts, dossier
<1>2. ASSUME NEW r \in Reversements, AnnulerCommande(r) PROVE TypeDossier' /\ Neutre
      BY <1>2 DEF AnnulerCommande, AnnulationDe, TypeDossier, Neutre, Engages, Statuts, dossier
<1>3. ASSUME NEW r \in Reversements, DelaiEcoule(r) PROVE TypeDossier' /\ Neutre
      BY <1>3 DEF DelaiEcoule, TypeDossier, Neutre, Engages
<1>4. ASSUME NEW r \in Reversements, Contester(r) PROVE TypeDossier' /\ Neutre
      BY <1>4 DEF Contester, Suspension, TypeDossier, Neutre, Engages, Statuts
<1>5. ASSUME NEW r \in Reversements, RejeterContestation(r) PROVE TypeDossier' /\ Neutre
      BY <1>5 DEF RejeterContestation, Reprise, TypeDossier, Neutre, Engages, Statuts
<1>6. ASSUME NEW r \in Reversements, RetenirContestation(r) PROVE TypeDossier' /\ Neutre
      BY <1>6 DEF RetenirContestation, AnnulationDe, TypeDossier, Neutre, Engages, Statuts
<1>7. ASSUME NEW t \in Retours, OuvrirRetour(t) PROVE TypeDossier' /\ Neutre
      BY <1>7, RetourConnu DEF OuvrirRetour, Suspension, TypeDossier, Neutre, Engages, Statuts
<1>8. ASSUME NEW t \in Retours, CloreRetour(t) PROVE TypeDossier' /\ Neutre
      BY <1>8, RetourConnu DEF CloreRetour, Reprise, TypeDossier, Neutre, Engages, Statuts
<1>9. ASSUME NEW t \in Retours, RembourserRetour(t) PROVE TypeDossier' /\ Neutre
      BY <1>9, RetourConnu DEF RembourserRetour, ImputerRetour, Reprise, TypeDossier, Neutre, Engages, Statuts
<1>10. ASSUME RendreDisponibles PROVE TypeDossier' /\ Neutre
      BY <1>10 DEF RendreDisponibles, TypeDossier, Neutre, Engages, Statuts, dossier
<1>. QED BY <1>1, <1>2, <1>3, <1>4, <1>5, <1>6, <1>7, <1>8, <1>9, <1>10 DEF Litige

(* A step on a transfer keeps the types; a payment by hand and a transfer only leave         *)
(* "disponible", and a payout comes back to it from "en_cours" only.                         *)
EtapeDeStatut ==
    /\ UNCHANGED dossier
    /\ \A r \in Reversements :
          \/ statut'[r] = statut[r]
          \/ statut[r] = "disponible" /\ statut'[r] \in Engages
          \/ statut[r] = "en_cours" /\ statut'[r] \in {"verse", "disponible"}

LEMMA TransfertTypes ==
    ASSUME Types, Transfert
    PROVE  Types' /\ EtapeDeStatut
<1>. USE DEF Types, TypeDossier, TypeTransferts, Statuts, EtatsTransfert, Finaux, Essais, Saisie,
             EtapeDeStatut, Engages, EnCoursEntame, dossier, chezFournisseur, echanges, suivi, versement
<1>0. Tentatives \in Nat
      BY ConstantesOk DEF ConstantesOk
<1>. USE <1>0
<1>1. ASSUME NEW r \in Reversements, VerserManuellement(r) PROVE Types' /\ EtapeDeStatut
      BY <1>1 DEF VerserManuellement
<1>2. ASSUME NEW r \in Reversements, Transferer(r) PROVE Types' /\ EtapeDeStatut
  <2>. DEFINE n == tentative[r] + 1
  <2>1. n \in Essais
        BY <1>2 DEF Transferer
  <2>2. transferts' \in [Reversements -> [Essais -> EtatsTransfert]] /\ appels' \subseteq Reversements \X Essais
        BY <1>2, <2>1 DEF Transferer
  <2>3. tentative' \in [Reversements -> 0..Tentatives]
        BY <1>2, <2>1 DEF Transferer
  <2>4. alerte' \in [Reversements -> BOOLEAN] /\ signale' \in [Reversements -> BOOLEAN]
        BY <1>2 DEF Transferer, NouveauSuivi
  <2>5. /\ statut' = [statut EXCEPT ![r] = "en_cours"] /\ statut[r] = "disponible"
        /\ fournisseur' = [fournisseur EXCEPT ![r] = TRUE]
        /\ UNCHANGED <<dossier, reponses, doubles, reference, manuel>>
        BY <1>2 DEF Transferer
  <2>6. TypeDossier' /\ EtapeDeStatut
        BY <2>5
  <2>7. TypeTransferts'
        BY <2>2, <2>3, <2>4, <2>5
  <2>8. EnCoursEntame'
        BY <1>2, <2>1, <2>5 DEF Transferer
  <2>. QED BY <2>6, <2>7, <2>8
<1>3. ASSUME NEW r \in Reversements, Reconcilier(r) PROVE Types' /\ EtapeDeStatut
      BY <1>3 DEF Reconcilier, Lire
<1>4. ASSUME NEW r \in Reversements, AlerterBlocage(r) PROVE Types' /\ EtapeDeStatut
      BY <1>4 DEF AlerterBlocage
<1>5. ASSUME NEW r \in Reversements, ResoudreNonParti(r) PROVE Types' /\ EtapeDeStatut
      BY <1>5 DEF ResoudreNonParti, RendreDisponible
<1>6. ASSUME NEW r \in Reversements, ResoudreVerse(r) PROVE Types' /\ EtapeDeStatut
      BY <1>6 DEF ResoudreVerse
<1>7. ASSUME NEW r \in Reversements, NEW n \in Essais, Creer(r, n) PROVE Types' /\ EtapeDeStatut
      BY <1>7 DEF Creer
<1>8. ASSUME NEW r \in Reversements, NEW n \in Essais, Executer(r, n) PROVE Types' /\ EtapeDeStatut
      BY <1>8 DEF Executer
<1>9. ASSUME NEW r \in Reversements, NEW n \in Essais, AppelRefuse(r, n) PROVE Types' /\ EtapeDeStatut
      BY <1>9 DEF AppelRefuse, RendreDisponible
<1>10. ASSUME NEW r \in Reversements, NEW n \in Essais, AppelIncertain(r, n) PROVE Types' /\ EtapeDeStatut
      BY <1>10 DEF AppelIncertain
<1>11. ASSUME NEW r \in Reversements, NEW n \in Essais, AppelAbouti(r, n) PROVE Types' /\ EtapeDeStatut
      BY <1>11 DEF AppelAbouti, Lire
<1>12. ASSUME NEW r \in Reversements, NEW n \in Essais, RecevoirNotification(r, n) PROVE Types' /\ EtapeDeStatut
      BY <1>12 DEF RecevoirNotification, Lire
<1>13. ASSUME NEW rep \in reponses, AppliquerEtat(rep) PROVE Types' /\ EtapeDeStatut
  <2>1. rep.de \in Reversements /\ rep.n \in Essais
        OBVIOUS
  <2>2. CASE SuccesHorsCours(rep)
        BY <1>13, <2>1, <2>2 DEF AppliquerEtat, SuccesHorsCours
  <2>3. CASE Succes(rep)
        BY <1>13, <2>1, <2>3 DEF AppliquerEtat, Succes
  <2>4. CASE SuccesNonConforme(rep)
        BY <1>13, <2>1, <2>4 DEF AppliquerEtat, SuccesNonConforme
  <2>5. CASE Echec(rep)
        BY <1>13, <2>1, <2>5 DEF AppliquerEtat, Echec, RendreDisponible
  <2>. QED BY <1>13, <2>2, <2>3, <2>4, <2>5 DEF AppliquerEtat
<1>. QED
  <2>. HIDE DEF Types, TypeDossier, TypeTransferts, EnCoursEntame, EtapeDeStatut, Essais
  <2>. QED BY <1>1, <1>2, <1>3, <1>4, <1>5, <1>6, <1>7, <1>8, <1>9, <1>10, <1>11, <1>12, <1>13 DEF Transfert

LEMMA TypesInit == Init => Types
BY ConstantesOk DEF ConstantesOk, Init, EnCoursEntame, Types, TypeDossier, TypeTransferts, Statuts, EtatsTransfert, Essais, Saisie

LEMMA TypesSuivants == Types /\ [Next]_vars => Types'
<1>. SUFFICES ASSUME Types, [Next]_vars PROVE Types'
     OBVIOUS
<1>1. CASE Litige
      BY <1>1, LitigeNeutre DEF Types, Neutre, TypeTransferts, EnCoursEntame, Engages, chezFournisseur, echanges, suivi, versement
<1>2. CASE Transfert
      BY <1>2, TransfertTypes
<1>3. CASE UNCHANGED vars
      BY <1>3 DEF vars, dossier, chezFournisseur, echanges, suivi, versement, Types, TypeDossier, TypeTransferts, EnCoursEntame
<1>. QED BY <1>1, <1>2, <1>3 DEF Next

(* Every column other than the amounts keeps its type.                                       *)
THEOREM Typage == Spec => []Types
<1>1. Init => Types
      BY TypesInit
<1>2. Types /\ [Next]_vars => Types'
      BY TypesSuivants
<1>. QED BY <1>1, <1>2, PTL DEF Spec

-----------------------------------------------------------------------------
(* An order is paid at most once, when no answer about a transfer outlives it.               *)

Suite == Chronologie /\ Engagement /\ EchangesActuels

LEMMA SuiteInit == Init => Suite
BY DEF Init, Suite, Chronologie, Engagement, EngagementDe, EchangesActuels, DernierPerdu, Engages, Essais

(* A step that leaves the transfers and the calls alone, and the money of each payout as it  *)
(* was.                                                                                      *)
LEMMA SuiteSansTransfert ==
    ASSUME Inductif, Types',
           UNCHANGED <<transferts, tentative, manuel>>, reponses' \subseteq reponses, appels' \subseteq appels,
           \A r \in Reversements :
              \/ statut'[r] = statut[r]
              \/ statut[r] \notin Engages /\ statut'[r] \notin Engages
    PROVE  Suite'
<1>1. Chronologie'
      BY DEF Inductif, Chronologie
<1>2. Engagement'
      BY DEF Inductif, Engagement, EngagementDe, DernierPerdu, Engages
<1>3. EchangesActuels'
      BY DEF Inductif, EchangesActuels
<1>. QED BY <1>1, <1>2, <1>3 DEF Suite

LEMMA SuiteLitige ==
    ASSUME Inductif, Types', Litige PROVE Suite'
<1>1. Neutre
      BY LitigeNeutre DEF Inductif
<1>. QED BY <1>1, SuiteSansTransfert DEF Neutre, chezFournisseur, echanges, versement

(* Reading the last transfer keeps the answers about it. *)
LEMMA SuiteLecture ==
    ASSUME Inductif, Types', NEW r \in Reversements, NEW n \in Essais, n = tentative[r],
           UNCHANGED <<statut, transferts, tentative, manuel>>, appels' \subseteq appels,
           reponses' = reponses \union Lire(r, n)
    PROVE  Suite'
<1>1. Chronologie' /\ Engagement'
      BY DEF Inductif, Chronologie, Engagement, EngagementDe, DernierPerdu
<1>2. EchangesActuels'
      BY DEF Inductif, EchangesActuels, Lire
<1>. QED BY <1>1, <1>2 DEF Suite

(* Nothing but the last transfer of r changes, from a state that is not final. *)
LEMMA SuiteEnvoi ==
    ASSUME Inductif, Types', NEW r \in Reversements, NEW n \in Essais,
           transferts[r][n] \in {"envoi", "attente"},
           NEW etat, transferts' = [transferts EXCEPT ![r][n] = etat],
           UNCHANGED <<tentative, manuel, reponses>>, appels' \subseteq appels,
           \/ UNCHANGED statut
           \/ /\ statut[r] = "en_cours" /\ etat \in Perdus
              /\ statut' = [statut EXCEPT ![r] = "disponible"]
    PROVE  Suite'
<1>1. n = tentative[r] /\ statut[r] = "en_cours" /\ ~manuel[r] /\ tentative[r] > 0
  <2>1. n = tentative[r]
    <3>1. transferts[r][n] # "aucun" /\ transferts[r][n] \notin Perdus
          BY DEF Perdus
    <3>2. ~(n > tentative[r]) /\ ~(n < tentative[r])
          BY <3>1 DEF Inductif, Chronologie
    <3>3. n \in Int /\ tentative[r] \in Int
          BY ConstantesOk DEF ConstantesOk, Inductif, Types, TypeTransferts, Essais
    <3>. QED BY <3>2, <3>3
  <2>2. tentative[r] > 0 /\ transferts[r][tentative[r]] \notin Perdus /\ transferts[r][tentative[r]] \notin Payants
        BY <2>1, ConstantesOk DEF ConstantesOk, Essais, Perdus, Payants
  <2>3. ~DernierPerdu(r)
        BY <2>2 DEF DernierPerdu, Inductif, Types, TypeTransferts, Essais
  <2>. QED BY <2>1, <2>2, <2>3 DEF Inductif, Engagement, EngagementDe, Engages
<1>2. \A q \in Reversements : \A k \in Essais :
        transferts'[q][k] = IF q = r /\ k = n THEN etat ELSE transferts[q][k]
      BY DEF Inductif, Types, TypeTransferts
<1>3. Chronologie'
      BY <1>1, <1>2 DEF Inductif, Types, TypeTransferts, Chronologie, Essais
<1>4. \A q \in Reversements : q # r => DernierPerdu(q)' = DernierPerdu(q)
      BY DEF DernierPerdu, Inductif, Types, TypeTransferts
<1>5. ASSUME NEW q \in Reversements PROVE EngagementDe(q)'
  <2>1. CASE q = r
        BY <1>1, <1>2, <2>1 DEF EngagementDe, DernierPerdu, Engages, Inductif, Types, TypeDossier
  <2>2. CASE q # r
    <3>1. statut'[q] = statut[q] /\ transferts'[q] = transferts[q]
          BY <2>2 DEF Inductif, Types, TypeDossier, TypeTransferts
    <3>. QED BY <3>1, <2>2, <1>4 DEF EngagementDe, Inductif, Engagement
  <2>. QED BY <2>1, <2>2
<1>6. EchangesActuels'
  <2>1. ASSUME NEW rep \in reponses' PROVE rep.n = tentative'[rep.de] /\ transferts'[rep.de][rep.n] = rep.etat
    <3>1. rep.n = tentative[rep.de] /\ transferts[rep.de][rep.n] = rep.etat /\ rep.de \in Reversements
             /\ rep.n \in Essais /\ rep.etat \in Finaux
          BY DEF Inductif, EchangesActuels, Types, TypeTransferts
    <3>2. ~(rep.de = r /\ rep.n = n)
          BY <3>1 DEF Finaux
    <3>. QED BY <3>1, <3>2, <1>2
  <2>2. \A q \in Reversements, k \in Essais : <<q, k>> \in appels' => k = tentative'[q]
        BY DEF Inductif, EchangesActuels
  <2>. QED BY <2>1, <2>2 DEF EchangesActuels
<1>. QED BY <1>3, <1>5, <1>6 DEF Suite, Engagement

(* The end of a transfer that is known: back to "disponible" when it sent nothing, paid when *)
(* it succeeded.                                                                             *)
LEMMA SuiteIssue ==
    ASSUME Inductif, Types', NEW r \in Reversements, statut[r] = "en_cours",
           NEW nouveau, statut' = [statut EXCEPT ![r] = nouveau],
           \/ nouveau = "disponible" /\ transferts[r][tentative[r]] \in Perdus
           \/ nouveau = "verse" /\ transferts[r][tentative[r]] \in Payants,
           UNCHANGED <<transferts, tentative, manuel, appels>>, reponses' \subseteq reponses
    PROVE  Suite'
<1>1. Chronologie' /\ EchangesActuels'
      BY DEF Inductif, Chronologie, EchangesActuels
<1>2. ASSUME NEW q \in Reversements PROVE EngagementDe(q)'
  <2>1. CASE q = r
        BY <2>1 DEF EngagementDe, DernierPerdu, Engages, Inductif, Engagement, Types, TypeDossier
  <2>2. CASE q # r
        BY <2>2 DEF EngagementDe, DernierPerdu, Engages, Inductif, Engagement, Types, TypeDossier
  <2>. QED BY <2>1, <2>2
<1>. QED BY <1>1, <1>2 DEF Suite, Engagement

LEMMA SuiteVerserManuellement ==
    ASSUME Inductif, Types', NEW r \in Reversements, VerserManuellement(r)
    PROVE  Suite'
<1>1. Chronologie' /\ EchangesActuels'
      BY DEF VerserManuellement, chezFournisseur, echanges, Inductif, Chronologie, EchangesActuels
<1>2. ASSUME NEW q \in Reversements PROVE EngagementDe(q)'
      BY DEF VerserManuellement, chezFournisseur, EngagementDe, DernierPerdu, Engages, Inductif,
             Engagement, Types, TypeDossier, TypeTransferts
<1>. QED BY <1>1, <1>2 DEF Suite, Engagement

LEMMA SuiteTransferer ==
    ASSUME ~ReponsesTardives, Inductif, Types', NEW r \in Reversements, Transferer(r)
    PROVE  Suite'
<1>. DEFINE n == tentative[r] + 1
<1>1. n \in Essais /\ DernierPerdu(r) /\ ~manuel[r] /\ statut[r] = "disponible"
      BY ConstantesOk DEF ConstantesOk, Transferer, Inductif, Engagement, EngagementDe, Engages, Types,
                          TypeTransferts, Essais
<1>2. /\ tentative' = [tentative EXCEPT ![r] = n]
      /\ transferts' = [transferts EXCEPT ![r][n] = "envoi"]
      /\ statut' = [statut EXCEPT ![r] = "en_cours"]
      /\ appels' = appels \union {<<r, n>>} /\ reponses' = reponses /\ manuel' = manuel
      BY DEF Transferer
<1>3. ASSUME NEW q \in Reversements, NEW k \in Essais
      PROVE  /\ k > tentative'[q] => transferts'[q][k] = "aucun"
             /\ k < tentative'[q] => transferts'[q][k] \in Perdus
  <2>1. CASE q = r
    <3>1. k # n => transferts'[r][k] = transferts[r][k]
          BY <1>2 DEF Inductif, Types, TypeTransferts
    <3>2. tentative'[r] = n /\ tentative[r] \in Nat /\ k \in Nat /\ tentative[r] >= 0
          BY <1>2, ConstantesOk DEF ConstantesOk, Inductif, Types, TypeTransferts, Essais
    <3>3. k > tentative[r] => transferts[r][k] = "aucun"
          BY DEF Inductif, Chronologie
    <3>4. k < tentative[r] => transferts[r][k] \in Perdus
          BY DEF Inductif, Chronologie
    <3>5. k = tentative[r] => transferts[r][k] \in Perdus
          BY <1>1 DEF DernierPerdu, Essais
    <3>. QED BY <2>1, <3>1, <3>2, <3>3, <3>4, <3>5
  <2>2. CASE q # r
        BY <1>2, <2>2 DEF Inductif, Types, TypeTransferts, Chronologie
  <2>. QED BY <2>1, <2>2
<1>4. ASSUME NEW q \in Reversements PROVE EngagementDe(q)'
  <2>1. CASE q = r
        BY <1>1, <1>2, <2>1 DEF EngagementDe, Engages, Inductif, Types, TypeDossier, TypeTransferts
  <2>2. CASE q # r
        BY <1>2, <2>2 DEF EngagementDe, DernierPerdu, Inductif, Engagement, Types, TypeDossier, TypeTransferts
  <2>. QED BY <2>1, <2>2
<1>5. (\A k \in Essais : <<r, k>> \notin appels) /\ (\A rep \in reponses : rep.de # r)
      BY DEF Transferer, SansReponseEnAttente
<1>6. EchangesActuels'
  <2>1. ASSUME NEW rep \in reponses' PROVE rep.n = tentative'[rep.de] /\ transferts'[rep.de][rep.n] = rep.etat
        BY <1>2, <1>5 DEF Inductif, EchangesActuels, Types, TypeTransferts
  <2>2. ASSUME NEW q \in Reversements, NEW k \in Essais, <<q, k>> \in appels' PROVE k = tentative'[q]
        BY <1>2, <1>5, <2>2 DEF Inductif, EchangesActuels, Types, TypeTransferts
  <2>. QED BY <2>1, <2>2 DEF EchangesActuels
<1>. QED BY <1>3, <1>4, <1>6 DEF Suite, Chronologie, Engagement

LEMMA SuiteTransfert ==
    ASSUME ~ReponsesTardives, Inductif, Types', Transfert
    PROVE  Suite'
<1>. USE DEF chezFournisseur, echanges, versement
<1>1. ASSUME NEW r \in Reversements, VerserManuellement(r) PROVE Suite'
      BY <1>1, SuiteVerserManuellement
<1>2. ASSUME NEW r \in Reversements, Transferer(r) PROVE Suite'
      BY <1>2, SuiteTransferer
<1>3. ASSUME NEW r \in Reversements, Reconcilier(r) PROVE Suite'
      BY <1>3, SuiteLecture DEF Reconcilier, Inductif, Types, EnCoursEntame
<1>4. ASSUME NEW r \in Reversements, AlerterBlocage(r) PROVE Suite'
      BY <1>4, SuiteSansTransfert DEF AlerterBlocage
<1>5. ASSUME NEW r \in Reversements, ResoudreNonParti(r) PROVE Suite'
      BY <1>5, SuiteIssue DEF ResoudreNonParti, RendreDisponible, Constate, Perdus
<1>6. ASSUME NEW r \in Reversements, ResoudreVerse(r) PROVE Suite'
      BY <1>6, SuiteIssue DEF ResoudreVerse, Constate, Payants
<1>7. ASSUME NEW r \in Reversements, NEW n \in Essais, Creer(r, n) PROVE Suite'
      BY <1>7, SuiteEnvoi DEF Creer
<1>8. ASSUME NEW r \in Reversements, NEW n \in Essais, Executer(r, n) PROVE Suite'
      BY <1>8, SuiteEnvoi DEF Executer
<1>9. ASSUME NEW r \in Reversements, NEW n \in Essais, AppelRefuse(r, n) PROVE Suite'
      BY <1>9, SuiteEnvoi DEF AppelRefuse, RendreDisponible, Perdus
<1>10. ASSUME NEW r \in Reversements, NEW n \in Essais, AppelIncertain(r, n) PROVE Suite'
  <2>1. CASE transferts[r][n] = "envoi"
        BY <1>10, <2>1, SuiteEnvoi DEF AppelIncertain
  <2>2. CASE transferts[r][n] # "envoi"
    <3>1. transferts' = transferts
          BY <1>10, <2>2 DEF AppelIncertain, Inductif, Types, TypeTransferts
    <3>. QED BY <1>10, <3>1, SuiteSansTransfert DEF AppelIncertain
  <2>. QED BY <2>1, <2>2
<1>11. ASSUME NEW r \in Reversements, NEW n \in Essais, AppelAbouti(r, n) PROVE Suite'
      BY <1>11, SuiteLecture DEF AppelAbouti, Inductif, EchangesActuels
<1>12. ASSUME NEW r \in Reversements, NEW n \in Essais, RecevoirNotification(r, n) PROVE Suite'
      BY <1>12, SuiteLecture DEF RecevoirNotification
<1>13. ASSUME NEW rep \in reponses, AppliquerEtat(rep) PROVE Suite'
  <2>1. /\ rep.de \in Reversements /\ transferts[rep.de][tentative[rep.de]] = rep.etat
        /\ reponses' \subseteq reponses /\ UNCHANGED <<transferts, tentative, manuel, appels>>
        BY <1>13 DEF AppliquerEtat, Inductif, Types, TypeTransferts, EchangesActuels
  <2>2. CASE SuccesHorsCours(rep)
        BY <2>1, <2>2, SuiteSansTransfert DEF SuccesHorsCours
  <2>3. CASE Succes(rep)
        BY <2>1, <2>3, SuiteIssue DEF Succes, Payants
  <2>4. CASE SuccesNonConforme(rep)
        BY <2>1, <2>4, SuiteSansTransfert DEF SuccesNonConforme
  <2>5. CASE Echec(rep) /\ statut[rep.de] = "en_cours"
        BY <2>1, <2>5, SuiteIssue DEF Echec, RendreDisponible, Perdus
  <2>6. CASE Echec(rep) /\ statut[rep.de] # "en_cours"
        BY <2>1, <2>6, SuiteSansTransfert DEF Echec
  <2>. QED BY <1>13, <2>2, <2>3, <2>4, <2>5, <2>6 DEF AppliquerEtat
<1>. QED BY <1>1, <1>2, <1>3, <1>4, <1>5, <1>6, <1>7, <1>8, <1>9, <1>10, <1>11, <1>12, <1>13 DEF Transfert

(* Types, chronology of the transfers, what a status says of the money, and answers about    *)
(* the last transfer: together inductive.                                                    *)
THEOREM Invariance == ASSUME ~ReponsesTardives PROVE Spec => []Inductif
<1>1. Init => Inductif
      BY TypesInit, SuiteInit DEF Inductif, Suite
<1>2. Inductif /\ [Next]_vars => Inductif'
  <2>. SUFFICES ASSUME Inductif, [Next]_vars PROVE Suite'
       BY TypesSuivants DEF Inductif, Suite
  <2>1. Types'
        BY TypesSuivants DEF Inductif
  <2>2. CASE Litige
        BY <2>1, <2>2, SuiteLitige
  <2>3. CASE Transfert
        BY <2>1, <2>3, SuiteTransfert
  <2>4. CASE UNCHANGED vars
        BY <2>1, <2>4, SuiteSansTransfert DEF vars, chezFournisseur, echanges, versement
  <2>. QED BY <2>2, <2>3, <2>4 DEF Next
<1>. QED BY <1>1, <1>2, PTL DEF Spec

(* Whatever calls time out, whatever notifications are lost or repeated, and whatever the    *)
(* administration resolves, the money of an order leaves at most once.                       *)
THEOREM Versement_Unique == ASSUME ~ReponsesTardives PROVE Spec => []VersementUnique
<1>1. Inductif => VersementUnique
  <2>. SUFFICES ASSUME Inductif, NEW r \in Reversements,
                       NEW a \in Partis(r), NEW b \in Partis(r)
                PROVE  a = b
       BY DEF VersementUnique
  <2>1. ASSUME NEW n \in Essais, transferts[r][n] \in Payants
        PROVE  n = tentative[r] /\ ~manuel[r]
    <3>1. transferts[r][n] # "aucun" /\ transferts[r][n] \notin Perdus
          BY <2>1 DEF Perdus, Payants
    <3>2. ~(n > tentative[r]) /\ ~(n < tentative[r])
          BY <3>1 DEF Inductif, Chronologie
    <3>3. n = tentative[r] /\ tentative[r] # 0
          BY <3>2, ConstantesOk DEF ConstantesOk, Inductif, Types, TypeTransferts, Essais
    <3>4. ~DernierPerdu(r)
          BY <3>1, <3>3 DEF DernierPerdu
    <3>. QED BY <3>3, <3>4 DEF Inductif, Engagement, EngagementDe, Engages
  <2>. QED BY <2>1 DEF Partis, Payants
<1>. QED BY <1>1, Invariance, PTL

(* A payout is said to be paid only when its money left.                                     *)
THEOREM Verse_Est_Parti == ASSUME ~ReponsesTardives PROVE Spec => []VerseEstParti
<1>1. Inductif => VerseEstParti
      BY ConstantesOk DEF ConstantesOk, Inductif, Types, TypeTransferts, Engagement, EngagementDe,
                          VerseEstParti, Partis, Payants, Essais
<1>. QED BY <1>1, Invariance, PTL

-----------------------------------------------------------------------------
(* A dispute holds the payout, when returns are asked within the withdrawal period.          *)

EnLitige(r) == RetourOuvert(r, retour) \/ contestation[r] = "ouverte"

(* The two properties of a payout, and why they are kept: before the end of the period       *)
(* nothing is available, so that a dispute opened in time finds something to suspend.        *)
Tenu(r) ==
    /\ EnLitige(r) => statut[r] \in {"suspendu", "annule"}
    /\ statut[r] = "suspendu" => EnLitige(r)
    /\ ~echu[r] => statut[r] \in {"en_attente_livraison", "en_retractation", "suspendu", "annule"}

Suspensions == \A r \in Reversements : Tenu(r)

LEMMA SuspensionsInit == Init => Suspensions
BY DEF Init, Suspensions, Tenu, EnLitige, RetourOuvert

(* Steps on one payout r keep what is known of the others. *)
LEMMA AutresTenus ==
    ASSUME Types, Suspensions, NEW r \in Reversements,
           \A q \in Reversements : q # r => statut'[q] = statut[q] /\ echu'[q] = echu[q]
                                            /\ contestation'[q] = contestation[q],
           \A t \in Retours : RetourDe[t] # r => retour'[t] = retour[t],
           Tenu(r)'
    PROVE  Suspensions'
BY DEF Suspensions, Tenu, EnLitige, RetourOuvert

LEMMA SuspensionsLitige ==
    ASSUME ~RetourApresDelai, Types, Suspensions, Litige
    PROVE  Suspensions'
<1>. USE DEF Types, TypeDossier
<1>1. ASSUME NEW r \in Reversements, Livrer(r) PROVE Suspensions'
      BY <1>1 DEF Livrer, dossier, Suspensions, Tenu, EnLitige, RetourOuvert
<1>2. ASSUME NEW r \in Reversements, AnnulerCommande(r) PROVE Suspensions'
      BY <1>2 DEF AnnulerCommande, AnnulationDe, dossier, Suspensions, Tenu, EnLitige, RetourOuvert
<1>3. ASSUME NEW r \in Reversements, DelaiEcoule(r) PROVE Suspensions'
      BY <1>3 DEF DelaiEcoule, Suspensions, Tenu, EnLitige, RetourOuvert
<1>4. ASSUME NEW r \in Reversements, Contester(r) PROVE Suspensions'
      BY <1>4 DEF Contester, Livre, Suspension, Suspensions, Tenu, EnLitige, RetourOuvert
<1>5. ASSUME NEW r \in Reversements, RejeterContestation(r) PROVE Suspensions'
      BY <1>5 DEF RejeterContestation, Reprise, Suspensions, Tenu, EnLitige, RetourOuvert
<1>6. ASSUME NEW r \in Reversements, RetenirContestation(r) PROVE Suspensions'
      BY <1>6 DEF RetenirContestation, AnnulationDe, Suspensions, Tenu, EnLitige, RetourOuvert
<1>7. ASSUME NEW t \in Retours, OuvrirRetour(t) PROVE Suspensions'
  <2>1. Tenu(RetourDe[t])'
        BY <1>7, RetourConnu DEF OuvrirRetour, Livre, Suspension, Suspensions, Tenu, EnLitige, RetourOuvert
  <2>. QED BY <1>7, <2>1, RetourConnu, AutresTenus DEF OuvrirRetour
<1>8. ASSUME NEW t \in Retours, CloreRetour(t) PROVE Suspensions'
  <2>1. Tenu(RetourDe[t])'
        BY <1>8, RetourConnu DEF CloreRetour, Reprise, Suspensions, Tenu, EnLitige, RetourOuvert
  <2>. QED BY <1>8, <2>1, RetourConnu, AutresTenus DEF CloreRetour
<1>9. ASSUME NEW t \in Retours, RembourserRetour(t) PROVE Suspensions'
  <2>1. Tenu(RetourDe[t])'
        BY <1>9, RetourConnu DEF RembourserRetour, ImputerRetour, Reprise, Suspensions, Tenu, EnLitige, RetourOuvert
  <2>. QED BY <1>9, <2>1, RetourConnu, AutresTenus DEF RembourserRetour, ImputerRetour
<1>10. ASSUME RendreDisponibles PROVE Suspensions'
      BY <1>10 DEF RendreDisponibles, dossier, Suspensions, Tenu, EnLitige, RetourOuvert
<1>. QED BY <1>1, <1>2, <1>3, <1>4, <1>5, <1>6, <1>7, <1>8, <1>9, <1>10 DEF Litige

LEMMA SuspensionsTransfert ==
    ASSUME Types, Suspensions, EtapeDeStatut PROVE Suspensions'
BY DEF EtapeDeStatut, dossier, Suspensions, Tenu, EnLitige, RetourOuvert, Engages

LEMMA SuspensionsToujours == ASSUME ~RetourApresDelai PROVE Spec => []Suspensions
<1>1. Types /\ Suspensions /\ [Next]_vars => Suspensions'
  <2>. SUFFICES ASSUME Types, Suspensions, [Next]_vars PROVE Suspensions'
       OBVIOUS
  <2>1. CASE Litige
        BY <2>1, SuspensionsLitige
  <2>2. CASE Transfert
        BY <2>2, TransfertTypes, SuspensionsTransfert
  <2>3. CASE UNCHANGED vars
        BY <2>3 DEF vars, dossier, Suspensions, Tenu, EnLitige, RetourOuvert
  <2>. QED BY <2>1, <2>2, <2>3 DEF Next
<1>. QED BY <1>1, SuspensionsInit, Typage, PTL DEF Spec

(* While a return or a contestation is open, the payout is suspended or cancelled.           *)
THEOREM Litige_Suspend == ASSUME ~RetourApresDelai PROVE Spec => []LitigeSuspend
<1>1. Suspensions => LitigeSuspend
      BY DEF Suspensions, Tenu, EnLitige, LitigeSuspend
<1>. QED BY <1>1, SuspensionsToujours, PTL

(* The last dispute that ends gives the payout its course back.                              *)
THEOREM Suspendu_Pour_Litige == ASSUME ~RetourApresDelai PROVE Spec => []SuspenduPourLitige
<1>1. Suspensions => SuspenduPourLitige
      BY DEF Suspensions, Tenu, EnLitige, SuspenduPourLitige
<1>. QED BY <1>1, SuspensionsToujours, PTL

-----------------------------------------------------------------------------
(* The debts of a shop: lists of rows, and what they charge to a payout. *)

Dettes == [nature : {"retour", "offerte", "frais"}, de : Retours \union Reversements,
           montant : Nat, impute : Reversements \union {Aucun}]

TypeDettes ==
    /\ retires \in [Reversements -> Nat]
    /\ aVerser \in [Reversements -> Nat]
    /\ ajustements \in Seq(Dettes)

MemeCle(a, b) == a.nature = b.nature /\ a.de = b.de

ClesUniques(liste) == \A i, j \in DOMAIN liste : MemeCle(liste[i], liste[j]) => i = j

ChargesDe(liste, q) == {i \in DOMAIN liste : liste[i].impute = q}

MontantsDe(liste) == [i \in DOMAIN liste |-> liste[i].montant]

Charge(liste, q) == SumFunctionOnSet(MontantsDe(liste), ChargesDe(liste, q))

LEMMA Lignes ==
    ASSUME NEW l \in Seq(Dettes)
    PROVE  /\ DOMAIN l = 1..Len(l) /\ Len(l) \in Nat /\ IsFiniteSet(DOMAIN l)
           /\ \A i \in DOMAIN l : /\ l[i] \in Dettes /\ l[i].montant \in Nat
                                  /\ MontantsDe(l)[i] = l[i].montant
           /\ \A q : IsFiniteSet(ChargesDe(l, q)) /\ ChargesDe(l, q) \subseteq DOMAIN l
<1>1. DOMAIN l = 1..Len(l) /\ Len(l) \in Nat /\ \A i \in DOMAIN l : l[i] \in Dettes
      OBVIOUS
<1>2. IsFiniteSet(DOMAIN l)
      BY <1>1, FS_Interval
<1>3. \A i \in DOMAIN l : l[i].montant \in Nat /\ MontantsDe(l)[i] = l[i].montant
      BY <1>1 DEF Dettes, MontantsDe
<1>4. \A q : ChargesDe(l, q) \subseteq DOMAIN l
      BY DEF ChargesDe
<1>5. \A q : IsFiniteSet(ChargesDe(l, q))
      BY <1>2, <1>4, FS_Subset
<1>. QED BY <1>1, <1>2, <1>3, <1>4, <1>5

LEMMA ChargeEgale ==
    ASSUME NEW l \in Seq(Dettes), NEW m \in Seq(Dettes), NEW q, ChargesDe(m, q) = ChargesDe(l, q),
           \A i \in ChargesDe(l, q) : m[i].montant = l[i].montant
    PROVE  Charge(m, q) = Charge(l, q)
<1>. DEFINE S == ChargesDe(l, q)
            f == MontantsDe(m)
            g == MontantsDe(l)
<1>1. IsFiniteSet(S) /\ \A i \in S : f[i] = g[i] /\ f[i] \in Int
      BY Lignes
<1>. HIDE DEF f, g
<1>2. SumFunctionOnSet(f, S) = SumFunctionOnSet(g, S)
      BY <1>1, SommeEgale
<1>. QED BY <1>2 DEF f, g, Charge

(* One row more, unless there is one already, or nothing to owe. *)
LEMMA AjouterFaits ==
    ASSUME NEW l \in Seq(Dettes), ClesUniques(l), NEW d \in Dettes, d.impute = Aucun
    PROVE  LET m == Ajouter(l, d) IN
           /\ m \in Seq(Dettes) /\ ClesUniques(m)
           /\ DOMAIN l \subseteq DOMAIN m /\ \A i \in DOMAIN l : m[i] = l[i]
           /\ \A i \in DOMAIN m : i \notin DOMAIN l => m[i] = d
           /\ d.montant # 0 => \E i \in DOMAIN m : MemeCle(m[i], d)
           /\ d.montant = 0 => m = l
<1>. DEFINE m == Ajouter(l, d)
<1>1. CASE d.montant = 0 \/ \E i \in DOMAIN l : MemeCle(l[i], d)
      BY <1>1 DEF Ajouter, MemeCle
<1>2. CASE d.montant # 0 /\ \A i \in DOMAIN l : ~ MemeCle(l[i], d)
  <2>1. m = Append(l, d)
        BY <1>2 DEF Ajouter, MemeCle
  <2>2. DOMAIN l = 1..Len(l) /\ Len(l) \in Nat
        OBVIOUS
  <2>. HIDE DEF m
  <2>3. /\ m \in Seq(Dettes) /\ DOMAIN m = 1..(Len(l) + 1) /\ m[Len(l) + 1] = d
        /\ \A i \in 1..Len(l) : m[i] = l[i]
        BY <2>1
  <2>4. \A i \in DOMAIN m : i \in DOMAIN l \/ i = Len(l) + 1
        BY <2>2, <2>3
  <2>5. DOMAIN l \subseteq DOMAIN m /\ Len(l) + 1 \in DOMAIN m
        BY <2>2, <2>3
  <2>6. ASSUME NEW i \in DOMAIN m, NEW j \in DOMAIN m, MemeCle(m[i], m[j]) PROVE i = j
    <3>1. CASE i \in DOMAIN l /\ j \in DOMAIN l
          BY <2>2, <2>3, <2>6, <3>1 DEF ClesUniques
    <3>2. CASE i \in DOMAIN l /\ j = Len(l) + 1
          BY <1>2, <2>2, <2>3, <2>6, <3>2
    <3>3. CASE j \in DOMAIN l /\ i = Len(l) + 1
          BY <1>2, <2>2, <2>3, <2>6, <3>3 DEF MemeCle
    <3>4. CASE i = Len(l) + 1 /\ j = Len(l) + 1
          BY <3>4
    <3>. QED BY <2>4, <3>1, <3>2, <3>3, <3>4
  <2>7. ClesUniques(m)
        BY <2>6 DEF ClesUniques
  <2>8. MemeCle(m[Len(l) + 1], d)
        BY <2>3 DEF MemeCle
  <2>9. /\ m \in Seq(Dettes) /\ ClesUniques(m)
        /\ DOMAIN l \subseteq DOMAIN m /\ \A i \in DOMAIN l : m[i] = l[i]
        /\ \A i \in DOMAIN m : i \notin DOMAIN l => m[i] = d
        /\ \E i \in DOMAIN m : MemeCle(m[i], d)
        BY <2>2, <2>3, <2>4, <2>5, <2>7, <2>8
  <2>. QED BY <1>2, <2>9 DEF m
<1>. QED BY <1>1, <1>2

(* A change of the list that leaves what each payout holds. *)
Conserve(l, m) ==
    \A q \in Reversements :
        Charge(m, q) = Charge(l, q) /\ (ChargesDe(l, q) = {} => ChargesDe(m, q) = {})

LEMMA AjouterConserve ==
    ASSUME NEW l \in Seq(Dettes), ClesUniques(l), NEW d \in Dettes, d.impute = Aucun
    PROVE  Conserve(l, Ajouter(l, d))
<1>. SUFFICES ASSUME NEW q \in Reversements
              PROVE  /\ Charge(Ajouter(l, d), q) = Charge(l, q)
                     /\ ChargesDe(Ajouter(l, d), q) = ChargesDe(l, q)
     BY DEF Conserve
<1>1. PICK m : m = Ajouter(l, d)
      OBVIOUS
<1>2. /\ m \in Seq(Dettes) /\ DOMAIN l \subseteq DOMAIN m /\ \A i \in DOMAIN l : m[i] = l[i]
      /\ \A i \in DOMAIN m : i \notin DOMAIN l => m[i] = d
      BY <1>1, AjouterFaits
<1>3. q # Aucun
      BY ConstantesOk DEF ConstantesOk
<1>4. ChargesDe(m, q) = ChargesDe(l, q)
      BY <1>2, <1>3 DEF ChargesDe
<1>5. \A i \in ChargesDe(l, q) : m[i].montant = l[i].montant
      BY <1>2 DEF ChargesDe
<1>6. Charge(m, q) = Charge(l, q)
      BY <1>2, <1>4, <1>5, ChargeEgale
<1>. QED BY <1>1, <1>4, <1>6

(* One row less, that no payout holds. *)
Avant(i, j) == IF j < i THEN j ELSE j + 1

LEMMA RetirerLigne ==
    ASSUME NEW l \in Seq(Dettes), NEW i \in DOMAIN l
    PROVE  LET m == RemoveAt(l, i) IN
           /\ m \in Seq(Dettes) /\ DOMAIN m = 1..(Len(l) - 1)
           /\ \A j \in DOMAIN m : Avant(i, j) \in DOMAIN l /\ Avant(i, j) # i /\ m[j] = l[Avant(i, j)]
           /\ \A j, k \in DOMAIN m : Avant(i, j) = Avant(i, k) => j = k
           /\ \A k \in DOMAIN l : k # i => \E j \in DOMAIN m : k = Avant(i, j)
<1>. DEFINE a == SubSeq(l, 1, i - 1)
            b == SubSeq(l, i + 1, Len(l))
            n == Len(l)
<1>0. n \in Nat /\ DOMAIN l = 1..n /\ i \in 1..n /\ i \in Int
      BY Lignes
<1>1. a \in Seq(Dettes) /\ Len(a) = i - 1 /\ \A j \in 1..(i - 1) : a[j] = l[j]
  <2>1. i - 1 \in 0..n /\ i - 1 \in Nat
        BY <1>0
  <2>2. 1 \in 1..(n + 1)
        BY <1>0
  <2>. QED BY <1>0, <2>1, <2>2, SubSeqProperties
<1>2. b \in Seq(Dettes) /\ Len(b) = n - i /\ \A j \in 1..(n - i) : b[j] = l[i + j]
  <2>1. i + 1 \in 1..(n + 1) /\ n \in i..n
        BY <1>0
  <2>. QED BY SMTT(30), <1>0, <2>1, SubSeqProperties
<1>. HIDE DEF a, b
<1>3. PICK m : m = a \o b
      OBVIOUS
<1>4. m \in Seq(Dettes) /\ Len(m) = n - 1
  <2>1. m \in Seq(Dettes) /\ Len(m) = Len(a) + Len(b)
        BY <1>1, <1>2, <1>3, ConcatProperties
  <2>. QED BY <1>0, <1>1, <1>2, <2>1
<1>5. DOMAIN m = 1..(n - 1)
      BY <1>4
<1>6. ASSUME NEW j \in 1..(n - 1) PROVE m[j] = l[Avant(i, j)] /\ Avant(i, j) \in 1..n /\ Avant(i, j) # i
  <2>1. CASE j < i
    <3>1. j \in 1..(i - 1)
          BY <1>0, <2>1
    <3>2. m[j] = a[j]
          BY <1>1, <1>2, <1>3, <3>1
    <3>. QED BY <1>0, <1>1, <2>1, <3>1, <3>2 DEF Avant
  <2>2. CASE ~ (j < i)
    <3>1. j - (i - 1) \in 1..(n - i) /\ i + (j - (i - 1)) = j + 1 /\ j + 1 \in 1..n /\ j + 1 # i
          BY <1>0, <2>2
    <3>2. j \in 1..(Len(a) + Len(b)) /\ j > Len(a)
          BY <1>0, <1>1, <1>2, <2>2
    <3>3. m[j] = b[j - (i - 1)]
          BY <1>0, <1>1, <1>2, <1>3, <3>2
    <3>. QED BY <1>2, <2>2, <3>1, <3>3 DEF Avant
  <2>. QED BY <2>1, <2>2
<1>7. \A j, k \in 1..(n - 1) : Avant(i, j) = Avant(i, k) => j = k
      BY <1>0 DEF Avant
<1>8. ASSUME NEW k \in 1..n, k # i PROVE \E j \in 1..(n - 1) : k = Avant(i, j)
  <2>1. CASE k < i
    <3>1. k \in 1..(n - 1) /\ Avant(i, k) = k
          BY <1>0, <2>1 DEF Avant
    <3>. QED BY <3>1
  <2>2. CASE k > i
    <3>1. k - 1 \in 1..(n - 1) /\ Avant(i, k - 1) = k
          BY <1>0, <2>2 DEF Avant
    <3>. QED BY <3>1
  <2>. QED BY <1>0, <1>8, <2>1, <2>2
<1>9. m = RemoveAt(l, i)
      BY <1>3 DEF RemoveAt, a, b
<1>. QED BY <1>0, <1>4, <1>5, <1>6, <1>7, <1>8, <1>9

LEMMA RetirerConserve ==
    ASSUME NEW l \in Seq(Dettes), NEW i \in DOMAIN l, l[i].impute = Aucun
    PROVE  Conserve(l, RemoveAt(l, i))
<1>. SUFFICES ASSUME NEW q \in Reversements
              PROVE  /\ Charge(RemoveAt(l, i), q) = Charge(l, q)
                     /\ (ChargesDe(l, q) = {} => ChargesDe(RemoveAt(l, i), q) = {})
     BY DEF Conserve
<1>1. PICK m : m = RemoveAt(l, i)
      OBVIOUS
<1>2. /\ m \in Seq(Dettes)
      /\ \A j \in DOMAIN m : Avant(i, j) \in DOMAIN l /\ m[j] = l[Avant(i, j)]
      /\ \A j, k \in DOMAIN m : Avant(i, j) = Avant(i, k) => j = k
      /\ \A k \in DOMAIN l : k # i => \E j \in DOMAIN m : k = Avant(i, j)
      BY <1>1, RetirerLigne
<1>3. q # Aucun
      BY ConstantesOk DEF ConstantesOk
<1>. DEFINE S == ChargesDe(m, q)
            b == [j \in DOMAIN m |-> Avant(i, j)]
            f == MontantsDe(m)
            g == MontantsDe(l)
<1>4. \A j \in S : j \in DOMAIN m /\ b[j] = Avant(i, j)
      BY DEF ChargesDe
<1>5. {b[j] : j \in S} = ChargesDe(l, q)
  <2>1. \A j \in S : b[j] \in ChargesDe(l, q)
        BY <1>2, <1>4 DEF ChargesDe
  <2>2. ASSUME NEW k \in ChargesDe(l, q) PROVE \E j \in S : k = b[j]
    <3>1. k \in DOMAIN l /\ l[k].impute = q /\ k # i
          BY <1>3 DEF ChargesDe
    <3>2. PICK j \in DOMAIN m : k = Avant(i, j)
          BY <1>2, <3>1
    <3>. QED BY <1>2, <3>1, <3>2 DEF ChargesDe
  <2>. QED BY <2>1, <2>2
<1>6. \A j \in S : f[j] \in Int /\ g[b[j]] = f[j]
      BY <1>2, <1>4, Lignes
<1>7. \A j, k \in S : b[j] = b[k] => j = k
      BY <1>2, <1>4
<1>8. IsFiniteSet(S)
      BY <1>2, Lignes
<1>9. S = {} \/ ChargesDe(l, q) # {}
      BY <1>5
<1>. HIDE DEF S, b, f, g
<1>10. SumFunctionOnSet(g, {b[j] : j \in S}) = SumFunctionOnSet(f, S)
       BY <1>6, <1>7, <1>8, SommeImage
<1>11. Charge(m, q) = Charge(l, q)
       BY <1>5, <1>10 DEF Charge, S, f, g
<1>. QED BY <1>1, <1>9, <1>11 DEF S

(* The recursion of Total(r), on the first rows: what is left of the net. *)
Restant(r, g, i) ==
    IF i = 0 THEN NetDe(r)
    ELSE IF ajustements[i].impute = Aucun /\ ajustements[i].montant <= g[i - 1]
         THEN g[i - 1] - ajustements[i].montant
         ELSE g[i - 1]

LEMMA TotalExiste ==
    ASSUME NEW r, NEW n \in Nat
    PROVE  \E g : g = [i \in 0..n |-> Restant(r, g, i)]
<1>. DEFINE K == {k \in Nat : \E g : g = [i \in 0..k |-> Restant(r, g, i)]}
<1>1. 0 \in K
  <2>. DEFINE g == [i \in 0..0 |-> NetDe(r)]
  <2>1. \A i \in 0..0 : Restant(r, g, i) = NetDe(r)
        BY DEF Restant
  <2>2. g = [i \in 0..0 |-> Restant(r, g, i)]
        BY <2>1
  <2>. QED BY <2>2
<1>2. ASSUME NEW k \in Nat, k \in K PROVE k + 1 \in K
  <2>1. PICK g : g = [i \in 0..k |-> Restant(r, g, i)]
        BY <1>2
  <2>. DEFINE h == [i \in 0..(k + 1) |-> Restant(r, g, i)]
  <2>2. ASSUME NEW i \in 0..k PROVE h[i] = g[i]
        BY <2>1
  <2>3. ASSUME NEW i \in 0..(k + 1) PROVE Restant(r, h, i) = Restant(r, g, i)
    <3>1. CASE i = 0
          BY <3>1 DEF Restant
    <3>2. CASE i # 0
      <4>1. i - 1 \in 0..k
            BY <3>2
      <4>2. h[i - 1] = g[i - 1]
            BY <2>2, <4>1
      <4>. HIDE DEF h
      <4>. QED BY <4>2 DEF Restant
    <3>. QED BY <3>1, <3>2
  <2>4. h = [i \in 0..(k + 1) |-> Restant(r, h, i)]
    <3>. HIDE DEF h
    <3>1. h = [i \in 0..(k + 1) |-> Restant(r, g, i)]
          BY DEF h
    <3>. QED BY <2>3, <3>1, Zenon
  <2>. HIDE DEF h
  <2>. QED BY <2>4
<1>3. Nat \subseteq K
  <2>. HIDE DEF K
  <2>. QED BY <1>1, <1>2, Recurrence
<1>. QED BY <1>3

LEMMA TotalFaits ==
    ASSUME TypeDettes, NEW r \in Reversements
    PROVE  /\ Total(r) = [i \in 0..Len(ajustements) |-> Restant(r, Total(r), i)]
           /\ NetDe(r) \in Nat
           /\ \A i \in 0..Len(ajustements) : Total(r)[i] \in Nat
<1>. DEFINE n == Len(ajustements)
<1>0. n \in Nat /\ DOMAIN ajustements = 1..n
      BY Lignes DEF TypeDettes
<1>1. Total(r) = CHOOSE g : g = [i \in 0..n |-> Restant(r, g, i)]
      BY Zenon DEF Total, Restant
<1>. HIDE DEF n
<1>2. Total(r) = [i \in 0..n |-> Restant(r, Total(r), i)]
      BY <1>0, <1>1, TotalExiste, Zenon
<1>3. NetDe(r) \in Nat
      BY ConstantesOk DEF ConstantesOk, NetDe, TypeDettes
<1>4. PICK g : g = Total(r)
      OBVIOUS
<1>. DEFINE K == {k \in Nat : k <= n => g[k] \in Nat}
<1>5. 0 \in K
      BY <1>0, <1>2, <1>3, <1>4 DEF Restant
<1>6. ASSUME NEW k \in Nat, k \in K PROVE k + 1 \in K
  <2>. SUFFICES ASSUME k + 1 <= n PROVE g[k + 1] \in Nat
       OBVIOUS
  <2>1. k + 1 \in 0..n /\ k + 1 \in 1..n /\ k + 1 # 0 /\ (k + 1) - 1 = k /\ k <= n
        BY <1>0
  <2>2. g[k] \in Nat
        BY <1>6, <2>1
  <2>3. g[k + 1] = Restant(r, g, k + 1)
        BY <1>2, <1>4, <2>1
  <2>4. ajustements[k + 1].montant \in Nat
        BY <1>0, <2>1, Lignes DEF TypeDettes
  <2>. QED BY <2>1, <2>2, <2>3, <2>4 DEF Restant
<1>7. Nat \subseteq K
  <2>. HIDE DEF K
  <2>. QED BY <1>5, <1>6, Recurrence
<1>8. \A i \in 0..n : g[i] \in Nat
      BY <1>0, <1>7
<1>. QED BY <1>2, <1>3, <1>4, <1>8 DEF n

(* The debts charged to r take off what the net loses; the other payouts hold what they did. *)
LEMMA ImputerFaits ==
    ASSUME TypeDettes, NEW r \in Reversements, ChargesDe(ajustements, r) = {}
    PROVE  LET m == Imputer(r).liste IN
           /\ m \in Seq(Dettes) /\ DOMAIN m = DOMAIN ajustements
           /\ \A i \in DOMAIN m : MemeCle(m[i], ajustements[i]) /\ m[i].montant = ajustements[i].montant
           /\ \A q \in Reversements : q # r => ChargesDe(m, q) = ChargesDe(ajustements, q)
           /\ Imputer(r).total \in Nat
           /\ Imputer(r).total + Charge(m, r) = NetDe(r)
<1>. DEFINE n == Len(ajustements)
            pris(i) == ajustements[i].impute = Aucun /\ ajustements[i].montant <= Total(r)[i - 1]
            f == MontantsDe(ajustements)
<1>0. n \in Nat /\ DOMAIN ajustements = 1..n
      BY Lignes DEF TypeDettes
<1>1. PICK g : g = Total(r)
      OBVIOUS
<1>2. /\ g[0] = NetDe(r) /\ NetDe(r) \in Nat
      /\ \A i \in 0..n : g[i] \in Nat
      /\ \A i \in 1..n : i - 1 \in 0..n /\ g[i] = IF pris(i) THEN g[i - 1] - f[i] ELSE g[i - 1]
  <2>1. \A i \in 0..n : g[i] = Restant(r, g, i)
        BY <1>1, TotalFaits
  <2>2. g[0] = NetDe(r)
        BY <1>0, <2>1 DEF Restant
  <2>3. ASSUME NEW i \in 1..n PROVE i - 1 \in 0..n /\ g[i] = IF pris(i) THEN g[i - 1] - f[i] ELSE g[i - 1]
    <3>1. i \in 0..n /\ i # 0 /\ i - 1 \in 0..n
          BY <1>0
    <3>2. f[i] = ajustements[i].montant
          BY <1>0, Lignes DEF TypeDettes
    <3>. HIDE DEF f
    <3>. QED BY <1>1, <2>1, <3>1, <3>2 DEF Restant
  <2>. QED BY <1>1, <2>2, <2>3, TotalFaits
<1>3. PICK m : m = [i \in DOMAIN ajustements |->
                       IF pris(i) THEN [ajustements[i] EXCEPT !.impute = r] ELSE ajustements[i]]
      OBVIOUS
<1>4. Imputer(r).liste = m /\ Imputer(r).total = g[n]
      BY <1>1, <1>3 DEF Imputer
<1>. HIDE DEF n
<1>5. ASSUME NEW i \in 1..n
      PROVE  /\ m[i] \in Dettes /\ MemeCle(m[i], ajustements[i]) /\ m[i].montant = ajustements[i].montant
             /\ m[i].impute = IF pris(i) THEN r ELSE ajustements[i].impute
  <2>1. ajustements[i] \in Dettes
        BY <1>0, Lignes DEF TypeDettes
  <2>2. m[i] = IF pris(i) THEN [ajustements[i] EXCEPT !.impute = r] ELSE ajustements[i]
        BY <1>0, <1>3
  <2>. HIDE DEF pris
  <2>. QED BY <2>1, <2>2 DEF Dettes, MemeCle
<1>6. DOMAIN m = 1..n /\ m \in Seq(Dettes)
  <2>1. DOMAIN m = 1..n
        BY <1>0, <1>3
  <2>2. m = [i \in 1..n |-> m[i]]
        BY <1>0, <1>3
  <2>. HIDE DEF pris
  <2>3. m \in [1..n -> Dettes]
        BY <1>5, <2>1, <2>2
  <2>. QED BY <1>0, <2>1, <2>3
<1>. DEFINE P == {i \in 1..n : pris(i)}
<1>7. ChargesDe(m, r) = P
      BY <1>0, <1>5, <1>6 DEF ChargesDe
<1>8. ASSUME NEW q \in Reversements, q # r PROVE ChargesDe(m, q) = ChargesDe(ajustements, q)
  <2>1. q # Aucun
        BY ConstantesOk DEF ConstantesOk
  <2>. QED BY <1>0, <1>5, <1>6, <1>8, <2>1 DEF ChargesDe
<1>9. \A i \in 1..n : f[i] \in Nat
      BY <1>0, Lignes DEF TypeDettes
<1>. DEFINE K == {k \in Nat : k <= n => g[k] + SumFunctionOnSet(f, P \cap (1..k)) = NetDe(r)}
<1>. HIDE DEF f, pris
<1>10. 0 \in K
  <2>1. P \cap (1..0) = {}
        OBVIOUS
  <2>. QED BY <1>2, <2>1, SommeVide
<1>11. ASSUME NEW k \in Nat, k \in K PROVE k + 1 \in K
  <2>. SUFFICES ASSUME k + 1 <= n PROVE g[k + 1] + SumFunctionOnSet(f, P \cap (1..(k + 1))) = NetDe(r)
       OBVIOUS
  <2>. DEFINE S == P \cap (1..k)
  <2>1. k + 1 \in 1..n /\ (k + 1) - 1 = k /\ k <= n /\ k \in 0..n
        BY <1>0
  <2>2. IsFiniteSet(S) /\ k + 1 \notin S /\ \A i \in S : f[i] \in Int
    <3>1. IsFiniteSet(1..k) /\ S \subseteq 1..k
          BY FS_Interval
    <3>. QED BY <1>9, <3>1, FS_Subset
  <2>3. g[k] + SumFunctionOnSet(f, S) = NetDe(r) /\ SumFunctionOnSet(f, S) \in Int
        BY <1>11, <2>1, <2>2, SommeUn
  <2>4. CASE pris(k + 1)
    <3>1. P \cap (1..(k + 1)) = S \cup {k + 1}
          BY <2>1, <2>4
    <3>2. f[k + 1] \in Int
          BY <1>9, <2>1
    <3>. HIDE DEF S
    <3>3. SumFunctionOnSet(f, S \cup {k + 1}) = SumFunctionOnSet(f, S) + f[k + 1]
          BY <2>2, <3>2, SommeAvec
    <3>4. g[k + 1] = g[k] - f[k + 1] /\ g[k] \in Nat
          BY <1>2, <2>1, <2>4
    <3>. HIDE DEF P
    <3>. QED BY SMTT(30), <1>2, <2>3, <3>1, <3>2, <3>3, <3>4
  <2>5. CASE ~pris(k + 1)
    <3>1. P \cap (1..(k + 1)) = S
          BY <2>1, <2>5
    <3>. HIDE DEF S
    <3>2. g[k + 1] = g[k]
          BY <1>2, <2>1, <2>5
    <3>. QED BY <2>3, <3>1, <3>2
  <2>. QED BY <2>4, <2>5
<1>12. Nat \subseteq K
  <2>. HIDE DEF K
  <2>. QED BY <1>10, <1>11, Recurrence
<1>13. g[n] + SumFunctionOnSet(f, P) = NetDe(r)
  <2>1. P \cap (1..n) = P
        OBVIOUS
  <2>2. n \in Nat => g[n] + SumFunctionOnSet(f, P \cap (1..n)) = NetDe(r)
    <3>. HIDE DEF P
    <3>. QED BY <1>0, <1>12
  <2>. QED BY <1>0, <2>1, <2>2, Zenon
<1>14. Charge(m, r) = SumFunctionOnSet(f, P)
  <2>1. IsFiniteSet(P) /\ \A i \in P : MontantsDe(m)[i] = f[i] /\ MontantsDe(m)[i] \in Int
    <3>1. \A i \in 1..n : MontantsDe(m)[i] = m[i].montant
          BY <1>6, Lignes
    <3>2. \A i \in 1..n : f[i] = ajustements[i].montant
          BY <1>0, Lignes DEF TypeDettes, f
    <3>3. IsFiniteSet(1..n) /\ P \subseteq 1..n
          BY <1>0, FS_Interval
    <3>4. IsFiniteSet(P)
          BY <3>3, FS_Subset
    <3>5. \A i \in P : i \in 1..n
          BY <3>3
    <3>. HIDE DEF P
    <3>. QED BY <1>5, <1>9, <3>1, <3>2, <3>4, <3>5
  <2>. HIDE DEF P
  <2>2. SumFunctionOnSet(MontantsDe(m), P) = SumFunctionOnSet(f, P)
        BY <2>1, SommeEgale
  <2>. QED BY <1>7, <2>2 DEF Charge
<1>15. Imputer(r).total \in Nat /\ Imputer(r).total + Charge(m, r) = NetDe(r)
      BY <1>0, <1>2, <1>4, <1>13, <1>14
<1>. QED BY <1>0, <1>4, <1>5, <1>6, <1>8, <1>15

(* Rows that only change hands keep their keys and their amounts. *)
MemesLignes(l, m) ==
    /\ DOMAIN m = DOMAIN l
    /\ \A i \in DOMAIN l : MemeCle(m[i], l[i]) /\ m[i].montant = l[i].montant

LEMMA LibererFaits ==
    ASSUME TypeDettes, NEW r \in Reversements, Liberer(r)
    PROVE  /\ ajustements' \in Seq(Dettes) /\ MemesLignes(ajustements, ajustements')
           /\ \A q \in Reversements : q # r => ChargesDe(ajustements', q) = ChargesDe(ajustements, q)
           /\ ChargesDe(ajustements', r) = {}
<1>. DEFINE n == Len(ajustements)
<1>0. n \in Nat /\ DOMAIN ajustements = 1..n
      BY Lignes DEF TypeDettes
<1>1. PICK m : m = [i \in DOMAIN ajustements |->
                       IF ajustements[i].impute = r THEN [ajustements[i] EXCEPT !.impute = Aucun]
                       ELSE ajustements[i]]
      OBVIOUS
<1>2. ajustements' = m
      BY <1>1 DEF Liberer
<1>. HIDE DEF n
<1>3. ASSUME NEW i \in 1..n
      PROVE  /\ m[i] \in Dettes /\ MemeCle(m[i], ajustements[i]) /\ m[i].montant = ajustements[i].montant
             /\ m[i].impute = IF ajustements[i].impute = r THEN Aucun ELSE ajustements[i].impute
  <2>1. ajustements[i] \in Dettes
        BY <1>0, Lignes DEF TypeDettes
  <2>2. m[i] = IF ajustements[i].impute = r THEN [ajustements[i] EXCEPT !.impute = Aucun] ELSE ajustements[i]
        BY <1>0, <1>1
  <2>. QED BY <2>1, <2>2 DEF Dettes, MemeCle
<1>4. DOMAIN m = 1..n /\ m \in Seq(Dettes)
  <2>1. DOMAIN m = 1..n
        BY <1>0, <1>1
  <2>2. m = [i \in 1..n |-> m[i]]
        BY <1>0, <1>1
  <2>3. m \in [1..n -> Dettes]
        BY <1>3, <2>1, <2>2
  <2>. QED BY <1>0, <2>1, <2>3
<1>5. \A q \in Reversements : q # Aucun
      BY ConstantesOk DEF ConstantesOk
<1>6. ChargesDe(m, r) = {}
      BY <1>3, <1>4, <1>5 DEF ChargesDe
<1>7. ASSUME NEW q \in Reversements, q # r PROVE ChargesDe(m, q) = ChargesDe(ajustements, q)
      BY <1>0, <1>3, <1>4, <1>5, <1>7 DEF ChargesDe
<1>8. MemesLignes(ajustements, m)
      BY <1>0, <1>3, <1>4 DEF MemesLignes
<1>. QED BY <1>2, <1>4, <1>6, <1>7, <1>8

(* What AVerserExact says of r, on the columns of r. *)
ExactDe(r) ==
    IF statut[r] \in Engages
    THEN aVerser[r] + Charge(ajustements, r) = NetDe(r)
    ELSE aVerser[r] = 0 /\ ChargesDe(ajustements, r) = {}

LEMMA ExactPourChacun == AVerserExact <=> \A r \in Reversements : ExactDe(r)
BY DEF AVerserExact, ExactDe, Engages, Charge, ChargesDe, MontantsDe, Montants, Imputes

(* Debts that are written or erased, charged to no payout, and money that only moves on      *)
(* payouts that are not under way.                                                           *)
LEMMA ExactSansVersement ==
    ASSUME \A r \in Reversements : ExactDe(r), aVerser' = aVerser, Conserve(ajustements, ajustements'),
           \A r \in Reversements :
              \/ statut[r] \in Engages /\ statut'[r] \in Engages /\ retires'[r] = retires[r]
              \/ statut[r] \notin Engages /\ statut'[r] \notin Engages
    PROVE  \A r \in Reversements : ExactDe(r)'
<1>. SUFFICES ASSUME NEW r \in Reversements PROVE ExactDe(r)'
     OBVIOUS
<1>1. Charge(ajustements', r) = Charge(ajustements, r)
      /\ (ChargesDe(ajustements, r) = {} => ChargesDe(ajustements', r) = {})
      BY DEF Conserve
<1>2. CASE statut[r] \in Engages /\ statut'[r] \in Engages /\ retires'[r] = retires[r]
  <2>1. NetDe(r)' = NetDe(r)
        BY <1>2 DEF NetDe
  <2>. QED BY <1>1, <1>2, <2>1 DEF ExactDe
<1>3. CASE statut[r] \notin Engages /\ statut'[r] \notin Engages
      BY <1>1, <1>3 DEF ExactDe
<1>. QED BY <1>2, <1>3

(* The other payouts, when r is paid or comes back. *)
LEMMA ExactAutres ==
    ASSUME TypeDettes, ajustements' \in Seq(Dettes), NEW r \in Reversements,
           \A q \in Reversements : ExactDe(q), retires' = retires,
           MemesLignes(ajustements, ajustements'),
           \A q \in Reversements : q # r => /\ ChargesDe(ajustements', q) = ChargesDe(ajustements, q)
                                            /\ statut'[q] = statut[q] /\ aVerser'[q] = aVerser[q],
           ExactDe(r)'
    PROVE  \A q \in Reversements : ExactDe(q)'
<1>. SUFFICES ASSUME NEW q \in Reversements, q # r PROVE ExactDe(q)'
     OBVIOUS
<1>1. ChargesDe(ajustements', q) = ChargesDe(ajustements, q)
      OBVIOUS
<1>2. PICK m : m = ajustements'
      OBVIOUS
<1>3. \A i \in ChargesDe(ajustements, q) : m[i].montant = ajustements[i].montant
      BY <1>2 DEF MemesLignes, ChargesDe
<1>4. Charge(m, q) = Charge(ajustements, q)
      BY <1>1, <1>2, <1>3, ChargeEgale DEF TypeDettes
<1>5. NetDe(q)' = NetDe(q)
      BY DEF NetDe
<1>. QED BY <1>1, <1>2, <1>4, <1>5 DEF ExactDe

LEMMA ExactVerse ==
    ASSUME TypeDettes, NEW r \in Reversements, \A q \in Reversements : ExactDe(q),
           FigerMontant(r), statut[r] = "disponible",
           statut'[r] \in Engages, \A q \in Reversements : q # r => statut'[q] = statut[q]
    PROVE  /\ TypeDettes' /\ MemesLignes(ajustements, ajustements')
           /\ \A q \in Reversements : ExactDe(q)'
<1>1. ChargesDe(ajustements, r) = {}
      BY DEF ExactDe, Engages
<1>2. PICK m : m = Imputer(r).liste
      OBVIOUS
<1>3. PICK total : total = Imputer(r).total
      OBVIOUS
<1>4. /\ m \in Seq(Dettes) /\ MemesLignes(ajustements, m)
      /\ \A q \in Reversements : q # r => ChargesDe(m, q) = ChargesDe(ajustements, q)
      /\ total \in Nat /\ total + Charge(m, r) = NetDe(r)
      BY <1>1, <1>2, <1>3, ImputerFaits DEF MemesLignes
<1>5. ajustements' = m /\ aVerser' = [aVerser EXCEPT ![r] = total] /\ retires' = retires
      BY <1>2, <1>3 DEF FigerMontant
<1>6. TypeDettes'
      BY <1>4, <1>5 DEF TypeDettes
<1>7. aVerser'[r] = total /\ \A q \in Reversements : q # r => aVerser'[q] = aVerser[q]
      BY <1>5 DEF TypeDettes
<1>8. NetDe(r)' = NetDe(r)
      BY <1>5 DEF NetDe
<1>9. ExactDe(r)'
      BY <1>4, <1>5, <1>7, <1>8 DEF ExactDe
<1>. QED BY <1>4, <1>5, <1>6, <1>7, <1>9, ExactAutres

LEMMA ExactLibere ==
    ASSUME TypeDettes, NEW r \in Reversements, \A q \in Reversements : ExactDe(q),
           Liberer(r), statut'[r] = "disponible",
           \A q \in Reversements : q # r => statut'[q] = statut[q]
    PROVE  /\ TypeDettes' /\ MemesLignes(ajustements, ajustements')
           /\ \A q \in Reversements : ExactDe(q)'
<1>1. /\ ajustements' \in Seq(Dettes) /\ MemesLignes(ajustements, ajustements')
      /\ \A q \in Reversements : q # r => ChargesDe(ajustements', q) = ChargesDe(ajustements, q)
      /\ ChargesDe(ajustements', r) = {}
      BY LibererFaits
<1>2. aVerser' = [aVerser EXCEPT ![r] = 0] /\ retires' = retires
      BY DEF Liberer
<1>3. TypeDettes'
      BY <1>1, <1>2 DEF TypeDettes
<1>4. aVerser'[r] = 0 /\ \A q \in Reversements : q # r => aVerser'[q] = aVerser[q]
      BY <1>2 DEF TypeDettes
<1>5. ExactDe(r)'
      BY <1>1, <1>4 DEF ExactDe, Engages
<1>. QED BY <1>1, <1>2, <1>3, <1>4, <1>5, ExactAutres

(* A step of a transfer or of a payment by hand moves debts between payouts, and no return.  *)
Exacts == \A r \in Reversements : ExactDe(r)

EtapeDesPaiements ==
    /\ TypeDettes' /\ Exacts'
    /\ MemesLignes(ajustements, ajustements') /\ UNCHANGED <<retires, retour>>

LEMMA PaiementNeutre ==
    ASSUME TypeDettes, Exacts, UNCHANGED montants, UNCHANGED retour,
           \A r \in Reversements : statut'[r] \in Engages <=> statut[r] \in Engages
    PROVE  EtapeDesPaiements
<1>1. TypeDettes'
      BY DEF TypeDettes, montants
<1>2. MemesLignes(ajustements, ajustements')
      BY DEF MemesLignes, MemeCle, montants
<1>3. aVerser' = aVerser /\ ajustements' = ajustements /\ retires' = retires
      BY DEF montants
<1>4. Conserve(ajustements, ajustements')
      BY <1>3 DEF Conserve
<1>5. Exacts'
      BY <1>3, <1>4, ExactSansVersement DEF Exacts
<1>. QED BY <1>1, <1>2, <1>3, <1>5 DEF EtapeDesPaiements

LEMMA RetourDisponible ==
    ASSUME TypeDossier, TypeDettes, Exacts, NEW r \in Reversements, RendreDisponible(r), UNCHANGED retour
    PROVE  EtapeDesPaiements
<1>1. Liberer(r) /\ statut' = [statut EXCEPT ![r] = "disponible"]
      BY DEF RendreDisponible
<1>2. statut'[r] = "disponible" /\ \A q \in Reversements : q # r => statut'[q] = statut[q]
      BY <1>1 DEF TypeDossier
<1>. QED BY <1>1, <1>2, ExactLibere DEF EtapeDesPaiements, Exacts, Liberer

LEMMA EntreDansPaiement ==
    ASSUME TypeDossier, TypeDettes, Exacts, NEW r \in Reversements, FigerMontant(r), statut[r] = "disponible",
           NEW nouveau \in Engages, statut' = [statut EXCEPT ![r] = nouveau], UNCHANGED retour
    PROVE  EtapeDesPaiements
<1>1. statut'[r] \in Engages /\ \A q \in Reversements : q # r => statut'[q] = statut[q]
      BY DEF TypeDossier
<1>. QED BY <1>1, ExactVerse DEF EtapeDesPaiements, Exacts, FigerMontant

LEMMA TransfertDettes ==
    ASSUME TypeDossier, TypeTransferts, TypeDettes, Exacts, Transfert
    PROVE  EtapeDesPaiements
<1>. USE DEF dossier
<1>1. ASSUME NEW r \in Reversements, VerserManuellement(r) PROVE EtapeDesPaiements
      BY <1>1, EntreDansPaiement DEF VerserManuellement, Engages
<1>2. ASSUME NEW r \in Reversements, Transferer(r) PROVE EtapeDesPaiements
      BY <1>2, EntreDansPaiement DEF Transferer, Engages
<1>3. ASSUME NEW r \in Reversements, Reconcilier(r) PROVE EtapeDesPaiements
      BY <1>3, PaiementNeutre DEF Reconcilier
<1>4. ASSUME NEW r \in Reversements, AlerterBlocage(r) PROVE EtapeDesPaiements
      BY <1>4, PaiementNeutre DEF AlerterBlocage
<1>5. ASSUME NEW r \in Reversements, ResoudreNonParti(r) PROVE EtapeDesPaiements
      BY <1>5, RetourDisponible DEF ResoudreNonParti
<1>6. ASSUME NEW r \in Reversements, ResoudreVerse(r) PROVE EtapeDesPaiements
      BY <1>6, PaiementNeutre DEF ResoudreVerse, TypeDossier, Engages
<1>7. ASSUME NEW r \in Reversements, NEW n \in Essais, Creer(r, n) PROVE EtapeDesPaiements
      BY <1>7, PaiementNeutre DEF Creer
<1>8. ASSUME NEW r \in Reversements, NEW n \in Essais, Executer(r, n) PROVE EtapeDesPaiements
      BY <1>8, PaiementNeutre DEF Executer
<1>9. ASSUME NEW r \in Reversements, NEW n \in Essais, AppelRefuse(r, n) PROVE EtapeDesPaiements
      BY <1>9, PaiementNeutre, RetourDisponible DEF AppelRefuse
<1>10. ASSUME NEW r \in Reversements, NEW n \in Essais, AppelIncertain(r, n) PROVE EtapeDesPaiements
      BY <1>10, PaiementNeutre DEF AppelIncertain
<1>11. ASSUME NEW r \in Reversements, NEW n \in Essais, AppelAbouti(r, n) PROVE EtapeDesPaiements
      BY <1>11, PaiementNeutre DEF AppelAbouti
<1>12. ASSUME NEW r \in Reversements, NEW n \in Essais, RecevoirNotification(r, n) PROVE EtapeDesPaiements
      BY <1>12, PaiementNeutre DEF RecevoirNotification
<1>13. ASSUME NEW rep \in reponses, AppliquerEtat(rep) PROVE EtapeDesPaiements
  <2>1. rep.de \in Reversements
        BY DEF TypeTransferts
  <2>2. CASE SuccesHorsCours(rep)
        BY <1>13, <2>2, PaiementNeutre DEF AppliquerEtat, SuccesHorsCours
  <2>3. CASE Succes(rep)
        BY <1>13, <2>1, <2>3, PaiementNeutre DEF AppliquerEtat, Succes, TypeDossier, Engages
  <2>4. CASE SuccesNonConforme(rep)
        BY <1>13, <2>4, PaiementNeutre DEF AppliquerEtat, SuccesNonConforme
  <2>5. CASE Echec(rep)
        BY <1>13, <2>1, <2>5, PaiementNeutre, RetourDisponible DEF AppliquerEtat, Echec
  <2>. QED BY <1>13, <2>2, <2>3, <2>4, <2>5 DEF AppliquerEtat
<1>. QED BY <1>1, <1>2, <1>3, <1>4, <1>5, <1>6, <1>7, <1>8, <1>9, <1>10, <1>11, <1>12, <1>13 DEF Transfert

-----------------------------------------------------------------------------
(* Who bears a refunded return. *)

(* A return is asked once the order is delivered, and never of a cancelled order, unless its *)
(* non-delivery was established: no refund finds its payout cancelled.                       *)
DossierDe(t) ==
    \/ retour[t] = "aucun"
    \/ /\ statut[RetourDe[t]] # "en_attente_livraison"
       /\ statut[RetourDe[t]] = "annule" => contestation[RetourDe[t]] = "fondee"

Dossiers == \A t \in Retours : DossierDe(t)

LEMMA DossiersSuivants ==
    ASSUME Types, Dossiers, [Next]_vars PROVE Dossiers'
<1>. SUFFICES ASSUME NEW t \in Retours PROVE DossierDe(t)'
     BY DEF Dossiers
<1>0. DossierDe(t) /\ RetourDe[t] \in Reversements
      BY RetourConnu DEF Dossiers
<1>. USE <1>0 DEF Types, TypeDossier, DossierDe
<1>1. CASE Litige
  <2>1. ASSUME NEW r \in Reversements, Livrer(r) PROVE DossierDe(t)'
        BY <2>1 DEF Livrer, dossier
  <2>2. ASSUME NEW r \in Reversements, AnnulerCommande(r) PROVE DossierDe(t)'
        BY <2>2 DEF AnnulerCommande, AnnulationDe, dossier
  <2>3. ASSUME NEW r \in Reversements, DelaiEcoule(r) PROVE DossierDe(t)'
        BY <2>3 DEF DelaiEcoule
  <2>4. ASSUME NEW r \in Reversements, Contester(r) PROVE DossierDe(t)'
        BY <2>4 DEF Contester, Suspension
  <2>5. ASSUME NEW r \in Reversements, RejeterContestation(r) PROVE DossierDe(t)'
        BY <2>5 DEF RejeterContestation, Reprise
  <2>6. ASSUME NEW r \in Reversements, RetenirContestation(r) PROVE DossierDe(t)'
        BY <2>6 DEF RetenirContestation, AnnulationDe
  <2>7. ASSUME NEW u \in Retours, OuvrirRetour(u) PROVE DossierDe(t)'
        BY <2>7, RetourConnu DEF OuvrirRetour, Livre, Suspension
  <2>8. ASSUME NEW u \in Retours, CloreRetour(u) PROVE DossierDe(t)'
        BY <2>8, RetourConnu DEF CloreRetour, Reprise, Dossiers
  <2>9. ASSUME NEW u \in Retours, RembourserRetour(u) PROVE DossierDe(t)'
        BY <2>9, RetourConnu DEF RembourserRetour, ImputerRetour, Reprise, Dossiers
  <2>10. ASSUME RendreDisponibles PROVE DossierDe(t)'
        BY <2>10 DEF RendreDisponibles, dossier
  <2>. QED BY <1>1, <2>1, <2>2, <2>3, <2>4, <2>5, <2>6, <2>7, <2>8, <2>9, <2>10 DEF Litige
<1>2. CASE Transfert
      BY <1>2, TransfertTypes DEF EtapeDeStatut, Engages, dossier
<1>3. CASE UNCHANGED vars
      BY <1>3 DEF vars, dossier
<1>. QED BY <1>1, <1>2, <1>3 DEF Next

Endette(l, t) == \E i \in DOMAIN l : l[i].nature = "retour" /\ l[i].de = t

MemesRetours(l, m) == \A t \in Retours : Endette(m, t) <=> Endette(l, t)

(* A list of debts stays well formed, and what each payout holds is kept. *)
BienTenues(l, m) == m \in Seq(Dettes) /\ ClesUniques(m) /\ Conserve(l, m)

LEMMA AjouterAutre ==
    ASSUME NEW l \in Seq(Dettes), ClesUniques(l), NEW r \in Reversements, NEW montant \in Nat,
           NEW nature \in {"offerte", "frais"}
    PROVE  LET m == Ajouter(l, Dette(nature, r, montant)) IN BienTenues(l, m) /\ MemesRetours(l, m)
<1>1. PICK d : d = Dette(nature, r, montant)
      OBVIOUS
<1>2. d \in Dettes /\ d.impute = Aucun /\ d.nature # "retour"
      BY <1>1 DEF Dette, Dettes
<1>3. PICK m : m = Ajouter(l, d)
      OBVIOUS
<1>4. /\ m \in Seq(Dettes) /\ ClesUniques(m)
      /\ DOMAIN l \subseteq DOMAIN m /\ \A i \in DOMAIN l : m[i] = l[i]
      /\ \A i \in DOMAIN m : i \notin DOMAIN l => m[i] = d
      BY <1>2, <1>3, AjouterFaits
<1>5. Conserve(l, m)
      BY <1>2, <1>3, AjouterConserve
<1>6. MemesRetours(l, m)
      BY <1>2, <1>4 DEF MemesRetours, Endette
<1>. QED BY <1>1, <1>3, <1>4, <1>5, <1>6 DEF BienTenues

LEMMA AjouterRetour ==
    ASSUME NEW l \in Seq(Dettes), ClesUniques(l), NEW t \in Retours
    PROVE  LET m == Ajouter(l, Dette("retour", t, Deduction[t])) IN
           /\ BienTenues(l, m)
           /\ \A u \in Retours : u # t => (Endette(m, u) <=> Endette(l, u))
           /\ Deduction[t] # 0 => Endette(m, t)
           /\ Deduction[t] = 0 => (Endette(m, t) <=> Endette(l, t))
<1>1. PICK d : d = Dette("retour", t, Deduction[t])
      OBVIOUS
<1>2. d \in Dettes /\ d.impute = Aucun /\ d.nature = "retour" /\ d.de = t /\ d.montant = Deduction[t]
      BY <1>1, ConstantesOk DEF ConstantesOk, Dette, Dettes
<1>3. PICK m : m = Ajouter(l, d)
      OBVIOUS
<1>4. /\ m \in Seq(Dettes) /\ ClesUniques(m)
      /\ DOMAIN l \subseteq DOMAIN m /\ \A i \in DOMAIN l : m[i] = l[i]
      /\ \A i \in DOMAIN m : i \notin DOMAIN l => m[i] = d
      /\ d.montant # 0 => \E i \in DOMAIN m : MemeCle(m[i], d)
      /\ d.montant = 0 => m = l
      BY <1>2, <1>3, AjouterFaits
<1>5. Conserve(l, m)
      BY <1>2, <1>3, AjouterConserve
<1>6. \A u \in Retours : u # t => (Endette(m, u) <=> Endette(l, u))
      BY <1>2, <1>4 DEF Endette
<1>7. Deduction[t] # 0 => Endette(m, t)
      BY <1>2, <1>4 DEF Endette, MemeCle
<1>8. Deduction[t] = 0 => (Endette(m, t) <=> Endette(l, t))
      BY <1>2, <1>4
<1>. QED BY <1>1, <1>3, <1>4, <1>5, <1>6, <1>7, <1>8 DEF BienTenues

LEMMA DeduireReste ==
    ASSUME TypeDettes, ClesUniques(ajustements), NEW r \in Reversements
    PROVE  BienTenues(ajustements, ResteDeduitDe(r)) /\ MemesRetours(ajustements, ResteDeduitDe(r))
<1>1. CASE ResteDu(r) = {}
      BY <1>1 DEF ResteDeduitDe, BienTenues, MemesRetours, Conserve, TypeDettes
<1>2. CASE ResteDu(r) # {}
  <2>1. PICK i : i = CHOOSE k \in ResteDu(r) : TRUE
        OBVIOUS
  <2>2. i \in ResteDu(r)
        BY <1>2, <2>1
  <2>3. /\ i \in DOMAIN ajustements /\ ajustements[i].impute = Aucun
        /\ ajustements[i].nature # "retour"
        BY <2>2 DEF ResteDu
  <2>4. PICK m : m = RemoveAt(ajustements, i)
        OBVIOUS
  <2>5. ResteDeduitDe(r) = m
        BY <1>2, <2>1, <2>4 DEF ResteDeduitDe
  <2>6. /\ m \in Seq(Dettes)
        /\ \A j \in DOMAIN m : Avant(i, j) \in DOMAIN ajustements /\ m[j] = ajustements[Avant(i, j)]
        /\ \A j, k \in DOMAIN m : Avant(i, j) = Avant(i, k) => j = k
        /\ \A k \in DOMAIN ajustements : k # i => \E j \in DOMAIN m : k = Avant(i, j)
        BY <2>3, <2>4, RetirerLigne DEF TypeDettes
  <2>7. Conserve(ajustements, m)
        BY <2>3, <2>4, RetirerConserve DEF TypeDettes
  <2>8. ClesUniques(m)
        BY <2>6 DEF ClesUniques
  <2>9. MemesRetours(ajustements, m)
    <3>1. ASSUME NEW t \in Retours, Endette(ajustements, t) PROVE Endette(m, t)
      <4>1. PICK k \in DOMAIN ajustements : ajustements[k].nature = "retour" /\ ajustements[k].de = t
            BY <3>1 DEF Endette
      <4>2. PICK j \in DOMAIN m : k = Avant(i, j)
            BY <2>3, <2>6, <4>1
      <4>. QED BY <2>6, <4>1, <4>2 DEF Endette
    <3>2. ASSUME NEW t \in Retours, Endette(m, t) PROVE Endette(ajustements, t)
          BY <2>6, <3>2 DEF Endette
    <3>. QED BY <3>1, <3>2 DEF MemesRetours
  <2>. QED BY <2>5, <2>6, <2>7, <2>8, <2>9 DEF BienTenues
<1>. QED BY <1>1, <1>2

LEMMA ConserveTransitif ==
    ASSUME NEW l, NEW m, NEW k, Conserve(l, m), Conserve(m, k) PROVE Conserve(l, k)
BY DEF Conserve

Rembourses(r) == {t \in Retours : RetourDe[t] = r /\ retour[t] = "rembourse" /\ ~EnDette(t)}

(* Each refunded return of r was taken off its payout or is a debt. *)
Repartition ==
    /\ \A t \in Retours : EnDette(t) => retour[t] = "rembourse"
    /\ \A r \in Reversements : retires[r] = SumFunctionOnSet(Deduction, Rembourses(r))
    /\ ClesUniques(ajustements)

LEMMA RepartitionEst == Repartition <=> RetourSupporteUneFois
BY DEF Repartition, RetourSupporteUneFois, Rembourses, ClesUniques, MemeCle

LEMMA RepartitionSansRetour ==
    ASSUME Repartition, retires' = retires, ClesUniques(ajustements'),
           MemesRetours(ajustements, ajustements'),
           \A t \in Retours : retour'[t] = "rembourse" <=> retour[t] = "rembourse"
    PROVE  Repartition'
<1>1. \A t \in Retours : EnDette(t)' <=> EnDette(t)
      BY DEF MemesRetours, Endette, EnDette
<1>2. \A r \in Reversements : Rembourses(r)' = Rembourses(r)
      BY <1>1 DEF Rembourses
<1>. QED BY <1>1, <1>2 DEF Repartition

Tenues == TypeDettes /\ Exacts /\ Repartition

(* A dispute that refunds nothing: the debts stay as they are, but for the rest of an        *)
(* offered delivery.                                                                         *)
LEMMA LitigeSansRemboursement ==
    ASSUME Tenues, UNCHANGED <<retires, aVerser>>,
           BienTenues(ajustements, ajustements'), MemesRetours(ajustements, ajustements'),
           \A r \in Reversements :
              statut'[r] = statut[r] \/ (statut[r] \notin Engages /\ statut'[r] \notin Engages),
           \A t \in Retours : retour'[t] = "rembourse" <=> retour[t] = "rembourse"
    PROVE  Tenues'
<1>1. TypeDettes'
      BY DEF Tenues, TypeDettes, BienTenues
<1>2. Exacts'
      BY ExactSansVersement DEF Tenues, Exacts, BienTenues
<1>3. Repartition'
      BY RepartitionSansRetour DEF Tenues, BienTenues
<1>. QED BY <1>1, <1>2, <1>3 DEF Tenues

LEMMA DettesInchangees ==
    ASSUME TypeDettes, Repartition, ajustements' = ajustements
    PROVE  BienTenues(ajustements, ajustements') /\ MemesRetours(ajustements, ajustements')
BY DEF TypeDettes, Repartition, BienTenues, MemesRetours, Conserve

(* The refund of a return, when its payout is paid or being paid: a debt.                    *)
LEMMA RembourserEnDette ==
    ASSUME Types, Tenues, NEW t \in Retours, RembourserRetour(t), statut[RetourDe[t]] \in Engages
    PROVE  Tenues'
<1>. DEFINE r == RetourDe[t]
<1>1. r \in Reversements
      BY RetourConnu
<1>. HIDE DEF r
<1>2. PICK l : l = Ajouter(ajustements, Dette("retour", t, Deduction[t]))
      OBVIOUS
<1>3. PICK m : m = Ajouter(l, Dette("frais", r, Frais[t]))
      OBVIOUS
<1>4. /\ ajustements' = m /\ UNCHANGED <<statut, retires, aVerser>>
      /\ retour' = [retour EXCEPT ![t] = "rembourse"] /\ retour[t] = "ouvert"
      BY <1>2, <1>3 DEF RembourserRetour, ImputerRetour, Engages, r
<1>5. /\ BienTenues(ajustements, l)
      /\ \A u \in Retours : u # t => (Endette(l, u) <=> Endette(ajustements, u))
      /\ Deduction[t] # 0 => Endette(l, t)
      /\ Deduction[t] = 0 => (Endette(l, t) <=> Endette(ajustements, t))
      BY <1>2, AjouterRetour DEF Tenues, TypeDettes, Repartition
<1>6. Frais[t] \in Nat /\ Deduction[t] \in Nat
      BY ConstantesOk DEF ConstantesOk
<1>7. BienTenues(l, m) /\ MemesRetours(l, m)
      BY <1>1, <1>3, <1>5, <1>6, AjouterAutre DEF BienTenues
<1>8. BienTenues(ajustements, m)
      BY <1>5, <1>7, ConserveTransitif DEF BienTenues
<1>9. TypeDettes'
      BY <1>4, <1>8 DEF Tenues, TypeDettes, BienTenues
<1>10. Exacts'
      BY <1>4, <1>8, ExactSansVersement DEF Tenues, Exacts, BienTenues
<1>11. /\ retour'[t] = "rembourse" /\ ~EnDette(t)
       /\ \A u \in Retours : u # t => retour'[u] = retour[u]
       BY <1>4 DEF Types, TypeDossier, Tenues, Repartition
<1>12. /\ \A u \in Retours : u # t => (EnDette(u)' <=> EnDette(u))
       /\ EnDette(t)' <=> Deduction[t] # 0
  <2>1. \A u \in Retours : (EnDette(u)' <=> Endette(m, u)) /\ (EnDette(u) <=> Endette(ajustements, u))
        BY <1>4 DEF EnDette, Endette
  <2>2. \A u \in Retours : Endette(m, u) <=> Endette(l, u)
        BY <1>7 DEF MemesRetours
  <2>. QED BY <1>5, <1>11, <2>1, <2>2
<1>13. ASSUME NEW q \in Reversements PROVE retires'[q] = SumFunctionOnSet(Deduction, Rembourses(q)')
  <2>1. retires'[q] = SumFunctionOnSet(Deduction, Rembourses(q))
        BY <1>4 DEF Tenues, Repartition
  <2>2. CASE q # r \/ Deduction[t] # 0
    <3>1. Rembourses(q)' = Rembourses(q)
          BY <1>4, <1>11, <1>12, <2>2 DEF Rembourses, r
    <3>. QED BY <2>1, <3>1
  <2>3. CASE q = r /\ Deduction[t] = 0
    <3>1. Rembourses(q)' = Rembourses(q) \cup {t} /\ t \notin Rembourses(q)
          BY <1>4, <1>11, <1>12, <2>3 DEF Rembourses, r
    <3>2. IsFiniteSet(Rembourses(q)) /\ \A u \in Rembourses(q) : Deduction[u] \in Int
      <4>1. Rembourses(q) \subseteq Retours
            BY DEF Rembourses
      <4>. QED BY <4>1, ConstantesOk, FS_Subset DEF ConstantesOk
    <3>3. SumFunctionOnSet(Deduction, Rembourses(q) \cup {t})
             = SumFunctionOnSet(Deduction, Rembourses(q)) + Deduction[t]
          BY <1>6, <3>1, <3>2, SommeAvec
    <3>4. SumFunctionOnSet(Deduction, Rembourses(q)) \in Int
          BY <3>2, SommeUn
    <3>. QED BY <2>1, <2>3, <3>1, <3>3, <3>4
  <2>. QED BY <2>2, <2>3
<1>14. Repartition'
  <2>1. \A u \in Retours : EnDette(u)' => retour'[u] = "rembourse"
        BY <1>11, <1>12 DEF Tenues, Repartition
  <2>2. ClesUniques(ajustements)'
        BY <1>4, <1>8 DEF BienTenues
  <2>. QED BY <1>13, <2>1, <2>2 DEF Repartition
<1>. QED BY <1>9, <1>10, <1>14 DEF Tenues

(* Before, the refund takes its share off the payout, which is not cancelled.                *)
LEMMA RembourserSurLeNet ==
    ASSUME Types, Dossiers, Tenues, NEW t \in Retours, RembourserRetour(t), statut[RetourDe[t]] \notin Engages
    PROVE  Tenues'
<1>. DEFINE r == RetourDe[t]
<1>1. r \in Reversements
      BY RetourConnu
<1>2. statut[r] # "annule"
      BY DEF Dossiers, DossierDe, RembourserRetour
<1>. HIDE DEF r
<1>3. PICK m : m = Ajouter(ajustements, Dette("frais", r, Frais[t]))
      OBVIOUS
<1>4. /\ ajustements' = m /\ UNCHANGED aVerser
      /\ retour' = [retour EXCEPT ![t] = "rembourse"] /\ retour[t] = "ouvert"
      /\ retires' = [retires EXCEPT ![r] = retires[r] + Deduction[t]]
      /\ statut' = [statut EXCEPT ![r] = Reprise(r, retour', contestation)]
      BY <1>2, <1>3 DEF RembourserRetour, ImputerRetour, Engages, r
<1>5. Frais[t] \in Nat /\ Deduction[t] \in Nat
      BY ConstantesOk DEF ConstantesOk
<1>6. BienTenues(ajustements, m) /\ MemesRetours(ajustements, m)
      BY <1>1, <1>3, <1>5, AjouterAutre DEF Tenues, TypeDettes, Repartition
<1>7. /\ retires'[r] = retires[r] + Deduction[t]
      /\ \A q \in Reversements : q # r => retires'[q] = retires[q] /\ statut'[q] = statut[q]
      BY <1>1, <1>4 DEF Tenues, TypeDettes, Types, TypeDossier
<1>8. TypeDettes'
      BY <1>1, <1>4, <1>5, <1>6 DEF Tenues, TypeDettes, BienTenues
<1>9. statut'[r] \notin Engages /\ statut[r] \notin Engages
      BY <1>1, <1>4 DEF Reprise, Engages, Types, TypeDossier, r
<1>10. Exacts'
  <2>1. \A q \in Reversements :
              \/ statut[q] \in Engages /\ statut'[q] \in Engages /\ retires'[q] = retires[q]
              \/ statut[q] \notin Engages /\ statut'[q] \notin Engages
        BY <1>7, <1>9
  <2>. QED BY <1>4, <1>6, <2>1, ExactSansVersement DEF Tenues, Exacts, BienTenues
<1>11. /\ retour'[t] = "rembourse" /\ ~EnDette(t)
       /\ \A u \in Retours : u # t => retour'[u] = retour[u]
       BY <1>4 DEF Types, TypeDossier, Tenues, Repartition
<1>12. \A u \in Retours : EnDette(u)' <=> EnDette(u)
       BY <1>4, <1>6 DEF EnDette, Endette, MemesRetours
<1>13. ASSUME NEW q \in Reversements PROVE retires'[q] = SumFunctionOnSet(Deduction, Rembourses(q)')
  <2>1. retires[q] = SumFunctionOnSet(Deduction, Rembourses(q))
        BY DEF Tenues, Repartition
  <2>2. CASE q # r
    <3>1. Rembourses(q)' = Rembourses(q)
          BY <1>4, <1>11, <1>12, <2>2 DEF Rembourses, r
    <3>. QED BY <1>7, <2>1, <2>2, <3>1
  <2>3. CASE q = r
    <3>1. Rembourses(q)' = Rembourses(q) \cup {t} /\ t \notin Rembourses(q)
          BY <1>4, <1>11, <1>12, <2>3 DEF Rembourses, r
    <3>2. IsFiniteSet(Rembourses(q)) /\ \A u \in Rembourses(q) : Deduction[u] \in Int
      <4>1. Rembourses(q) \subseteq Retours
            BY DEF Rembourses
      <4>. QED BY <4>1, ConstantesOk, FS_Subset DEF ConstantesOk
    <3>3. SumFunctionOnSet(Deduction, Rembourses(q) \cup {t})
             = SumFunctionOnSet(Deduction, Rembourses(q)) + Deduction[t]
          BY <1>5, <3>1, <3>2, SommeAvec
    <3>. QED BY <1>7, <2>1, <2>3, <3>1, <3>3
  <2>. QED BY <2>2, <2>3
<1>14. Repartition'
  <2>1. \A u \in Retours : EnDette(u)' => retour'[u] = "rembourse"
        BY <1>11, <1>12 DEF Tenues, Repartition
  <2>2. ClesUniques(ajustements)'
        BY <1>4, <1>6 DEF BienTenues
  <2>. QED BY <1>13, <2>1, <2>2 DEF Repartition
<1>. QED BY <1>8, <1>10, <1>14 DEF Tenues

LEMMA LitigeTenues ==
    ASSUME Types, Dossiers, Tenues, Litige PROVE Tenues'
<1>0. \A r \in Reversements : statut'[r] = statut[r] \/ (statut[r] \notin Engages /\ statut'[r] \notin Engages)
      BY LitigeNeutre DEF Neutre
<1>. USE <1>0 DEF Types, TypeDossier, dossier, montants
<1>1. ASSUME NEW r \in Reversements, Livrer(r) PROVE Tenues'
  <2>1. ajustements' = Ajouter(ajustements, Dette("offerte", r, Reste[r]))
        BY <1>1 DEF Livrer
  <2>2. Reste[r] \in Nat
        BY ConstantesOk DEF ConstantesOk
  <2>3. BienTenues(ajustements, ajustements') /\ MemesRetours(ajustements, ajustements')
        BY <2>1, <2>2, AjouterAutre DEF Tenues, TypeDettes, Repartition
  <2>. QED BY <1>1, <2>3, LitigeSansRemboursement DEF Livrer
<1>2. ASSUME NEW r \in Reversements, AnnulationDe(r) PROVE BienTenues(ajustements, ajustements')
                                                           /\ MemesRetours(ajustements, ajustements')
      BY <1>2, DeduireReste, DettesInchangees DEF AnnulationDe, Tenues, Repartition
<1>3. ASSUME NEW r \in Reversements, AnnulerCommande(r) PROVE Tenues'
      BY <1>2, <1>3, LitigeSansRemboursement DEF AnnulerCommande
<1>4. ASSUME NEW r \in Reversements, RetenirContestation(r) PROVE Tenues'
      BY <1>2, <1>4, LitigeSansRemboursement DEF RetenirContestation
<1>5. ASSUME NEW t \in Retours, RembourserRetour(t) PROVE Tenues'
      BY <1>5, RembourserEnDette, RembourserSurLeNet
<1>6. ASSUME UNCHANGED montants, \A t \in Retours : retour'[t] = "rembourse" <=> retour[t] = "rembourse"
      PROVE  Tenues'
      BY <1>6, DettesInchangees, LitigeSansRemboursement DEF Tenues
<1>7. ASSUME NEW r \in Reversements, DelaiEcoule(r) PROVE Tenues'
      BY <1>6, <1>7 DEF DelaiEcoule
<1>8. ASSUME NEW r \in Reversements, Contester(r) PROVE Tenues'
      BY <1>6, <1>8 DEF Contester
<1>9. ASSUME NEW r \in Reversements, RejeterContestation(r) PROVE Tenues'
      BY <1>6, <1>9 DEF RejeterContestation
<1>10. ASSUME NEW t \in Retours, OuvrirRetour(t) PROVE Tenues'
      BY <1>6, <1>10 DEF OuvrirRetour
<1>11. ASSUME NEW t \in Retours, CloreRetour(t) PROVE Tenues'
      BY <1>6, <1>11 DEF CloreRetour
<1>12. ASSUME RendreDisponibles PROVE Tenues'
      BY <1>6, <1>12 DEF RendreDisponibles
<1>. QED BY <1>1, <1>3, <1>4, <1>5, <1>7, <1>8, <1>9, <1>10, <1>11, <1>12 DEF Litige

LEMMA TransfertTenues ==
    ASSUME Types, Tenues, Transfert PROVE Tenues'
<1>1. EtapeDesPaiements
      BY TransfertDettes DEF Types, Tenues
<1>2. MemesRetours(ajustements, ajustements') /\ ClesUniques(ajustements')
      BY <1>1 DEF EtapeDesPaiements, MemesLignes, MemeCle, MemesRetours, Endette, ClesUniques, Tenues, Repartition
<1>3. Repartition'
      BY <1>1, <1>2, RepartitionSansRetour DEF EtapeDesPaiements, Tenues
<1>. QED BY <1>1, <1>3 DEF EtapeDesPaiements, Tenues

LEMMA TenuesInit == Init => Dossiers /\ Tenues
<1>. SUFFICES ASSUME Init PROVE Dossiers /\ Tenues
     OBVIOUS
<1>1. Dossiers
      BY DEF Init, Dossiers, DossierDe
<1>2. TypeDettes
      BY DEF Init, TypeDettes
<1>3. Exacts
      BY DEF Init, Exacts, ExactDe, Engages, ChargesDe
<1>4. \A t \in Retours : ~EnDette(t)
      BY DEF Init, EnDette
<1>5. \A r \in Reversements : Rembourses(r) = {} /\ retires[r] = 0
      BY DEF Init, Rembourses
<1>6. ClesUniques(ajustements)
      BY DEF Init, ClesUniques
<1>7. Repartition
      BY <1>4, <1>5, <1>6, SommeVide DEF Repartition
<1>. QED BY <1>1, <1>2, <1>3, <1>7 DEF Tenues

LEMMA EtapeTenue ==
    ASSUME Types, Dossiers, Tenues, [Next]_vars PROVE Tenues'
<1>1. CASE Litige
      BY <1>1, LitigeTenues
<1>2. CASE Transfert
      BY <1>2, TransfertTenues
<1>3. CASE UNCHANGED vars
  <2>1. UNCHANGED <<statut, dossier, montants>>
        BY <1>3 DEF vars
  <2>2. BienTenues(ajustements, ajustements') /\ MemesRetours(ajustements, ajustements')
        BY <2>1, DettesInchangees DEF Tenues, montants
  <2>. QED BY <2>1, <2>2, LitigeSansRemboursement DEF montants, dossier
<1>. QED BY <1>1, <1>2, <1>3 DEF Next

LEMMA TenuesToujours == Spec => [](Types /\ Tenues)
<1>1. Types /\ Dossiers /\ Tenues /\ [Next]_vars => Tenues'
      BY EtapeTenue
<1>2. Types /\ Dossiers /\ [Next]_vars => Dossiers'
      BY DossiersSuivants
<1>. QED BY <1>1, <1>2, TenuesInit, Typage, PTL DEF Spec

(* What a payout sends is its net minus the debts charged to it, and each refunded return is *)
(* borne once, off its payout or as a debt, whatever the instant it is refunded at and       *)
(* whatever answers outlive their transfer.                                                  *)
THEOREM Dettes_Tenues == Spec => []DettesTenues
<1>1. Tenues => DettesTenues
      BY ExactPourChacun, RepartitionEst DEF Tenues, Exacts, DettesTenues
<1>. QED BY <1>1, TenuesToujours, PTL

(* The columns of the payouts keep their types: a debt taken off a net leaves a natural.     *)
THEOREM Colonnes == Spec => []TypeOK
<1>1. Types /\ Tenues => TypeOK
  <2>1. TypeDettes => \A i \in DOMAIN ajustements : ajustements[i] \in Dettes
        BY Lignes DEF TypeDettes
  <2>2. TypeDettes => TypeMontants
        BY <2>1 DEF TypeDettes, TypeMontants, Dettes
  <2>. QED BY <2>2 DEF Types, Tenues, TypeOK
<1>. QED BY <1>1, TenuesToujours, PTL
=============================================================================
