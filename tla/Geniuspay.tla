----------------------------- MODULE Geniuspay ------------------------------
(***************************************************************************)
(* Notifications of GeniusPay: from the signed event to the payment.  An   *)
(* event is only a signal; its journal row is committed before the state   *)
(* is asked to the provider and applied, so a crash may leave it "recu";   *)
(* the provider delivers an event again until it gets a 2xx, possibly      *)
(* while a first delivery is still being treated.                          *)
(***************************************************************************)
EXTENDS Naturals, FiniteSets

CONSTANTS Encaissements,    \* payments opened at GeniusPay
          Evenements,       \* events GeniusPay sends
          Annonce,          \* Annonce[e]: the payment an event is about
          Genre,            \* Genre[e]: what the signed body says
          Traitements       \* concurrent requests of the web server

ASSUME GeniuspayAssumption ==
    /\ Evenements # {} /\ Annonce \in [Evenements -> Encaissements]
    /\ Genre \in [Evenements -> {"payment", "webhook.test", "cashout", "autre_environnement"}]

VARIABLES paiementG,        \* Paiement: status, reference stored or not
          transactionG,     \* the transaction at GeniusPay (external)
          emis, acquittes,  \* events sent; events answered 2xx
          journal,          \* JournalWebhook of each event
          traitement,       \* progress of each request
          reconcilie        \* progress of the reconciliation of each payment

geniuspayVars == <<paiementG, transactionG, emis, acquittes, journal, traitement, reconcilie>>

Paiement == [statut : {"en_attente", "valide", "echoue", "annule"}, initie : BOOLEAN]
StatutTraitement == {"absent", "recu", "traite", "ignore", "erreur"}
TransactionGeniuspay == [status : {"absente", "pending", "completed", "failed", "refunded"},
                 amount : {"du", "autre"}, metadata : BOOLEAN]
EtatsLus == {"rien", "en_attente", "succes", "succes_incoherent", "echec"}
Requete == [etape : {"libre", "ouvert", "verifie", "applique"}, evt : Evenements, etat : EtatsLus]

GeniuspayInit ==
    /\ paiementG = [p \in Encaissements |-> [statut |-> "en_attente", initie |-> FALSE]]
    /\ transactionG \in [Encaissements -> {t \in TransactionGeniuspay : t.status = "absente"}]
    /\ emis = {} /\ acquittes = {}
    /\ journal = [e \in Evenements |-> "absent"]
    /\ traitement = [t \in Traitements |-> [etape |-> "libre", evt |-> CHOOSE e \in Evenements : TRUE,
                                            etat |-> "rien"]]
    /\ reconcilie = [p \in Encaissements |-> "rien"]

-----------------------------------------------------------------------------
(* Opening: the request may be lost or its answer refused, and the payment  *)
(* then failed, although the transaction exists.                            *)

AppelInitier(p) ==
    /\ transactionG[p].status = "absente" /\ paiementG[p].statut = "en_attente"
    /\ \/ /\ transactionG' = [transactionG EXCEPT ![p].status = "pending"]
          /\ \/ paiementG' = [paiementG EXCEPT ![p].initie = TRUE]
             \/ paiementG' = [paiementG EXCEPT ![p].statut = "echoue"]
       \/ paiementG' = [paiementG EXCEPT ![p].statut = "echoue"] /\ UNCHANGED transactionG
    /\ UNCHANGED <<emis, acquittes, journal, traitement, reconcilie>>

AnnulerPaiement(p) ==
    /\ paiementG[p].statut = "en_attente"
    /\ paiementG' = [paiementG EXCEPT ![p].statut = "annule"]
    /\ UNCHANGED <<transactionG, emis, acquittes, journal, traitement, reconcilie>>

\* External: the buyer pays or gives up; GeniusPay refunds on its side.
Geniuspay(p) ==
    /\ \E s \in {"completed", "failed", "refunded"} :
        /\ transactionG[p].status = IF s = "refunded" THEN "completed" ELSE "pending"
        /\ transactionG' = [transactionG EXCEPT ![p].status = s]
    /\ UNCHANGED <<paiementG, emis, acquittes, journal, traitement, reconcilie>>

EmettreEvenement(e) ==
    /\ transactionG[Annonce[e]].status # "absente"
    /\ emis' = emis \cup {e}
    /\ UNCHANGED <<paiementG, transactionG, acquittes, journal, traitement, reconcilie>>

-----------------------------------------------------------------------------
(* A delivery: signature, environment, kind, payment, journal               *)

Ignoree(e) == Genre[e] \in {"webhook.test", "cashout"}
Authentique(e) == Genre[e] # "autre_environnement"

\* The payment is found by the reference stored when it was opened.
_paiement_notifie(e) == paiementG[Annonce[e]].initie

EtatDuJournalTraiteDAvance(e) == "traite"
EtatDuJournal(e) == IF journal[e] = "absent" THEN "recu" ELSE journal[e]

\* 401 and 404 change nothing and let the provider send the event again.
LireNotification(t, e) ==
    /\ traitement[t].etape = "libre" /\ e \in emis \ acquittes /\ Authentique(e)
    /\ \/ /\ Ignoree(e) /\ acquittes' = acquittes \cup {e}
          /\ UNCHANGED <<journal, traitement>>
       \/ /\ ~Ignoree(e) /\ _paiement_notifie(e)
          /\ IF journal[e] = "traite"
             THEN acquittes' = acquittes \cup {e} /\ UNCHANGED <<journal, traitement>>
             ELSE /\ journal' = [journal EXCEPT ![e] = EtatDuJournal(e)]
                  /\ traitement' = [traitement EXCEPT ![t] = [etape |-> "ouvert", evt |-> e, etat |-> "rien"]]
                  /\ UNCHANGED acquittes
    /\ UNCHANGED <<paiementG, transactionG, emis, reconcilie>>

-----------------------------------------------------------------------------
(* The state asked to the provider                                          *)

_statut(s) == CASE s = "completed" -> "succes" [] s = "failed" -> "echec" [] OTHER -> "en_attente"

\* What controler_montant_et_devise will accept.
EtatTransaction(p) ==
    IF transactionG[p].status = "completed" /\ transactionG[p].amount # "du"
    THEN "succes_incoherent" ELSE _statut(transactionG[p].status)

\* The answer must name this payment.
Recoupe(p) == paiementG[p].initie /\ transactionG[p].metadata

LibererTraitement(t) == traitement' = [traitement EXCEPT ![t].etape = "libre", ![t].etat = "rien"]
_journaliser(e, s) == journal' = [journal EXCEPT ![e] = s]

VerifierTransaction(t) ==
    LET e == traitement[t].evt  p == Annonce[e] IN
    /\ traitement[t].etape = "ouvert"
    /\ \/ LibererTraitement(t) /\ _journaliser(e, "erreur")                  \* unreachable: 503
       \/ ~Recoupe(p) /\ LibererTraitement(t) /\ _journaliser(e, "erreur")   \* incoherent: 400
       \/ /\ Recoupe(p) /\ UNCHANGED journal
          /\ traitement' = [traitement EXCEPT ![t].etape = "verifie", ![t].etat = EtatTransaction(p)]
    /\ UNCHANGED <<paiementG, transactionG, emis, acquittes, reconcilie>>

\* Under the locks of the orders and of the payment.
Applique(p, etat) ==
    IF etat = "succes" THEN [paiementG EXCEPT ![p].statut = "valide"]
    ELSE IF etat = "echec" /\ paiementG[p].statut = "en_attente"
         THEN [paiementG EXCEPT ![p].statut = "echoue"]
         ELSE paiementG

AppliquerEtat(t) ==
    LET e == traitement[t].evt  etat == traitement[t].etat IN
    /\ traitement[t].etape = "verifie"
    /\ \/ /\ etat \in {"succes", "echec"}
          /\ paiementG' = Applique(Annonce[e], etat)
          /\ traitement' = [traitement EXCEPT ![t].etape = "applique"]
          /\ UNCHANGED <<journal, acquittes>>
       \/ /\ etat = "en_attente" /\ LibererTraitement(t) /\ _journaliser(e, "ignore")
          /\ acquittes' = acquittes \cup {e} /\ UNCHANGED paiementG
       \/ /\ etat = "succes_incoherent" /\ LibererTraitement(t)
          /\ IF paiementG[Annonce[e]].statut = "valide"
             THEN _journaliser(e, "traite") /\ acquittes' = acquittes \cup {e}
             ELSE _journaliser(e, "erreur") /\ UNCHANGED acquittes
          /\ UNCHANGED paiementG
    /\ UNCHANGED <<transactionG, emis, reconcilie>>

JournaliserTraite(t) ==
    /\ traitement[t].etape = "applique" /\ LibererTraitement(t) /\ _journaliser(traitement[t].evt, "traite")
    /\ acquittes' = acquittes \cup {traitement[t].evt}
    /\ UNCHANGED <<paiementG, transactionG, emis, reconcilie>>

\* The server dies at any point of a treatment: no answer, no other effect.
Mourir(t) ==
    /\ traitement[t].etape # "libre" /\ LibererTraitement(t)
    /\ UNCHANGED <<paiementG, transactionG, emis, acquittes, journal, reconcilie>>

\* reconcilier_paiement: the state is read outside any transaction, applied later.
ReconcilierLire(p) ==
    /\ reconcilie[p] = "rien" /\ paiementG[p].statut # "valide" /\ Recoupe(p)
    /\ reconcilie' = [reconcilie EXCEPT ![p] = EtatTransaction(p)]
    /\ UNCHANGED <<paiementG, transactionG, emis, acquittes, journal, traitement>>

ReconcilierAppliquer(p) ==
    /\ reconcilie[p] # "rien"
    /\ paiementG' = Applique(p, reconcilie[p])
    /\ reconcilie' = [reconcilie EXCEPT ![p] = "rien"]
    /\ UNCHANGED <<transactionG, emis, acquittes, journal, traitement>>

GeniuspayNext ==
    \/ \E p \in Encaissements : \/ AppelInitier(p) \/ AnnulerPaiement(p) \/ Geniuspay(p)
                                \/ ReconcilierLire(p) \/ ReconcilierAppliquer(p)
    \/ \E e \in Evenements : EmettreEvenement(e)
    \/ \E t \in Traitements : \/ \E e \in Evenements : LireNotification(t, e)
                              \/ VerifierTransaction(t) \/ AppliquerEtat(t)
                              \/ JournaliserTraite(t) \/ Mourir(t)

GeniuspaySpec == GeniuspayInit /\ [][GeniuspayNext]_geniuspayVars
-----------------------------------------------------------------------------
GeniuspayTypes ==
    /\ paiementG \in [Encaissements -> Paiement]
    /\ transactionG \in [Encaissements -> TransactionGeniuspay]
    /\ emis \subseteq Evenements /\ acquittes \subseteq emis
    /\ journal \in [Evenements -> StatutTraitement]
    /\ traitement \in [Traitements -> Requete]
    /\ reconcilie \in [Encaissements -> EtatsLus]

\* An event is only recorded as treated once its effect is applied: whatever
\* crashes, replays and concurrent deliveries, a transaction that GeniusPay
\* completed with the amount due has its payment validated as soon as one of
\* its events is "traite" -- and no payment is ever validated unless GeniusPay
\* completed a transaction that names it, for the amount due.
EvenementTraite ==
    /\ \A e \in Evenements : journal[e] = "traite" => paiementG[Annonce[e]].statut # "en_attente"
    /\ \A e \in Evenements :
        (journal[e] = "traite" /\ transactionG[Annonce[e]].status \in {"completed", "refunded"})
            => paiementG[Annonce[e]].statut = "valide"
    /\ \A p \in Encaissements : paiementG[p].statut = "valide" =>
        /\ transactionG[p].status \in {"completed", "refunded"}
        /\ transactionG[p].amount = "du" /\ transactionG[p].metadata
=============================================================================
