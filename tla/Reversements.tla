----------------------------- MODULE Reversements -----------------------------
(***************************************************************************)
(* The payouts of one shop (apps/paiements/reversements.py): withdrawal    *)
(* period, suspension by a return or by a contested delivery, transfers of *)
(* uncertain outcome, and the debts of the seller charged to his payouts.  *)
(* One action is one transaction; a call to the provider is made outside   *)
(* transactions, so that its start, its effect at the provider, its        *)
(* outcome and the application of an answer are separate actions.          *)
(***************************************************************************)
EXTENDS Integers, Sequences, FiniteSets, SequencesExt

CONSTANTS
    Reversements,      \* the payouts of a shop, one per order
    Retours,           \* the returns the clients may ask for
    RetourDe,          \* order (payout) of a return
    Net,               \* montant_net at creation
    Reste,             \* offered delivery the sale does not cover
    Deduction,         \* part_vendeur_retournee of a return
    Frais,             \* frais_livraison_rembourses of a return
    RetourApresDelai,  \* RETOUR_DELAI_JOURS > REVERSEMENT_DELAI_RETRACTATION_JOURS
    Tentatives,        \* bound: transfers started for a payout
    ReponsesTardives,  \* may an answer about a transfer outlive that transfer?
    Aucun              \* no payout

ASSUME ConstantesOk ==
    /\ IsFiniteSet(Retours) /\ RetourDe \in [Retours -> Reversements]
    /\ Net \in [Reversements -> Nat] /\ Reste \in [Reversements -> Nat]
    /\ Deduction \in [Retours -> Nat] /\ Frais \in [Retours -> Nat]
    /\ RetourApresDelai \in BOOLEAN /\ ReponsesTardives \in BOOLEAN
    /\ Tentatives \in Nat
    /\ Aucun \notin Reversements

VARIABLES
    statut,        \* Reversement.statut
    echu,          \* date_disponibilite <= now
    retour,        \* DemandeRetour.statut, as far as payouts look at it
    contestation,  \* ContestationLivraison.statut
    retires,       \* montant_retours
    ajustements,   \* AjustementVendeur rows, oldest first
    aVerser,       \* montant_a_verser
    fournisseur,   \* is the field fournisseur filled?
    reference,     \* reference_externe: a transfer, 0 when empty
    transferts,    \* external: state of each transfer at the provider
    tentative,     \* number of the last transfer started
    appels,        \* calls to transferer that have not returned
    reponses,      \* states read at the provider, not yet applied
    manuel,        \* the administration sent the money itself
    alerte,        \* date_derniere_alerte is set
    signale,       \* the administration was told of the current transfer
    doubles        \* transfers reported as "double paiement possible"

dossier == <<echu, retour, contestation>>
montants == <<retires, ajustements, aVerser>>
chezFournisseur == <<transferts, tentative>>
echanges == <<appels, reponses>>
suivi == <<alerte, signale, doubles>>
versement == <<fournisseur, reference, manuel>>
vars == <<statut, dossier, montants, chezFournisseur, echanges, suivi, versement>>

Statuts == {"en_attente_livraison", "en_retractation", "suspendu", "disponible",
            "en_cours", "verse", "annule"}
Finaux == {"succes", "non_conforme", "echec"}
EtatsTransfert == {"aucun", "envoi", "perdu", "refuse", "attente"} \union Finaux
Essais == 1..Tentatives

-------------------------------------------------------------------------------
\* Amounts

\* recalculer_net
NetDe(r) == IF Net[r] > retires[r] THEN Net[r] - retires[r] ELSE 0

Dette(nature, de, montant) ==
    [nature |-> nature, de |-> de, montant |-> montant, impute |-> Aucun]

\* get_or_create: unique for a return, or for an order and a nature.
Ajouter(liste, dette) ==
    IF dette.montant = 0
          \/ \E i \in DOMAIN liste : liste[i].nature = dette.nature /\ liste[i].de = dette.de
    THEN liste
    ELSE Append(liste, dette)

\* What is left of the net once the first i debts were looked at: each is charged,
\* oldest first, if no payout holds it and the total stays natural.
Total(r) ==
    LET total[i \in 0..Len(ajustements)] ==
            IF i = 0 THEN NetDe(r)
            ELSE IF ajustements[i].impute = Aucun /\ ajustements[i].montant <= total[i - 1]
                 THEN total[i - 1] - ajustements[i].montant
                 ELSE total[i - 1]
    IN total

\* _imputer_ajustements
Imputer(r) ==
    [total |-> Total(r)[Len(ajustements)],
     liste |-> [i \in DOMAIN ajustements |->
                   IF ajustements[i].impute = Aucun /\ ajustements[i].montant <= Total(r)[i - 1]
                   THEN [ajustements[i] EXCEPT !.impute = r]
                   ELSE ajustements[i]]]

\* _liberer_ajustements
Liberer(r) ==
    /\ ajustements' = [i \in DOMAIN ajustements |->
                          IF ajustements[i].impute = r
                          THEN [ajustements[i] EXCEPT !.impute = Aucun]
                          ELSE ajustements[i]]
    /\ aVerser' = [aVerser EXCEPT ![r] = 0]
    /\ UNCHANGED retires

-------------------------------------------------------------------------------
\* Withdrawal period and suspension

Livre(r) == statut[r] # "en_attente_livraison"

RetourOuvert(r, etats) == \E t \in Retours : RetourDe[t] = r /\ etats[t] = "ouvert"

RepriseSansContestation(r, etats, contestations) ==
    IF statut[r] # "suspendu" \/ RetourOuvert(r, etats) THEN statut[r]
    ELSE IF echu[r] THEN "disponible" ELSE "en_retractation"

\* _reprendre, on the states of returns and contestations of the transaction
Reprise(r, etats, contestations) ==
    IF statut[r] # "suspendu" \/ RetourOuvert(r, etats) \/ contestations[r] = "ouverte"
    THEN statut[r]
    ELSE IF echu[r] THEN "disponible" ELSE "en_retractation"

Suspension(r) ==
    IF statut[r] \in {"en_retractation", "disponible"} THEN "suspendu" ELSE statut[r]

\* The order is delivered: ouvrir_retractation, _reste_livraison_offerte.
Livrer(r) ==
    /\ statut[r] = "en_attente_livraison"
    /\ statut' = [statut EXCEPT ![r] =
                    IF RetourOuvert(r, retour) THEN "suspendu" ELSE "en_retractation"]
    /\ ajustements' = Ajouter(ajustements, Dette("offerte", r, Reste[r]))
    /\ UNCHANGED <<dossier, retires, aVerser, chezFournisseur, echanges, suivi, versement>>

\* The rest of the offered delivery of r (one row: ajustement_vendeur_unique_par_commande)
\* is erased unless a payout holds it.
ResteDu(r) ==
    {i \in DOMAIN ajustements :
        ajustements[i].nature = "offerte" /\ ajustements[i].de = r /\ ajustements[i].impute = Aucun}

ResteDeduitDe(r) ==
    IF ResteDu(r) = {} THEN ajustements ELSE RemoveAt(ajustements, CHOOSE i \in ResteDu(r) : TRUE)

\* annuler_reversement: effects on the payout and on the rest of its delivery.
AnnulationDe(r) ==
    IF statut[r] \in {"verse", "en_cours", "annule"}
    THEN UNCHANGED <<statut, ajustements>>
    ELSE /\ statut' = [statut EXCEPT ![r] = "annule"]
         /\ ajustements' = ResteDeduitDe(r)

\* The order is cancelled before its delivery.
AnnulerCommande(r) ==
    /\ statut[r] = "en_attente_livraison"
    /\ AnnulationDe(r)
    /\ UNCHANGED <<dossier, retires, aVerser, chezFournisseur, echanges, suivi, versement>>

DelaiEcoule(r) ==
    /\ Livre(r) /\ ~echu[r]
    /\ echu' = [echu EXCEPT ![r] = TRUE]
    /\ UNCHANGED <<statut, retour, contestation, montants, chezFournisseur, echanges,
                   suivi, versement>>

\* rendre_disponibles: one UPDATE of every payout whose period is over.
RendreDisponibles ==
    /\ \E r \in Reversements : statut[r] = "en_retractation" /\ echu[r]
    /\ statut' = [r \in Reversements |->
                    IF statut[r] = "en_retractation" /\ echu[r] THEN "disponible" ELSE statut[r]]
    /\ UNCHANGED <<dossier, montants, chezFournisseur, echanges, suivi, versement>>

\* creer_demande, then suspendre_reversement. An order cancelled before its
\* delivery cannot be returned; one whose non-delivery was established can.
OuvrirRetour(t) == LET r == RetourDe[t] IN
    /\ retour[t] = "aucun"
    /\ Livre(r) /\ (statut[r] = "annule" => contestation[r] = "fondee")
    /\ RetourApresDelai \/ ~echu[r]
    /\ retour' = [retour EXCEPT ![t] = "ouvert"]
    /\ statut' = [statut EXCEPT ![r] = Suspension(r)]
    /\ UNCHANGED <<echu, contestation, montants, chezFournisseur, echanges, suivi, versement>>

\* The return is refused for good or cancelled: reprendre_reversement.
CloreRetour(t) == LET r == RetourDe[t] IN
    /\ retour[t] = "ouvert"
    /\ retour' = [retour EXCEPT ![t] = "clos"]
    /\ statut' = [statut EXCEPT ![r] = Reprise(r, retour', contestation)]
    /\ UNCHANGED <<echu, contestation, montants, chezFournisseur, echanges, suivi, versement>>

ImputerRetourSaufVerse(t) == LET r == RetourDe[t] IN
    IF statut[r] = "verse"
    THEN /\ ajustements' = Ajouter(Ajouter(ajustements, Dette("retour", t, Deduction[t])),
                                   Dette("frais", r, Frais[t]))
         /\ UNCHANGED <<statut, retires>>
    ELSE /\ retires' = [retires EXCEPT ![r] = IF statut[r] = "annule" THEN @ ELSE @ + Deduction[t]]
         /\ ajustements' = Ajouter(ajustements, Dette("frais", r, Frais[t]))
         /\ statut' = [statut EXCEPT ![r] = Reprise(r, retour', contestation)]

\* What appliquer_retour_rembourse does to the payout, then the fees of
\* facturer_frais_livraison_retour (once per order).
ImputerRetour(t) == LET r == RetourDe[t] IN
    IF statut[r] \in {"verse", "en_cours"}
    THEN /\ ajustements' = Ajouter(Ajouter(ajustements, Dette("retour", t, Deduction[t])),
                                   Dette("frais", r, Frais[t]))
         /\ UNCHANGED <<statut, retires>>
    ELSE /\ retires' = [retires EXCEPT ![r] = IF statut[r] = "annule" THEN @ ELSE @ + Deduction[t]]
         /\ ajustements' = Ajouter(ajustements, Dette("frais", r, Frais[t]))
         /\ statut' = [statut EXCEPT ![r] = Reprise(r, retour', contestation)]

\* rembourser_retour. Refused once the order was refunded in full.
RembourserRetour(t) ==
    /\ retour[t] = "ouvert"
    /\ contestation[RetourDe[t]] # "fondee"
    /\ retour' = [retour EXCEPT ![t] = "rembourse"]
    /\ ImputerRetour(t)
    /\ UNCHANGED <<echu, contestation, aVerser, chezFournisseur, echanges, suivi, versement>>

\* contester_livraison, once and within the period.
Contester(r) ==
    /\ Livre(r) /\ statut[r] # "annule" /\ ~echu[r]
    /\ contestation[r] = "aucune"
    /\ contestation' = [contestation EXCEPT ![r] = "ouverte"]
    /\ statut' = [statut EXCEPT ![r] = Suspension(r)]
    /\ UNCHANGED <<echu, retour, montants, chezFournisseur, echanges, suivi, versement>>

\* resoudre_contestation
RejeterContestation(r) ==
    /\ contestation[r] = "ouverte"
    /\ contestation' = [contestation EXCEPT ![r] = "rejetee"]
    /\ statut' = [statut EXCEPT ![r] = Reprise(r, retour, contestation')]
    /\ UNCHANGED <<echu, retour, montants, chezFournisseur, echanges, suivi, versement>>

RetenirContestation(r) ==
    /\ contestation[r] = "ouverte"
    /\ contestation' = [contestation EXCEPT ![r] = "fondee"]
    /\ AnnulationDe(r)
    /\ UNCHANGED <<echu, retour, retires, aVerser, chezFournisseur, echanges, suivi, versement>>

-------------------------------------------------------------------------------
\* Payment by hand and start of a transfer

FigerMontant(r) ==
    /\ ajustements' = Imputer(r).liste
    /\ aVerser' = [aVerser EXCEPT ![r] = Imputer(r).total]
    /\ UNCHANGED retires

\* A reference typed by the administration, that is no transfer's.
Saisie == Tentatives + 1

\* verser_manuellement
VerserManuellement(r) ==
    /\ statut[r] = "disponible"
    /\ FigerMontant(r)
    /\ statut' = [statut EXCEPT ![r] = "verse"]
    /\ manuel' = [manuel EXCEPT ![r] = TRUE]
    /\ fournisseur' = [fournisseur EXCEPT ![r] = FALSE]
    /\ reference' = [reference EXCEPT ![r] = Saisie]
    /\ UNCHANGED <<dossier, chezFournisseur, echanges, suivi>>

\* Without late answers, a new transfer waits for those about the previous one.
SansReponseEnAttente(r) ==
    /\ \A n \in Essais : <<r, n>> \notin appels
    /\ \A rep \in reponses : rep.de # r

SuiviConserve(r) == signale' = [signale EXCEPT ![r] = FALSE] /\ UNCHANGED alerte

\* date_derniere_alerte is emptied for each transfer.
NouveauSuivi(r) ==
    /\ alerte' = [alerte EXCEPT ![r] = FALSE]
    /\ signale' = [signale EXCEPT ![r] = FALSE]

\* transferer_reversement, up to the call
Transferer(r) == LET n == tentative[r] + 1 IN
    /\ statut[r] = "disponible"
    /\ Imputer(r).total > 0
    /\ n <= Tentatives
    /\ ReponsesTardives \/ SansReponseEnAttente(r)
    /\ FigerMontant(r)
    /\ statut' = [statut EXCEPT ![r] = "en_cours"]
    /\ fournisseur' = [fournisseur EXCEPT ![r] = TRUE]
    /\ tentative' = [tentative EXCEPT ![r] = n]
    /\ transferts' = [transferts EXCEPT ![r][n] = "envoi"]
    /\ appels' = appels \union {<<r, n>>}
    /\ NouveauSuivi(r)
    /\ UNCHANGED <<dossier, reponses, doubles, reference, manuel>>

-------------------------------------------------------------------------------
\* The provider (external)

Creer(r, n) ==
    /\ transferts[r][n] = "envoi"
    /\ transferts' = [transferts EXCEPT ![r][n] = "attente"]
    /\ UNCHANGED <<statut, dossier, montants, tentative, echanges, suivi, versement>>

Executer(r, n) ==
    /\ transferts[r][n] = "attente"
    /\ \E etat \in Finaux : transferts' = [transferts EXCEPT ![r][n] = etat]
    /\ UNCHANGED <<statut, dossier, montants, tentative, echanges, suivi, versement>>

-------------------------------------------------------------------------------
\* End of the call

RendreDisponible(r) ==
    /\ Liberer(r)
    /\ statut' = [statut EXCEPT ![r] = "disponible"]

\* REFUS_CERTAINS: nothing was created at the provider; _revenir_disponible.
AppelRefuse(r, n) ==
    /\ <<r, n>> \in appels /\ transferts[r][n] = "envoi"
    /\ transferts' = [transferts EXCEPT ![r][n] = "refuse"]
    /\ appels' = appels \ {<<r, n>>}
    /\ IF statut[r] = "en_cours" THEN RendreDisponible(r) ELSE UNCHANGED <<statut, montants>>
    /\ UNCHANGED <<dossier, tentative, reponses, suivi, versement>>

AppelIncertainRefuse(r, n) ==
    /\ <<r, n>> \in appels
    /\ appels' = appels \ {<<r, n>>}
    /\ transferts' = [transferts EXCEPT ![r][n] = IF @ = "envoi" THEN "perdu" ELSE @]
    /\ IF statut[r] = "en_cours" THEN RendreDisponible(r) ELSE UNCHANGED <<statut, montants>>
    /\ UNCHANGED <<dossier, tentative, reponses, suivi, versement>>

\* Any other error: the request was lost, or its answer.
AppelIncertain(r, n) ==
    /\ <<r, n>> \in appels
    /\ appels' = appels \ {<<r, n>>}
    /\ transferts' = [transferts EXCEPT ![r][n] = IF @ = "envoi" THEN "perdu" ELSE @]
    /\ UNCHANGED <<statut, dossier, montants, tentative, reponses, suivi, versement>>

Lire(r, n) == IF transferts[r][n] \in Finaux THEN {[de |-> r, n |-> n, etat |-> transferts[r][n]]} ELSE {}

\* The provider answered: its identifier is kept, its answer applied next.
AppelAbouti(r, n) ==
    /\ <<r, n>> \in appels /\ transferts[r][n] # "envoi"
    /\ appels' = appels \ {<<r, n>>}
    /\ reference' = [reference EXCEPT ![r] = IF statut[r] = "en_cours" THEN n ELSE @]
    /\ reponses' = reponses \union Lire(r, n)
    /\ UNCHANGED <<statut, dossier, montants, chezFournisseur, suivi, fournisseur, manuel>>

-------------------------------------------------------------------------------
\* States asked to the provider again, and their application

\* traiter_notification_transfert: notified of transfer n, asks its state.
RecevoirNotification(r, n) ==
    /\ transferts[r][n] \in Finaux
    /\ ReponsesTardives \/ n = tentative[r]
    /\ reponses' = reponses \union Lire(r, n)
    /\ UNCHANGED <<statut, dossier, montants, chezFournisseur, appels, suivi, versement>>

\* reconcilier_reversement: asks the state of the last transfer.
Reconcilier(r) ==
    /\ statut[r] = "en_cours"
    /\ reponses' = reponses \union Lire(r, tentative[r])
    /\ UNCHANGED <<statut, dossier, montants, chezFournisseur, appels, suivi, versement>>

DejaVersePar(r, n) ==
    /\ statut[r] = "verse" /\ fournisseur[r]
    /\ reference[r] \in {0, n}

\* A success for a payout that is no longer being transferred: alert only.
SuccesHorsCours(rep) ==
    /\ rep.etat # "echec" /\ statut[rep.de] # "en_cours"
    /\ doubles' = IF DejaVersePar(rep.de, rep.n) THEN doubles
                                                 ELSE doubles \union {<<rep.de, rep.n>>}
    /\ UNCHANGED <<statut, montants, alerte, signale, reference>>

Succes(rep) ==
    /\ rep.etat = "succes" /\ statut[rep.de] = "en_cours"
    /\ statut' = [statut EXCEPT ![rep.de] = "verse"]
    /\ reference' = [reference EXCEPT ![rep.de] = IF @ = 0 THEN rep.n ELSE @]
    /\ UNCHANGED <<montants, suivi>>

\* Another amount, or an unreadable one: left in progress, one alert.
SuccesNonConforme(rep) ==
    /\ rep.etat = "non_conforme" /\ statut[rep.de] = "en_cours"
    /\ alerte' = [alerte EXCEPT ![rep.de] = TRUE]
    /\ signale' = [signale EXCEPT ![rep.de] = @ \/ ~alerte[rep.de]]
    /\ UNCHANGED <<statut, montants, doubles, reference>>

Echec(rep) ==
    /\ rep.etat = "echec"
    /\ IF statut[rep.de] = "en_cours" THEN RendreDisponible(rep.de)
                                      ELSE UNCHANGED <<statut, montants>>
    /\ UNCHANGED <<suivi, reference>>

\* appliquer_etat_transfert, under the lock of the payout
AppliquerEtat(rep) ==
    /\ rep \in reponses
    /\ reponses' = reponses \ {rep}
    /\ SuccesHorsCours(rep) \/ Succes(rep) \/ SuccesNonConforme(rep) \/ Echec(rep)
    /\ UNCHANGED <<dossier, chezFournisseur, appels, fournisseur, manuel>>

-------------------------------------------------------------------------------
\* The administration

\* alerter_reversements_bloques (its repetition after 24 hours is left out)
AlerterBlocage(r) ==
    /\ statut[r] = "en_cours" /\ ~alerte[r]
    /\ alerte' = [alerte EXCEPT ![r] = TRUE]
    /\ signale' = [signale EXCEPT ![r] = TRUE]
    /\ UNCHANGED <<statut, dossier, montants, chezFournisseur, echanges, doubles, versement>>

\* What an administrator who resolves a transfer has read on the provider's
\* dashboard (external): the last transfer is over, and did or did not pay.
Constate(r, etats) == transferts[r][tentative[r]] \in etats

\* resoudre_transfert_incertain, "non-parti"
ResoudreNonParti(r) ==
    /\ statut[r] = "en_cours"
    /\ Constate(r, {"perdu", "refuse", "echec"})
    /\ RendreDisponible(r)
    /\ UNCHANGED <<dossier, chezFournisseur, echanges, suivi, versement>>

\* resoudre_transfert_incertain, "verse": the provider's reference is typed.
ResoudreVerse(r) ==
    /\ statut[r] = "en_cours"
    /\ Constate(r, {"succes", "non_conforme"})
    /\ statut' = [statut EXCEPT ![r] = "verse"]
    /\ reference' = [reference EXCEPT ![r] = tentative[r]]
    /\ UNCHANGED <<dossier, montants, chezFournisseur, echanges, suivi, fournisseur, manuel>>

-------------------------------------------------------------------------------
Init ==
    /\ statut = [r \in Reversements |-> "en_attente_livraison"]
    /\ echu = [r \in Reversements |-> FALSE]
    /\ retour = [t \in Retours |-> "aucun"]
    /\ contestation = [r \in Reversements |-> "aucune"]
    /\ retires = [r \in Reversements |-> 0]
    /\ ajustements = <<>>
    /\ aVerser = [r \in Reversements |-> 0]
    /\ fournisseur = [r \in Reversements |-> FALSE]
    /\ reference = [r \in Reversements |-> 0]
    /\ transferts = [r \in Reversements |-> [n \in Essais |-> "aucun"]]
    /\ tentative = [r \in Reversements |-> 0]
    /\ appels = {} /\ reponses = {} /\ doubles = {}
    /\ manuel = [r \in Reversements |-> FALSE]
    /\ alerte = [r \in Reversements |-> FALSE]
    /\ signale = [r \in Reversements |-> FALSE]

Litige ==
    \/ \E r \in Reversements :
          \/ Livrer(r) \/ AnnulerCommande(r) \/ DelaiEcoule(r)
          \/ Contester(r) \/ RejeterContestation(r) \/ RetenirContestation(r)
    \/ \E t \in Retours : OuvrirRetour(t) \/ CloreRetour(t) \/ RembourserRetour(t)
    \/ RendreDisponibles

Transfert ==
    \/ \E r \in Reversements :
          \/ VerserManuellement(r) \/ Transferer(r) \/ Reconcilier(r)
          \/ AlerterBlocage(r) \/ ResoudreNonParti(r) \/ ResoudreVerse(r)
    \/ \E r \in Reversements, n \in Essais :
          \/ Creer(r, n) \/ Executer(r, n)
          \/ AppelRefuse(r, n) \/ AppelIncertain(r, n) \/ AppelAbouti(r, n)
          \/ RecevoirNotification(r, n)
    \/ \E rep \in reponses : AppliquerEtat(rep)

Next == Litige \/ Transfert

Spec == Init /\ [][Next]_vars

\* Celery beat starts the reconciliation and the alerts again and again; an
\* answer that was read is applied by the same request or task.
Equite ==
    /\ \A r \in Reversements : WF_vars(Reconcilier(r)) /\ WF_vars(AlerterBlocage(r))
    /\ \A r \in Reversements, n \in Essais, e \in Finaux :
          WF_vars(AppliquerEtat([de |-> r, n |-> n, etat |-> e]))

SpecEquitable == Spec /\ Equite
-------------------------------------------------------------------------------
\* Types

TypeDossier ==
    /\ statut \in [Reversements -> Statuts]
    /\ echu \in [Reversements -> BOOLEAN]
    /\ retour \in [Retours -> {"aucun", "ouvert", "rembourse", "clos"}]
    /\ contestation \in [Reversements -> {"aucune", "ouverte", "rejetee", "fondee"}]

TypeTransferts ==
    /\ transferts \in [Reversements -> [Essais -> EtatsTransfert]]
    /\ tentative \in [Reversements -> 0..Tentatives]
    /\ appels \subseteq Reversements \X Essais
    /\ reponses \subseteq [de : Reversements, n : Essais, etat : Finaux]
    /\ doubles \subseteq Reversements \X Essais
    /\ reference \in [Reversements -> 0..Saisie]
    /\ fournisseur \in [Reversements -> BOOLEAN] /\ manuel \in [Reversements -> BOOLEAN]
    /\ alerte \in [Reversements -> BOOLEAN] /\ signale \in [Reversements -> BOOLEAN]

TypeMontants ==
    /\ retires \in [Reversements -> Nat]
    /\ aVerser \in [Reversements -> Nat]
    /\ \A i \in DOMAIN ajustements :
          ajustements[i] \in [nature : {"retour", "offerte", "frais"}, de : Retours \union Reversements,
                             montant : Nat, impute : Reversements \union {Aucun}]

(* The columns of the payouts; montant_a_verser, whatever debts were charged, is natural. *)
TypeOK == TypeDossier /\ TypeTransferts /\ TypeMontants

-------------------------------------------------------------------------------
\* Correctness

\* The times the money of a payout left: by hand (0) or by its n-th transfer.
Partis(r) ==
    {n \in Essais : transferts[r][n] \in {"succes", "non_conforme"}}
        \union (IF manuel[r] THEN {0} ELSE {})

(* A seller is never paid twice for an order, by two transfers or by a transfer and by hand, *)
(* whatever calls time out, notifications repeat or are lost, and whatever the               *)
(* administration resolves (module docstring, lines 18-21).                                  *)
VersementUnique == \A r \in Reversements : \A a, b \in Partis(r) : a = b

(* A payout said to be paid was paid: no refusal, failure or answer about something else     *)
(* makes the shop believe it received money.                                                 *)
VerseEstParti == \A r \in Reversements : statut[r] = "verse" => Partis(r) # {}

(* While a return or a contested delivery is open, the payout can neither become available   *)
(* nor leave, whichever of several disputes is closed first and whatever the date.           *)
LitigeSuspend ==
    \A r \in Reversements :
        RetourOuvert(r, retour) \/ contestation[r] = "ouverte" => statut[r] \in {"suspendu", "annule"}

(* A payout does not stay suspended once its last dispute is over.                           *)
SuspenduPourLitige ==
    \A r \in Reversements :
        statut[r] = "suspendu" => RetourOuvert(r, retour) \/ contestation[r] = "ouverte"

Montants == [i \in DOMAIN ajustements |-> ajustements[i].montant]

\* Adjustments charged to a payout, by row number.
Imputes(r) == {i \in DOMAIN ajustements : ajustements[i].impute = r}

(* A transfer or a payment by hand sends the net of the sale minus the debts charged to it,  *)
(* even when a return is refunded meanwhile; a payout that did not leave holds no debt.      *)
AVerserExact ==
    \A r \in Reversements :
        IF statut[r] \in {"en_cours", "verse"}
        THEN aVerser[r] + SumFunctionOnSet(Montants, Imputes(r)) = NetDe(r)
        ELSE aVerser[r] = 0 /\ Imputes(r) = {}

\* Returns of r whose refund was charged as a debt rather than taken off the payout.
EnDette(t) == \E i \in DOMAIN ajustements : ajustements[i].nature = "retour" /\ ajustements[i].de = t

(* The seller bears each refunded return exactly once, either off the net of its own payout  *)
(* or as a debt to the shop's next ones, and fees of a returned delivery once per order.     *)
RetourSupporteUneFois ==
    /\ \A t \in Retours : EnDette(t) => retour[t] = "rembourse"
    /\ \A r \in Reversements :
          retires[r] = SumFunctionOnSet(Deduction,
                           {t \in Retours : RetourDe[t] = r /\ retour[t] = "rembourse" /\ ~EnDette(t)})
    /\ \A i, j \in DOMAIN ajustements :
          ajustements[i].nature = ajustements[j].nature /\ ajustements[i].de = ajustements[j].de => i = j

(* The money of a shop whose sales are returned, whatever the instant a return is refunded   *)
(* at: what each transfer sends, and who bears each refund.                                  *)
DettesTenues == AVerserExact /\ RetourSupporteUneFois

(* With every notification lost, a transfer the provider has settled (for the right amount)  *)
(* does not leave its payout in progress for ever.                                           *)
TransfertTranche ==
    \A r \in Reversements :
        (statut[r] = "en_cours" /\ Constate(r, {"succes", "echec"})) ~> statut[r] # "en_cours"

(* A payout whose transfer nobody settles is brought to the administration, each time it is  *)
(* transferred, whatever the provider answers or does not.                                   *)
BlocageSignale ==
    \A r \in Reversements : statut[r] = "en_cours" ~> statut[r] # "en_cours" \/ signale[r]

(* A transfer under way is never forgotten: reconcilier_reversements and alerter_blocage.    *)
VersementSuivi == TransfertTranche /\ BlocageSignale
===============================================================================
