------------------------------- MODULE Retours -------------------------------
(***************************************************************************)
(* After the delivery of one order: the returns its client asks for        *)
(* (apps/retours/services.py), their decisions, appeals and deadlines, the *)
(* refunds they create under the ceiling of the order                      *)
(* (paiements.services.creer_remboursement) and the contested delivery     *)
(* that shares this ceiling. One action is one transaction.                *)
(***************************************************************************)
EXTENDS Integers, FiniteSets, Functions, TableRetours

CONSTANTS
    Demandes,        \* bound: the returns the client may ask for
    Articles,        \* the lines of the order
    Quantite, Prix,  \* of each line
    Remise,          \* the part of the coupon that fell on this order
    FraisLivraison,  \* paid by the client
    Lots,            \* bound: the choices of a return, [Articles -> quantity]
    Passages         \* bound: the executions of the task that overlap

ASSUME CommandeOk ==
    /\ IsFiniteSet(Demandes) /\ IsFiniteSet(Articles) /\ Articles # {}
    /\ Quantite \in [Articles -> Nat \ {0}] /\ Prix \in [Articles -> Nat \ {0}]
    /\ Remise \in Nat /\ FraisLivraison \in Nat
    /\ Lots \subseteq [Articles -> Nat]

VARIABLES
    statut,         \* DemandeRetour.statut, "aucune" before its creation
    lot,            \* its RetourItem rows
    frais,          \* frais_livraison_rembourses
    approbation,    \* source of its last approval (RetourHistorique)
    echues,         \* the returns the deadline of whose status is over
    delais,         \* the delays of the order that are over: "retour", "livraison"
    listes,         \* of each pass of the task: the returns it still has to treat
    figees,         \* ... and those whose present deadline was over when it started
    remis,          \* units of each line put back in stock
    remboursement,  \* Remboursement.statut of each return
    contestation,   \* ContestationLivraison.statut
    nonRecu         \* the refund of a parcel never received: [etat, montant]

tache == <<listes, figees>>
livraison == <<contestation, nonRecu>>
vars == <<statut, lot, frais, approbation, echues, delais, tache, remis, remboursement, livraison>>

-----------------------------------------------------------------------------
\* Amounts

PrixDe(choix) == SumFunctionOnSet([a \in Articles |-> Prix[a] * choix[a]], Articles)

Brut == PrixDe(Quantite)
Total == Brut - Remise + FraisLivraison

\* montant_a_rembourser: the share paid of these articles, rounded down.
MontantArticles(choix) == (PrixDe(choix) * (Brut - Remise)) \div Brut

Montant(d) == MontantArticles(lot[d]) + frais[d]

-----------------------------------------------------------------------------
\* Which returns count

EngageesHorsRefus == {d \in Demandes : statut[d] \notin {"aucune", "rejete", "annule"} \union STATUTS_REFUS}

\* A rejected or cancelled return never took place.
Engagees == {d \in Demandes : statut[d] \notin {"aucune", "rejete", "annule"}}

Couverts(a) == SumFunctionOnSet([d \in Demandes |-> lot[d][a]], Engagees)

FraisRembourses(motifVendeur) ==
    IF motifVendeur /\ ~\E d \in Demandes : statut[d] \in {"rembourse", "cloture"} /\ frais[d] > 0
    THEN FraisLivraison ELSE 0

\* frais_livraison_a_rembourser: once per order, for a fault of the seller.
FraisARembourser(motifVendeur) ==
    IF motifVendeur /\ \A d \in Engagees : frais[d] = 0 THEN FraisLivraison ELSE 0

-----------------------------------------------------------------------------
\* Refunds

AccordeRetours ==
    SumFunctionOnSet([d \in Demandes |-> Montant(d)], {d \in Demandes : remboursement[d] # "aucun"})

\* "deja" in creer_remboursement: what was granted and not refused.
Accorde == AccordeRetours + (IF nonRecu.etat \in {"a_traiter", "effectue"} THEN nonRecu.montant ELSE 0)

ResteDu == Total - Accorde

\* creer_remboursement raises PaiementRefuse otherwise: the whole step of the
\* return is undone.
Remboursable(d) == Montant(d) > 0 /\ Montant(d) <= ResteDu

-----------------------------------------------------------------------------
\* The steps of a return

ControleSansApprobation(regle, d, echue) ==
    /\ regle.controle \in {"echeance_vendeur", "contestation"} => ~echue
    /\ regle.controle \in {"echeance_vendeur_passee", "contestation_passee"} => echue

\* _controler, at an instant when the deadline of the status is over or not
Controle(regle, d, echue) ==
    /\ regle.controle \in {"echeance_vendeur", "contestation"} => ~echue
    /\ regle.controle \in {"echeance_vendeur_passee", "contestation_passee"} => echue
    /\ regle.controle = "approbation_du_vendeur" => approbation[d] = "vendeur"

\* _reintegrer_stock
Reintegrer(d) == remis' = [a \in Articles |-> remis[a] + lot[d][a]]

\* _appliquer
Appliquer(d, regle, source, restock) ==
    /\ statut' = [statut EXCEPT ![d] = regle.vers]
    /\ approbation' = [approbation EXCEPT ![d] = IF regle.vers = "approuve" THEN source ELSE @]
    \* The deadline of the new status begins after any pass under way.
    /\ echues' = echues \ {d}
    /\ figees' = [p \in Passages |-> figees[p] \ {d}]
    /\ IF regle.action = "receptionner" /\ restock THEN Reintegrer(d) ELSE UNCHANGED remis
    /\ IF regle.action = "rembourser"
       THEN Remboursable(d) /\ remboursement' = [remboursement EXCEPT ![d] = "a_traiter"]
       ELSE UNCHANGED remboursement

-----------------------------------------------------------------------------
\* The client, the shop, the moderators and the administration

\* creer_demande, validated under the lock of the order
CreerDemande(d) ==
    /\ statut[d] = "aucune" /\ "retour" \notin delais
    /\ \E choix \in Lots, motifVendeur \in BOOLEAN :
          /\ \E a \in Articles : choix[a] > 0
          /\ \A a \in Articles : Couverts(a) + choix[a] <= Quantite[a]
          /\ lot' = [lot EXCEPT ![d] = choix]
          /\ frais' = [frais EXCEPT ![d] = FraisARembourser(motifVendeur)]
    /\ statut' = [statut EXCEPT ![d] = "demande"]
    /\ UNCHANGED <<approbation, echues, delais, tache, remis, remboursement, livraison>>

\* traiter. A user with several qualities acts with one of them.
Traiter(d, regle, source) ==
    /\ statut[d] \in regle.depuis /\ source \in regle.acteurs \ {"systeme"}
    /\ Controle(regle, d, d \in echues)
    /\ \E restock \in BOOLEAN : Appliquer(d, regle, source, restock)
    /\ UNCHANGED <<lot, frais, delais, listes, livraison>>

-----------------------------------------------------------------------------
\* Deadlines

\* date_limite_vendeur, or date_limite_contestation
Echoir(d) ==
    /\ statut[d] \in {"demande"} \union STATUTS_REFUS /\ d \notin echues
    /\ echues' = echues \union {d}
    /\ UNCHANGED <<statut, lot, frais, approbation, delais, tache, remis, remboursement, livraison>>

DelaiEcoule(delai) ==
    /\ delai \notin delais
    /\ delais' = delais \union {delai}
    /\ UNCHANGED <<statut, lot, frais, approbation, echues, tache, remis, remboursement, livraison>>

Lister(p, demandes) ==
    /\ listes[p] = {} /\ demandes # {}
    /\ listes' = [listes EXCEPT ![p] = demandes]
    /\ figees' = [figees EXCEPT ![p] = demandes]
    /\ UNCHANGED <<statut, lot, frais, approbation, echues, delais, remis, remboursement, livraison>>

ListerEscalades(p) == Lister(p, {d \in echues : statut[d] = "demande"})

\* appliquer_echeances: a_escalader and a_clore, and the instant, are frozen.
ListerEcheances(p) == Lister(p, {d \in echues : statut[d] \in {"demande"} \union STATUTS_REFUS})

Quitter(p, d) ==
    /\ d \in listes[p]
    /\ listes' = [listes EXCEPT ![p] = @ \ {d}]
    /\ UNCHANGED <<lot, frais, delais, livraison>>

Echeance(d, regle) == "systeme" \in regle.acteurs /\ statut[d] \in regle.depuis

\* appliquer_echeance: status and deadline are read again under the lock, the
\* deadline against the instant the pass started.
AppliquerEcheance(p, d) ==
    /\ Quitter(p, d)
    /\ \E regle \in TRANSITIONS :
          /\ Echeance(d, regle) /\ Controle(regle, d, d \in figees[p])
          /\ Appliquer(d, regle, "systeme", FALSE)

\* The return changed since it was listed, or (skip_locked) a request holds
\* its row and it waits for the next pass.
LaisserEcheance(p, d) ==
    /\ Quitter(p, d)
    /\ figees' = [figees EXCEPT ![p] = @ \ {d}]
    /\ UNCHANGED <<statut, approbation, echues, remis, remboursement>>

-----------------------------------------------------------------------------
\* The contested delivery and the decisions on refunds

ContesterLivraison ==
    /\ contestation = "aucune" /\ "livraison" \notin delais
    /\ contestation' = "ouverte"
    /\ UNCHANGED <<statut, lot, frais, approbation, echues, delais, tache, remis, remboursement, nonRecu>>

RejeterContestation ==
    /\ contestation = "ouverte"
    /\ contestation' = "rejetee"
    /\ UNCHANGED <<statut, lot, frais, approbation, echues, delais, tache, remis, remboursement, nonRecu>>

\* The refund is brought down to what is still due, if anything is.
RetenirContestation ==
    /\ contestation = "ouverte"
    /\ contestation' = "fondee"
    /\ nonRecu' = IF ResteDu > 0 THEN [etat |-> "a_traiter", montant |-> ResteDu] ELSE nonRecu
    /\ UNCHANGED <<statut, lot, frais, approbation, echues, delais, tache, remis, remboursement>>

\* traiter_remboursement: the refund of a return cannot be refused.
EffectuerRemboursement(d) ==
    /\ remboursement[d] = "a_traiter"
    /\ remboursement' = [remboursement EXCEPT ![d] = "effectue"]
    /\ UNCHANGED <<statut, lot, frais, approbation, echues, delais, tache, remis, livraison>>

TraiterNonRecu(decision) ==
    /\ nonRecu.etat = "a_traiter"
    /\ nonRecu' = [nonRecu EXCEPT !.etat = decision]
    /\ UNCHANGED <<statut, lot, frais, approbation, echues, delais, tache, remis, remboursement, contestation>>

-----------------------------------------------------------------------------
Init ==
    /\ statut = [d \in Demandes |-> "aucune"]
    /\ lot = [d \in Demandes |-> [a \in Articles |-> 0]]
    /\ frais = [d \in Demandes |-> 0]
    /\ approbation = [d \in Demandes |-> "personne"]
    /\ echues = {} /\ delais = {}
    /\ listes = [p \in Passages |-> {}] /\ figees = listes
    /\ remis = [a \in Articles |-> 0]
    /\ remboursement = [d \in Demandes |-> "aucun"]
    /\ contestation = "aucune"
    /\ nonRecu = [etat |-> "aucun", montant |-> 0]

Next ==
    \/ \E d \in Demandes :
          \/ CreerDemande(d)
          \/ \E regle \in TRANSITIONS : \E source \in regle.acteurs : Traiter(d, regle, source)
          \/ Echoir(d) \/ EffectuerRemboursement(d)
          \/ \E p \in Passages : AppliquerEcheance(p, d) \/ LaisserEcheance(p, d)
    \/ \E p \in Passages : ListerEcheances(p)
    \/ \E delai \in {"retour", "livraison"} : DelaiEcoule(delai)
    \/ ContesterLivraison \/ RejeterContestation \/ RetenirContestation
    \/ \E decision \in {"effectue", "refuse"} : TraiterNonRecu(decision)

Spec == Init /\ [][Next]_vars

\* Time passes, the task is started every 15 minutes and treats its list; a
\* request does not hold a return at every pass.
Equite ==
    /\ \A p \in Passages : WF_vars(ListerEcheances(p))
    /\ \A d \in Demandes :
          /\ WF_vars(Echoir(d))
          /\ \A p \in Passages : WF_vars(LaisserEcheance(p, d)) /\ SF_vars(AppliquerEcheance(p, d))

SpecEquitable == Spec /\ Equite

-----------------------------------------------------------------------------
\* Properties

Statuts ==
    {"aucune", "demande", "approuve", "en_moderation", "en_arbitrage", "en_transit", "receptionne",
     "rembourse", "cloture", "rejete", "annule"} \union STATUTS_REFUS

\* Every column keeps its type; a refund of nothing is never created
\* (creer_remboursement, montant <= 0 and reste <= 0).
TypeOK ==
    /\ statut \in [Demandes -> Statuts]
    /\ lot \in [Demandes -> [Articles -> Nat]] /\ frais \in [Demandes -> {0, FraisLivraison}]
    /\ approbation \in [Demandes -> {"personne", "vendeur", "moderation", "administration"}]
    /\ echues \subseteq Demandes /\ delais \subseteq {"retour", "livraison"}
    /\ listes \in [Passages -> SUBSET Demandes] /\ figees \in [Passages -> SUBSET Demandes]
    /\ remis \in [Articles -> Nat]
    /\ remboursement \in [Demandes -> {"aucun", "a_traiter", "effectue"}]
    /\ contestation \in {"aucune", "ouverte", "rejetee", "fondee"}
    /\ nonRecu.etat \in {"aucun", "a_traiter", "effectue", "refuse"} /\ nonRecu.montant \in 0 .. Total
    /\ nonRecu.etat # "aucun" => nonRecu.montant > 0

\* Whatever is refused, contested, cancelled and asked again, the returns that
\* count never cover, and the parcels that came back never put in stock, more
\* units of a line than were bought (CreerDemandeRetourSerializer.validate,
\* _reintegrer_stock).
ArticleRenduUneFois == \A a \in Articles : Couverts(a) <= Quantite[a] /\ remis[a] <= Quantite[a]

\* The refunds of an order that are not refused, of its returns and of its
\* contested delivery, never exceed what it cost (creer_remboursement).
PlafondRespecte == Accorde <= Total

\* A parcel that came back can be refunded whatever was refunded before it:
\* rounding, delivery fees and the other returns leave its amount under the
\* ceiling, unless the whole delivery was found lost (rembourser_retour).
RecuRemboursable ==
    \A d \in Demandes :
        statut[d] = "receptionne" /\ nonRecu.etat \notin {"a_traiter", "effectue"} => Montant(d) <= ResteDu

\* When a contestation is upheld the client is given back the whole order,
\* whatever returns were refunded before (resoudre_contestation), and returns
\* and contestation together never give back more than was paid (creer_remboursement).
LivraisonNonRecueRendue ==
    /\ contestation = "fondee" /\ nonRecu.etat # "refuse" => Accorde = Total
    /\ PlafondRespecte

\* Returns and contestation draw on one ceiling, in any order: a parcel received
\* is not left unpaid for want of money, and a lost one is given back in full.
ArgentDesRetours == RecuRemboursable /\ LivraisonNonRecueRendue

\* What the client won on appeal stays won: an approval by the moderators or
\* the administration is never followed by a refusal (_controler,
\* APPROBATION_DU_VENDEUR).
RecoursGagne ==
    \A d \in Demandes :
        approbation[d] \in {"moderation", "administration"} =>
            statut[d] \in {"approuve", "en_transit", "receptionne", "rembourse", "cloture", "annule"}

\* A return is rejected for good by the arbitration, or by the task once the
\* delay of the very refusal in force is over, though it may have
\* been listed for an older deadline (appliquer_echeance).
RejetMotive ==
    [][\A d \in Demandes :
           statut[d] # "rejete" /\ statut'[d] = "rejete" =>
               \/ statut[d] = "en_arbitrage"
               \/ statut[d] \in STATUTS_REFUS /\ d \in echues]_vars

\* No return waits for ever for an answer of its seller or in a refusal that
\* nobody contests (appliquer_echeances).
SansBlocage ==
    \A d \in Demandes :
        /\ (statut[d] = "demande") ~> (statut[d] # "demande")
        /\ (statut[d] \in STATUTS_REFUS) ~> (statut[d] \notin STATUTS_REFUS)
=============================================================================
