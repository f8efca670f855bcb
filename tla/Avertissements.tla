--------------------------- MODULE Avertissements ---------------------------
(***************************************************************************)
(* Who is told of what (apps/notifications and retours/signals.py).  The   *)
(* notifications of an order are rows of the transaction that changes it,  *)
(* and their e-mails leave after its commit; those of a return are written *)
(* after the commit of its step, by a signal that may fail or be lost.     *)
(***************************************************************************)
EXTENDS Naturals, FiniteSets

Table == INSTANCE TableRetours

CONSTANT ReprisesMax    \* max_retries of the e-mail task

VARIABLES
    avancement,         \* the order and its delivery: what has been committed
    encaissee,      \* a payment of the order is collected
    ecritureAvis,       \* the transaction on the order under way, none: SansEcriture
    traversees,     \* history: the statuses the order went through
    boite,          \* Notification rows of the order: [a, statut]
    courrielsAvis,      \* tasks envoyer_email_notification: [avis, essai]
    emailActif,     \* PreferenceNotification.email_actif of the client
    retour,        \* the return of the order
    signaux_retour, \* signals of the return still to be treated
    informes,       \* who was told of its present step
    tus             \* history: a notification of its present step was lost

ordreVars == <<avancement, encaissee, ecritureAvis, traversees, boite, courrielsAvis, emailActif>>
dossierVars == <<retour, signaux_retour, informes, tus>>
avertissementsVars == <<ordreVars, dossierVars>>

Courses == {"creee", "confirmee", "expediee", "en_cours", "echouee", "livree", "annulee"}
Notifications == [a : {"client", "vendeur"}, statut : Courses]
SansEcriture == [vers |-> "aucun", avis |-> {}, emails |-> {}]

PasDeDossier == [etape |-> "aucune", depuis |-> "aucune", auteur |-> "aucun", accord |-> "aucun",
                 pas |-> 0, echue |-> FALSE, relances |-> 0]

AvertissementsInit ==
  /\ avancement = "creee" /\ encaissee = FALSE /\ ecritureAvis = SansEcriture /\ traversees = {}
  /\ boite = {} /\ courrielsAvis = {} /\ emailActif = TRUE
  /\ retour = PasDeDossier /\ signaux_retour = {} /\ informes = {} /\ tus = FALSE

-----------------------------------------------------------------------------
\* The order

EtapesCommande == {<<"creee", "confirmee">>, <<"creee", "annulee">>, <<"confirmee", "annulee">>,
           <<"confirmee", "expediee">>, <<"expediee", "en_cours">>, <<"expediee", "echouee">>,
           <<"en_cours", "livree">>, <<"en_cours", "echouee">>, <<"echouee", "en_cours">>,
           <<"echouee", "annulee">>}

\* notifier_apres_paiement: the client, and the shop of an order it confirmed.
AvisDePaiement == {"client", "vendeur"}

\* notifier_annulation_commande: the shop only prepares what was paid.
AvisDAnnulation(payee) == {"client"} \cup (IF payee THEN {"vendeur"} ELSE {})

\* notifier_changement_statut_livraison
AvisDeLivraison == {"client"}

Prevenus(vers, payee) ==
  CASE vers = "confirmee" -> AvisDePaiement
    [] vers = "annulee" -> AvisDAnnulation(payee)
    [] OTHER -> AvisDeLivraison

\* email_souhaite, read when the notification is created
Souhaitent == {"vendeur"} \cup (IF emailActif THEN {"client"} ELSE {})

\* notifier_utilisateur, in the transaction that locks the order
EcrireAvis(vers) ==
  /\ ecritureAvis = SansEcriture /\ <<avancement, vers>> \in EtapesCommande
  /\ LET parties == Prevenus(vers, encaissee) IN
     ecritureAvis' = [vers |-> vers, avis |-> {[a |-> q, statut |-> vers] : q \in parties},
                  emails |-> {[a |-> q, statut |-> vers] : q \in parties \cap Souhaitent}]
  /\ UNCHANGED <<avancement, encaissee, traversees, boite, courrielsAvis, emailActif, dossierVars>>

Publier(emails) ==
  /\ avancement' = ecritureAvis.vers
  /\ encaissee' = (encaissee \/ ecritureAvis.vers = "confirmee")
  /\ traversees' = traversees \cup {ecritureAvis.vers}
  /\ boite' = boite \cup ecritureAvis.avis
  /\ courrielsAvis' = courrielsAvis \cup {[avis |-> n, essai |-> 0] : n \in emails}
  /\ ecritureAvis' = SansEcriture

CommettreAvis ==
  /\ ecritureAvis # SansEcriture
  /\ Publier(ecritureAvis.emails)
  /\ UNCHANGED <<emailActif, dossierVars>>

\* The server stops after the commit and before the callbacks of on_commit.
CommettreSansCourriel ==
  /\ ecritureAvis # SansEcriture
  /\ Publier({})
  /\ UNCHANGED <<emailActif, dossierVars>>

AbandonnerEcriture ==
  /\ ecritureAvis # SansEcriture
  /\ ecritureAvis' = SansEcriture
  /\ UNCHANGED <<avancement, encaissee, traversees, boite, courrielsAvis, emailActif, dossierVars>>

ChangerPreference ==
  /\ emailActif' = ~emailActif
  /\ UNCHANGED <<avancement, encaissee, ecritureAvis, traversees, boite, courrielsAvis, dossierVars>>

\* envoyer_email_notification reads the row again and sends it.
EnvoyerCourriel(c) ==
  /\ c \in courrielsAvis
  /\ courrielsAvis' = courrielsAvis \ {c}
  /\ UNCHANGED <<avancement, encaissee, ecritureAvis, traversees, boite, emailActif, dossierVars>>

\* autoretry_for: SMTPException, OSError
EchouerCourriel(c) ==
  /\ c \in courrielsAvis
  /\ courrielsAvis' = (courrielsAvis \ {c}) \cup
       (IF c.essai < ReprisesMax THEN {[c EXCEPT !.essai = @ + 1]} ELSE {})
  /\ UNCHANGED <<avancement, encaissee, ecritureAvis, traversees, boite, emailActif, dossierVars>>

-----------------------------------------------------------------------------
\* The return: the steps of its table

\* The parties told by each signal (_prevenir): the first case that fits.
DestinatairesSansInstance(s) ==
  CASE s.auteur = "client" /\ s.action = "annuler" -> {"vendeur"}
    [] s.auteur = "client" /\ s.action = "en_transit" -> {"vendeur"}
    [] s.action \in {"creer", "contester", "escalader", "clore_refus"} -> {"client", "vendeur"}
    [] s.vers = "refuse_vendeur" -> {"client"}
    [] s.vers = "refuse_moderation" -> {"client", "vendeur"}
    [] s.action \in {"approuver", "rejeter"} /\ s.auteur \in {"moderation", "administration"} ->
         {"client", "vendeur"}
    [] OTHER -> {"client"}

\* _notifier_groupe: the instance a return comes to, or leaves, is told too.
Instance(etape) ==
  CASE etape = "en_moderation" -> {"moderation"}
    [] etape = "en_arbitrage" -> {"administration"}
    [] OTHER -> {}

Destinataires(s) ==
  DestinatairesSansInstance(s) \cup
    (IF s.auteur = "client" /\ s.action = "annuler" THEN Instance(s.depuis) ELSE {}) \cup
    (IF s.action \in {"contester", "escalader"} THEN Instance(s.vers) ELSE {})

Franchir(action, vers, auteur) ==
  /\ retour' = [retour EXCEPT !.depuis = retour.etape, !.etape = vers, !.auteur = auteur, !.pas = @ + 1,
                                !.echue = FALSE, !.relances = 0,
                                !.accord = IF vers = "approuve" THEN auteur ELSE @]
  /\ signaux_retour' = signaux_retour \cup
       {[action |-> action, depuis |-> retour.etape, vers |-> vers, auteur |-> auteur, pas |-> retour.pas + 1]}
  /\ informes' = {} /\ tus' = FALSE

\* creer_demande and, after its commit, notifier_nouvelle_demande
DemanderRetour ==
  /\ avancement = "livree" /\ retour.etape = "aucune"
  /\ Franchir("creer", "demande", "client")
  /\ UNCHANGED ordreVars

Permis(regle) ==
  /\ retour.etape \in regle.depuis
  /\ regle.controle \in {"echeance_vendeur", "contestation"} => ~retour.echue
  /\ regle.controle \in {"echeance_vendeur_passee", "contestation_passee"} => retour.echue
  /\ regle.controle = "approbation_du_vendeur" => retour.accord = "vendeur"

\* traiter by a party, appliquer_echeance by the task ("systeme")
FranchirEtape(regle, auteur) ==
  /\ Permis(regle) /\ auteur \in regle.acteurs
  /\ Franchir(regle.action, regle.vers, auteur)
  /\ UNCHANGED ordreVars

\* traiter, when rembourser_retour refuses: the step is undone and the
\* administration told (notifier_remboursement_impossible).
RefuserRemboursement ==
  /\ retour.etape = "receptionne" /\ "administration" \notin informes
  /\ informes' = informes \cup {"administration"}
  /\ UNCHANGED <<retour, signaux_retour, tus, ordreVars>>

EchoirDossier ==
  /\ retour.etape \in {"demande"} \cup Table!STATUTS_REFUS /\ ~retour.echue
  /\ retour' = [retour EXCEPT !.echue = TRUE]
  /\ UNCHANGED <<signaux_retour, informes, tus, ordreVars>>

\* relancer: once per status (date_relance, read under the lock)
RelanceDue ==
  /\ retour.relances = 0
  /\ \/ retour.etape = "demande" /\ ~retour.echue
     \/ retour.etape \in {"en_moderation", "en_arbitrage"}

RelancerDossier ==
  /\ RelanceDue
  /\ retour' = [retour EXCEPT !.relances = @ + 1]
  /\ informes' = informes \cup (IF retour.etape = "demande" THEN {"vendeur"} ELSE {"administration"})
  /\ UNCHANGED <<signaux_retour, tus, ordreVars>>

\* The receivers run after the commit, in no order between two requests; a
\* notification that fails is only journalled (_notifier).
TraiterSignal(s, joints) ==
  /\ s \in signaux_retour /\ joints \subseteq Destinataires(s)
  /\ signaux_retour' = signaux_retour \ {s}
  /\ informes' = IF s.pas = retour.pas THEN informes \cup joints ELSE informes
  /\ tus' = (tus \/ (s.pas = retour.pas /\ joints # Destinataires(s)))
  /\ UNCHANGED <<retour, ordreVars>>

AvertissementsNext ==
  \/ \E vers \in Courses : EcrireAvis(vers)
  \/ CommettreAvis \/ CommettreSansCourriel \/ AbandonnerEcriture \/ ChangerPreference
  \/ \E c \in courrielsAvis : EnvoyerCourriel(c) \/ EchouerCourriel(c)
  \/ DemanderRetour \/ RefuserRemboursement \/ EchoirDossier \/ RelancerDossier
  \/ \E regle \in Table!TRANSITIONS : \E auteur \in regle.acteurs : FranchirEtape(regle, auteur)
  \/ \E s \in signaux_retour : \E joints \in SUBSET Destinataires(s) : TraiterSignal(s, joints)

AvertissementsSpec == AvertissementsInit /\ [][AvertissementsNext]_avertissementsVars

-----------------------------------------------------------------------------
PartiesPrevenues == {"client", "vendeur", "moderation", "administration"}

AvertissementsTypes ==
  /\ avancement \in Courses /\ encaissee \in BOOLEAN /\ emailActif \in BOOLEAN /\ tus \in BOOLEAN
  /\ traversees \subseteq Courses /\ boite \subseteq Notifications
  /\ ecritureAvis.avis \subseteq Notifications /\ ecritureAvis.emails \subseteq ecritureAvis.avis
  /\ courrielsAvis \subseteq [avis : Notifications, essai : 0..ReprisesMax]
  /\ informes \subseteq PartiesPrevenues /\ retour.pas \in Nat

\* What the client and the shop were told of an order is what was recorded,
\* "jamais plus" (docs/MODULE_NOTIFICATIONS.md), and all of it: a rolled
\* back transaction leaves neither row nor e-mail.
AvisDeCeQuiFut ==
  /\ boite = {n \in Notifications : n.statut \in traversees /\ n.a \in Prevenus(n.statut, encaissee)}
  /\ \A c \in courrielsAvis : c.avis \in boite

\* Once the signal of its last step was treated and nothing lost, a return
\* never waits for someone who does not know: one of those who can take it
\* further, other than by withdrawing it, took the last step or was told of
\* it; its client always knows, and so do an instance whose file is withdrawn
\* and a seller for whom the administration did not act.
AttenduPrevenu ==
  LET avertis == informes \cup {retour.auteur}
      suites == {regle \in Table!TRANSITIONS : retour.etape \in regle.depuis /\ regle.action # "annuler"}
  IN
  (retour.etape # "aucune" /\ ~tus /\ \A s \in signaux_retour : s.pas # retour.pas) =>
    /\ suites # {} => \E regle \in suites : regle.acteurs \cap avertis # {}
    /\ "client" \in avertis
    /\ retour.auteur # "administration" => "vendeur" \in avertis
    /\ retour.etape = "annule" => Instance(retour.depuis) \subseteq avertis

\* Everyone is told of what he is concerned by and of nothing that did not
\* happen (apps/notifications/services.py, apps/retours/signals.py).
ChacunPrevenu == AvisDeCeQuiFut /\ AttenduPrevenu
=============================================================================
