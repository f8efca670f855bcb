------------------------------- MODULE Acces -------------------------------
(***************************************************************************)
(* How an account is proved and entered: one-time codes (OTP), change of   *)
(* address, forgotten password, sessions.  A code is chosen before its row *)
(* is locked, and what it allows is written after that transaction: a      *)
(* request is three or four steps, and several run at once.                *)
(***************************************************************************)
EXTENDS Naturals, FiniteSets, Sequences

CONSTANTS
  Adresses,      \* the email addresses
  Premiere,      \* the address given at the registration
  EssaisMax,     \* NOMBRE_TENTATIVES_MAX
  Demandes,      \* the requests that may be under way at once
  CodesMax,      \* bound: codes generated
  JetonsMax,     \* bound: refresh tokens issued
  PassesMax      \* bound: passwords the account has in turn

ASSUME AccesOk ==
  /\ Premiere \in Adresses /\ EssaisMax \in Nat \ {0}
  /\ CodesMax \in Nat \ {0} /\ JetonsMax \in Nat /\ PassesMax \in Nat \ {0}

VARIABLES
  usager,      \* Utilisateur: email, email_verifie, password (its version)
  codes,       \* CodeOTP, by date of creation
  courriels,   \* envoyer_code_otp_email: the codes still to be sent
  lus,         \* the codes that reached the inbox of their address
  demandes,    \* the requests under way
  jetons,      \* OutstandingToken and BlacklistedToken
  essayes,     \* history: the comparisons made with each code
  acceptes,    \* history: the times each code was accepted
  prouvees,    \* history: the addresses whose code was typed
  remplace     \* history: a PATCH profil/ wrote the row back over another write

accesVars == <<usager, codes, courriels, lus, demandes, jetons, essayes, acceptes, prouvees, remplace>>

TypeUsageOTP == {"inscription", "mdp_oublie", "changement_email"}
Usager == [adresse: Adresses, verifie: BOOLEAN, passe: 1..PassesMax]
CodeOTP == [type: TypeUsageOTP, valeur: Adresses, pour: Adresses, essais: 0..EssaisMax,
            utilise: BOOLEAN, expire: BOOLEAN]
\* passe is the claim CHECK_REVOKE_TOKEN compares; connu is the password the chain began with.
Jeton == [passe: 1..PassesMax, connu: 1..PassesMax, noir: BOOLEAN]

Libre == [etape |-> "libre"]
Demande ==
  {Libre}
  \cup [etape: {"choisi", "accepte", "revocation"}, code: 1..CodesMax, ligne: CodeOTP]
  \cup [etape: {"connexion"}, passe: 1..PassesMax]
  \cup [etape: {"rotation"}, jeton: 1..JetonsMax]
  \cup [etape: {"profil"}, lu: Usager]

AccesTypes ==
  /\ usager \in Usager
  /\ codes \in Seq(CodeOTP) /\ jetons \in Seq(Jeton)
  /\ courriels \cup lus \subseteq DOMAIN codes
  /\ demandes \in [Demandes -> Demande]
  /\ prouvees \subseteq Adresses

Nouveau(type, valeur, pour) ==
  [type |-> type, valeur |-> valeur, pour |-> pour, essais |-> 0, utilise |-> FALSE, expire |-> FALSE]

\* InscriptionView: the account, its code and the task, in one transaction.
AccesInit ==
  /\ usager = [adresse |-> Premiere, verifie |-> FALSE, passe |-> 1]
  /\ codes = <<Nouveau("inscription", Premiere, Premiere)>>
  /\ courriels = {1}
  /\ lus = {}
  /\ demandes = [d \in Demandes |-> Libre]
  /\ jetons = <<>>
  /\ essayes = [i \in 1..CodesMax |-> 0]
  /\ acceptes = [i \in 1..CodesMax |-> 0]
  /\ prouvees = {}
  /\ remplace = FALSE

histoires == <<essayes, acceptes, prouvees, remplace>>

-----------------------------------------------------------------------------
(* Codes asked for and sent.                                                *)

\* CodeOTP.generer, and the task that sends the code.
Generer(type, valeur, pour) ==
  /\ Len(codes) < CodesMax
  /\ codes' = Append(codes, Nouveau(type, valeur, pour))
  /\ courriels' = courriels \cup {Len(codes) + 1}
  /\ UNCHANGED <<usager, lus, demandes, jetons, histoires>>

RenvoyerCodeInscription ==
  /\ ~usager.verifie
  /\ Generer("inscription", usager.adresse, usager.adresse)

\* The code goes to the address it must prove.
Destinataire(a) == a

DemanderChangementEmail(a) ==
  /\ usager.verifie
  /\ Generer("changement_email", a, Destinataire(a))

DemanderMotDePasseOublie == Generer("mdp_oublie", usager.adresse, usager.adresse)

EnvoyerCode(i) ==
  /\ i \in courriels
  /\ courriels' = courriels \ {i}
  /\ lus' = lus \cup {i}
  /\ UNCHANGED <<usager, codes, demandes, jetons, histoires>>

\* Three tries failed: the code is never sent.
AbandonnerEnvoi(i) ==
  /\ i \in courriels
  /\ courriels' = courriels \ {i}
  /\ UNCHANGED <<usager, codes, lus, demandes, jetons, histoires>>

ExpirerCode(i) ==
  /\ ~codes[i].expire /\ ~codes[i].utilise
  /\ codes' = [codes EXCEPT ![i].expire = TRUE]
  /\ UNCHANGED <<usager, courriels, lus, demandes, jetons, histoires>>

-----------------------------------------------------------------------------
(* A code typed.                                                            *)

EnAttente(type) == {i \in DOMAIN codes : codes[i].type = type /\ ~codes[i].utilise}
DernierCode(type) == CHOOSE i \in EnAttente(type) : \A j \in EnAttente(type) : j <= i

\* The view takes the last unused code of the type, without locking it.
ChoisirCode(d, type) ==
  /\ demandes[d] = Libre
  /\ EnAttente(type) # {}
  /\ demandes' = [demandes EXCEPT ![d] =
       [etape |-> "choisi", code |-> DernierCode(type), ligne |-> codes[DernierCode(type)]]]
  /\ UNCHANGED <<usager, codes, courriels, lus, jetons, histoires>>

\* verifier reads the row again under its lock.
LigneVerrouillee(d) == codes[demandes[d].code]

Verifiable(l) == ~l.utilise /\ ~l.expire /\ l.essais < EssaisMax

\* CodeOTP.verifier: the try is counted before the comparison, and committed with it.
VerifierCode(d, juste) ==
  LET i == demandes[d].code
      l == LigneVerrouillee(d)
      bon == juste /\ i \in lus
  IN /\ demandes[d].etape = "choisi"
     /\ IF Verifiable(l)
        THEN /\ codes' = [codes EXCEPT ![i].essais = l.essais + 1, ![i].utilise = @ \/ bon]
             /\ essayes' = [essayes EXCEPT ![i] = @ + 1]
             /\ acceptes' = [acceptes EXCEPT ![i] = IF bon THEN @ + 1 ELSE @]
             /\ prouvees' = IF bon THEN prouvees \cup {codes[i].pour} ELSE prouvees
        ELSE UNCHANGED <<codes, essayes, acceptes, prouvees>>
     /\ demandes' = [demandes EXCEPT ![d] =
          IF Verifiable(l) /\ bon THEN [@ EXCEPT !.etape = "accepte"] ELSE Libre]
     /\ UNCHANGED <<usager, courriels, lus, jetons, remplace>>

Effet(c) ==
  CASE c.type = "inscription" -> [usager EXCEPT !.verifie = TRUE]
    [] c.type = "changement_email" -> [usager EXCEPT !.verifie = TRUE, !.adresse = c.valeur]
    [] c.type = "mdp_oublie" -> [usager EXCEPT !.passe = @ + 1]

\* The columns the code allows to write, in a transaction of their own.
AppliquerCode(d) ==
  LET c == LigneVerrouillee(d) IN
  /\ demandes[d].etape = "accepte"
  /\ usager.passe < PassesMax \/ c.type # "mdp_oublie"
  /\ usager' = Effet(c)
  /\ demandes' = [demandes EXCEPT ![d] =
       IF c.type = "mdp_oublie" THEN [@ EXCEPT !.etape = "revocation"] ELSE Libre]
  /\ UNCHANGED <<codes, courriels, lus, jetons, histoires>>

\* revoquer_tokens_actifs: every refresh token issued so far.
RevoquerJetons(d) ==
  /\ demandes[d].etape = "revocation"
  /\ jetons' = [j \in DOMAIN jetons |-> [jetons[j] EXCEPT !.noir = TRUE]]
  /\ demandes' = [demandes EXCEPT ![d] = Libre]
  /\ UNCHANGED <<usager, codes, courriels, lus, histoires>>

\* The process stops, or the address was taken meanwhile: the code stays used.
AbandonnerDemande(d) ==
  /\ demandes[d] # Libre
  /\ demandes' = [demandes EXCEPT ![d] = Libre]
  /\ UNCHANGED <<usager, codes, courriels, lus, jetons, histoires>>

-----------------------------------------------------------------------------
(* Sessions.                                                                *)

\* LoginThrottleView: the password is compared, then the tokens are issued.
Connecter(d) ==
  /\ demandes[d] = Libre
  /\ demandes' = [demandes EXCEPT ![d] = [etape |-> "connexion", passe |-> usager.passe]]
  /\ UNCHANGED <<usager, codes, courriels, lus, jetons, histoires>>

Emettre(d, passe, connu) ==
  /\ Len(jetons) < JetonsMax
  /\ jetons' = Append(jetons, [passe |-> passe, connu |-> connu, noir |-> FALSE])
  /\ demandes' = [demandes EXCEPT ![d] = Libre]
  /\ UNCHANGED <<usager, codes, courriels, lus, histoires>>

OuvrirSession(d) ==
  /\ demandes[d].etape = "connexion"
  /\ Emettre(d, demandes[d].passe, demandes[d].passe)

AccepteSansRevocation(j) == ~j.noir
\* simplejwt: not in the black list, and CHECK_REVOKE_TOKEN.
Accepte(j) == ~j.noir /\ j.passe = usager.passe

\* RafraichissementView: the token is checked, then blacklisted and replaced.
Rafraichir(d, n) ==
  /\ demandes[d] = Libre
  /\ Accepte(jetons[n])
  /\ demandes' = [demandes EXCEPT ![d] = [etape |-> "rotation", jeton |-> n]]
  /\ UNCHANGED <<usager, codes, courriels, lus, jetons, histoires>>

\* The new token is the old one with a new identifier: its claims are kept.
Revendication(j) == j.passe

Tourner(d) ==
  LET n == demandes[d].jeton IN
  /\ demandes[d].etape = "rotation"
  /\ Len(jetons) < JetonsMax
  /\ jetons' = Append([jetons EXCEPT ![n].noir = TRUE],
       [passe |-> Revendication(jetons[n]), connu |-> jetons[n].connu, noir |-> FALSE])
  /\ demandes' = [demandes EXCEPT ![d] = Libre]
  /\ UNCHANGED <<usager, codes, courriels, lus, histoires>>

\* LogoutView blacklists the token; holding it is enough.
Deconnecter(n) ==
  /\ ~jetons[n].noir
  /\ jetons' = [jetons EXCEPT ![n].noir = TRUE]
  /\ UNCHANGED <<usager, codes, courriels, lus, demandes, histoires>>

-----------------------------------------------------------------------------
(* PATCH profil/ saves the whole row, as the authentication read it.        *)

LireUsager(d) ==
  /\ demandes[d] = Libre
  /\ demandes' = [demandes EXCEPT ![d] = [etape |-> "profil", lu |-> usager]]
  /\ UNCHANGED <<usager, codes, courriels, lus, jetons, histoires>>

EnregistrerUsager(d) ==
  /\ demandes[d].etape = "profil"
  /\ remplace' = (remplace \/ demandes[d].lu # usager)
  /\ usager' = demandes[d].lu
  /\ demandes' = [demandes EXCEPT ![d] = Libre]
  /\ UNCHANGED <<codes, courriels, lus, jetons, essayes, acceptes, prouvees>>

AccesNext ==
  \/ RenvoyerCodeInscription
  \/ \E a \in Adresses : DemanderChangementEmail(a)
  \/ DemanderMotDePasseOublie
  \/ \E i \in DOMAIN codes : EnvoyerCode(i) \/ AbandonnerEnvoi(i) \/ ExpirerCode(i)
  \/ \E n \in DOMAIN jetons : Deconnecter(n)
  \/ \E d \in Demandes :
       \/ \E type \in TypeUsageOTP : ChoisirCode(d, type)
       \/ \E juste \in BOOLEAN : VerifierCode(d, juste)
       \/ AppliquerCode(d)
       \/ RevoquerJetons(d)
       \/ AbandonnerDemande(d)
       \/ Connecter(d)
       \/ OuvrirSession(d)
       \/ \E n \in DOMAIN jetons : Rafraichir(d, n)
       \/ Tourner(d)
       \/ LireUsager(d)
       \/ EnregistrerUsager(d)

AccesSpec == AccesInit /\ [][AccesNext]_accesVars

-----------------------------------------------------------------------------
(* An address is only marked verified once a code that reached it was typed;
   whatever requests run at once, a code is compared EssaisMax times at most
   and accepted once (apps/utilisateurs/models.py:332-339). *)
AdresseProuvee ==
  /\ usager.verifie => usager.adresse \in prouvees
  /\ \A i \in DOMAIN codes : essayes[i] <= EssaisMax /\ acceptes[i] <= 1

(* A session opened with an old password no longer gives a token, however its
   rotations race the reset (config/settings/base.py:374).  A reset whose
   password PATCH profil/ wrote back stale is the exception. *)
SessionsFermees ==
  \A n \in DOMAIN jetons : Accepte(jetons[n]) /\ ~remplace => jetons[n].connu = usager.passe

(* An account is only entered by who was given its code or its password
   (apps/utilisateurs/models.py, apps/utilisateurs/services.py). *)
AccesTenu == AdresseProuvee /\ SessionsFermees
=============================================================================
