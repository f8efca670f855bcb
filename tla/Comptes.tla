------------------------------ MODULE Comptes ------------------------------
(***************************************************************************)
(* The accounts: role, verification of identity (KYC), shop.  A role is    *)
(* given by the administration (seller by a decision on the KYC file,      *)
(* courier by a nomination), each under the lock of the account's row.     *)
(* PATCH profil/ is the one writer without it: it reads the row when the   *)
(* request is authenticated and writes all of its columns back.            *)
(***************************************************************************)
EXTENDS Naturals, FiniteSets

CONSTANTS
  Comptes,      \* the accounts, the administration left out
  Vendeurs,     \* those that are sellers with a shop at the start
  DepotsMax     \* bound: files an account uploads

ASSUME ComptesOk == Vendeurs \subseteq Comptes /\ DepotsMax \in Nat \ {0}

VARIABLES
  compte,    \* Utilisateur: role, statut_kyc, is_active, email_verifie
  dossier,   \* DocumentKYC: the version of the files its row names, 0 without a row
  fichiers,  \* the versions the storage holds
  menage,    \* the deletions registered with on_commit and not run yet
  commercants,  \* accounts that have a Boutique row
  profil,    \* the row a PATCH profil/ in flight read, or LigneLibre
  ecrase     \* history: accounts whose row such a PATCH wrote back stale

comptesVars == <<compte, dossier, fichiers, menage, commercants, profil, ecrase>>

Roles == {"client", "vendeur", "livreur"}
StatutsKYC == {"non_soumis", "en_attente", "valide", "refuse"}
Ligne == [role: Roles, kyc: StatutsKYC, actif: BOOLEAN, verifie: BOOLEAN]
LigneLibre == [role |-> "aucun"]

ComptesTypes ==
  /\ compte \in [Comptes -> Ligne]
  /\ dossier \in [Comptes -> 0..DepotsMax]
  /\ fichiers \in [Comptes -> SUBSET (1..DepotsMax)]
  /\ menage \in [Comptes -> SUBSET (1..DepotsMax)]
  /\ commercants \subseteq Comptes
  /\ profil \in [Comptes -> Ligne \cup {LigneLibre}]
  /\ ecrase \subseteq Comptes

Inscrit == [role |-> "client", kyc |-> "non_soumis", actif |-> TRUE, verifie |-> FALSE]
Vendeur == [role |-> "vendeur", kyc |-> "valide", actif |-> TRUE, verifie |-> TRUE]

ComptesInit ==
  /\ compte = [c \in Comptes |-> IF c \in Vendeurs THEN Vendeur ELSE Inscrit]
  /\ dossier = [c \in Comptes |-> IF c \in Vendeurs THEN 1 ELSE 0]
  /\ fichiers = [c \in Comptes |-> IF c \in Vendeurs THEN {1} ELSE {}]
  /\ menage = [c \in Comptes |-> {}]
  /\ commercants = Vendeurs
  /\ profil = [c \in Comptes |-> LigneLibre]
  /\ ecrase = {}

horsCompte == <<dossier, fichiers, menage, commercants, profil, ecrase>>

\* The code sent to the address was typed back: VerificationOTPView on an inscription.
ConfirmerInscription(c) ==
  /\ compte[c].actif /\ ~compte[c].verifie
  /\ compte' = [compte EXCEPT ![c].verifie = TRUE]
  /\ UNCHANGED horsCompte

-----------------------------------------------------------------------------
(* The KYC file: the upload is the request.                                 *)

\* soumettre_demande_vendeur
DemandePossible(l) == l.kyc \notin {"en_attente", "valide"}

DepotAccepteEncore(c) == DemandePossible(compte[c]) \/ compte[c].kyc = "valide"
\* With no file one is created; an existing one is only replaced after a refusal.
DepotAccepte(c) ==
  IF dossier[c] = 0 THEN DemandePossible(compte[c]) ELSE compte[c].kyc = "refuse"

PeutDeposer(c) == compte[c].actif /\ compte[c].verifie

\* The upload is atomic under the lock of the account.  Its files reach the
\* storage before the transaction ends, under a fresh name: a rollback leaves
\* them there and the row as it was.  Those they replace are deleted after the commit.

RemplacerFichiers(c, neuf, validee) ==
  /\ fichiers' = [fichiers EXCEPT ![c] = @ \cup {neuf}]
  /\ IF validee
     THEN /\ dossier' = [dossier EXCEPT ![c] = neuf]
          /\ compte' = [compte EXCEPT ![c].kyc = "en_attente"]
          /\ menage' = [menage EXCEPT ![c] = @ \cup ({dossier[c]} \ {0})]
     ELSE UNCHANGED <<dossier, compte, menage>>

DeposerDossier(c, validee) ==
  /\ PeutDeposer(c)
  /\ DepotAccepte(c)
  /\ \E neuf \in (1..DepotsMax) \ (fichiers[c] \cup menage[c] \cup {dossier[c]}) :
       RemplacerFichiers(c, neuf, validee)
  /\ UNCHANGED <<commercants, profil, ecrase>>

SupprimerAnciensFichiers(c) ==
  /\ menage[c] # {}
  /\ fichiers' = [fichiers EXCEPT ![c] = @ \ menage[c]]
  /\ menage' = [menage EXCEPT ![c] = {}]
  /\ UNCHANGED <<compte, dossier, commercants, profil, ecrase>>

\* The process stops between the commit and the deletion: the files stay, orphaned.
PerdreMenage(c) ==
  /\ menage[c] # {}
  /\ menage' = [menage EXCEPT ![c] = {}]
  /\ UNCHANGED <<compte, dossier, fichiers, commercants, profil, ecrase>>

\* TelechargerDocumentKYCView: the right is checked before the file is looked for.
Telechargement(titulaire, administre, c) ==
  IF ~titulaire /\ ~administre THEN "interdit"
  ELSE IF dossier[c] # 0 /\ dossier[c] \in fichiers[c] THEN "fichier" ELSE "introuvable"

-----------------------------------------------------------------------------
(* The decision on the request, and the shop it opens.                      *)

ROLES_ELIGIBLES_VENDEUR == {"client", "vendeur"}

DemandeEnAttente(c) == compte[c].kyc = "en_attente"

ValiderDemandeVendeur(c) ==
  /\ DemandeEnAttente(c)
  /\ compte[c].role \in ROLES_ELIGIBLES_VENDEUR
  /\ compte' = [compte EXCEPT ![c].kyc = "valide", ![c].role = "vendeur"]
  /\ UNCHANGED horsCompte

RefuserDemandeVendeur(c) ==
  /\ DemandeEnAttente(c)
  /\ compte' = [compte EXCEPT ![c].kyc = "refuse"]
  /\ UNCHANGED horsCompte

VendeurValide(l) == l.role = "vendeur" /\ l.kyc = "valide"

\* clean() runs again at the creation.
CreerBoutique(c) ==
  /\ compte[c].actif
  /\ VendeurValide(compte[c])
  /\ c \notin commercants
  /\ commercants' = commercants \cup {c}
  /\ UNCHANGED <<compte, dossier, fichiers, menage, profil, ecrase>>

-----------------------------------------------------------------------------
(* The role of courier, and the activation of an account (Django admin).    *)

LieAUneVente(c) ==
  \/ compte[c].role = "vendeur"
  \/ compte[c].kyc \in {"en_attente", "valide"}
  \/ c \in commercants

Nommable(c) == compte[c].role = "client" /\ ~LieAUneVente(c) /\ compte[c].actif

NommerLivreur(c) ==
  /\ Nommable(c)
  /\ compte' = [compte EXCEPT ![c].role = "livreur"]
  /\ UNCHANGED horsCompte

RetirerLivreur(c) ==
  /\ compte[c].role = "livreur"
  /\ compte' = [compte EXCEPT ![c].role = "client"]
  /\ UNCHANGED horsCompte

Activer(c, oui) ==
  /\ compte[c].actif # oui
  /\ compte' = [compte EXCEPT ![c].actif = oui]
  /\ UNCHANGED horsCompte

-----------------------------------------------------------------------------
(* PATCH profil/: request.user is read by the authentication, and the      *)
(* serializer saves the whole row, with the columns it did not change.     *)

LireProfil(c) ==
  /\ compte[c].actif
  /\ profil[c] = LigneLibre
  /\ profil' = [profil EXCEPT ![c] = compte[c]]
  /\ UNCHANGED <<compte, dossier, fichiers, menage, commercants, ecrase>>

EnregistrerProfil(c) ==
  /\ profil[c] # LigneLibre
  /\ compte' = [compte EXCEPT ![c] = profil[c]]
  /\ profil' = [profil EXCEPT ![c] = LigneLibre]
  /\ ecrase' = IF profil[c] # compte[c] THEN ecrase \cup {c} ELSE ecrase
  /\ UNCHANGED <<dossier, fichiers, menage, commercants>>

ComptesNext ==
  \E c \in Comptes :
    \/ ConfirmerInscription(c)
    \/ \E validee \in BOOLEAN : DeposerDossier(c, validee)
    \/ SupprimerAnciensFichiers(c)
    \/ PerdreMenage(c)
    \/ ValiderDemandeVendeur(c)
    \/ RefuserDemandeVendeur(c)
    \/ CreerBoutique(c)
    \/ NommerLivreur(c)
    \/ RetirerLivreur(c)
    \/ \E oui \in BOOLEAN : Activer(c, oui)
    \/ LireProfil(c)
    \/ EnregistrerProfil(c)

ComptesSpec == ComptesInit /\ [][ComptesNext]_comptesVars

-----------------------------------------------------------------------------
(* Role and verification agree, whatever the order of the nominations, the
   requests and the decisions: only a validated account is a seller, a
   validated account is nothing else, a shop has a seller
   (apps/vendeurs/services.py:12).  The accounts whose row PATCH profil/ wrote
   back stale are the exception. *)
RolesAccordes ==
  \A c \in Comptes \ ecrase :
    /\ compte[c].role = "vendeur" <=> compte[c].kyc = "valide"
    /\ c \in commercants => compte[c].role = "vendeur"
    /\ compte[c].kyc # "non_soumis" <=> dossier[c] # 0

(* A KYC file that a row names is in the storage: neither a rolled back upload
   nor the deletion of the files it replaces loses it. *)
PieceLisible == \A c \in Comptes : dossier[c] # 0 => Telechargement(TRUE, FALSE, c) = "fichier"

(* What the administration decides on an account stays consistent with its file
   and its shop: RolesAccordes and PieceLisible, through concurrent uploads,
   decisions, nominations and crashes (apps/utilisateurs, apps/vendeurs). *)
ComptesTenus == RolesAccordes /\ PieceLisible
=============================================================================
