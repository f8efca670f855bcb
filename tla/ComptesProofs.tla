--------------------------- MODULE ComptesProofs ----------------------------
(***************************************************************************)
(* What the accounts and the services that their holders use promise, for  *)
(* any number of accounts, parcels, couriers and requests in flight.       *)
(***************************************************************************)
EXTENDS Avertissements, Carnet, Suivi, Support, Livraison, Acces, Onglets, Sommes

\* Accounts: role, verification, KYC file and shop agree, and a file that a row
\* names stays readable through uploads, deletions, rollbacks and crashes.

Versions == 1..DepotsMax

TypesComptes ==
  /\ compte \in [Comptes -> Ligne]
  /\ dossier \in [Comptes -> 0..DepotsMax]
  /\ fichiers \in [Comptes -> SUBSET Versions]
  /\ menage \in [Comptes -> SUBSET Versions]
  /\ profil \in [Comptes -> Ligne \cup {LigneLibre}]

Accordee(c) ==
  c \notin ecrase =>
    /\ compte[c].role = "vendeur" <=> compte[c].kyc = "valide"
    /\ c \in commercants => compte[c].role = "vendeur"
    /\ compte[c].kyc # "non_soumis" <=> dossier[c] # 0

\* The file in force is in the storage, and no deletion to come concerns it.
Presente(c) == dossier[c] # 0 => dossier[c] \in fichiers[c] /\ dossier[c] \notin menage[c]

ComptesInv == TypesComptes /\ \A c \in Comptes : Accordee(c) /\ Presente(c)

\* The variables of one account after a step that moves no other.
Seul(c) ==
  \A k \in Comptes \ {c} :
    /\ compte'[k] = compte[k] /\ dossier'[k] = dossier[k]
    /\ fichiers'[k] = fichiers[k] /\ menage'[k] = menage[k]
    /\ k \in commercants' <=> k \in commercants
    /\ k \in ecrase' <=> k \in ecrase

-----------------------------------------------------------------------------
\* A step that concerns one account only has to be looked at there.
LEMMA UnSeul ==
  ASSUME ComptesInv, NEW c \in Comptes, Seul(c), TypesComptes', Accordee(c)', Presente(c)'
  PROVE  ComptesInv'
<1>1. ASSUME NEW k \in Comptes, k # c PROVE Accordee(k)' /\ Presente(k)'
  BY <1>1 DEF ComptesInv, Seul, Accordee, Presente
<1> QED
  BY <1>1 DEF ComptesInv

\* A decision writes two columns at once.
LEMMA DeuxColonnes ==
  ASSUME TypesComptes, NEW c \in Comptes, NEW role \in Roles, NEW kyc \in StatutsKYC,
         compte' = [compte EXCEPT ![c].kyc = kyc, ![c].role = role]
  PROVE  /\ compte' \in [Comptes -> Ligne]
         /\ \A k \in Comptes \ {c} : compte'[k] = compte[k]
         /\ compte'[c].role = role /\ compte'[c].kyc = kyc
<1>1. PICK m : m = [compte EXCEPT ![c].kyc = kyc]
  OBVIOUS
<1>2. compte' = [m EXCEPT ![c].role = role]
  BY <1>1
<1>3. m \in [Comptes -> Ligne]
  BY <1>1 DEF TypesComptes, Ligne
<1>4. m[c].kyc = kyc /\ \A k \in Comptes \ {c} : m[k] = compte[k]
  BY <1>1 DEF TypesComptes, Ligne
<1>5. compte' \in [Comptes -> Ligne]
  BY ZenonT(40), <1>2, <1>3 DEF Ligne
<1>6. compte'[c].role = role /\ compte'[c].kyc = kyc
  BY <1>2, <1>3, <1>4 DEF Ligne
<1>7. \A k \in Comptes \ {c} : compte'[k] = compte[k]
  BY <1>2, <1>3, <1>4
<1> QED
  BY <1>5, <1>6, <1>7

\* How the columns of a row move; the row stays one of the table.
LEMMA Colonnes ==
  ASSUME TypesComptes, NEW c \in Comptes, NEW role \in Roles, NEW kyc \in StatutsKYC, NEW b \in BOOLEAN,
         \/ compte' = [compte EXCEPT ![c].kyc = kyc, ![c].role = role]
         \/ compte' = [compte EXCEPT ![c].kyc = kyc] /\ role = compte[c].role
         \/ compte' = [compte EXCEPT ![c].role = role] /\ kyc = compte[c].kyc
         \/ /\ compte' = [compte EXCEPT ![c].actif = b] \/ compte' = [compte EXCEPT ![c].verifie = b]
            /\ role = compte[c].role /\ kyc = compte[c].kyc
  PROVE  /\ compte' \in [Comptes -> Ligne]
         /\ \A k \in Comptes \ {c} : compte'[k] = compte[k]
         /\ compte'[c].role = role /\ compte'[c].kyc = kyc
<1>1. CASE compte' = [compte EXCEPT ![c].kyc = kyc, ![c].role = role]
  BY <1>1, DeuxColonnes
<1>2. CASE compte' = [compte EXCEPT ![c].kyc = kyc] /\ role = compte[c].role
  BY <1>2 DEF TypesComptes, Ligne
<1>3. CASE compte' = [compte EXCEPT ![c].role = role] /\ kyc = compte[c].kyc
  BY <1>3 DEF TypesComptes, Ligne
<1>4. CASE compte' = [compte EXCEPT ![c].actif = b] /\ role = compte[c].role /\ kyc = compte[c].kyc
  BY <1>4 DEF TypesComptes, Ligne
<1>5. CASE compte' = [compte EXCEPT ![c].verifie = b] /\ role = compte[c].role /\ kyc = compte[c].kyc
  BY <1>5 DEF TypesComptes, Ligne
<1> QED
  BY <1>1, <1>2, <1>3, <1>4, <1>5

\* The decisions, nominations and confirmations move the row of the account only.
LEMMA LigneSeule ==
  ASSUME ComptesInv, NEW c \in Comptes, UNCHANGED horsCompte,
         compte' \in [Comptes -> Ligne], \A k \in Comptes \ {c} : compte'[k] = compte[k],
         c \notin ecrase =>
           /\ compte'[c].role = "vendeur" <=> compte'[c].kyc = "valide"
           /\ c \in commercants => compte'[c].role = "vendeur"
           /\ compte'[c].kyc # "non_soumis" <=> dossier[c] # 0
  PROVE  ComptesInv'
<1>1. TypesComptes' /\ Seul(c)
  BY DEF ComptesInv, TypesComptes, Seul, horsCompte
<1>2. Accordee(c)' /\ Presente(c)'
  BY DEF ComptesInv, Accordee, Presente, horsCompte
<1> QED
  BY <1>1, <1>2, UnSeul

\* What a role or a verification may become.
LEMMA LigneConserve ==
  ASSUME ComptesInv, NEW c \in Comptes,
         \/ ConfirmerInscription(c) \/ ValiderDemandeVendeur(c) \/ RefuserDemandeVendeur(c)
         \/ NommerLivreur(c) \/ RetirerLivreur(c) \/ \E oui \in BOOLEAN : Activer(c, oui)
  PROVE  ComptesInv'
<1>1. /\ compte[c].role \in Roles /\ compte[c].kyc \in StatutsKYC /\ UNCHANGED horsCompte /\ TypesComptes
      /\ {"client", "vendeur", "livreur"} \subseteq Roles /\ {"valide", "refuse"} \subseteq StatutsKYC
  BY DEF ComptesInv, TypesComptes, Ligne, Roles, StatutsKYC, ConfirmerInscription, ValiderDemandeVendeur,
         RefuserDemandeVendeur, NommerLivreur, RetirerLivreur, Activer
<1>2. c \notin ecrase =>
        /\ compte[c].role = "vendeur" <=> compte[c].kyc = "valide"
        /\ c \in commercants => compte[c].role = "vendeur"
        /\ compte[c].kyc # "non_soumis" <=> dossier[c] # 0
  BY DEF ComptesInv, Accordee
<1>3. CASE ConfirmerInscription(c) \/ \E oui \in BOOLEAN : Activer(c, oui)
  <2>1. PICK b \in BOOLEAN : compte' = [compte EXCEPT ![c].actif = b] \/ compte' = [compte EXCEPT ![c].verifie = b]
    BY <1>3 DEF ConfirmerInscription, Activer
  <2>2. PICK role \in Roles, kyc \in StatutsKYC : role = compte[c].role /\ kyc = compte[c].kyc
    BY <1>1
  <2>3. /\ compte' \in [Comptes -> Ligne] /\ \A k \in Comptes \ {c} : compte'[k] = compte[k]
        /\ compte'[c].role = role /\ compte'[c].kyc = kyc
    <3>1. CASE compte' = [compte EXCEPT ![c].actif = b]
      BY <1>1, <2>2, <3>1, Colonnes
    <3>2. CASE compte' = [compte EXCEPT ![c].verifie = b]
      BY <1>1, <2>2, <3>2, Colonnes
    <3> QED
      BY <2>1, <3>1, <3>2
  <2> QED
    BY <1>1, <1>2, <2>2, <2>3, LigneSeule
<1>4. CASE ValiderDemandeVendeur(c)
  <2>1. /\ compte' \in [Comptes -> Ligne] /\ \A k \in Comptes \ {c} : compte'[k] = compte[k]
        /\ compte'[c].role = "vendeur" /\ compte'[c].kyc = "valide"
    <3>1. PICK role \in Roles, kyc \in StatutsKYC : role = "vendeur" /\ kyc = "valide"
      BY <1>1
    <3>2. compte' = [compte EXCEPT ![c].kyc = kyc, ![c].role = role]
      BY <1>4, <3>1 DEF ValiderDemandeVendeur
    <3> QED
      BY <1>1, <3>1, <3>2, DeuxColonnes
  <2> QED
    BY <1>1, <1>2, <1>4, <2>1, LigneSeule DEF ValiderDemandeVendeur, DemandeEnAttente
<1>5. CASE RefuserDemandeVendeur(c)
  <2>1. /\ compte' \in [Comptes -> Ligne] /\ \A k \in Comptes \ {c} : compte'[k] = compte[k]
        /\ compte'[c].role = compte[c].role /\ compte'[c].kyc = "refuse"
    BY <1>1, <1>5, Colonnes DEF RefuserDemandeVendeur
  <2> QED
    BY <1>1, <1>2, <1>5, <2>1, LigneSeule DEF RefuserDemandeVendeur, DemandeEnAttente
<1>6. CASE NommerLivreur(c) \/ RetirerLivreur(c)
  <2>1. PICK role \in {"livreur", "client"} : compte' = [compte EXCEPT ![c].role = role]
    BY <1>6 DEF NommerLivreur, RetirerLivreur
  <2>2. PICK kyc \in StatutsKYC, b \in BOOLEAN : kyc = compte[c].kyc /\ role \in Roles
    BY <1>1
  <2>3. /\ compte' \in [Comptes -> Ligne] /\ \A k \in Comptes \ {c} : compte'[k] = compte[k]
        /\ compte'[c].role = role /\ compte'[c].kyc = kyc
    BY <1>1, <2>1, <2>2, Colonnes
  <2>4. compte[c].role # "vendeur"
    BY <1>6 DEF NommerLivreur, RetirerLivreur, Nommable
  <2> QED
    BY <1>1, <1>2, <2>2, <2>3, <2>4, LigneSeule
<1> QED
  BY <1>3, <1>4, <1>5, <1>6

-----------------------------------------------------------------------------
\* The files

\* An upload: its files are fresh, those it replaces are to be deleted.
LEMMA DepotConserve ==
  ASSUME ComptesInv, NEW c \in Comptes, NEW validee \in BOOLEAN, DeposerDossier(c, validee)
  PROVE  ComptesInv'
<1>1. PICK neuf \in Versions \ (fichiers[c] \cup menage[c] \cup {dossier[c]}) : RemplacerFichiers(c, neuf, validee)
  BY DEF DeposerDossier, Versions
<1>2. /\ UNCHANGED <<commercants, profil, ecrase>> /\ DepotAccepte(c)
      /\ fichiers' = [fichiers EXCEPT ![c] = @ \cup {neuf}]
  BY <1>1 DEF DeposerDossier, RemplacerFichiers
<1>0. neuf \in Nat \ {0} /\ neuf \in 0..DepotsMax
  BY ComptesOk DEF Versions
<1>3. CASE validee
  <2>1. /\ dossier' = [dossier EXCEPT ![c] = neuf]
        /\ compte' = [compte EXCEPT ![c].kyc = "en_attente"]
        /\ menage' = [menage EXCEPT ![c] = @ \cup ({dossier[c]} \ {0})]
    BY <1>1, <1>3 DEF RemplacerFichiers
  <2>2. "en_attente" \in StatutsKYC /\ compte[c].role \in Roles /\ TypesComptes
    BY DEF StatutsKYC, ComptesInv, TypesComptes, Ligne
  <2>3. /\ compte' \in [Comptes -> Ligne] /\ \A k \in Comptes \ {c} : compte'[k] = compte[k]
        /\ compte'[c].role = compte[c].role /\ compte'[c].kyc = "en_attente"
    BY ZenonT(40), <2>1, <2>2, Colonnes
  <2>4. TypesComptes'
    BY <1>0, <1>2, <2>1, <2>2, <2>3, ComptesOk DEF TypesComptes, Versions
  <2>5. Seul(c)
    BY <1>2, <2>1, <2>2, <2>3 DEF Seul, TypesComptes
  <2>6. Presente(c)'
    BY <1>1, <1>2, <2>1, <2>2 DEF Presente, TypesComptes, Versions
  <2>7. dossier'[c] # 0
    BY <1>0, <2>1, <2>2 DEF TypesComptes
  <2>8. compte[c].kyc # "valide" \/ c \in ecrase
    BY <1>2, <2>2 DEF DepotAccepte, DemandePossible
  <2>9. Accordee(c)'
    BY <1>2, <2>3, <2>7, <2>8 DEF Accordee, ComptesInv
  <2> QED
    BY <2>4, <2>5, <2>6, <2>9, UnSeul
<1>4. CASE ~validee
  <2>1. UNCHANGED <<dossier, compte, menage>>
    BY <1>1, <1>4 DEF RemplacerFichiers
  <2> QED
    BY <1>2, <2>1 DEF ComptesInv, TypesComptes, Versions, Accordee, Presente
<1> QED
  BY <1>3, <1>4

\* The deletions, done or lost; a shop; a profile read.
LEMMA AutresConservent ==
  ASSUME ComptesInv, NEW c \in Comptes,
         SupprimerAnciensFichiers(c) \/ PerdreMenage(c) \/ CreerBoutique(c) \/ LireProfil(c)
  PROVE  ComptesInv'
<1>1. CASE SupprimerAnciensFichiers(c)
  BY <1>1 DEF SupprimerAnciensFichiers, ComptesInv, TypesComptes, Accordee, Presente
<1>2. CASE PerdreMenage(c)
  BY <1>2 DEF PerdreMenage, ComptesInv, TypesComptes, Accordee, Presente
<1>3. CASE CreerBoutique(c)
  BY <1>3 DEF CreerBoutique, VendeurValide, ComptesInv, TypesComptes, Accordee, Presente
<1>4. CASE LireProfil(c)
  <2>1. profil' \in [Comptes -> Ligne \cup {LigneLibre}]
    BY <1>4 DEF LireProfil, ComptesInv, TypesComptes
  <2> QED
    BY <1>4, <2>1 DEF LireProfil, ComptesInv, TypesComptes, Accordee, Presente
<1> QED
  BY <1>1, <1>2, <1>3, <1>4

\* PATCH profil/ writes a row of the table; the account joins the exceptions
\* when the row had moved.
LEMMA ProfilConserve ==
  ASSUME ComptesInv, NEW c \in Comptes, EnregistrerProfil(c)
  PROVE  ComptesInv'
<1>1. PICK l \in Ligne : l = profil[c]
  BY DEF EnregistrerProfil, ComptesInv, TypesComptes
<1>2. /\ compte' = [compte EXCEPT ![c] = l] /\ profil' = [profil EXCEPT ![c] = LigneLibre]
      /\ ecrase' = (IF l # compte[c] THEN ecrase \cup {c} ELSE ecrase)
      /\ UNCHANGED <<dossier, fichiers, menage, commercants>>
  BY <1>1 DEF EnregistrerProfil
<1>3. TypesComptes'
  BY <1>2 DEF ComptesInv, TypesComptes
<1>4. Seul(c)
  BY <1>2 DEF ComptesInv, TypesComptes, Seul
<1>5. Accordee(c)' /\ Presente(c)'
  BY <1>2 DEF ComptesInv, TypesComptes, Accordee, Presente
<1> QED
  BY <1>3, <1>4, <1>5, UnSeul

-----------------------------------------------------------------------------
\* Theorems

\* Types, agreement of the columns and presence of the files hold together.
THEOREM Invariance_Comptes == ComptesSpec => []ComptesInv
<1>1. ComptesInit => ComptesInv
  <2> SUFFICES ASSUME ComptesInit PROVE ComptesInv
    OBVIOUS
  <2>1. Inscrit \in Ligne /\ Vendeur \in Ligne
    BY DEF Inscrit, Vendeur, Ligne, Roles, StatutsKYC
  <2>2. TypesComptes
    BY <2>1, ComptesOk DEF ComptesInit, TypesComptes, Versions
  <2>3. \A c \in Comptes : Accordee(c) /\ Presente(c)
    BY DEF ComptesInit, Accordee, Presente, Inscrit, Vendeur
  <2> QED
    BY <2>2, <2>3 DEF ComptesInv
<1>2. ComptesInv /\ [ComptesNext]_comptesVars => ComptesInv'
  <2> SUFFICES ASSUME ComptesInv, [ComptesNext]_comptesVars PROVE ComptesInv'
    OBVIOUS
  <2>1. CASE UNCHANGED comptesVars
    BY <2>1 DEF comptesVars, ComptesInv, TypesComptes, Accordee, Presente
  <2> QED
    BY <2>1, LigneConserve, DepotConserve, AutresConservent, ProfilConserve DEF ComptesNext
<1> QED
  BY <1>1, <1>2, PTL DEF ComptesSpec

\* A seller is exactly a validated account, a shop has a seller, and the KYC
\* file of a request can be read: valider_demande_vendeur, nommer_livreur,
\* UploadKYCView and the deletion of replaced files in any order.
THEOREM Comptes_Tenus == ComptesSpec => []ComptesTenus
<1>1. ComptesInv => ComptesTenus
  BY DEF ComptesInv, Accordee, Presente, ComptesTenus, RolesAccordes, PieceLisible, Telechargement
<1> QED
  BY <1>1, Invariance_Comptes, PTL

-----------------------------------------------------------------------------
\* Deliveries: a delivery is proved by the code of its attempt, wrong codes are
\* bounded, and the delivery agrees with its order.

TypesColis ==
  /\ vente \in [Colis -> StatutsVente]
  /\ livraison \in [Colis -> Fiche]
  /\ requete \subseteq Comptes
  /\ choix \in [Colis -> Comptes \cup {Personne}]
  /\ donne \in [Colis -> SUBSET Nat]
  /\ faux \in [Colis -> Nat]
  /\ remises \in [Colis -> Nat]

\* The statuses agree, and a parcel that left has a courier.
Accorde(v, l) ==
  /\ l.statut = "livree" <=> v = "livree"
  /\ l.statut = "annulee" <=> v = "annulee"
  /\ l.statut \in {"expediee", "en_cours", "echouee"} <=> v = "expediee"
  /\ l.statut \in {"expediee", "en_cours", "echouee"} => l.livreur # Personne

\* The code of an attempt bears its number; each attempt adds CodeEssaisMax wrong
\* codes at most to those of the attempts before it.
Compte(l, f) ==
  /\ l.statut = "en_cours" => l.tentatives # 0 /\ l.code = l.tentatives
  /\ l.tentatives = 0 => f = 0 /\ l.essais = 0
  /\ f + CodeEssaisMax <= CodeEssaisMax * l.tentatives + l.essais \/ l.tentatives = 0

Prouve(l, d, r) == l.statut = "livree" => r \in d /\ r = l.tentatives

LivraisonInv ==
  /\ TypesColis
  /\ \A l \in Colis :
       /\ Accorde(vente[l], livraison[l])
       /\ Compte(livraison[l], faux[l])
       /\ Prouve(livraison[l], donne[l], remises[l])

-----------------------------------------------------------------------------
\* Arithmetic of the tries

LEMMA EssaisBornes ==
  ASSUME NEW f \in Nat, NEW n \in 0..TentativesMax, NEW e \in 0..CodeEssaisMax,
         f + CodeEssaisMax <= CodeEssaisMax * n + e
  PROVE  f <= CodeEssaisMax * TentativesMax /\ f + CodeEssaisMax <= CodeEssaisMax * (n + 1)
<1>1. PICK d \in Nat : TentativesMax = n + d
  BY LivraisonOk
<1>2. CodeEssaisMax * TentativesMax = CodeEssaisMax * n + CodeEssaisMax * d /\ CodeEssaisMax * d \in Nat
      /\ CodeEssaisMax * n \in Nat /\ CodeEssaisMax * (n + 1) = CodeEssaisMax * n + CodeEssaisMax
  BY <1>1, LivraisonOk
<1> QED
  BY <1>2, LivraisonOk

-----------------------------------------------------------------------------
\* One delivery moves

\* The step changes nothing but delivery l, from which its new state is good.
LEMMA UnColis ==
  ASSUME LivraisonInv, NEW l \in Colis, NEW v \in StatutsVente, NEW n \in Fiche, NEW f \in Nat, NEW r \in Nat,
         vente' = [vente EXCEPT ![l] = v], livraison' = [livraison EXCEPT ![l] = n],
         faux' = [faux EXCEPT ![l] = f], remises' = [remises EXCEPT ![l] = r],
         requete' \subseteq Comptes, choix' \in [Colis -> Comptes \cup {Personne}],
         UNCHANGED donne, Accorde(v, n), Compte(n, f), Prouve(n, donne[l], r)
  PROVE  LivraisonInv'
<1>1. /\ vente' \in [Colis -> StatutsVente] /\ livraison' \in [Colis -> Fiche]
      /\ faux' \in [Colis -> Nat] /\ remises' \in [Colis -> Nat]
  BY DEF LivraisonInv, TypesColis
<1>2. ASSUME NEW m \in Colis
      PROVE  /\ Accorde(vente'[m], livraison'[m])
             /\ Compte(livraison'[m], faux'[m])
             /\ Prouve(livraison'[m], donne'[m], remises'[m])
  <2>1. CASE m = l
    BY <2>1 DEF LivraisonInv, TypesColis
  <2>2. CASE m # l
    BY <2>2 DEF LivraisonInv, TypesColis
  <2> QED
    BY <2>1, <2>2
<1> QED
  BY <1>1, <1>2 DEF LivraisonInv, TypesColis, Accorde, Compte, Prouve

\* The histories of a delivery that the step leaves alone.
LEMMA Inchange ==
  ASSUME TypesColis, NEW l \in Colis
  PROVE  /\ vente = [vente EXCEPT ![l] = vente[l]]
         /\ faux = [faux EXCEPT ![l] = faux[l]] /\ remises = [remises EXCEPT ![l] = remises[l]]
         /\ vente[l] \in StatutsVente /\ livraison[l] \in Fiche /\ faux[l] \in Nat /\ remises[l] \in Nat
  BY DEF TypesColis

\* A new status, with or without a code, keeps the counters.
LEMMA NouveauStatut ==
  ASSUME NEW m \in Fiche, NEW statut \in StatutsColis, NEW code \in {0, m.code}
  PROVE  LET n == [m EXCEPT !.statut = statut, !.code = code]
         IN  /\ n \in Fiche /\ n.statut = statut /\ n.code = code
             /\ n.tentatives = m.tentatives /\ n.essais = m.essais /\ n.livreur = m.livreur
<1>1. code \in 0..TentativesMax
  BY LivraisonOk DEF Fiche
<1> DEFINE k == [m EXCEPT !.statut = statut]
<1>2. /\ k \in Fiche /\ k.statut = statut /\ k.tentatives = m.tentatives
      /\ k.essais = m.essais /\ k.livreur = m.livreur
  BY DEF Fiche
<1>3. [m EXCEPT !.statut = statut, !.code = code] = [k EXCEPT !.code = code]
  BY DEF Fiche
<1> HIDE DEF k
<1> DEFINE n == [k EXCEPT !.code = code]
<1>4. /\ n \in Fiche /\ n.statut = k.statut /\ n.code = code /\ n.tentatives = k.tentatives
      /\ n.essais = k.essais /\ n.livreur = k.livreur
  BY <1>1, <1>2 DEF Fiche
<1> QED
  BY <1>2, <1>3, <1>4

\* The order moves, or is cancelled with its delivery.
LEMMA VenteConserve ==
  ASSUME LivraisonInv, NEW l \in Colis,
         PasserEnPreparation(l) \/ AnnulerVente(l) \/ AbandonnerLivraison(l)
  PROVE  LivraisonInv'
<1>0. PICK m \in Fiche : m = livraison[l]
  BY DEF LivraisonInv, TypesColis
<1>1. Accorde(vente[l], m) /\ Compte(m, faux[l]) /\ Prouve(m, donne[l], remises[l])
  BY <1>0 DEF LivraisonInv
<1>2. CASE PasserEnPreparation(l)
  <2>1. /\ vente' = [vente EXCEPT ![l] = "preparation"] /\ vente[l] = "confirmee"
        /\ UNCHANGED <<livraison, requete, choix, donne, faux, remises>>
    BY <1>2 DEF PasserEnPreparation
  <2>2. livraison' = [livraison EXCEPT ![l] = m] /\ Accorde("preparation", m) /\ "preparation" \in StatutsVente
    BY <1>0, <1>1, <2>1 DEF Accorde, LivraisonInv, TypesColis, StatutsVente
  <2> QED
    BY <1>1, <2>1, <2>2, Inchange, UnColis DEF LivraisonInv, TypesColis
<1>3. CASE AnnulerVente(l) \/ AbandonnerLivraison(l)
  <2> DEFINE n == [m EXCEPT !.statut = "annulee", !.code = 0]
  <2>1. m.statut \in {"en_attente", "echouee"}
    BY <1>0, <1>3 DEF AnnulerVente, AbandonnerLivraison, Annulable, Statut
  <2>2. /\ n \in Fiche /\ "annulee" \in StatutsVente
        /\ n.statut = "annulee" /\ n.tentatives = m.tentatives /\ n.essais = m.essais
    BY NouveauStatut DEF StatutsVente, StatutsColis
  <2>3. /\ vente' = [vente EXCEPT ![l] = "annulee"] /\ livraison' = [livraison EXCEPT ![l] = n]
        /\ UNCHANGED <<requete, choix, donne, faux, remises>>
    BY <1>0, <1>3 DEF AnnulerVente, AbandonnerLivraison, AnnulerColis, LivraisonInv, TypesColis
  <2> HIDE DEF n
  <2>4. Accorde("annulee", n) /\ Compte(n, faux[l]) /\ Prouve(n, donne[l], remises[l])
    BY <1>1, <2>1, <2>2 DEF Accorde, Compte, Prouve
  <2> QED
    BY <2>2, <2>3, <2>4, Inchange, UnColis DEF LivraisonInv, TypesColis
<1> QED
  BY <1>2, <1>3

\* The administration assigns the courier it read, or opens a new attempt.
LEMMA AffectationConserve ==
  ASSUME LivraisonInv, NEW l \in Colis, AssignerLivreur(l)
  PROVE  LivraisonInv'
<1>0. PICK m \in Fiche, c \in Comptes : m = livraison[l] /\ c = choix[l]
  BY DEF LivraisonInv, TypesColis, AssignerLivreur
<1>1. Accorde(vente[l], m) /\ Compte(m, faux[l]) /\ Prouve(m, donne[l], remises[l])
  BY <1>0 DEF LivraisonInv
<1>2. /\ choix' \in [Colis -> Comptes \cup {Personne}]
      /\ UNCHANGED <<vente, requete, donne, faux, remises>>
  BY DEF AssignerLivreur, LivraisonInv, TypesColis
<1> DEFINE n == [m EXCEPT !.livreur = c]
<1>3. /\ n \in Fiche /\ n.livreur # Personne /\ n.statut = m.statut /\ n.code = m.code
      /\ n.tentatives = m.tentatives /\ n.essais = m.essais
  BY LivraisonOk DEF Fiche
<1>4. livraison' = [livraison EXCEPT ![l] = m] \/ livraison' = [livraison EXCEPT ![l] = n]
  BY <1>0 DEF AssignerLivreur, LivraisonInv, TypesColis
<1> HIDE DEF n
<1>5. Accorde(vente[l], n) /\ Compte(n, faux[l]) /\ Prouve(n, donne[l], remises[l])
  BY <1>1, <1>3 DEF Accorde, Compte, Prouve
<1>6. requete' \subseteq Comptes /\ vente' = [vente EXCEPT ![l] = vente[l]]
      /\ faux' = [faux EXCEPT ![l] = faux[l]] /\ remises' = [remises EXCEPT ![l] = remises[l]]
  BY <1>2, Inchange DEF LivraisonInv, TypesColis
<1>7. CASE livraison' = [livraison EXCEPT ![l] = m]
  BY <1>1, <1>2, <1>6, <1>7, Inchange, UnColis DEF LivraisonInv
<1>8. CASE livraison' = [livraison EXCEPT ![l] = n]
  BY <1>2, <1>3, <1>5, <1>6, <1>8, Inchange, UnColis DEF LivraisonInv
<1> QED
  BY <1>4, <1>7, <1>8

LEMMA TentativeConserve ==
  ASSUME LivraisonInv, NEW l \in Colis, Presenter(l), Statut(l) \in {"expediee", "echouee"},
         requete' \subseteq Comptes, UNCHANGED choix
  PROVE  LivraisonInv'
<1>0. PICK m \in Fiche : m = livraison[l]
  BY DEF LivraisonInv, TypesColis
<1>1. /\ Accorde(vente[l], m) /\ Compte(m, faux[l]) /\ m.statut \in {"expediee", "echouee"}
      /\ m.tentatives < TentativesMax /\ m.tentatives \in 0..TentativesMax /\ m.essais \in 0..CodeEssaisMax
  BY <1>0 DEF LivraisonInv, Presenter, Statut, Fiche
<1> DEFINE n == [m EXCEPT !.statut = "en_cours", !.tentatives = m.tentatives + 1,
                          !.code = m.tentatives + 1, !.essais = 0]
<1>2. m.tentatives + 1 \in 0..TentativesMax /\ 0 \in 0..CodeEssaisMax /\ "en_cours" \in StatutsColis
  BY <1>1, LivraisonOk DEF StatutsColis
<1>3. /\ n \in Fiche /\ n.statut = "en_cours" /\ n.tentatives = m.tentatives + 1
      /\ n.code = n.tentatives /\ n.essais = 0 /\ n.livreur = m.livreur
  BY <1>2 DEF Fiche
<1>4. /\ livraison' = [livraison EXCEPT ![l] = n] /\ UNCHANGED <<vente, donne, faux, remises>>
  BY <1>0 DEF Presenter, NouvelleTentative, LivraisonInv, TypesColis
<1> HIDE DEF n
<1>5. Accorde(vente[l], n) /\ Prouve(n, donne[l], remises[l])
  BY <1>1, <1>3 DEF Accorde, Prouve
<1>6. faux[l] + CodeEssaisMax <= CodeEssaisMax * (m.tentatives + 1)
  <2>1. faux[l] \in Nat
    BY DEF LivraisonInv, TypesColis
  <2>2. CASE m.tentatives = 0
    BY <1>1, <2>2, LivraisonOk DEF Compte
  <2>3. CASE m.tentatives # 0
    BY <1>1, <2>1, <2>3, EssaisBornes DEF Compte
  <2> QED
    BY <2>2, <2>3
<1>7. Compte(n, faux[l])
  BY <1>1, <1>3, <1>6, LivraisonOk DEF Compte, LivraisonInv, TypesColis
<1> QED
  BY <1>3, <1>4, <1>5, <1>7, Inchange, UnColis DEF LivraisonInv, TypesColis

\* The courier takes the parcel, reports a failure, hands it over or types a wrong code.
LEMMA LivreurConserve ==
  ASSUME LivraisonInv, NEW c \in Comptes, NEW l \in Colis,
         Expedier(c, l) \/ DeclarerEchec(c, l) \/ LivrerCodeJuste(c, l)
  PROVE  LivraisonInv'
<1>0. PICK m \in Fiche : m = livraison[l]
  BY DEF LivraisonInv, TypesColis
<1>1. Accorde(vente[l], m) /\ Compte(m, faux[l]) /\ Prouve(m, donne[l], remises[l])
  BY <1>0 DEF LivraisonInv
<1>2. /\ requete' \subseteq Comptes /\ UNCHANGED <<choix, donne, faux>>
      /\ m.livreur # Personne
  BY <1>0, LivraisonOk DEF Expedier, DeclarerEchec, LivrerCodeJuste, ControlerActeur, Servir, LivraisonInv, TypesColis
<1>3. /\ {"expediee", "echouee", "livree"} \subseteq StatutsColis /\ {"expediee", "livree"} \subseteq StatutsVente
  BY DEF StatutsColis, StatutsVente
<1>4. CASE Expedier(c, l)
  <2> DEFINE n == [m EXCEPT !.statut = "expediee", !.code = m.code]
  <2>1. /\ n \in Fiche /\ n.statut = "expediee" /\ n.tentatives = m.tentatives /\ n.essais = m.essais
        /\ n.livreur = m.livreur
    BY <1>3, NouveauStatut
  <2>2. /\ vente' = [vente EXCEPT ![l] = "expediee"] /\ livraison' = [livraison EXCEPT ![l] = n]
        /\ UNCHANGED remises
    BY <1>0, <1>4 DEF Expedier, LivraisonInv, TypesColis, Fiche
  <2> HIDE DEF n
  <2>3. Accorde("expediee", n) /\ Compte(n, faux[l]) /\ Prouve(n, donne[l], remises[l])
    BY <1>1, <1>2, <2>1 DEF Accorde, Compte, Prouve
  <2> QED
    BY <1>2, <1>3, <2>1, <2>2, <2>3, Inchange, UnColis DEF LivraisonInv, TypesColis
<1>5. CASE DeclarerEchec(c, l)
  <2> DEFINE n == [m EXCEPT !.statut = "echouee", !.code = m.code]
  <2>1. /\ n \in Fiche /\ n.statut = "echouee" /\ n.tentatives = m.tentatives /\ n.essais = m.essais
        /\ n.livreur = m.livreur
    BY <1>3, NouveauStatut
  <2>2. /\ livraison' = [livraison EXCEPT ![l] = n] /\ m.statut \in {"expediee", "en_cours"}
        /\ UNCHANGED <<vente, remises>>
    BY <1>0, <1>5 DEF DeclarerEchec, Statut, LivraisonInv, TypesColis, Fiche
  <2> HIDE DEF n
  <2>3. Accorde(vente[l], n) /\ Compte(n, faux[l]) /\ Prouve(n, donne[l], remises[l])
    BY <1>1, <1>2, <2>1, <2>2 DEF Accorde, Compte, Prouve
  <2> QED
    BY <1>2, <2>1, <2>2, <2>3, Inchange, UnColis DEF LivraisonInv, TypesColis
<1>6. CASE LivrerCodeJuste(c, l)
  <2> DEFINE n == [m EXCEPT !.statut = "livree", !.code = 0]
  <2>1. /\ n \in Fiche /\ n.statut = "livree" /\ n.tentatives = m.tentatives /\ n.essais = m.essais
        /\ n.livreur = m.livreur
    BY <1>3, NouveauStatut
  <2>2. PICK k \in donne[l] \cup {0} : CodeJuste(l, k) /\ remises' = [remises EXCEPT ![l] = k]
    BY <1>6 DEF LivrerCodeJuste
  <2>3. /\ vente' = [vente EXCEPT ![l] = "livree"] /\ livraison' = [livraison EXCEPT ![l] = n]
        /\ m.statut = "en_cours"
    BY <1>0, <1>6 DEF LivrerCodeJuste, Statut, LivraisonInv, TypesColis
  <2>4. k \in donne[l] /\ k = m.tentatives /\ k \in Nat
    BY <1>0, <1>1, <2>2, <2>3 DEF CodeJuste, Compte, LivraisonInv, TypesColis
  <2> HIDE DEF n
  <2>5. Accorde("livree", n) /\ Compte(n, faux[l]) /\ Prouve(n, donne[l], k)
    BY <1>1, <2>1, <2>3, <2>4 DEF Accorde, Compte, Prouve
  <2> QED
    BY <1>2, <1>3, <2>1, <2>2, <2>3, <2>4, <2>5, Inchange, UnColis DEF LivraisonInv, TypesColis
<1> QED
  BY <1>4, <1>5, <1>6

LEMMA CodeFauxConserve ==
  ASSUME LivraisonInv, NEW c \in Comptes, NEW l \in Colis, LivrerCodeFaux(c, l)
  PROVE  LivraisonInv'
<1>0. PICK m \in Fiche : m = livraison[l]
  BY DEF LivraisonInv, TypesColis
<1>1. Accorde(vente[l], m) /\ Compte(m, faux[l]) /\ Prouve(m, donne[l], remises[l])
  BY <1>0 DEF LivraisonInv
<1> DEFINE n == [m EXCEPT !.essais = m.essais + 1]
<1>2. m.essais + 1 \in 0..CodeEssaisMax /\ m.statut = "en_cours" /\ m.tentatives \in Nat /\ m.essais \in Nat
  BY <1>0, LivraisonOk DEF LivrerCodeFaux, Statut, Fiche
<1>3. /\ n \in Fiche /\ n.statut = m.statut /\ n.tentatives = m.tentatives /\ n.code = m.code
      /\ n.essais = m.essais + 1 /\ n.livreur = m.livreur
  BY <1>2 DEF Fiche
<1>4. /\ livraison' = [livraison EXCEPT ![l] = n] /\ faux' = [faux EXCEPT ![l] = faux[l] + 1]
      /\ requete' \subseteq Comptes /\ UNCHANGED <<vente, choix, donne, remises>>
  BY <1>0 DEF LivrerCodeFaux, EssaiCompte, Servir, LivraisonInv, TypesColis
<1> HIDE DEF n
<1>5. faux[l] \in Nat /\ faux[l] + 1 \in Nat /\ CodeEssaisMax * m.tentatives \in Nat
  BY <1>2, LivraisonOk DEF LivraisonInv, TypesColis
<1>6. Accorde(vente[l], n) /\ Prouve(n, donne[l], remises[l])
  BY <1>1, <1>2, <1>3 DEF Accorde, Prouve
<1>7. Compte(n, faux[l] + 1)
  BY <1>1, <1>2, <1>3, <1>5, LivraisonOk DEF Compte
<1> QED
  BY <1>3, <1>4, <1>5, <1>6, <1>7, Inchange, UnColis DEF LivraisonInv, TypesColis

\* The steps that move no row of a delivery: readings, requests, accounts.
LEMMA AucuneEcriture ==
  ASSUME LivraisonInv, UNCHANGED <<vente, livraison, faux, remises>>,
         requete' \subseteq Comptes, choix' \in [Colis -> Comptes \cup {Personne}],
         donne' \in [Colis -> SUBSET Nat], \A l \in Colis : donne[l] \subseteq donne'[l]
  PROVE  LivraisonInv'
  BY DEF LivraisonInv, TypesColis, Accorde, Compte, Prouve

LEMMA CodeDonneConserve ==
  ASSUME LivraisonInv, NEW l \in Colis, DonnerCode(l)
  PROVE  LivraisonInv'
<1>1. CodeAffiche(l) \in Nat
  BY LivraisonOk DEF CodeAffiche, Statut, LivraisonInv, TypesColis, Fiche
<1>2. /\ donne' = [donne EXCEPT ![l] = @ \cup {CodeAffiche(l)}]
      /\ UNCHANGED <<vente, livraison, requete, choix, faux, remises>>
  BY DEF DonnerCode
<1>3. donne' \in [Colis -> SUBSET Nat] /\ \A k \in Colis : donne[k] \subseteq donne'[k]
  BY <1>1, <1>2 DEF LivraisonInv, TypesColis
<1> QED
  BY <1>2, <1>3, AucuneEcriture DEF LivraisonInv, TypesColis

-----------------------------------------------------------------------------
\* Theorems

\* Types, agreement with the order, codes and their tries hold together.
THEOREM Invariance_Livraison == LivraisonSpec => []LivraisonInv
<1>1. LivraisonInit => LivraisonInv
  <2> SUFFICES ASSUME LivraisonInit PROVE LivraisonInv
    OBVIOUS
  <2>1. TypesColis
    BY LivraisonOk DEF LivraisonInit, TypesColis, StatutsVente, Fiche, StatutsColis
  <2>2. \A l \in Colis : /\ Accorde(vente[l], livraison[l]) /\ Compte(livraison[l], faux[l])
                         /\ Prouve(livraison[l], donne[l], remises[l])
    BY DEF LivraisonInit, Accorde, Compte, Prouve
  <2> QED
    BY <2>1, <2>2 DEF LivraisonInv
<1>2. LivraisonInv /\ [LivraisonNext]_livraisonVars => LivraisonInv'
  <2> SUFFICES ASSUME LivraisonInv, [LivraisonNext]_livraisonVars PROVE LivraisonInv'
    OBVIOUS
  <2>1. CASE UNCHANGED colisVars
    BY <2>1, AucuneEcriture DEF colisVars, LivraisonInv, TypesColis
  <2>2. ASSUME NEW c \in Comptes, AuthentifierLivreur(c) \/ RefuserRequete(c) PROVE LivraisonInv'
    <3>1. /\ UNCHANGED <<vente, livraison, choix, donne, faux, remises>> /\ requete' \subseteq Comptes
      BY <2>2 DEF AuthentifierLivreur, RefuserRequete, Servir, LivraisonInv, TypesColis
    <3> QED
      BY <3>1, AucuneEcriture DEF LivraisonInv, TypesColis
  <2>3. ASSUME NEW c \in Comptes, NEW l \in Colis,
               Expedier(c, l) \/ PartirEnTournee(c, l) \/ DeclarerEchec(c, l) \/ LivrerCodeJuste(c, l)
                 \/ LivrerCodeFaux(c, l)
        PROVE  LivraisonInv'
    <3>1. CASE PartirEnTournee(c, l)
      BY <3>1, TentativeConserve DEF PartirEnTournee, Servir, LivraisonInv, TypesColis
    <3> QED
      BY <2>3, <3>1, LivreurConserve, CodeFauxConserve
  <2>4. ASSUME NEW l \in Colis, RelancerLivraison(l) PROVE LivraisonInv'
    BY <2>4, TentativeConserve DEF RelancerLivraison, LivraisonInv, TypesColis
  <2>5. ASSUME NEW l \in Colis, NEW c \in Comptes, ChoisirLivreur(l, c) PROVE LivraisonInv'
    <3>1. /\ UNCHANGED <<vente, livraison, requete, donne, faux, remises>>
          /\ choix' \in [Colis -> Comptes \cup {Personne}]
      BY <2>5 DEF ChoisirLivreur, LivraisonInv, TypesColis
    <3> QED
      BY <3>1, AucuneEcriture DEF LivraisonInv, TypesColis
  <2> QED
    BY <2>1, <2>2, <2>3, <2>4, <2>5, VenteConserve, AffectationConserve, CodeDonneConserve
    DEF LivraisonNext, RequeteLivreur, RoleLivreur, livraisonVars
<1> QED
  BY <1>1, <1>2, PTL DEF LivraisonSpec

\* A parcel is delivered only with the code its client read in the attempt under
\* way, the wrong codes tried are bounded, and delivery and order agree:
\* changer_statut, assigner_livreur and the cancellations in any order.
THEOREM Livraison_Tenue == LivraisonSpec => []LivraisonTenue
<1>1. LivraisonInv => LivraisonTenue
  <2> SUFFICES ASSUME LivraisonInv, NEW l \in Colis
               PROVE  /\ Statut(l) = "livree" => remises[l] \in donne[l] /\ remises[l] = livraison[l].tentatives
                      /\ faux[l] <= CodeEssaisMax * TentativesMax
                      /\ Accorde(vente[l], livraison[l])
    BY DEF LivraisonTenue, RemiseProuvee, ColisEtVenteAccordes, Statut, Accorde
  <2>1. PICK n \in 0..TentativesMax, e \in 0..CodeEssaisMax :
          n = livraison[l].tentatives /\ e = livraison[l].essais
    BY DEF LivraisonInv, TypesColis, Fiche
  <2>2. /\ Accorde(vente[l], livraison[l]) /\ Prouve(livraison[l], donne[l], remises[l])
        /\ n = 0 => faux[l] = 0
        /\ n # 0 => faux[l] + CodeEssaisMax <= CodeEssaisMax * n + e
        /\ faux[l] \in Nat
    BY <2>1 DEF LivraisonInv, TypesColis, Compte
  <2>3. faux[l] <= CodeEssaisMax * TentativesMax
    <3>1. CASE n = 0
      <4>1. CodeEssaisMax * TentativesMax \in Nat
        BY LivraisonOk
      <4> QED
        BY <2>2, <3>1, <4>1
    <3>2. CASE n # 0
      BY <2>2, <3>2, EssaisBornes
    <3> QED
      BY <3>1, <3>2
  <2> QED
    BY <2>2, <2>3 DEF Prouve, Statut
<1> QED
  BY <1>1, Invariance_Livraison, PTL

-----------------------------------------------------------------------------
\* Access: an account is entered by who was given its code or its password.

\* A verified address was proved; the one of the registration is the only one that
\* may not be verified.
AdresseJuste(u) ==
  /\ u.verifie => u.adresse \in prouvees
  /\ u.verifie \/ u.adresse = Premiere

\* A code goes to the address it will write, and its row counts what was compared.
CodeTenu(i) ==
  /\ codes[i].pour = codes[i].valeur
  /\ codes[i].type = "inscription" => codes[i].pour = Premiere
  /\ essayes[i] = codes[i].essais
  /\ acceptes[i] = IF codes[i].utilise THEN 1 ELSE 0
  /\ codes[i].utilise => codes[i].pour \in prouvees

\* What a request has read or obtained.
DemandeJuste(d) ==
  /\ demandes[d].etape \in {"choisi", "accepte", "revocation"} => demandes[d].code \in DOMAIN codes
  /\ demandes[d].etape = "accepte" => codes[demandes[d].code].utilise
  /\ demandes[d].etape = "profil" => AdresseJuste(demandes[d].lu)
  /\ demandes[d].etape = "rotation" => demandes[d].jeton \in DOMAIN jetons

CodesJustes ==
  /\ Len(codes) <= CodesMax
  /\ essayes \in [1..CodesMax -> Nat] /\ acceptes \in [1..CodesMax -> Nat]
  /\ \A i \in DOMAIN codes : CodeTenu(i)
  /\ \A i \in 1..CodesMax : i > Len(codes) => essayes[i] = 0 /\ acceptes[i] = 0

JetonsJustes == Len(jetons) <= JetonsMax /\ \A n \in DOMAIN jetons : jetons[n].passe = jetons[n].connu

AccesInv ==
  /\ AccesTypes /\ AdresseJuste(usager) /\ CodesJustes /\ JetonsJustes
  /\ \A d \in Demandes : DemandeJuste(d)

\* The stages of a request, and the type each gives it.
LEMMA Etapes ==
  ASSUME AccesTypes, NEW d \in Demandes
  PROVE  /\ demandes[d].etape \in {"choisi", "accepte", "revocation"} =>
              demandes[d] \in [etape: {"choisi", "accepte", "revocation"}, code: 1..CodesMax, ligne: CodeOTP]
         /\ demandes[d].etape = "connexion" => demandes[d] \in [etape: {"connexion"}, passe: 1..PassesMax]
         /\ demandes[d].etape = "rotation" => demandes[d] \in [etape: {"rotation"}, jeton: 1..JetonsMax]
         /\ demandes[d].etape = "profil" => demandes[d] \in [etape: {"profil"}, lu: Usager]
         /\ demandes[d].etape = "libre" => demandes[d] = Libre
<1>1. demandes[d] \in Demande
  BY DEF AccesTypes
<1> QED
  BY <1>1 DEF Demande, Libre

\* A request that moves alone, and what it leaves in place.
LEMMA DemandeSeule ==
  ASSUME AccesInv, NEW d \in Demandes, NEW x \in Demande,
         demandes' = [demandes EXCEPT ![d] = x],
         UNCHANGED <<codes, jetons, prouvees>>,
         x.etape \in {"choisi", "accepte", "revocation"} => x.code \in DOMAIN codes,
         x.etape = "accepte" => codes[x.code].utilise,
         x.etape = "profil" => AdresseJuste(x.lu),
         x.etape = "rotation" => x.jeton \in DOMAIN jetons
  PROVE  demandes' \in [Demandes -> Demande] /\ \A e \in Demandes : DemandeJuste(e)'
<1>1. demandes' \in [Demandes -> Demande] /\ demandes'[d] = x /\ \A e \in Demandes \ {d} : demandes'[e] = demandes[e]
  BY DEF AccesInv, AccesTypes
<1>2. DemandeJuste(d)'
  BY <1>1 DEF DemandeJuste, AdresseJuste
<1>3. ASSUME NEW e \in Demandes, e # d PROVE DemandeJuste(e)'
  BY <1>1, <1>3 DEF AccesInv, DemandeJuste, AdresseJuste
<1> QED
  BY <1>1, <1>2, <1>3

\* Codes asked for and sent

LEMMA GenererConserve ==
  ASSUME AccesInv, NEW type \in TypeUsageOTP, NEW a \in Adresses, Generer(type, a, a),
         type = "inscription" => a = Premiere
  PROVE  AccesInv'
<1>1. PICK c \in CodeOTP : /\ c.type = type /\ c.valeur = a /\ c.pour = a /\ c.essais = 0
                           /\ ~c.utilise /\ codes' = Append(codes, c)
  <2>1. Nouveau(type, a, a) \in CodeOTP
    BY AccesOk DEF Nouveau, CodeOTP
  <2> QED
    BY <2>1 DEF Generer, Nouveau
<1>2. /\ Len(codes) < CodesMax /\ UNCHANGED <<usager, lus, demandes, jetons, essayes, acceptes, prouvees, remplace>>
      /\ courriels' = courriels \cup {Len(codes) + 1}
  BY DEF Generer, histoires
<1>3. codes \in Seq(CodeOTP) /\ Len(codes) \in Nat /\ DOMAIN codes = 1..Len(codes)
  BY DEF AccesInv, AccesTypes
<1>4. /\ codes' \in Seq(CodeOTP) /\ Len(codes') = Len(codes) + 1 /\ DOMAIN codes' = 1..(Len(codes) + 1)
      /\ codes'[Len(codes) + 1] = c /\ \A i \in 1..Len(codes) : codes'[i] = codes[i]
  BY <1>1, <1>3
<1>5. AccesTypes'
  BY <1>2, <1>3, <1>4 DEF AccesInv, AccesTypes
<1>6. CodesJustes'
  <2>1. ASSUME NEW i \in DOMAIN codes' PROVE CodeTenu(i)'
    <3>1. CASE i \in 1..Len(codes)
      BY <1>2, <1>3, <1>4, <3>1 DEF AccesInv, CodesJustes, CodeTenu
    <3>2. CASE i = Len(codes) + 1
      <4>1. essayes[i] = 0 /\ acceptes[i] = 0
        BY <1>2, <1>3, <3>2, AccesOk DEF AccesInv, CodesJustes
      <4> QED
        BY <1>1, <1>2, <1>4, <3>2, <4>1 DEF CodeTenu
    <3> QED
      BY <1>3, <1>4, <3>1, <3>2
  <2> QED
    BY <1>2, <1>3, <1>4, <2>1, AccesOk DEF AccesInv, CodesJustes
<1>7. ASSUME NEW d \in Demandes PROVE DemandeJuste(d)'
  BY <1>2, <1>3, <1>4 DEF AccesInv, DemandeJuste, AdresseJuste
<1> QED
  BY <1>2, <1>5, <1>6, <1>7 DEF AccesInv, AdresseJuste, JetonsJustes

LEMMA EnvoiConserve ==
  ASSUME AccesInv, NEW i \in DOMAIN codes, EnvoyerCode(i) \/ AbandonnerEnvoi(i) \/ ExpirerCode(i)
  PROVE  AccesInv'
<1>1. UNCHANGED <<usager, demandes, jetons, essayes, acceptes, prouvees, remplace>>
  BY DEF EnvoyerCode, AbandonnerEnvoi, ExpirerCode, histoires
<1>2. codes \in Seq(CodeOTP) /\ DOMAIN codes = 1..Len(codes) /\ courriels \cup lus \subseteq DOMAIN codes
  BY DEF AccesInv, AccesTypes
<1>3. /\ codes' \in Seq(CodeOTP) /\ Len(codes') = Len(codes) /\ DOMAIN codes' = DOMAIN codes
      /\ courriels' \cup lus' \subseteq DOMAIN codes
      /\ \A j \in DOMAIN codes : /\ codes'[j].type = codes[j].type /\ codes'[j].pour = codes[j].pour
                                 /\ codes'[j].valeur = codes[j].valeur /\ codes'[j].essais = codes[j].essais
                                 /\ codes'[j].utilise = codes[j].utilise
  <2>1. CASE EnvoyerCode(i) \/ AbandonnerEnvoi(i)
    BY <1>2, <2>1 DEF EnvoyerCode, AbandonnerEnvoi
  <2>2. CASE ExpirerCode(i)
    <3>1. PICK c \in CodeOTP : c = codes[i]
      BY <1>2
    <3>6. PICK n : n = [c EXCEPT !.expire = TRUE]
      OBVIOUS
    <3>2. /\ n \in CodeOTP /\ n.type = c.type /\ n.pour = c.pour /\ n.valeur = c.valeur
          /\ n.essais = c.essais /\ n.utilise = c.utilise
      BY <3>6 DEF CodeOTP
    <3>3. codes' = [codes EXCEPT ![i] = n]
      BY <1>2, <2>2, <3>1, <3>6 DEF ExpirerCode
    <3>4. /\ codes' \in Seq(CodeOTP) /\ Len(codes') = Len(codes) /\ DOMAIN codes' = DOMAIN codes
          /\ codes'[i] = n /\ \A j \in DOMAIN codes \ {i} : codes'[j] = codes[j]
      BY <1>2, <3>2, <3>3
    <3>5. courriels' \cup lus' \subseteq DOMAIN codes
      BY <1>2, <2>2 DEF ExpirerCode
    <3> QED
      BY <3>1, <3>2, <3>4, <3>5
  <2> QED
    BY <2>1, <2>2
<1>4. AccesTypes'
  BY <1>1, <1>3 DEF AccesInv, AccesTypes
<1>5. CodesJustes'
  BY <1>1, <1>3 DEF AccesInv, CodesJustes, CodeTenu
<1>6. ASSUME NEW d \in Demandes PROVE DemandeJuste(d)'
  BY <1>1, <1>3 DEF AccesInv, DemandeJuste, AdresseJuste
<1> QED
  BY <1>1, <1>4, <1>5, <1>6 DEF AccesInv, AdresseJuste, JetonsJustes

-----------------------------------------------------------------------------
\* Codes typed

\* The last code of a type is one of the table.
LEMMA DernierExiste ==
  ASSUME AccesTypes, NEW type, EnAttente(type) # {}
  PROVE  DernierCode(type) \in DOMAIN codes
<1>1. PICK n \in Nat : n = Len(codes) /\ DOMAIN codes = 1..n
  BY DEF AccesTypes
<1>2. EnAttente(type) \subseteq 1..n
  BY <1>1 DEF EnAttente
<1> DEFINE T == {k \in Nat : \E i \in EnAttente(type) : i + k = n}
<1>3. T \subseteq Nat /\ T # {}
  <2>1. PICK i \in EnAttente(type) : TRUE
    OBVIOUS
  <2>2. n - i \in T
    BY <1>2, <2>1
  <2> QED
    BY <2>2
<1>4. PICK k \in T : \A m \in T : k <= m
  <2> HIDE DEF T
  <2> QED
    BY <1>3, PlusPetit
<1>5. PICK i \in EnAttente(type) : i + k = n
  BY <1>4
<1>6. ASSUME NEW j \in EnAttente(type) PROVE j <= i
  <2>1. n - j \in T
    BY <1>2
  <2>2. k <= n - j
    BY <1>4, <2>1
  <2> QED
    BY <1>2, <1>4, <1>5, <2>2
<1>7. DernierCode(type) \in EnAttente(type)
  BY <1>5, <1>6 DEF DernierCode
<1> QED
  BY <1>1, <1>2, <1>7

LEMMA ChoisirConserve ==
  ASSUME AccesInv, NEW d \in Demandes, NEW type \in TypeUsageOTP, ChoisirCode(d, type)
  PROVE  AccesInv'
<1>1. UNCHANGED <<usager, codes, courriels, lus, jetons, essayes, acceptes, prouvees, remplace>>
  BY DEF ChoisirCode, histoires
<1>2. PICK i \in DOMAIN codes : i = DernierCode(type)
  BY DernierExiste DEF ChoisirCode, AccesInv
<1>3. PICK x : x = [etape |-> "choisi", code |-> i, ligne |-> codes[i]]
  OBVIOUS
<1>4. demandes' = [demandes EXCEPT ![d] = x]
  BY <1>2, <1>3 DEF ChoisirCode
<1>5. i \in 1..CodesMax /\ codes[i] \in CodeOTP
  BY AccesOk DEF AccesInv, AccesTypes, CodesJustes
<1>6. x \in Demande /\ x.etape = "choisi" /\ x.code = i
  BY <1>3, <1>5 DEF Demande
<1>7. demandes' \in [Demandes -> Demande] /\ \A e \in Demandes : DemandeJuste(e)'
  BY <1>1, <1>4, <1>6, DemandeSeule
<1> QED
  BY <1>1, <1>7 DEF AccesInv, AccesTypes, AdresseJuste, CodesJustes, CodeTenu, JetonsJustes

\* A code that is compared: the try is counted, and a right one is used.
LEMMA VerifierConserve ==
  ASSUME AccesInv, NEW d \in Demandes, NEW juste \in BOOLEAN, VerifierCode(d, juste)
  PROVE  AccesInv'
<1>1. UNCHANGED <<usager, courriels, lus, jetons, remplace>>
  BY DEF VerifierCode
<1>2. PICK r \in [etape: {"choisi", "accepte", "revocation"}, code: 1..CodesMax, ligne: CodeOTP] :
        r = demandes[d] /\ r.etape = "choisi"
  BY Etapes DEF VerifierCode, AccesInv
<1>3. PICK i \in DOMAIN codes : i = r.code /\ i \in 1..CodesMax
  BY <1>2 DEF AccesInv, DemandeJuste
<1>4. codes \in Seq(CodeOTP) /\ DOMAIN codes = 1..Len(codes)
  BY DEF AccesInv, AccesTypes
<1>5. PICK c \in CodeOTP : c = codes[i]
  BY <1>4
<1>6. /\ Libre \in Demande /\ Libre.etape = "libre"
      /\ [r EXCEPT !.etape = "accepte"] \in Demande
      /\ [r EXCEPT !.etape = "accepte"].etape = "accepte" /\ [r EXCEPT !.etape = "accepte"].code = i
  BY <1>3 DEF Demande, Libre
<1>7. CASE ~Verifiable(c)
  <2>1. UNCHANGED <<codes, essayes, acceptes, prouvees>> /\ demandes' = [demandes EXCEPT ![d] = Libre]
    BY <1>2, <1>3, <1>5, <1>7 DEF VerifierCode, LigneVerrouillee
  <2>2. demandes' \in [Demandes -> Demande] /\ \A e \in Demandes : DemandeJuste(e)'
    BY <1>1, <1>6, <2>1, DemandeSeule
  <2> QED
    BY <1>1, <2>1, <2>2 DEF AccesInv, AccesTypes, AdresseJuste, CodesJustes, CodeTenu, JetonsJustes
<1>8. CASE Verifiable(c)
  <2>1. PICK bon \in BOOLEAN : bon = (juste /\ i \in lus)
    OBVIOUS
  <2>2. PICK n : n = [c EXCEPT !.essais = c.essais + 1, !.utilise = c.utilise \/ bon]
    OBVIOUS
  <2>3. /\ codes' = [codes EXCEPT ![i].essais = c.essais + 1, ![i].utilise = @ \/ bon]
        /\ essayes' = [essayes EXCEPT ![i] = essayes[i] + 1]
        /\ acceptes' = [acceptes EXCEPT ![i] = IF bon THEN acceptes[i] + 1 ELSE acceptes[i]]
        /\ prouvees' = IF bon THEN prouvees \cup {c.pour} ELSE prouvees
        /\ demandes' = [demandes EXCEPT ![d] = IF bon THEN [r EXCEPT !.etape = "accepte"] ELSE Libre]
    BY <1>2, <1>3, <1>5, <1>8, <2>1 DEF VerifierCode, LigneVerrouillee
  <2>4. ~c.utilise /\ c.essais < EssaisMax
    BY <1>8 DEF Verifiable
  <2>5. /\ n \in CodeOTP /\ n.type = c.type /\ n.pour = c.pour /\ n.valeur = c.valeur
        /\ n.essais = c.essais + 1 /\ n.utilise = bon
    <3>1. PICK k \in 0..EssaisMax : k = c.essais + 1
      BY <2>4, AccesOk DEF CodeOTP
    <3>2. (c.utilise \/ bon) = bon
      BY <2>4
    <3>3. n = [c EXCEPT !.essais = k, !.utilise = bon]
      BY <2>2, <3>1, <3>2
    <3> QED
      BY <3>1, <3>3 DEF CodeOTP
  <2>6. codes' = [codes EXCEPT ![i] = n]
    BY <1>4, <1>5, <2>2, <2>3
  <2>7. /\ codes' \in Seq(CodeOTP) /\ Len(codes') = Len(codes) /\ DOMAIN codes' = DOMAIN codes
        /\ codes'[i] = n /\ \A j \in DOMAIN codes \ {i} : codes'[j] = codes[j]
    BY <1>4, <2>5, <2>6
  <2>8. c.pour \in Adresses
    BY DEF CodeOTP
  <2>9. prouvees \subseteq prouvees' /\ prouvees' \subseteq Adresses /\ (bon => c.pour \in prouvees')
    BY <2>3, <2>8 DEF AccesInv, AccesTypes
  <2>10. CodesJustes'
    <3>1. /\ essayes' \in [1..CodesMax -> Nat] /\ acceptes' \in [1..CodesMax -> Nat]
          /\ essayes'[i] = essayes[i] + 1 /\ acceptes'[i] = IF bon THEN acceptes[i] + 1 ELSE acceptes[i]
          /\ \A j \in (1..CodesMax) \ {i} : essayes'[j] = essayes[j] /\ acceptes'[j] = acceptes[j]
      <4>1. essayes[i] \in Nat /\ acceptes[i] \in Nat
        BY <1>3 DEF AccesInv, CodesJustes
      <4> QED
        BY <1>3, <2>3, <4>1 DEF AccesInv, CodesJustes
    <3>2. CodeTenu(i)'
      <4>1. CodeTenu(i)
        BY DEF AccesInv, CodesJustes
      <4> QED
        BY <1>5, <2>4, <2>5, <2>7, <2>9, <3>1, <4>1 DEF CodeTenu
    <3>3. ASSUME NEW j \in DOMAIN codes, j # i PROVE CodeTenu(j)'
      <4>1. j \in 1..CodesMax
        BY <1>4, AccesOk DEF AccesInv, CodesJustes
      <4>2. CodeTenu(j)
        BY DEF AccesInv, CodesJustes
      <4> QED
        BY <2>7, <2>9, <3>1, <3>3, <4>1, <4>2 DEF CodeTenu
    <3>4. i <= Len(codes)
      BY <1>4
    <3>5. \A j \in 1..CodesMax : j > Len(codes) => essayes'[j] = 0 /\ acceptes'[j] = 0
      BY <3>1, <3>4 DEF AccesInv, CodesJustes
    <3> QED
      BY <2>7, <3>1, <3>2, <3>3, <3>5 DEF AccesInv, CodesJustes
  <2>11. ASSUME NEW u, AdresseJuste(u) PROVE AdresseJuste(u)'
    BY <2>9, <2>11 DEF AdresseJuste
  <2>12. demandes' \in [Demandes -> Demande] /\ \A e \in Demandes : DemandeJuste(e)'
    <3>1. PICK x \in Demande : x = IF bon THEN [r EXCEPT !.etape = "accepte"] ELSE Libre
      BY <1>6
    <3>2. /\ demandes' \in [Demandes -> Demande] /\ demandes'[d] = x
          /\ \A e \in Demandes \ {d} : demandes'[e] = demandes[e]
      BY <2>3, <3>1 DEF AccesInv, AccesTypes
    <3>3. DemandeJuste(d)'
      BY <1>6, <2>5, <2>7, <3>1, <3>2 DEF DemandeJuste
    <3>4. ASSUME NEW e \in Demandes, e # d PROVE DemandeJuste(e)'
      <4>1. \A j \in DOMAIN codes : codes[j].utilise => codes'[j].utilise
        BY <1>5, <2>4, <2>7
      <4>2. DemandeJuste(e)
        BY DEF AccesInv
      <4>3. AdresseJuste(demandes[e].lu) => AdresseJuste(demandes[e].lu)'
        BY <1>1, <2>9, <3>2, <3>4 DEF AdresseJuste
      <4> QED
        BY <1>1, <2>7, <3>2, <3>4, <4>1, <4>2, <4>3 DEF DemandeJuste
    <3> QED
      BY <3>2, <3>3, <3>4
  <2> QED
    BY <1>1, <2>7, <2>9, <2>10, <2>12 DEF AccesInv, AccesTypes, AdresseJuste, JetonsJustes
<1> QED
  BY <1>7, <1>8

\* What an accepted code allows

LEMMA AppliquerConserve ==
  ASSUME AccesInv, NEW d \in Demandes, AppliquerCode(d)
  PROVE  AccesInv'
<1>1. UNCHANGED <<codes, courriels, lus, jetons, essayes, acceptes, prouvees, remplace>>
  BY DEF AppliquerCode, histoires
<1>2. PICK r \in [etape: {"choisi", "accepte", "revocation"}, code: 1..CodesMax, ligne: CodeOTP] :
        r = demandes[d] /\ r.etape = "accepte"
  BY Etapes DEF AppliquerCode, AccesInv
<1>3. PICK i \in DOMAIN codes : i = r.code
  BY <1>2 DEF AccesInv, DemandeJuste
<1>4. PICK c \in CodeOTP : c = codes[i]
  BY DEF AccesInv, AccesTypes
<1>5. c.utilise
  BY <1>2, <1>3, <1>4 DEF AccesInv, DemandeJuste
<1>6. CodeTenu(i) /\ c.pour \in prouvees
  BY <1>4, <1>5 DEF AccesInv, CodesJustes, CodeTenu
<1>7. c.type \in {"inscription", "mdp_oublie", "changement_email"} /\ c.valeur \in Adresses
  BY DEF CodeOTP, TypeUsageOTP
<1>8. usager' = Effet(c) /\ (usager.passe < PassesMax \/ c.type # "mdp_oublie")
  BY <1>2, <1>3, <1>4 DEF AppliquerCode, LigneVerrouillee
<1>9. usager' \in Usager /\ AdresseJuste(usager)'
  <2>1. usager \in Usager /\ AdresseJuste(usager)
    BY DEF AccesInv, AccesTypes
  <2>2. CASE c.type = "inscription"
    <3>1. usager' = [usager EXCEPT !.verifie = TRUE]
      BY <1>8, <2>2 DEF Effet
    <3>2. c.pour = Premiere
      BY <1>4, <1>6, <2>2 DEF CodeTenu
    <3> QED
      BY <1>1, <1>6, <2>1, <3>1, <3>2 DEF Usager, AdresseJuste
  <2>3. CASE c.type = "changement_email"
    <3>1. usager' = [usager EXCEPT !.verifie = TRUE, !.adresse = c.valeur]
      BY <1>8, <2>3 DEF Effet
    <3>2. c.valeur \in prouvees
      BY <1>4, <1>6 DEF CodeTenu
    <3> QED
      BY <1>1, <1>7, <2>1, <3>1, <3>2 DEF Usager, AdresseJuste
  <2>4. CASE c.type = "mdp_oublie"
    <3>1. usager' = [usager EXCEPT !.passe = usager.passe + 1]
      BY <1>8, <2>4 DEF Effet
    <3>2. usager.passe + 1 \in 1..PassesMax
      BY <1>8, <2>1, <2>4, AccesOk DEF Usager
    <3> QED
      BY <1>1, <2>1, <3>1, <3>2 DEF Usager, AdresseJuste
  <2> QED
    BY <1>7, <2>2, <2>3, <2>4
<1>10. PICK x \in Demande : /\ x = IF c.type = "mdp_oublie" THEN [r EXCEPT !.etape = "revocation"] ELSE Libre
                            /\ x.etape = "libre" \/ (x.etape = "revocation" /\ x.code = i)
  <2>1. Libre \in Demande /\ Libre.etape = "libre"
    BY DEF Demande, Libre
  <2>2. /\ [r EXCEPT !.etape = "revocation"] \in Demande
        /\ [r EXCEPT !.etape = "revocation"].etape = "revocation" /\ [r EXCEPT !.etape = "revocation"].code = i
    BY <1>3 DEF Demande
  <2>3. PICK x : x = IF c.type = "mdp_oublie" THEN [r EXCEPT !.etape = "revocation"] ELSE Libre
    OBVIOUS
  <2>4. x \in Demande /\ (x.etape = "libre" \/ (x.etape = "revocation" /\ x.code = i))
    BY <2>1, <2>2, <2>3
  <2> QED
    BY <2>3, <2>4
<1>11. demandes' = [demandes EXCEPT ![d] = x]
  BY <1>2, <1>3, <1>4, <1>10 DEF AppliquerCode, LigneVerrouillee
<1>12. demandes' \in [Demandes -> Demande] /\ \A e \in Demandes : DemandeJuste(e)'
  BY <1>1, <1>10, <1>11, DemandeSeule
<1> QED
  BY <1>1, <1>9, <1>12 DEF AccesInv, AccesTypes, CodesJustes, CodeTenu, JetonsJustes

\* A request that ends, or begins, and writes neither a code nor a token.
LEMMA DemandeConserve ==
  ASSUME AccesInv, NEW d \in Demandes,
         \/ AbandonnerDemande(d) \/ Connecter(d) \/ LireUsager(d)
         \/ \E n \in DOMAIN jetons : Rafraichir(d, n)
  PROVE  AccesInv'
<1>1. UNCHANGED <<usager, codes, courriels, lus, jetons, essayes, acceptes, prouvees, remplace>>
  BY DEF AbandonnerDemande, Connecter, LireUsager, Rafraichir, histoires
<1>2. usager \in Usager /\ AdresseJuste(usager)
  BY DEF AccesInv, AccesTypes
<1>3. PICK x \in Demande : /\ demandes' = [demandes EXCEPT ![d] = x]
                           /\ \/ x.etape = "libre" \/ x.etape = "connexion"
                              \/ x.etape = "profil" /\ x.lu = usager
                              \/ x.etape = "rotation" /\ x.jeton \in DOMAIN jetons
  <2>1. CASE AbandonnerDemande(d)
    <3>1. Libre \in Demande /\ Libre.etape = "libre"
      BY DEF Demande, Libre
    <3> QED
      BY <2>1, <3>1 DEF AbandonnerDemande
  <2>2. CASE Connecter(d)
    <3>1. [etape |-> "connexion", passe |-> usager.passe] \in Demande
      BY <1>2 DEF Demande, Usager
    <3> QED
      BY <2>2, <3>1 DEF Connecter
  <2>3. CASE LireUsager(d)
    <3>1. [etape |-> "profil", lu |-> usager] \in Demande
      BY <1>2 DEF Demande
    <3> QED
      BY <2>3, <3>1 DEF LireUsager
  <2>4. ASSUME NEW n \in DOMAIN jetons, Rafraichir(d, n)
        PROVE  \E x \in Demande : /\ demandes' = [demandes EXCEPT ![d] = x]
                                  /\ x.etape = "rotation" /\ x.jeton \in DOMAIN jetons
    <3>1. n \in 1..JetonsMax
      BY AccesOk DEF AccesInv, AccesTypes, JetonsJustes
    <3>2. [etape |-> "rotation", jeton |-> n] \in Demande
      BY <3>1 DEF Demande
    <3> QED
      BY <2>4, <3>2 DEF Rafraichir
  <2>5. CASE \E n \in DOMAIN jetons : Rafraichir(d, n)
    BY <2>4, <2>5
  <2> QED
    BY <2>1, <2>2, <2>3, <2>5
<1>4. demandes' \in [Demandes -> Demande] /\ \A e \in Demandes : DemandeJuste(e)'
  BY <1>1, <1>2, <1>3, DemandeSeule
<1> QED
  BY <1>1, <1>4 DEF AccesInv, AccesTypes, AdresseJuste, CodesJustes, CodeTenu, JetonsJustes

-----------------------------------------------------------------------------
\* Sessions

LEMMA SessionConserve ==
  ASSUME AccesInv, NEW d \in Demandes, OuvrirSession(d) \/ Tourner(d) \/ RevoquerJetons(d)
  PROVE  AccesInv'
<1>1. /\ UNCHANGED <<usager, codes, courriels, lus, essayes, acceptes, prouvees, remplace>>
      /\ demandes' = [demandes EXCEPT ![d] = Libre]
  BY DEF OuvrirSession, Emettre, Tourner, RevoquerJetons, histoires
<1>2. jetons \in Seq(Jeton) /\ DOMAIN jetons = 1..Len(jetons) /\ Len(jetons) \in Nat
  BY DEF AccesInv, AccesTypes
<1>3. /\ jetons' \in Seq(Jeton) /\ Len(jetons') <= JetonsMax
      /\ DOMAIN jetons \subseteq DOMAIN jetons'
      /\ \A n \in DOMAIN jetons' : jetons'[n].passe = jetons'[n].connu
  <2>1. CASE OuvrirSession(d)
    <3>1. PICK p \in 1..PassesMax : p = demandes[d].passe
      BY <2>1, Etapes DEF OuvrirSession, AccesInv
    <3>2. PICK j \in Jeton : j = [passe |-> p, connu |-> p, noir |-> FALSE]
      BY DEF Jeton
    <3>3. jetons' = Append(jetons, j) /\ Len(jetons) < JetonsMax /\ j.passe = j.connu
      BY <2>1, <3>1, <3>2 DEF OuvrirSession, Emettre
    <3>4. /\ jetons' \in Seq(Jeton) /\ Len(jetons') = Len(jetons) + 1 /\ DOMAIN jetons' = 1..(Len(jetons) + 1)
          /\ jetons'[Len(jetons) + 1] = j /\ \A n \in 1..Len(jetons) : jetons'[n] = jetons[n]
      BY <1>2, <3>3
    <3> QED
      BY <1>2, <3>3, <3>4, AccesOk DEF AccesInv, JetonsJustes
  <2>2. CASE Tourner(d)
    <3>1. PICK m \in DOMAIN jetons : m = demandes[d].jeton
      BY <2>2, Etapes DEF Tourner, AccesInv, DemandeJuste
    <3>2. PICK i \in Jeton : i = jetons[m]
      BY <1>2
    <3>3. PICK k : k = [i EXCEPT !.noir = TRUE]
      OBVIOUS
    <3>4. k \in Jeton /\ k.passe = i.passe /\ k.connu = i.connu
      BY <3>3 DEF Jeton
    <3>5. PICK l \in Jeton : l = [passe |-> i.passe, connu |-> i.connu, noir |-> FALSE]
      BY DEF Jeton
    <3>6. PICK s : s = [jetons EXCEPT ![m] = k]
      OBVIOUS
    <3>7. /\ s \in Seq(Jeton) /\ Len(s) = Len(jetons) /\ s[m] = k
          /\ \A n \in DOMAIN jetons \ {m} : s[n] = jetons[n]
      BY <1>2, <3>4, <3>6
    <3>8. jetons' = Append(s, l) /\ Len(jetons) < JetonsMax
      BY <1>2, <2>2, <3>1, <3>2, <3>3, <3>5, <3>6 DEF Tourner, Revendication
    <3>9. /\ jetons' \in Seq(Jeton) /\ Len(jetons') = Len(jetons) + 1 /\ DOMAIN jetons' = 1..(Len(jetons) + 1)
          /\ jetons'[Len(jetons) + 1] = l /\ \A n \in 1..Len(jetons) : jetons'[n] = s[n]
      BY <1>2, <3>7, <3>8
    <3>10. i.passe = i.connu
      BY <3>2 DEF AccesInv, JetonsJustes
    <3>11. \A n \in 1..Len(jetons) : jetons'[n].passe = jetons'[n].connu
      BY <1>2, <3>4, <3>7, <3>9, <3>10 DEF AccesInv, JetonsJustes
    <3>12. l.passe = l.connu
      BY <3>5, <3>10
    <3> QED
      BY <1>2, <3>8, <3>9, <3>11, <3>12, AccesOk
  <2>3. CASE RevoquerJetons(d)
    <3>1. \A n \in DOMAIN jetons : /\ [jetons[n] EXCEPT !.noir = TRUE] \in Jeton
                                   /\ [jetons[n] EXCEPT !.noir = TRUE].passe = jetons[n].passe
                                   /\ [jetons[n] EXCEPT !.noir = TRUE].connu = jetons[n].connu
      <4> TAKE n \in DOMAIN jetons
      <4>1. PICK i \in Jeton : i = jetons[n]
        BY <1>2
      <4>2. [i EXCEPT !.noir = TRUE] \in Jeton /\ [i EXCEPT !.noir = TRUE].passe = i.passe /\ [i EXCEPT !.noir = TRUE].connu = i.connu
        BY DEF Jeton
      <4> QED
        BY <4>1, <4>2
    <3>2. jetons' = [n \in 1..Len(jetons) |-> [jetons[n] EXCEPT !.noir = TRUE]]
      BY <1>2, <2>3 DEF RevoquerJetons
    <3>3. jetons' \in Seq(Jeton) /\ Len(jetons') = Len(jetons) /\ DOMAIN jetons' = DOMAIN jetons
      BY <1>2, <3>1, <3>2
    <3> QED
      BY <1>2, <3>1, <3>2, <3>3 DEF AccesInv, JetonsJustes
  <2> QED
    BY <2>1, <2>2, <2>3
<1>4. /\ demandes' \in [Demandes -> Demande] /\ demandes'[d] = Libre /\ Libre.etape = "libre"
      /\ \A e \in Demandes \ {d} : demandes'[e] = demandes[e]
  BY <1>1 DEF AccesInv, AccesTypes, Demande, Libre
<1>5. ASSUME NEW e \in Demandes PROVE DemandeJuste(e)'
  <2>1. CASE e = d
    BY <1>4, <2>1 DEF DemandeJuste
  <2>2. CASE e # d
    BY <1>1, <1>3, <1>4, <2>2 DEF AccesInv, DemandeJuste, AdresseJuste
  <2> QED
    BY <2>1, <2>2
<1> QED
  BY <1>1, <1>3, <1>4, <1>5 DEF AccesInv, AccesTypes, AdresseJuste, CodesJustes, CodeTenu, JetonsJustes

LEMMA DeconnecterConserve ==
  ASSUME AccesInv, NEW n \in DOMAIN jetons, Deconnecter(n)
  PROVE  AccesInv'
<1>1. UNCHANGED <<usager, codes, courriels, lus, demandes, essayes, acceptes, prouvees, remplace>>
  BY DEF Deconnecter, histoires
<1>2. jetons \in Seq(Jeton) /\ DOMAIN jetons = 1..Len(jetons)
  BY DEF AccesInv, AccesTypes
<1>3. PICK i \in Jeton : i = jetons[n]
  BY <1>2
<1>4. PICK k : k = [i EXCEPT !.noir = TRUE]
  OBVIOUS
<1>5. k \in Jeton /\ k.passe = i.passe /\ k.connu = i.connu
  BY <1>4 DEF Jeton
<1>6. jetons' = [jetons EXCEPT ![n] = k]
  BY <1>2, <1>3, <1>4 DEF Deconnecter
<1>7. /\ jetons' \in Seq(Jeton) /\ Len(jetons') = Len(jetons) /\ DOMAIN jetons' = DOMAIN jetons
      /\ jetons'[n] = k /\ \A m \in DOMAIN jetons \ {n} : jetons'[m] = jetons[m]
  BY <1>2, <1>5, <1>6
<1>8. JetonsJustes'
  BY <1>3, <1>5, <1>7 DEF AccesInv, JetonsJustes
<1> QED
  BY <1>1, <1>7, <1>8 DEF AccesInv, AccesTypes, AdresseJuste, CodesJustes, CodeTenu, DemandeJuste

\* A PATCH on the profile writes back a row that was read: a proved one.
LEMMA ProfilEcrit ==
  ASSUME AccesInv, NEW d \in Demandes, EnregistrerUsager(d)
  PROVE  AccesInv'
<1>1. UNCHANGED <<codes, courriels, lus, jetons, essayes, acceptes, prouvees>>
  BY DEF EnregistrerUsager
<1>2. usager' \in Usager /\ AdresseJuste(usager)'
  BY <1>1, Etapes DEF EnregistrerUsager, AccesInv, DemandeJuste, AdresseJuste
<1>3. Libre \in Demande /\ Libre.etape = "libre"
  BY DEF Demande, Libre
<1>4. demandes' = [demandes EXCEPT ![d] = Libre]
  BY DEF EnregistrerUsager
<1>5. demandes' \in [Demandes -> Demande] /\ \A e \in Demandes : DemandeJuste(e)'
  BY <1>1, <1>3, <1>4, DemandeSeule
<1> QED
  BY <1>1, <1>2, <1>5 DEF AccesInv, AccesTypes, CodesJustes, CodeTenu, JetonsJustes

\* Codes, addresses, tokens and requests in flight agree (apps/utilisateurs), for
\* any number of addresses, codes, tokens and requests at once.
THEOREM Invariance_Acces == AccesSpec => []AccesInv
<1>1. AccesInit => AccesInv
  <2> SUFFICES ASSUME AccesInit PROVE AccesInv
    OBVIOUS
  <2>1. PICK c \in CodeOTP : /\ c = Nouveau("inscription", Premiere, Premiere) /\ c.type = "inscription"
                             /\ c.pour = Premiere /\ c.valeur = Premiere /\ c.essais = 0 /\ ~c.utilise
    <3>1. Nouveau("inscription", Premiere, Premiere) \in CodeOTP
      BY AccesOk DEF Nouveau, CodeOTP, TypeUsageOTP
    <3> QED
      BY <3>1 DEF Nouveau
  <2>2. codes = <<c>> /\ codes \in Seq(CodeOTP) /\ Len(codes) = 1 /\ DOMAIN codes = {1} /\ codes[1] = c
    BY <2>1 DEF AccesInit
  <2>3. jetons \in Seq(Jeton) /\ Len(jetons) = 0 /\ DOMAIN jetons = {}
    BY DEF AccesInit
  <2>4. usager \in Usager /\ AdresseJuste(usager)
    BY AccesOk DEF AccesInit, Usager, AdresseJuste
  <2>5. demandes \in [Demandes -> Demande] /\ \A d \in Demandes : demandes[d].etape = "libre"
    BY DEF AccesInit, Demande, Libre
  <2>6. AccesTypes
    BY <2>2, <2>3, <2>4, <2>5 DEF AccesTypes, AccesInit
  <2>7. CodesJustes
    BY <2>1, <2>2, AccesOk DEF CodesJustes, CodeTenu, AccesInit
  <2>8. JetonsJustes /\ \A d \in Demandes : DemandeJuste(d)
    BY <2>3, <2>5, AccesOk DEF JetonsJustes, DemandeJuste
  <2> QED
    BY <2>4, <2>6, <2>7, <2>8 DEF AccesInv
<1>2. AccesInv /\ [AccesNext]_accesVars => AccesInv'
  <2> SUFFICES ASSUME AccesInv, [AccesNext]_accesVars PROVE AccesInv'
    OBVIOUS
  <2>1. CASE UNCHANGED accesVars
    BY <2>1 DEF accesVars, AccesInv, AccesTypes, AdresseJuste, CodesJustes, CodeTenu, JetonsJustes, DemandeJuste
  <2>2. CASE RenvoyerCodeInscription
    <3>1. usager.adresse = Premiere
      BY <2>2 DEF RenvoyerCodeInscription, AccesInv, AdresseJuste
    <3>2. Generer("inscription", Premiere, Premiere) /\ "inscription" \in TypeUsageOTP
      BY <2>2, <3>1 DEF RenvoyerCodeInscription, TypeUsageOTP
    <3> QED
      BY <3>2, GenererConserve, AccesOk
  <2>3. ASSUME NEW a \in Adresses, DemanderChangementEmail(a) PROVE AccesInv'
    <3>1. Generer("changement_email", a, a) /\ "changement_email" \in TypeUsageOTP
      BY <2>3 DEF DemanderChangementEmail, Destinataire, TypeUsageOTP
    <3> QED
      BY <3>1, GenererConserve
  <2>4. CASE DemanderMotDePasseOublie
    <3>1. PICK a \in Adresses : a = usager.adresse
      BY DEF AccesInv, AccesTypes, Usager
    <3>2. Generer("mdp_oublie", a, a) /\ "mdp_oublie" \in TypeUsageOTP
      BY <2>4, <3>1 DEF DemanderMotDePasseOublie, TypeUsageOTP
    <3> QED
      BY <3>2, GenererConserve
  <2>5. CASE \E i \in DOMAIN codes : EnvoyerCode(i) \/ AbandonnerEnvoi(i) \/ ExpirerCode(i)
    BY <2>5, EnvoiConserve
  <2>6. CASE \E n \in DOMAIN jetons : Deconnecter(n)
    BY <2>6, DeconnecterConserve
  <2>7. ASSUME NEW d \in Demandes,
               \/ \E type \in TypeUsageOTP : ChoisirCode(d, type)
               \/ \E juste \in BOOLEAN : VerifierCode(d, juste)
        PROVE  AccesInv'
    BY <2>7, ChoisirConserve, VerifierConserve
  <2>8. ASSUME NEW d \in Demandes,
               \/ AppliquerCode(d) \/ RevoquerJetons(d) \/ AbandonnerDemande(d) \/ Connecter(d)
               \/ OuvrirSession(d) \/ Tourner(d) \/ LireUsager(d) \/ EnregistrerUsager(d)
               \/ \E n \in DOMAIN jetons : Rafraichir(d, n)
        PROVE  AccesInv'
    BY <2>8, AppliquerConserve, DemandeConserve, SessionConserve, ProfilEcrit
  <2> QED
    BY <2>1, <2>2, <2>3, <2>4, <2>5, <2>6, <2>7, <2>8 DEF AccesNext
<1> QED
  BY <1>1, <1>2, PTL DEF AccesSpec

\* An account is only entered by who was given its code or its password: CodeOTP.verifier
\* under its lock, the claims a rotation keeps, and CHECK_REVOKE_TOKEN.
THEOREM Acces_Tenu == AccesSpec => []AccesTenu
<1>1. AccesInv => AccesTenu
  <2> SUFFICES ASSUME AccesInv PROVE AccesTenu
    OBVIOUS
  <2>1. ASSUME NEW i \in DOMAIN codes PROVE essayes[i] <= EssaisMax /\ acceptes[i] <= 1
    <3>1. PICK c \in CodeOTP : c = codes[i]
      BY DEF AccesInv, AccesTypes
    <3>2. c.essais \in 0..EssaisMax
      BY DEF CodeOTP
    <3>3. essayes[i] = c.essais /\ acceptes[i] \in {0, 1}
      BY <3>1 DEF AccesInv, CodesJustes, CodeTenu
    <3> QED
      BY <3>2, <3>3, AccesOk
  <2>2. SessionsFermees
    BY DEF AccesInv, JetonsJustes, SessionsFermees, Accepte
  <2> QED
    BY <2>1, <2>2 DEF AccesInv, AdresseJuste, AccesTenu, AdresseProuvee
<1> QED
  BY <1>1, Invariance_Acces, PTL

-----------------------------------------------------------------------------
\* Tabs of a portal that share the store: a tab is on the network only while it
\* holds the lock, so the token it presented stays the only one being rotated; what
\* a session that ended leaves behind never finds its token in the store again.

EnReseau(o) == travail[o].etape \in {"appel", "refus", "panne", "reponse"}

\* The token in the store was rotated by nobody, or by a request whose answer is
\* lost or still on its way to be stored.
MagasinJuste ==
  /\ \A o, p \in OngletsOuverts : stocke[o] = stocke[p]
  /\ \A o \in OngletsOuverts : stocke[o] # 0 =>
       /\ serveurJetons[stocke[o]] # "absent"
       /\ serveurJetons[stocke[o]] = "tourne" =>
            \/ stocke[o] \in perdus
            \/ \E p \in OngletsOuverts : /\ travail[p].etape = "reponse" /\ ~travail[p].perime
                                         /\ travail[p].jeton = stocke[o]

\* What the tab on the network knows of the token it presents and of the answer.
Presentee(o) ==
  /\ travail[o].etape = "appel" => travail[o].jeton # 0
  /\ travail[o].etape = "reponse" => travail[o].neuf # 0
AppelJuste(o) ==
  travail[o].etape = "appel" =>
    /\ serveurJetons[travail[o].jeton] # "absent"
    /\ travail[o].perime => stocke[o] # travail[o].jeton
    /\ serveurJetons[travail[o].jeton] = "tourne" => travail[o].jeton \in perdus
ReponseJuste(o) ==
  travail[o].etape = "reponse" =>
    /\ travail[o].jeton # 0 /\ serveurJetons[travail[o].jeton] = "tourne"
    /\ serveurJetons[travail[o].neuf] \in {"actif", "revoque"}

\* A message never brings back a token the store has left.
AnnonceJuste(o, m) ==
  m.type = "jetons" =>
    /\ serveurJetons[m.refresh] # "absent"
    /\ m.precedent # 0 => serveurJetons[m.precedent] = "tourne" /\ stocke[o] # m.precedent
AnnoncesJustes ==
  \A o \in OngletsOuverts : \A i \in 1..Len(canal[o]) : AnnonceJuste(o, canal[o][i])

SessionJuste ==
  /\ MagasinJuste /\ AnnoncesJustes
  /\ \A o \in OngletsOuverts : /\ EnReseau(o) => verrouOnglets = o
                               /\ AppelJuste(o) /\ ReponseJuste(o)
  /\ refuses \subseteq perdus

OngletsInv ==
  OngletsTypes /\ (\A o \in OngletsOuverts : Presentee(o)) /\ (Partage => SessionJuste)
LEMMA NeufAbsent ==
  PeutEmettre => Neuf \in 1..RefreshMax /\ serveurJetons[Neuf] = "absent"
BY DEF PeutEmettre, Neuf

LEMMA TravailEnCours ==
  ASSUME NEW t \in Travail, t.etape # "repos"
  PROVE  /\ t \in [etape: {"file", "appel", "refus", "panne", "reponse"}, jeton: 0..RefreshMax,
                   neuf: 0..RefreshMax, perime: BOOLEAN, adopte: BOOLEAN]
         /\ t # Repos
BY DEF Travail, Repos

LEMMA StockerType ==
  ASSUME OngletsTypes, NEW o \in OngletsOuverts, NEW n \in 0..RefreshMax, Stocker(o, n)
  PROVE  stocke' \in [OngletsOuverts -> 0..RefreshMax]
BY DEF OngletsTypes, Stocker

LEMMA DiffuserType ==
  ASSUME OngletsTypes, NEW o \in OngletsOuverts, NEW m \in Messages, Diffuser(o, m)
  PROVE  canal' \in [OngletsOuverts -> Seq(Messages)]
BY DEF OngletsTypes, Diffuser

LEMMA PerimerType ==
  ASSUME OngletsTypes, NEW o \in OngletsOuverts
  PROVE  Perimer(o) \in [OngletsOuverts -> Travail]
<1>1. PICK t \in Travail : t = travail[o]
  BY DEF OngletsTypes
<1>2. PICK n : n = IF t = Repos THEN t ELSE [t EXCEPT !.perime = TRUE]
  OBVIOUS
<1>3. n \in Travail
  BY <1>2 DEF Travail
<1>4. Perimer(o) = [travail EXCEPT ![o] = n]
  BY <1>1, <1>2 DEF Perimer
<1> QED
  BY <1>3, <1>4 DEF OngletsTypes

LEMMA FinirType ==
  ASSUME OngletsTypes, NEW o \in OngletsOuverts, Finir(o)
  PROVE  /\ travail' \in [OngletsOuverts -> Travail]
         /\ verrouOnglets' \in OngletsOuverts \cup {AucunOnglet}
BY DEF OngletsTypes, Finir, Liberer, Travail

\* What the tab that refreshes writes in its own record.
LEMMA TypesDuTravail ==
  ASSUME OngletsTypes, NEW o \in OngletsOuverts, Presentee(o),
         RafraichirOnglet(o) \/ RenoncerAuReseau(o) \/ AppelerRafraichir(o) \/ ServeurRafraichit(o)
           \/ ReseauEnPanne(o)
  PROVE  OngletsTypes'
<1>1. PICK t \in Travail : t = travail[o]
  BY DEF OngletsTypes
<1>2. PICK s \in 0..RefreshMax : s = stocke[o]
  BY DEF OngletsTypes
<1>3. CASE RafraichirOnglet(o)
  <2>1. PICK a : a = [etape |-> "file", jeton |-> s, neuf |-> Aucun, perime |-> FALSE,
                      adopte |-> FALSE]
    OBVIOUS
  <2>2. a \in Travail
    BY <2>1, OngletsOk DEF Travail, Aucun
  <2>3. travail' = [travail EXCEPT ![o] = a]
    BY <1>2, <1>3, <2>1 DEF RafraichirOnglet
  <2> QED
    BY ZenonT(40), <1>3, <2>2, <2>3 DEF RafraichirOnglet, OngletsTypes
<1>4. CASE RenoncerAuReseau(o)
  BY <1>4 DEF RenoncerAuReseau, OngletsTypes, Travail
<1>5. CASE AppelerRafraichir(o)
  <2>1. t \in [etape: {"file", "appel", "refus", "panne", "reponse"}, jeton: 0..RefreshMax,
               neuf: 0..RefreshMax, perime: BOOLEAN, adopte: BOOLEAN]
    BY <1>1, <1>5, TravailEnCours DEF AppelerRafraichir, Attendu
  <2>2. PICK n : n = [t EXCEPT !.etape = "appel", !.jeton = s]
    OBVIOUS
  <2>3. n \in Travail
    BY <2>1, <2>2 DEF Travail
  <2>4. travail' = [travail EXCEPT ![o] = n]
    BY <1>1, <1>2, <1>5, <2>2 DEF AppelerRafraichir, RefreshALire
  <2> QED
    BY ZenonT(40), <1>5, <2>3, <2>4 DEF AppelerRafraichir, OngletsTypes
<1>6. CASE ServeurRafraichit(o) \/ ReseauEnPanne(o)
  <2>1. t \in [etape: {"file", "appel", "refus", "panne", "reponse"}, jeton: 0..RefreshMax,
               neuf: 0..RefreshMax, perime: BOOLEAN, adopte: BOOLEAN]
    BY <1>1, <1>6, TravailEnCours DEF ServeurRafraichit, ReseauEnPanne
  <2>2. PICK j \in 0..RefreshMax : j = t.jeton
    BY <2>1
  <2>3. CASE serveurJetons[j] = "actif" /\ ServeurRafraichit(o)
    <3>1. PICK k \in 1..RefreshMax : k = Neuf
      BY <1>1, <2>2, <2>3, NeufAbsent DEF ServeurRafraichit
    <3>2. serveurJetons' = [serveurJetons EXCEPT ![j] = "tourne", ![k] = "actif"]
      BY <1>1, <2>2, <2>3, <3>1 DEF ServeurRafraichit
    <3>3. PICK a, b : a = [t EXCEPT !.etape = "reponse", !.neuf = k] /\ b = [t EXCEPT !.etape = "panne"]
      OBVIOUS
    <3>4. a \in Travail /\ b \in Travail
      <4>1. k \in 0..RefreshMax
        BY <3>1
      <4> QED
        BY <2>1, <3>3, <4>1 DEF Travail
    <3>5. \/ travail' = [travail EXCEPT ![o] = a] /\ perdus' = perdus
          \/ travail' = [travail EXCEPT ![o] = b] /\ perdus' = perdus \cup {j}
      BY <1>1, <2>2, <2>3, <3>1, <3>3 DEF ServeurRafraichit
    <3>6. j # 0 => j \in 1..RefreshMax
      OBVIOUS
    <3>7. j # 0
      BY <1>1, <2>2, <2>3 DEF Presentee, ServeurRafraichit
    <3>8. serveurJetons' \in [1..RefreshMax -> {"absent", "actif", "tourne", "revoque"}]
      BY <3>2 DEF OngletsTypes
    <3>9. travail' \in [OngletsOuverts -> Travail]
      BY <3>4, <3>5 DEF OngletsTypes
    <3>10. sorties' \cup perdus' \cup refuses' \subseteq 1..RefreshMax
      <4>1. refuses' = refuses /\ sorties' = sorties
        BY <1>1, <2>2, <2>3 DEF ServeurRafraichit
      <4> QED
        BY <3>5, <3>6, <3>7, <4>1 DEF OngletsTypes
    <3> QED
      BY <2>3, <3>8, <3>9, <3>10 DEF ServeurRafraichit, OngletsTypes
  <2>4. CASE serveurJetons[j] # "actif" /\ ServeurRafraichit(o)
    <3>1. PICK a : a = [t EXCEPT !.etape = "refus"]
      OBVIOUS
    <3>2. a \in Travail
      BY <2>1, <3>1 DEF Travail
    <3>3. travail' = [travail EXCEPT ![o] = a]
      BY <1>1, <2>2, <2>4, <3>1 DEF ServeurRafraichit
    <3>4. j # 0 /\ (j # 0 => j \in 1..RefreshMax)
      BY <1>1, <2>2, <2>4 DEF Presentee, ServeurRafraichit
    <3> QED
      BY <1>1, <2>2, <2>4, <3>2, <3>3, <3>4 DEF ServeurRafraichit, OngletsTypes
  <2>5. CASE ReseauEnPanne(o)
    <3>1. PICK a : a = [t EXCEPT !.etape = "panne"]
      OBVIOUS
    <3>2. a \in Travail
      BY <2>1, <3>1 DEF Travail
    <3>3. travail' = [travail EXCEPT ![o] = a]
      BY <1>1, <2>5, <3>1 DEF ReseauEnPanne
    <3> QED
      BY <2>5, <3>2, <3>3 DEF ReseauEnPanne, OngletsTypes
  <2> QED
    BY <1>6, <2>3, <2>4, <2>5
<1> QED
  BY <1>3, <1>4, <1>5, <1>6

LEMMA TypesDesReponses ==
  ASSUME OngletsTypes, NEW o \in OngletsOuverts, Presentee(o),
         IgnorerReponse(o) \/ RecevoirReponse(o) \/ RecevoirRefus(o) \/ ChargerProfil(o)
  PROVE  OngletsTypes'
<1>1. PICK t \in Travail : t = travail[o]
  BY DEF OngletsTypes
<1>2. CASE IgnorerReponse(o)
  BY <1>2, FinirType DEF IgnorerReponse, OngletsTypes
<1>3. CASE RecevoirReponse(o)
  <2>1. t \in [etape: {"file", "appel", "refus", "panne", "reponse"}, jeton: 0..RefreshMax,
               neuf: 0..RefreshMax, perime: BOOLEAN, adopte: BOOLEAN]
    BY <1>1, <1>3, TravailEnCours DEF RecevoirReponse
  <2>2. PICK n \in 0..RefreshMax : n = t.neuf
    BY <2>1
  <2>3. PICK j \in 0..RefreshMax : j = t.jeton
    BY <2>1
  <2>4. n \in 1..RefreshMax
    BY <1>1, <1>3, <2>2 DEF Presentee, RecevoirReponse
  <2>5. Ouverture(n, j) \in Messages
    BY <2>3, <2>4 DEF Ouverture, Messages
  <2>6. Stocker(o, n) /\ Diffuser(o, Ouverture(n, j)) /\ accesCourant' = [accesCourant EXCEPT ![o] = n]
    BY <1>1, <1>3, <2>2, <2>3 DEF RecevoirReponse
  <2>7. stocke' \in [OngletsOuverts -> 0..RefreshMax]
    BY <2>2, <2>6, StockerType
  <2>8. canal' \in [OngletsOuverts -> Seq(Messages)]
    BY <2>5, <2>6, DiffuserType
  <2> QED
    BY <1>3, <2>2, <2>6, <2>7, <2>8, FinirType DEF RecevoirReponse, OngletsTypes
<1>4. CASE RecevoirRefus(o)
  <2>1. Fermeture \in Messages
    BY DEF Fermeture, Messages
  <2>2. canal' \in [OngletsOuverts -> Seq(Messages)]
    BY <1>4, <2>1, DiffuserType DEF RecevoirRefus
  <2>3. Aucun \in 0..RefreshMax
    BY OngletsOk DEF Aucun
  <2>4. stocke' \in [OngletsOuverts -> 0..RefreshMax]
    BY <1>4, <2>3, StockerType DEF RecevoirRefus, Oublier
  <2> QED
    BY <1>4, <2>2, <2>3, <2>4, FinirType DEF RecevoirRefus, Oublier, OngletsTypes
<1>5. CASE ChargerProfil(o)
  BY <1>5 DEF ChargerProfil, OngletsTypes
<1> QED
  BY <1>2, <1>3, <1>4, <1>5

\* The message a tab takes is the first of those it waits for.
LEMMA PremierMessage ==
  ASSUME OngletsTypes, NEW o \in OngletsOuverts, canal[o] # <<>>
  PROVE  /\ Head(canal[o]) \in Messages /\ Head(canal[o]) = canal[o][1] /\ 1 \in 1..Len(canal[o])
         /\ Tail(canal[o]) \in Seq(Messages)
         /\ \A i \in 1..Len(Tail(canal[o])) :
              Tail(canal[o])[i] = canal[o][i + 1] /\ i + 1 \in 1..Len(canal[o])
<1>1. PICK f \in Seq(Messages) : f = canal[o]
  BY DEF OngletsTypes
<1> QED
  BY <1>1

LEMMA TypesDesSessions ==
  ASSUME OngletsTypes, NEW o \in OngletsOuverts,
         RecevoirMessage(o) \/ ConnecterOnglet(o) \/ DeconnecterOnglet(o)
  PROVE  OngletsTypes'
<1>1. Aucun \in 0..RefreshMax
  BY OngletsOk DEF Aucun
<1>2. CASE RecevoirMessage(o)
  <2>1. PICK m \in Messages : m = Head(canal[o])
    BY <1>2, PremierMessage DEF RecevoirMessage
  <2>2. canal' \in [OngletsOuverts -> Seq(Messages)]
    BY <1>2, PremierMessage DEF RecevoirMessage, OngletsTypes
  <2>3. CASE Oublier(o) /\ travail' = Perimer(o)
    <3>1. stocke' \in [OngletsOuverts -> 0..RefreshMax]
      BY <1>1, <2>3, StockerType DEF Oublier
    <3>2. travail' \in [OngletsOuverts -> Travail]
      BY <2>3, PerimerType
    <3> QED
      BY <1>1, <1>2, <2>2, <2>3, <3>1, <3>2 DEF RecevoirMessage, Oublier, OngletsTypes
  <2>4. CASE /\ m.type = "jetons" /\ Stocker(o, m.refresh) /\ UNCHANGED etatSession
             /\ accesCourant' = [accesCourant EXCEPT ![o] = m.refresh]
             /\ travail' = [travail EXCEPT ![o] = IF @ = Repos THEN @ ELSE [@ EXCEPT !.adopte = TRUE]]
    <3>1. PICK n \in 0..RefreshMax : n = m.refresh
      BY <2>4 DEF Messages
    <3>2. stocke' \in [OngletsOuverts -> 0..RefreshMax]
      BY <2>4, <3>1, StockerType
    <3>3. PICK t \in Travail : t = travail[o]
      BY DEF OngletsTypes
    <3>4. PICK u : u = IF t = Repos THEN t ELSE [t EXCEPT !.adopte = TRUE]
      OBVIOUS
    <3>5. u \in Travail
      BY <3>4 DEF Travail
    <3>6. travail' = [travail EXCEPT ![o] = u]
      BY <2>4, <3>3, <3>4
    <3> QED
      BY <1>2, <2>2, <2>4, <3>1, <3>2, <3>5, <3>6 DEF RecevoirMessage, OngletsTypes
  <2>5. CASE UNCHANGED <<stocke, accesCourant, etatSession, travail>>
    BY <1>2, <2>2, <2>5 DEF RecevoirMessage, OngletsTypes
  <2> QED
    BY <1>2, <2>1, <2>3, <2>4, <2>5 DEF RecevoirMessage
<1>3. CASE ConnecterOnglet(o)
  <2>1. PICK n \in 1..RefreshMax : n = Neuf
    BY <1>3, NeufAbsent DEF ConnecterOnglet
  <2>2. Ouverture(n, Aucun) \in Messages
    BY <1>1 DEF Ouverture, Messages
  <2>3. canal' \in [OngletsOuverts -> Seq(Messages)]
    BY <1>3, <2>1, <2>2, DiffuserType DEF ConnecterOnglet
  <2>4. n \in 0..RefreshMax
    OBVIOUS
  <2>5. stocke' \in [OngletsOuverts -> 0..RefreshMax]
    BY <1>3, <2>1, <2>4, StockerType DEF ConnecterOnglet
  <2>6. travail' \in [OngletsOuverts -> Travail]
    BY <1>3, PerimerType DEF ConnecterOnglet
  <2> QED
    BY <1>3, <2>1, <2>3, <2>4, <2>5, <2>6 DEF ConnecterOnglet, OngletsTypes
<1>4. CASE DeconnecterOnglet(o)
  <2>1. Fermeture \in Messages
    BY DEF Fermeture, Messages
  <2>2. canal' \in [OngletsOuverts -> Seq(Messages)]
    BY <1>4, <2>1, DiffuserType DEF DeconnecterOnglet
  <2>3. stocke' \in [OngletsOuverts -> 0..RefreshMax]
    BY <1>1, <1>4, StockerType DEF DeconnecterOnglet, Oublier
  <2>4. travail' \in [OngletsOuverts -> Travail]
    BY <1>4, PerimerType DEF DeconnecterOnglet
  <2>5. sorties' \subseteq 1..RefreshMax
    BY <1>4 DEF DeconnecterOnglet, OngletsTypes, Aucun
  <2> QED
    BY <1>1, <1>4, <2>2, <2>3, <2>4, <2>5 DEF DeconnecterOnglet, Oublier, OngletsTypes
<1> QED
  BY <1>2, <1>3, <1>4

\* A message that stays is as just as it was when neither the server nor the store
\* has brought its tokens back.
LEMMA AnnonceReste ==
  ASSUME OngletsTypes, OngletsTypes', NEW o \in OngletsOuverts, NEW m \in Messages, AnnonceJuste(o, m),
         \A n \in 1..RefreshMax : /\ serveurJetons[n] # "absent" => serveurJetons'[n] # "absent"
                                  /\ serveurJetons[n] = "tourne" => serveurJetons'[n] = "tourne",
         \/ stocke'[o] = stocke[o] \/ stocke'[o] = 0
         \/ stocke'[o] \in 1..RefreshMax /\ serveurJetons'[stocke'[o]] # "tourne"
  PROVE  AnnonceJuste(o, m)'
<1>1. CASE m.type = "jetons"
  <2>1. PICK r \in 1..RefreshMax, q \in 0..RefreshMax : r = m.refresh /\ q = m.precedent
    BY <1>1 DEF Messages
  <2>2. serveurJetons'[r] # "absent"
    BY <1>1, <2>1 DEF AnnonceJuste
  <2>3. q # 0 => serveurJetons'[q] = "tourne" /\ stocke'[o] # q
    BY <1>1, <2>1 DEF AnnonceJuste
  <2> QED
    BY <2>1, <2>2, <2>3 DEF AnnonceJuste
<1> QED
  BY <1>1 DEF AnnonceJuste

\* A step that leaves the server and the store alone, in which no answer to be
\* stored is dropped.
LEMMA PasNeutre ==
  ASSUME OngletsTypes, OngletsTypes', SessionJuste, NEW o \in OngletsOuverts,
         UNCHANGED <<serveurJetons, stocke, perdus, refuses>>,
         \A p \in OngletsOuverts : \A i \in 1..Len(canal'[p]) :
           \E j \in 1..Len(canal[p]) : canal'[p][i] = canal[p][j],
         \A p \in OngletsOuverts : p # o =>
           travail'[p] = travail[p] /\ (verrouOnglets = p => verrouOnglets' = p),
         \/ /\ travail'[o].etape \in {"repos", "file", "panne"}
            /\ ~(travail[o].etape = "reponse" /\ ~travail[o].perime)
         \/ /\ travail'[o].etape = travail[o].etape /\ travail'[o].jeton = travail[o].jeton
            /\ travail'[o].neuf = travail[o].neuf /\ travail'[o].perime = travail[o].perime,
         EnReseau(o)' => verrouOnglets' = o
  PROVE  SessionJuste'
<1>1. MagasinJuste'
  BY DEF SessionJuste, MagasinJuste
<1>2. AnnoncesJustes'
  BY SMTT(30) DEF SessionJuste, AnnoncesJustes, AnnonceJuste
<1>3. ASSUME NEW p \in OngletsOuverts
      PROVE  (EnReseau(p) => verrouOnglets = p)' /\ AppelJuste(p)' /\ ReponseJuste(p)'
  <2>1. CASE p = o
    BY <2>1 DEF SessionJuste, AppelJuste, ReponseJuste, EnReseau
  <2>2. CASE p # o
    BY <2>2 DEF SessionJuste, AppelJuste, ReponseJuste, EnReseau
  <2> QED
    BY <2>1, <2>2
<1> QED
  BY <1>1, <1>2, <1>3 DEF SessionJuste

\* The store takes a token nobody has presented, or none.
LEMMA PasDuMagasin ==
  ASSUME OngletsTypes, OngletsTypes', SessionJuste, NEW x \in 0..RefreshMax,
         \A p \in OngletsOuverts : stocke'[p] = x,
         \A n \in 1..RefreshMax :
           \/ serveurJetons'[n] = serveurJetons[n]
           \/ n = x /\ serveurJetons[n] = "absent" /\ serveurJetons'[n] = "actif",
         x # 0 => serveurJetons'[x] \in {"actif", "revoque"},
         UNCHANGED <<perdus, refuses>>,
         \A p \in OngletsOuverts :
           \/ travail'[p].etape = "repos"
           \/ /\ travail'[p].etape = travail[p].etape /\ travail'[p].jeton = travail[p].jeton
              /\ travail'[p].neuf = travail[p].neuf
              /\ travail[p].jeton \in 0..RefreshMax /\ travail[p].neuf \in 0..RefreshMax
              /\ Presentee(p) /\ (travail[p].etape = "appel" => travail[p].jeton # x),
         \A p \in OngletsOuverts : EnReseau(p)' => verrouOnglets' = p,
         \A p \in OngletsOuverts : \A i \in 1..Len(canal'[p]) :
           \/ \E j \in 1..Len(canal[p]) : canal'[p][i] = canal[p][j]
           \/ AnnonceJuste(p, canal[p][i])'
  PROVE  SessionJuste'
<1>1. MagasinJuste'
  BY DEF MagasinJuste
<1>2. ASSUME NEW p \in OngletsOuverts, NEW i \in 1..Len(canal'[p])
      PROVE  AnnonceJuste(p, canal[p][i])'
  <2>1. CASE \E j \in 1..Len(canal[p]) : canal'[p][i] = canal[p][j]
    <3>1. PICK j \in 1..Len(canal[p]) : canal'[p][i] = canal[p][j]
      BY <2>1
    <3>2. PICK m \in Messages : m = canal[p][j]
      BY SMTT(30) DEF OngletsTypes
    <3>3. AnnonceJuste(p, m)
      BY <3>2 DEF SessionJuste, AnnoncesJustes
    <3>4. \/ stocke'[p] = 0
          \/ stocke'[p] \in 1..RefreshMax /\ serveurJetons'[stocke'[p]] # "tourne"
      OBVIOUS
    <3>5. \A n \in 1..RefreshMax : /\ serveurJetons[n] # "absent" => serveurJetons'[n] # "absent"
                                   /\ serveurJetons[n] = "tourne" => serveurJetons'[n] = "tourne"
      OBVIOUS
    <3>6. AnnonceJuste(p, m)'
      BY <3>3, <3>4, <3>5, AnnonceReste
    <3> QED
      BY <3>1, <3>2, <3>6 DEF AnnonceJuste
  <2> QED
    BY <2>1
<1>3. ASSUME NEW p \in OngletsOuverts
      PROVE  (EnReseau(p) => verrouOnglets = p)' /\ AppelJuste(p)' /\ ReponseJuste(p)'
  <2>1. AppelJuste(p)'
    <3>1. SUFFICES ASSUME travail'[p].etape = "appel" PROVE AppelJuste(p)'
      BY DEF AppelJuste
    <3>2. PICK j \in 1..RefreshMax : j = travail[p].jeton /\ j = travail'[p].jeton
      BY <3>1 DEF Presentee
    <3>3. serveurJetons[j] # "absent" /\ (serveurJetons[j] = "tourne" => j \in perdus) /\ j # x
      BY <3>1, <3>2 DEF SessionJuste, AppelJuste
    <3> QED
      BY <3>1, <3>2, <3>3 DEF AppelJuste
  <2>2. ReponseJuste(p)'
    <3>1. SUFFICES ASSUME travail'[p].etape = "reponse" PROVE ReponseJuste(p)'
      BY DEF ReponseJuste
    <3>2. PICK k \in 1..RefreshMax : k = travail[p].neuf /\ k = travail'[p].neuf
      BY <3>1 DEF Presentee
    <3>3. PICK j \in 0..RefreshMax : j = travail[p].jeton /\ j = travail'[p].jeton
      BY <3>1
    <3>4. j # 0 /\ serveurJetons[j] = "tourne" /\ serveurJetons[k] \in {"actif", "revoque"}
      BY <3>1, <3>2, <3>3 DEF SessionJuste, ReponseJuste
    <3>5. serveurJetons'[j] = "tourne" /\ serveurJetons'[k] \in {"actif", "revoque"}
      BY <3>4
    <3> QED
      BY <3>1, <3>2, <3>3, <3>4, <3>5 DEF ReponseJuste
  <2> QED
    BY <2>1, <2>2
<1>4. refuses' \subseteq perdus'
  BY DEF SessionJuste
<1> QED
  BY <1>1, <1>2, <1>3, <1>4 DEF SessionJuste, AnnoncesJustes

LEMMA PerimerGarde ==
  ASSUME OngletsTypes, NEW o \in OngletsOuverts, NEW p \in OngletsOuverts, travail' = Perimer(o)
  PROVE  \/ travail'[p].etape = "repos" /\ travail[p].etape = "repos"
         \/ /\ travail'[p].etape = travail[p].etape /\ travail'[p].jeton = travail[p].jeton
            /\ travail'[p].neuf = travail[p].neuf
            /\ travail[p].jeton \in 0..RefreshMax /\ travail[p].neuf \in 0..RefreshMax
<1>1. PICK t \in Travail : t = travail[p]
  BY DEF OngletsTypes
<1>2. PICK u : u = IF t = Repos THEN t ELSE [t EXCEPT !.perime = TRUE]
  OBVIOUS
<1>3. travail'[p] = t \/ travail'[p] = u
  BY <1>1, <1>2 DEF Perimer, OngletsTypes
<1> QED
  BY <1>1, <1>2, <1>3 DEF Travail, Repos

\* What Diffuser leaves to the tabs: what they waited for, and the new message.
LEMMA DiffuserGarde ==
  ASSUME OngletsTypes, NEW o \in OngletsOuverts, NEW m, Diffuser(o, m),
         NEW p \in OngletsOuverts, NEW i \in 1..Len(canal'[p]), m \in Messages
  PROVE  \/ \E j \in 1..Len(canal[p]) : canal'[p][i] = canal[p][j]
         \/ canal'[p][i] = m
<1>1. PICK f \in Seq(Messages) : f = canal[p]
  BY DEF OngletsTypes
<1>2. canal'[p] = f \/ canal'[p] = Append(f, m)
  BY <1>1 DEF Diffuser
<1> QED
  BY SMTT(30), <1>1, <1>2

\* Nobody but its holder is on the network.
LEMMA SeulEnReseau ==
  ASSUME SessionJuste, NEW o \in OngletsOuverts, EnReseau(o),
         NEW p \in OngletsOuverts, p # o
  PROVE  ~EnReseau(p)
BY DEF SessionJuste

LEMMA ProgresJuste ==
  ASSUME OngletsTypes, OngletsTypes', SessionJuste, NEW o \in OngletsOuverts,
         RafraichirOnglet(o) \/ RenoncerAuReseau(o) \/ ReseauEnPanne(o) \/ IgnorerReponse(o)
           \/ ChargerProfil(o)
  PROVE  SessionJuste'
<1>1. UNCHANGED <<serveurJetons, stocke, perdus, refuses, canal>>
  BY DEF RafraichirOnglet, RenoncerAuReseau, ReseauEnPanne, IgnorerReponse, ChargerProfil
<1>2. \A p \in OngletsOuverts : p # o => travail'[p] = travail[p]
  BY DEF RafraichirOnglet, RenoncerAuReseau, ReseauEnPanne, IgnorerReponse, ChargerProfil, Finir,
         OngletsTypes
<1>3. \A p \in OngletsOuverts : p # o /\ verrouOnglets = p => verrouOnglets' = p
  BY DEF RafraichirOnglet, RenoncerAuReseau, ReseauEnPanne, IgnorerReponse, ChargerProfil, Finir, Liberer
<1>4. CASE RafraichirOnglet(o) \/ RenoncerAuReseau(o) \/ ReseauEnPanne(o) \/ IgnorerReponse(o)
  <2>1. travail'[o].etape \in {"repos", "file", "panne"}
    <3>1. travail \in [OngletsOuverts -> Travail]
      BY DEF OngletsTypes
    <3>2. RafraichirOnglet(o) => travail'[o].etape = "file"
      BY <3>1 DEF RafraichirOnglet
    <3>3. RenoncerAuReseau(o) \/ IgnorerReponse(o) => travail'[o] = Repos
      BY <3>1 DEF RenoncerAuReseau, IgnorerReponse, Finir
    <3>4. ASSUME ReseauEnPanne(o) PROVE travail'[o].etape = "panne"
      <4>1. PICK t \in Travail : t = travail[o]
        BY <3>1
      <4>2. travail'[o] = [t EXCEPT !.etape = "panne"]
        BY <3>1, <3>4, <4>1 DEF ReseauEnPanne
      <4>3. t \in [etape: {"file", "appel", "refus", "panne", "reponse"}, jeton: 0..RefreshMax,
                   neuf: 0..RefreshMax, perime: BOOLEAN, adopte: BOOLEAN]
        BY <3>4, <4>1, TravailEnCours DEF ReseauEnPanne
      <4> QED
        BY <4>2, <4>3
    <3> QED
      BY <1>4, <3>2, <3>3, <3>4 DEF Repos
  <2>2. ~(travail[o].etape = "reponse" /\ ~travail[o].perime)
    BY <1>4 DEF RafraichirOnglet, RenoncerAuReseau, ReseauEnPanne, IgnorerReponse, Attendu, Repos
  <2>3. EnReseau(o)' => verrouOnglets' = o
    BY <1>4 DEF RafraichirOnglet, RenoncerAuReseau, ReseauEnPanne, IgnorerReponse, Finir, Repos,
                EnReseau, SessionJuste, OngletsTypes
  <2> QED
    BY <1>1, <1>2, <1>3, <2>1, <2>2, <2>3, PasNeutre
<1>5. CASE ChargerProfil(o)
  <2>1. travail' = travail /\ verrouOnglets' = verrouOnglets
    BY <1>5 DEF ChargerProfil
  <2>2. EnReseau(o)' => verrouOnglets' = o
    BY <2>1 DEF EnReseau, SessionJuste
  <2> QED
    BY <1>1, <1>2, <1>3, <2>1, <2>2, PasNeutre
<1> QED
  BY <1>4, <1>5

\* The lock is free: the token in the store is not one whose answer is on its way.
LEMMA AppelJustifie ==
  ASSUME OngletsTypes, OngletsTypes', SessionJuste, NEW o \in OngletsOuverts, AppelerRafraichir(o)
  PROVE  SessionJuste'
<1>1. PICK s \in 1..RefreshMax : s = stocke[o]
  BY DEF OngletsTypes, AppelerRafraichir, RefreshALire, Aucun
<1>2. PICK t \in Travail : t = travail[o]
  BY DEF OngletsTypes
<1>3. travail' = [travail EXCEPT ![o] = [t EXCEPT !.etape = "appel", !.jeton = s]]
  BY <1>1, <1>2 DEF AppelerRafraichir, RefreshALire
<1>4. t \in [etape: {"file", "appel", "refus", "panne", "reponse"}, jeton: 0..RefreshMax,
             neuf: 0..RefreshMax, perime: BOOLEAN, adopte: BOOLEAN]
  BY <1>2, TravailEnCours DEF AppelerRafraichir, Attendu
<1>5. /\ travail'[o].etape = "appel" /\ travail'[o].jeton = s /\ ~travail'[o].perime
      /\ travail[o].etape = "file"
      /\ \A p \in OngletsOuverts : p # o => travail'[p] = travail[p]
  <2>1. PICK n : n = [t EXCEPT !.etape = "appel", !.jeton = s]
    OBVIOUS
  <2>2. n.etape = "appel" /\ n.jeton = s /\ n.perime = t.perime
    BY <1>4, <2>1
  <2>3. travail'[o] = n /\ \A p \in OngletsOuverts : p # o => travail'[p] = travail[p]
    BY <1>3, <2>1 DEF OngletsTypes
  <2>4. ~t.perime /\ t.etape = "file"
    BY <1>2 DEF AppelerRafraichir, Attendu
  <2> QED
    BY <1>2, <2>2, <2>3, <2>4
<1>6. /\ verrouOnglets = AucunOnglet /\ verrouOnglets' = o
      /\ UNCHANGED <<serveurJetons, stocke, canal, perdus, refuses>>
  BY DEF AppelerRafraichir, Attendu
<1>7. \A p \in OngletsOuverts : ~EnReseau(p)
  BY <1>6, OngletsOk DEF SessionJuste
<1>8. serveurJetons[s] # "absent" /\ (serveurJetons[s] = "tourne" => s \in perdus)
  BY <1>1, <1>7 DEF SessionJuste, MagasinJuste, EnReseau
<1>9. MagasinJuste'
  BY <1>6, <1>7 DEF SessionJuste, MagasinJuste, EnReseau
<1>10. AnnoncesJustes'
  BY <1>6 DEF SessionJuste, AnnoncesJustes, AnnonceJuste
<1>11. ASSUME NEW p \in OngletsOuverts
       PROVE  (EnReseau(p) => verrouOnglets = p)' /\ AppelJuste(p)' /\ ReponseJuste(p)'
  <2>1. CASE p = o
    BY <1>5, <1>6, <1>8, <2>1 DEF EnReseau, AppelJuste, ReponseJuste
  <2>2. CASE p # o
    BY <1>5, <1>7, <2>2 DEF EnReseau, AppelJuste, ReponseJuste
  <2> QED
    BY <2>1, <2>2
<1> QED
  BY <1>6, <1>9, <1>10, <1>11 DEF SessionJuste

LEMMA MagasinLu ==
  ASSUME SessionJuste, NEW p \in OngletsOuverts, NEW s \in 1..RefreshMax, s = stocke[p]
  PROVE  /\ serveurJetons[s] # "absent"
         /\ serveurJetons[s] = "tourne" =>
              \/ s \in perdus
              \/ \E q \in OngletsOuverts : /\ travail[q].etape = "reponse" /\ ~travail[q].perime
                                           /\ travail[q].jeton = s
<1>1. s # 0
  OBVIOUS
<1> QED
  BY <1>1 DEF SessionJuste, MagasinJuste

LEMMA MessageLu ==
  ASSUME OngletsTypes, NEW p \in OngletsOuverts, NEW i \in 1..Len(canal[p])
  PROVE  canal[p][i] \in Messages
<1>1. PICK f \in Seq(Messages) : f = canal[p]
  BY DEF OngletsTypes
<1>2. PICK n \in Nat : n = Len(f)
  BY <1>1
<1> QED
  BY <1>1, <1>2

\* Only the holder of the lock presents a token: the one it rotates is stored once its
\* answer comes, unless the answer is lost, or the session ended and the store left it.
LEMMA RotationJuste ==
  ASSUME OngletsTypes, OngletsTypes', SessionJuste, NEW o \in OngletsOuverts, Presentee(o),
         ServeurRafraichit(o)
  PROVE  SessionJuste'
<1>1. PICK t \in Travail : t = travail[o]
  BY DEF OngletsTypes
<1>2. t \in [etape: {"file", "appel", "refus", "panne", "reponse"}, jeton: 0..RefreshMax,
             neuf: 0..RefreshMax, perime: BOOLEAN, adopte: BOOLEAN] /\ t.etape = "appel"
  BY <1>1, TravailEnCours DEF ServeurRafraichit
<1>3. PICK j \in 1..RefreshMax : j = t.jeton
  BY <1>1, <1>2 DEF Presentee
<1>4. /\ serveurJetons[j] # "absent"
      /\ t.perime => stocke[o] # j
      /\ serveurJetons[j] = "tourne" => j \in perdus
  BY <1>1, <1>2, <1>3 DEF SessionJuste, AppelJuste
<1>5. EnReseau(o) /\ verrouOnglets = o /\ verrouOnglets' = o
  BY <1>1, <1>2 DEF EnReseau, SessionJuste, ServeurRafraichit
<1>6. \A p \in OngletsOuverts : p # o => ~EnReseau(p)
  BY <1>5, SeulEnReseau
<1>7. UNCHANGED <<stocke, canal>>
  BY DEF ServeurRafraichit
<1>8. \A p, q \in OngletsOuverts : stocke'[p] = stocke'[q]
  BY <1>7 DEF SessionJuste, MagasinJuste
<1>9. ASSUME NEW n, travail' = [travail EXCEPT ![o] = n], n.etape # "appel",
             n.etape = "reponse" =>
               /\ n.jeton = j /\ n.neuf # 0
               /\ serveurJetons'[j] = "tourne" /\ serveurJetons'[n.neuf] \in {"actif", "revoque"}
      PROVE  \A p \in OngletsOuverts :
               (EnReseau(p) => verrouOnglets = p)' /\ AppelJuste(p)' /\ ReponseJuste(p)'
  <2>1. travail'[o] = n /\ \A p \in OngletsOuverts : p # o => travail'[p] = travail[p]
    BY <1>9 DEF OngletsTypes
  <2> TAKE p \in OngletsOuverts
  <2>2. CASE p = o
    BY <1>3, <1>5, <1>9, <2>1, <2>2 DEF EnReseau, AppelJuste, ReponseJuste
  <2>3. CASE p # o
    BY <1>6, <2>1, <2>3 DEF EnReseau, AppelJuste, ReponseJuste
  <2> QED
    BY <2>2, <2>3
<1>10. CASE serveurJetons[j] = "actif"
  <2>1. PICK k \in 1..RefreshMax : k = Neuf /\ serveurJetons[k] = "absent"
    BY <1>1, <1>3, <1>10, NeufAbsent DEF ServeurRafraichit
  <2>2. serveurJetons' = [serveurJetons EXCEPT ![j] = "tourne", ![k] = "actif"] /\ refuses' = refuses
    BY <1>1, <1>3, <1>10, <2>1 DEF ServeurRafraichit
  <2>3. /\ serveurJetons'[j] = "tourne" /\ serveurJetons'[k] = "actif" /\ j # k
        /\ \A n \in 1..RefreshMax : n # j /\ n # k => serveurJetons'[n] = serveurJetons[n]
    BY <1>10, <2>1, <2>2 DEF OngletsTypes
  <2>4. PICK a, b : a = [t EXCEPT !.etape = "reponse", !.neuf = k] /\ b = [t EXCEPT !.etape = "panne"]
    OBVIOUS
  <2>5. /\ a.etape = "reponse" /\ a.jeton = j /\ a.neuf = k /\ a.perime = t.perime
        /\ b.etape = "panne"
    BY <1>2, <1>3, <2>4
  <2>6. \/ travail' = [travail EXCEPT ![o] = a] /\ perdus' = perdus
        \/ travail' = [travail EXCEPT ![o] = b] /\ perdus' = perdus \cup {j}
    BY <1>1, <1>3, <1>10, <2>1, <2>4 DEF ServeurRafraichit
  <2>7. \A p \in OngletsOuverts :
          (EnReseau(p) => verrouOnglets = p)' /\ AppelJuste(p)' /\ ReponseJuste(p)'
    BY <1>9, <2>3, <2>5, <2>6
  <2>8. MagasinJuste'
    <3>1. ASSUME NEW p \in OngletsOuverts, stocke'[p] # 0
          PROVE  /\ serveurJetons'[stocke'[p]] # "absent"
                 /\ serveurJetons'[stocke'[p]] = "tourne" =>
                      \/ stocke'[p] \in perdus'
                      \/ \E q \in OngletsOuverts : /\ travail'[q].etape = "reponse" /\ ~travail'[q].perime
                                                   /\ travail'[q].jeton = stocke'[p]
      <4>1. PICK s \in 1..RefreshMax : s = stocke[p] /\ s = stocke[o] /\ s = stocke'[p]
        BY <1>7, <1>8, <3>1 DEF OngletsTypes
      <4>2. s # k
        BY ZenonT(40), <2>1, <4>1, MagasinLu
      <4>3. CASE s = j
        <5>1. ~t.perime
          BY <1>4, <4>1, <4>3
        <5>2. travail'[o] = a \/ j \in perdus'
          BY <2>6 DEF OngletsTypes
        <5> QED
          BY <2>3, <2>5, <4>1, <4>3, <5>1, <5>2
      <4>4. CASE s # j
        <5>1. serveurJetons'[s] = serveurJetons[s] /\ serveurJetons[s] # "absent"
          BY <2>3, <4>1, <4>2, <4>4, MagasinLu
        <5>2. serveurJetons[s] = "tourne" => s \in perdus
          <6>1. \A q \in OngletsOuverts : travail[q].etape # "reponse"
            BY <1>1, <1>2, <1>6 DEF EnReseau
          <6> QED
            BY <4>1, <6>1, MagasinLu
        <5>3. perdus \subseteq perdus'
          BY <2>6
        <5> QED
          BY <4>1, <5>1, <5>2, <5>3
      <4> QED
        BY <4>3, <4>4
    <3> QED
      BY <1>8, <3>1 DEF MagasinJuste
  <2>9. AnnoncesJustes'
    <3>1. ASSUME NEW p \in OngletsOuverts, NEW i \in 1..Len(canal[p])
          PROVE  AnnonceJuste(p, canal[p][i])'
      <4>1. PICK m \in Messages : m = canal[p][i]
        BY MessageLu
      <4>2. AnnonceJuste(p, m)
        BY <4>1 DEF SessionJuste, AnnoncesJustes
      <4>3. \A n \in 1..RefreshMax : /\ serveurJetons[n] # "absent" => serveurJetons'[n] # "absent"
                                     /\ serveurJetons[n] = "tourne" => serveurJetons'[n] = "tourne"
        BY <2>1, <2>3
      <4>4. AnnonceJuste(p, m)'
        BY <1>7, <4>2, <4>3, AnnonceReste
      <4> QED
        BY <1>7, <4>1, <4>4 DEF AnnonceJuste
    <3> QED
      BY <1>7, <3>1 DEF AnnoncesJustes
  <2> QED
    BY <2>2, <2>6, <2>7, <2>8, <2>9 DEF SessionJuste
<1>11. CASE serveurJetons[j] # "actif"
  <2>1. PICK a : a = [t EXCEPT !.etape = "refus"]
    OBVIOUS
  <2>2. /\ travail' = [travail EXCEPT ![o] = a]
        /\ refuses' = IF serveurJetons[j] = "tourne" THEN refuses \cup {j} ELSE refuses
        /\ UNCHANGED <<serveurJetons, perdus>>
    BY <1>1, <1>3, <1>11, <2>1 DEF ServeurRafraichit
  <2>3. a.etape = "refus"
    BY <1>2, <2>1
  <2>4. \A p \in OngletsOuverts :
          (EnReseau(p) => verrouOnglets = p)' /\ AppelJuste(p)' /\ ReponseJuste(p)'
    BY <1>9, <2>2, <2>3
  <2>5. MagasinJuste'
    <3>1. \A p \in OngletsOuverts : ~(travail[p].etape = "reponse")
      BY <1>1, <1>2, <1>6 DEF EnReseau
    <3> QED
      BY <1>7, <2>2, <3>1 DEF SessionJuste, MagasinJuste
  <2>6. AnnoncesJustes'
    BY <1>7, <2>2 DEF SessionJuste, AnnoncesJustes, AnnonceJuste
  <2>7. refuses' \subseteq perdus'
    BY <1>4, <2>2 DEF SessionJuste
  <2> QED
    BY <2>4, <2>5, <2>6, <2>7 DEF SessionJuste
<1> QED
  BY <1>10, <1>11

LEMMA DeconnexionServeurJuste ==
  ASSUME OngletsTypes, OngletsTypes', SessionJuste, NEW n \in sorties, ServeurDeconnecte(n),
         \A p \in OngletsOuverts : Presentee(p)
  PROVE  SessionJuste'
<1>1. n \in 1..RefreshMax
  BY DEF OngletsTypes
<1>2. UNCHANGED <<stocke, travail, verrouOnglets, canal, perdus, refuses>>
  BY DEF ServeurDeconnecte
<1>3. \A m \in 1..RefreshMax :
        \/ serveurJetons'[m] = serveurJetons[m]
        \/ serveurJetons[m] = "actif" /\ serveurJetons'[m] = "revoque"
  BY <1>1 DEF ServeurDeconnecte, OngletsTypes
<1>4. MagasinJuste'
  BY <1>2, <1>3 DEF SessionJuste, MagasinJuste, OngletsTypes
<1>5. AnnoncesJustes'
  <2>1. ASSUME NEW p \in OngletsOuverts, NEW i \in 1..Len(canal[p])
        PROVE  AnnonceJuste(p, canal[p][i])'
    <3>1. PICK m \in Messages : m = canal[p][i]
      BY MessageLu
    <3>2. AnnonceJuste(p, m)
      BY <3>1 DEF SessionJuste, AnnoncesJustes
    <3>3. AnnonceJuste(p, m)'
      BY <1>2, <1>3, <3>2, AnnonceReste
    <3> QED
      BY <1>2, <3>1, <3>3 DEF AnnonceJuste
  <2> QED
    BY <1>2, <2>1 DEF AnnoncesJustes
<1>6. ASSUME NEW p \in OngletsOuverts
      PROVE  (EnReseau(p) => verrouOnglets = p)' /\ AppelJuste(p)' /\ ReponseJuste(p)'
  <2>1. PICK t \in Travail : t = travail[p] /\ t = travail'[p]
    BY <1>2 DEF OngletsTypes
  <2>2. (EnReseau(p) => verrouOnglets = p)'
    BY <1>2 DEF SessionJuste, EnReseau
  <2>3. AppelJuste(p)'
    <3>1. SUFFICES ASSUME t.etape = "appel" PROVE AppelJuste(p)'
      BY <2>1 DEF AppelJuste
    <3>2. t.jeton \in 0..RefreshMax
      BY <3>1 DEF Travail, Repos
    <3>3. t.jeton # 0
      BY <2>1, <3>1 DEF Presentee
    <3>4. PICK j \in 1..RefreshMax : j = t.jeton
      BY <3>2, <3>3
    <3>5. serveurJetons'[j] # "absent" /\ (serveurJetons'[j] = "tourne" => serveurJetons[j] = "tourne")
      BY <1>3, <2>1, <3>1, <3>4 DEF SessionJuste, AppelJuste
    <3> QED
      BY <1>2, <2>1, <3>1, <3>4, <3>5 DEF SessionJuste, AppelJuste
  <2>4. ReponseJuste(p)'
    <3>1. SUFFICES ASSUME t.etape = "reponse" PROVE ReponseJuste(p)'
      BY <2>1 DEF ReponseJuste
    <3>2. t.jeton \in 0..RefreshMax /\ t.neuf \in 0..RefreshMax
      BY <3>1 DEF Travail, Repos
    <3>3. t.jeton # 0 /\ t.neuf # 0
      BY <2>1, <3>1 DEF Presentee, SessionJuste, ReponseJuste
    <3>4. PICK j \in 1..RefreshMax : j = t.jeton
      BY <3>2, <3>3
    <3>5. PICK k \in 1..RefreshMax : k = t.neuf
      BY <3>2, <3>3
    <3>6. serveurJetons[j] = "tourne" /\ serveurJetons[k] \in {"actif", "revoque"}
      BY <2>1, <3>1, <3>4, <3>5 DEF SessionJuste, ReponseJuste
    <3>7. serveurJetons'[j] = "tourne" /\ serveurJetons'[k] \in {"actif", "revoque"}
      BY <1>3, <3>6
    <3> QED
      BY <2>1, <3>1, <3>3, <3>4, <3>5, <3>7 DEF ReponseJuste
  <2> QED
    BY <2>2, <2>3, <2>4
<1> QED
  BY <1>2, <1>4, <1>5, <1>6 DEF SessionJuste

\* The answer of a live refresh: its new token replaces the one it presented.
LEMMA ReponseRangee ==
  ASSUME OngletsTypes, OngletsTypes', SessionJuste, Partage, NEW o \in OngletsOuverts, Presentee(o),
         RecevoirReponse(o)
  PROVE  SessionJuste'
<1>1. PICK t \in Travail : t = travail[o]
  BY DEF OngletsTypes
<1>2. t \in [etape: {"file", "appel", "refus", "panne", "reponse"}, jeton: 0..RefreshMax,
             neuf: 0..RefreshMax, perime: BOOLEAN, adopte: BOOLEAN] /\ t.etape = "reponse"
  BY <1>1, TravailEnCours DEF RecevoirReponse
<1>3. /\ t.jeton # 0 /\ serveurJetons[t.jeton] = "tourne"
      /\ t.neuf # 0 /\ serveurJetons[t.neuf] \in {"actif", "revoque"}
  BY <1>1, <1>2 DEF SessionJuste, ReponseJuste, Presentee
<1>4. PICK j \in 1..RefreshMax : j = t.jeton
  BY <1>2, <1>3
<1>5. PICK x \in 1..RefreshMax : x = t.neuf
  BY <1>2, <1>3
<1>6. \A p \in OngletsOuverts : stocke'[p] = x
  BY <1>1, <1>5 DEF RecevoirReponse, Stocker
<1>7. Diffuser(o, Ouverture(x, j)) /\ Finir(o) /\ UNCHANGED <<serveurJetons, perdus, refuses>>
  BY <1>1, <1>4, <1>5 DEF RecevoirReponse
<1>8. \A p \in OngletsOuverts : p # o => travail'[p] = travail[p] /\ ~EnReseau(p)
  BY <1>1, <1>2, <1>7, SeulEnReseau DEF EnReseau, Finir, OngletsTypes
<1>9. travail'[o].etape = "repos"
  BY <1>7 DEF Finir, OngletsTypes, Repos
<1>10. ASSUME NEW p \in OngletsOuverts
       PROVE  \/ travail'[p].etape = "repos"
              \/ /\ travail'[p].etape = travail[p].etape /\ travail'[p].jeton = travail[p].jeton
                 /\ travail'[p].neuf = travail[p].neuf
                 /\ travail[p].jeton \in 0..RefreshMax /\ travail[p].neuf \in 0..RefreshMax
                 /\ Presentee(p) /\ (travail[p].etape = "appel" => travail[p].jeton # x)
  <2>1. PICK u \in Travail : u = travail[p]
    BY DEF OngletsTypes
  <2>2. u = Repos \/ (u.jeton \in 0..RefreshMax /\ u.neuf \in 0..RefreshMax)
    BY <2>1 DEF Travail
  <2>3. p # o => u.etape \notin {"appel", "reponse"}
    BY <1>8, <2>1 DEF EnReseau
  <2> QED
    BY <1>8, <1>9, <2>1, <2>2, <2>3 DEF Repos, Presentee
<1>11. \A p \in OngletsOuverts : EnReseau(p)' => verrouOnglets' = p
  BY <1>8, <1>9 DEF EnReseau
<1>12. ASSUME NEW p \in OngletsOuverts, NEW i \in 1..Len(canal'[p])
       PROVE  \/ \E k \in 1..Len(canal[p]) : canal'[p][i] = canal[p][k]
              \/ AnnonceJuste(p, canal[p][i])'
  <2>1. PICK m \in Messages : m = Ouverture(x, j)
    <3>1. j \in 0..RefreshMax
      OBVIOUS
    <3>2. Ouverture(x, j) \in Messages
      BY <3>1 DEF Ouverture, Messages
    <3> QED
      BY <3>2
  <2>2. m.type = "jetons" /\ m.refresh = x /\ m.precedent = j
    BY <2>1 DEF Ouverture
  <2>3. serveurJetons'[x] # "absent" /\ serveurJetons'[j] = "tourne" /\ stocke'[p] # j
    BY <1>3, <1>4, <1>5, <1>6, <1>7
  <2>4. AnnonceJuste(p, m)'
    BY <2>2, <2>3 DEF AnnonceJuste
  <2>5. \/ \E k \in 1..Len(canal[p]) : canal'[p][i] = canal[p][k]
        \/ canal'[p][i] = m
    BY <1>7, <2>1, DiffuserGarde
  <2> QED
    BY <2>4, <2>5 DEF AnnonceJuste
<1>13. /\ x \in 0..RefreshMax
       /\ x # 0 => serveurJetons'[x] \in {"actif", "revoque"}
       /\ \A n \in 1..RefreshMax : serveurJetons'[n] = serveurJetons[n]
  BY <1>3, <1>5, <1>7
<1> QED
  BY <1>6, <1>7, <1>10, <1>11, <1>12, <1>13, PasDuMagasin

\* The session ends, or another begins: the refresh under way will write nothing.
LEMMA FinDeSessionJuste ==
  ASSUME OngletsTypes, OngletsTypes', SessionJuste, Partage, NEW o \in OngletsOuverts,
         \A p \in OngletsOuverts : Presentee(p),
         NEW x \in 0..RefreshMax, Stocker(o, x),
         \/ x = 0 /\ UNCHANGED serveurJetons
         \/ x # 0 /\ serveurJetons[x] = "absent" /\ serveurJetons' = [serveurJetons EXCEPT ![x] = "actif"],
         UNCHANGED <<perdus, refuses>>,
         \/ travail' = Perimer(o) /\ UNCHANGED verrouOnglets
         \/ Finir(o),
         NEW m \in Messages, m.type = "jetons" => m.refresh = x /\ x # 0 /\ m.precedent = 0,
         Diffuser(o, m) \/ (canal[o] # <<>> /\ canal' = [canal EXCEPT ![o] = Tail(@)])
  PROVE  SessionJuste'
<1>1. \A p \in OngletsOuverts : stocke'[p] = x
  BY DEF Stocker
<1>2. \A n \in 1..RefreshMax :
        \/ serveurJetons'[n] = serveurJetons[n]
        \/ n = x /\ serveurJetons[n] = "absent" /\ serveurJetons'[n] = "actif"
  BY DEF OngletsTypes
<1>3. x # 0 => serveurJetons'[x] = "actif"
  BY DEF OngletsTypes
<1>4. ASSUME NEW p \in OngletsOuverts
      PROVE  \/ travail'[p].etape = "repos"
             \/ /\ travail'[p].etape = travail[p].etape /\ travail'[p].jeton = travail[p].jeton
                /\ travail'[p].neuf = travail[p].neuf
                /\ travail[p].jeton \in 0..RefreshMax /\ travail[p].neuf \in 0..RefreshMax
  <2>1. CASE travail' = Perimer(o)
    BY <2>1, PerimerGarde
  <2>2. CASE Finir(o)
    <3>1. travail'[p] = Repos \/ travail'[p] = travail[p]
      BY <2>2 DEF Finir, OngletsTypes
    <3>2. PICK u \in Travail : u = travail[p]
      BY DEF OngletsTypes
    <3>3. u = Repos \/ (u.jeton \in 0..RefreshMax /\ u.neuf \in 0..RefreshMax)
      BY DEF Travail
    <3> QED
      BY <3>1, <3>2, <3>3 DEF Repos
  <2> QED
    BY <2>1, <2>2
<1>5. ASSUME NEW p \in OngletsOuverts, travail[p].etape = "appel", travail[p].jeton \in 0..RefreshMax
      PROVE  travail[p].jeton # x
  BY <1>5 DEF SessionJuste, AppelJuste, Presentee
<1>6. ASSUME NEW p \in OngletsOuverts, EnReseau(p)'
      PROVE  verrouOnglets' = p
  <2>1. CASE travail' = Perimer(o) /\ UNCHANGED verrouOnglets
    <3>1. travail'[p].etape = travail[p].etape
      BY <2>1, PerimerGarde
    <3> QED
      BY <1>6, <2>1, <3>1 DEF EnReseau, SessionJuste
  <2>2. CASE Finir(o)
    <3>1. p # o /\ travail'[p] = travail[p]
      BY <1>6, <2>2 DEF Finir, OngletsTypes, EnReseau, Repos
    <3> QED
      BY <1>6, <2>2, <3>1 DEF EnReseau, SessionJuste, Finir, Liberer
  <2> QED
    BY <2>1, <2>2
<1>7. ASSUME NEW p \in OngletsOuverts, NEW i \in 1..Len(canal'[p])
      PROVE  \/ \E k \in 1..Len(canal[p]) : canal'[p][i] = canal[p][k]
             \/ AnnonceJuste(p, canal[p][i])'
  <2>1. AnnonceJuste(p, m)'
    BY <1>3 DEF AnnonceJuste
  <2>2. CASE Diffuser(o, m)
    <3>1. \/ \E k \in 1..Len(canal[p]) : canal'[p][i] = canal[p][k]
          \/ canal'[p][i] = m
      BY <2>2, DiffuserGarde
    <3> QED
      BY <2>1, <3>1 DEF AnnonceJuste
  <2>3. CASE canal[o] # <<>> /\ canal' = [canal EXCEPT ![o] = Tail(@)]
    <3>1. CASE p = o
      <4>1. canal'[p] = Tail(canal[o])
        BY <2>3, <3>1 DEF OngletsTypes
      <4> QED
        BY <2>3, <3>1, <4>1, PremierMessage
    <3>2. CASE p # o
      BY <2>3, <3>2 DEF OngletsTypes
    <3> QED
      BY <3>1, <3>2
  <2> QED
    BY <2>2, <2>3
<1> QED
  BY <1>1, <1>2, <1>3, <1>4, <1>5, <1>6, <1>7, PasDuMagasin

\* A message of another tab: the end of the session, or the tokens the store already has.
LEMMA MessageRecu ==
  ASSUME OngletsTypes, OngletsTypes', SessionJuste, Partage, NEW o \in OngletsOuverts,
         \A p \in OngletsOuverts : Presentee(p), RecevoirMessage(o)
  PROVE  SessionJuste'
<1>1. PICK m \in Messages : m = Head(canal[o]) /\ m = canal[o][1] /\ 1 \in 1..Len(canal[o])
  BY PremierMessage DEF RecevoirMessage
<1>2. /\ canal[o] # <<>> /\ canal' = [canal EXCEPT ![o] = Tail(@)]
      /\ UNCHANGED <<serveurJetons, verrouOnglets, perdus, refuses>>
  BY DEF RecevoirMessage
<1>3. ASSUME NEW p \in OngletsOuverts, NEW i \in 1..Len(canal'[p])
      PROVE  \E k \in 1..Len(canal[p]) : canal'[p][i] = canal[p][k]
  <2>1. CASE p = o
    <3>1. canal'[p] = Tail(canal[o])
      BY <1>2, <2>1 DEF OngletsTypes
    <3> QED
      BY <1>2, <2>1, <3>1, PremierMessage
  <2>2. CASE p # o
    BY <1>2, <2>2 DEF OngletsTypes
  <2> QED
    BY <2>1, <2>2
<1>4. CASE m.type = "deconnexion" /\ Oublier(o) /\ travail' = Perimer(o)
  <2>1. Stocker(o, Aucun) /\ Aucun = 0 /\ 0 \in 0..RefreshMax
    BY <1>4, OngletsOk DEF Oublier, Aucun
  <2> QED
    BY <1>2, <1>4, <2>1, FinDeSessionJuste
<1>5. CASE /\ m.type = "jetons" /\ MemeSession(o, m) /\ Stocker(o, m.refresh)
           /\ travail' = [travail EXCEPT ![o] = IF @ = Repos THEN @ ELSE [@ EXCEPT !.adopte = TRUE]]
  <2>1. PICK r \in 1..RefreshMax : r = m.refresh
    BY <1>5 DEF Messages
  <2>2. AnnonceJuste(o, m)
    BY <1>1 DEF SessionJuste, AnnoncesJustes
  <2>3. stocke[o] = r
    BY <1>5, <2>1, <2>2 DEF AnnonceJuste, MemeSession, Aucun
  <2>4. stocke' = stocke
    BY <1>5, <2>1, <2>3 DEF Stocker, SessionJuste, MagasinJuste, OngletsTypes
  <2>5. PICK t \in Travail : t = travail[o]
    BY DEF OngletsTypes
  <2>6. PICK u : u = IF t = Repos THEN t ELSE [t EXCEPT !.adopte = TRUE]
    OBVIOUS
  <2>7. travail'[o] = u /\ \A p \in OngletsOuverts : p # o => travail'[p] = travail[p]
    BY <1>5, <2>5, <2>6 DEF OngletsTypes
  <2>8. u = t \/ (u.etape = t.etape /\ u.jeton = t.jeton /\ u.neuf = t.neuf /\ u.perime = t.perime)
    BY <2>6 DEF Travail
  <2>9. /\ travail'[o].etape = travail[o].etape /\ travail'[o].jeton = travail[o].jeton
        /\ travail'[o].neuf = travail[o].neuf /\ travail'[o].perime = travail[o].perime
    BY <2>5, <2>7, <2>8
  <2>10. EnReseau(o)' => verrouOnglets' = o
    BY <1>2, <2>9 DEF SessionJuste, EnReseau
  <2> QED
    BY <1>2, <1>3, <2>4, <2>7, <2>9, <2>10, PasNeutre
<1>6. CASE UNCHANGED <<stocke, accesCourant, etatSession, travail>>
  <2>1. EnReseau(o)' => verrouOnglets' = o
    BY <1>2, <1>6 DEF SessionJuste, EnReseau
  <2> QED
    BY <1>2, <1>3, <1>6, <2>1, PasNeutre
<1> QED
  BY <1>1, <1>4, <1>5, <1>6 DEF RecevoirMessage

LEMMA OuvertureOuFin ==
  ASSUME OngletsTypes, OngletsTypes', SessionJuste, Partage, NEW o \in OngletsOuverts,
         \A p \in OngletsOuverts : Presentee(p),
         ConnecterOnglet(o) \/ DeconnecterOnglet(o) \/ RecevoirRefus(o)
  PROVE  SessionJuste'
<1>1. Aucun = 0 /\ 0 \in 0..RefreshMax
  BY OngletsOk DEF Aucun
<1>2. PICK f \in Messages : f = Fermeture /\ f.type = "deconnexion"
  <2>1. Fermeture \in Messages
    BY DEF Fermeture, Messages
  <2>2. Fermeture.type = "deconnexion"
    BY DEF Fermeture
  <2> QED
    BY <2>1, <2>2
<1>3. CASE DeconnecterOnglet(o) \/ RecevoirRefus(o)
  <2>1. Stocker(o, 0) /\ Diffuser(o, f) /\ UNCHANGED <<serveurJetons, perdus, refuses>>
    BY <1>1, <1>2, <1>3 DEF DeconnecterOnglet, RecevoirRefus, Oublier
  <2>2. \/ travail' = Perimer(o) /\ UNCHANGED verrouOnglets
        \/ Finir(o)
    BY <1>3 DEF DeconnecterOnglet, RecevoirRefus
  <2> QED
    BY <1>1, <1>2, <2>1, <2>2, FinDeSessionJuste
<1>4. CASE ConnecterOnglet(o)
  <2>1. PICK n \in 1..RefreshMax : n = Neuf /\ serveurJetons[n] = "absent"
    BY <1>4, NeufAbsent DEF ConnecterOnglet
  <2>2. n \in 0..RefreshMax /\ n # 0
    OBVIOUS
  <2>3. Ouverture(n, 0) \in Messages
    BY <1>1 DEF Ouverture, Messages
  <2>4. PICK m \in Messages : m = Ouverture(n, 0)
    BY <2>3
  <2>5. m.refresh = n /\ m.precedent = 0
    BY <2>4 DEF Ouverture
  <2>6. /\ Stocker(o, n) /\ serveurJetons' = [serveurJetons EXCEPT ![n] = "actif"]
        /\ Diffuser(o, m) /\ travail' = Perimer(o) /\ UNCHANGED <<verrouOnglets, perdus, refuses>>
    BY <1>1, <1>4, <2>1, <2>4 DEF ConnecterOnglet
  <2> QED
    BY <2>1, <2>2, <2>5, <2>6, FinDeSessionJuste
<1> QED
  BY <1>3, <1>4

\* A tab only presents, and only receives, tokens that exist.
LEMMA Presentees ==
  ASSUME OngletsTypes, NEW o \in OngletsOuverts, \A p \in OngletsOuverts : Presentee(p),
         \/ RafraichirOnglet(o) \/ RenoncerAuReseau(o) \/ AppelerRafraichir(o) \/ ServeurRafraichit(o)
         \/ ReseauEnPanne(o) \/ IgnorerReponse(o) \/ RecevoirReponse(o) \/ RecevoirRefus(o)
         \/ RecevoirMessage(o) \/ ConnecterOnglet(o) \/ DeconnecterOnglet(o) \/ ChargerProfil(o)
  PROVE  \A p \in OngletsOuverts : Presentee(p)'
<1> TAKE p \in OngletsOuverts
<1>1. PICK t \in Travail : t = travail[o]
  BY DEF OngletsTypes
<1>2. CASE travail' = Perimer(o)
  <2>1. \/ travail'[p].etape = "repos"
        \/ /\ travail'[p].etape = travail[p].etape /\ travail'[p].jeton = travail[p].jeton
           /\ travail'[p].neuf = travail[p].neuf
    BY <1>2, PerimerGarde
  <2> QED
    BY <2>1 DEF Presentee
<1>3. ASSUME NEW n, travail' = [travail EXCEPT ![o] = n],
             n.etape = "appel" => n.jeton # 0, n.etape = "reponse" => n.neuf # 0
      PROVE  Presentee(p)'
  <2>1. travail'[p] = travail[p] \/ travail'[p] = n
    BY <1>3 DEF OngletsTypes
  <2> QED
    BY <1>3, <2>1 DEF Presentee
<1>4. CASE RafraichirOnglet(o)
  <2>1. PICK n : n = [etape |-> "file", jeton |-> stocke[o], neuf |-> Aucun, perime |-> FALSE,
                      adopte |-> FALSE]
    OBVIOUS
  <2>2. n.etape = "file" /\ travail' = [travail EXCEPT ![o] = n]
    BY <1>4, <2>1 DEF RafraichirOnglet
  <2> QED
    BY <1>3, <2>2
<1>5. CASE Finir(o) \/ RenoncerAuReseau(o)
  <2>1. travail' = [travail EXCEPT ![o] = Repos] /\ Repos.etape = "repos"
    BY <1>5 DEF Finir, RenoncerAuReseau, Repos
  <2> QED
    BY <1>3, <2>1
<1>6. CASE UNCHANGED travail
  BY <1>6 DEF Presentee
<1>7. CASE AppelerRafraichir(o)
  <2>1. PICK s \in 0..RefreshMax : s = stocke[o] /\ s # 0
    BY <1>7 DEF OngletsTypes, AppelerRafraichir, RefreshALire, Aucun
  <2>2. t \in [etape: {"file", "appel", "refus", "panne", "reponse"}, jeton: 0..RefreshMax,
               neuf: 0..RefreshMax, perime: BOOLEAN, adopte: BOOLEAN]
    BY <1>1, <1>7, TravailEnCours DEF AppelerRafraichir, Attendu
  <2>3. PICK n : n = [t EXCEPT !.etape = "appel", !.jeton = s]
    OBVIOUS
  <2>4. n.jeton # 0 /\ n.etape = "appel" /\ travail' = [travail EXCEPT ![o] = n]
    BY <1>1, <1>7, <2>1, <2>2, <2>3 DEF AppelerRafraichir, RefreshALire
  <2> QED
    BY <1>3, <2>4
<1>8. CASE ServeurRafraichit(o) \/ ReseauEnPanne(o)
  <2>1. t \in [etape: {"file", "appel", "refus", "panne", "reponse"}, jeton: 0..RefreshMax,
               neuf: 0..RefreshMax, perime: BOOLEAN, adopte: BOOLEAN]
    BY <1>1, <1>8, TravailEnCours DEF ServeurRafraichit, ReseauEnPanne
  <2>2. PICK k : k = Neuf
    OBVIOUS
  <2>3. PICK a : a = [t EXCEPT !.etape = "reponse", !.neuf = k]
    OBVIOUS
  <2>4. PICK b : b = [t EXCEPT !.etape = "panne"]
    OBVIOUS
  <2>5. PICK c : c = [t EXCEPT !.etape = "refus"]
    OBVIOUS
  <2>6. /\ a.etape = "reponse" /\ a.neuf = k
        /\ b.etape = "panne" /\ c.etape = "refus"
    BY <2>1, <2>3, <2>4, <2>5
  <2>7. \/ travail' = [travail EXCEPT ![o] = a] /\ PeutEmettre
        \/ travail' = [travail EXCEPT ![o] = b]
        \/ travail' = [travail EXCEPT ![o] = c]
    <3>1. CASE ServeurRafraichit(o) /\ serveurJetons[travail[o].jeton] = "actif"
      <4>1. /\ PeutEmettre
            /\ \/ travail' = [travail EXCEPT ![o].etape = "reponse", ![o].neuf = Neuf]
               \/ travail' = [travail EXCEPT ![o].etape = "panne"]
        BY <3>1 DEF ServeurRafraichit
      <4> QED
        BY <1>1, <2>2, <2>3, <2>4, <4>1
    <3>2. CASE ServeurRafraichit(o) /\ serveurJetons[travail[o].jeton] # "actif"
      BY <1>1, <2>5, <3>2 DEF ServeurRafraichit
    <3>3. CASE ReseauEnPanne(o)
      BY <1>1, <2>4, <3>3 DEF ReseauEnPanne
    <3> QED
      BY <1>8, <3>1, <3>2, <3>3
  <2>8. PeutEmettre => k # 0
    BY <2>2, NeufAbsent, OngletsOk
  <2> QED
    BY <1>3, <2>6, <2>7, <2>8
<1>9. CASE travail' = [travail EXCEPT ![o] = IF @ = Repos THEN @ ELSE [@ EXCEPT !.adopte = TRUE]]
  <2>1. PICK n : n = IF t = Repos THEN t ELSE [t EXCEPT !.adopte = TRUE]
    OBVIOUS
  <2>2. n = t \/ (n.etape = t.etape /\ n.jeton = t.jeton /\ n.neuf = t.neuf)
    BY <2>1 DEF Travail
  <2>3. travail' = [travail EXCEPT ![o] = n] /\ Presentee(o)
    BY <1>1, <1>9, <2>1
  <2> QED
    BY <1>1, <1>3, <2>2, <2>3 DEF Presentee
<1> QED
  BY <1>2, <1>4, <1>5, <1>6, <1>7, <1>8, <1>9
     DEF IgnorerReponse, RecevoirReponse, RecevoirRefus, RecevoirMessage, ConnecterOnglet,
         DeconnecterOnglet, ChargerProfil

\* The tabs of a portal, whatever their number and the tokens issued.
THEOREM Invariance_Onglets == OngletsSpec => []OngletsInv
<1>1. OngletsInit => OngletsInv
  <2> SUFFICES ASSUME OngletsInit PROVE OngletsInv
    OBVIOUS
  <2>1. OngletsTypes
    BY OngletsOk DEF OngletsInit, OngletsTypes, Travail, Aucun
  <2>2. \A o \in OngletsOuverts : travail[o].etape = "repos" /\ Len(canal[o]) = 0
    BY DEF OngletsInit, Repos
  <2>3. MagasinJuste
    BY OngletsOk DEF OngletsInit, MagasinJuste
  <2> QED
    BY <2>1, <2>2, <2>3 DEF OngletsInv, SessionJuste, Presentee, EnReseau, AppelJuste, ReponseJuste,
                            AnnoncesJustes, OngletsInit
<1>2. OngletsInv /\ [OngletsNext]_ongletsVars => OngletsInv'
  <2> SUFFICES ASSUME OngletsInv, [OngletsNext]_ongletsVars PROVE OngletsInv'
    OBVIOUS
  <2>1. OngletsTypes /\ \A p \in OngletsOuverts : Presentee(p)
    BY DEF OngletsInv
  <2>2. ASSUME NEW o \in OngletsOuverts,
               \/ RafraichirOnglet(o) \/ RenoncerAuReseau(o) \/ AppelerRafraichir(o)
               \/ ServeurRafraichit(o) \/ ReseauEnPanne(o) \/ IgnorerReponse(o) \/ RecevoirReponse(o)
               \/ RecevoirRefus(o) \/ RecevoirMessage(o) \/ ConnecterOnglet(o) \/ DeconnecterOnglet(o)
               \/ ChargerProfil(o)
        PROVE  OngletsInv'
    <3>1. OngletsTypes'
      BY <2>1, <2>2, TypesDuTravail, TypesDesReponses, TypesDesSessions
    <3>2. (\A p \in OngletsOuverts : Presentee(p))'
      BY <2>1, <2>2, Presentees
    <3>3. ASSUME Partage PROVE SessionJuste'
      <4>1. SessionJuste
        BY <3>3 DEF OngletsInv
      <4> QED
        BY <2>1, <2>2, <3>1, <3>3, <4>1, ProgresJuste, AppelJustifie, RotationJuste, ReponseRangee,
           MessageRecu, OuvertureOuFin
    <3> QED
      BY <3>1, <3>2, <3>3 DEF OngletsInv
  <2>3. ASSUME NEW n \in sorties, ServeurDeconnecte(n) PROVE OngletsInv'
    <3>1. OngletsTypes'
      BY <2>1, <2>3 DEF ServeurDeconnecte, OngletsTypes
    <3>2. (\A p \in OngletsOuverts : Presentee(p))'
      BY <2>1, <2>3 DEF ServeurDeconnecte, Presentee
    <3>3. Partage => SessionJuste'
      BY <2>1, <2>3, <3>1, DeconnexionServeurJuste DEF OngletsInv
    <3> QED
      BY <3>1, <3>2, <3>3 DEF OngletsInv
  <2>4. CASE UNCHANGED ongletsVars
    BY <2>4 DEF ongletsVars, OngletsInv, OngletsTypes, SessionJuste, MagasinJuste, AnnoncesJustes,
                AnnonceJuste, EnReseau, AppelJuste, ReponseJuste, Presentee
  <2> QED
    BY <2>2, <2>3, <2>4 DEF OngletsNext
<1> QED
  BY <1>1, <1>2, PTL DEF OngletsSpec

\* One promise a tab and one lock for all of them: rafraichir reads the store again once it
\* holds the lock (packages/auth/src/rafraichissement.ts).
THEOREM Refresh_Unique == OngletsSpec => []RefreshUnique
<1>1. OngletsInv => RefreshUnique
  BY DEF OngletsInv, SessionJuste, RefreshUnique
<1> QED
  BY <1>1, Invariance_Onglets, PTL

-----------------------------------------------------------------------------
\* Support tickets: as long as no stale row was written back, the row that a
\* reclassification saves is the ticket itself, and its author was allowed to see it.

LectureJuste ==
  reclassement # AucunReclassement /\ reclassement.par \in Agents =>
    reclassement.ligne.agent \in {reclassement.par, NonAssigne}

SupportInv ==
  /\ SupportTypes /\ Len(fil) <= FilMax
  /\ LectureJuste /\ TicketTenu

LEMMA AgentVoit ==
  ASSUME NEW u \in Agents, Visible(u)
  PROVE  ticket.agent \in {u, NonAssigne}
<1>1. u # "vendeur"
  BY SupportOk
<1> QED
  BY <1>1 DEF Visible

LEMMA PrendreGarde ==
  ASSUME NEW l \in SupportTicket, NEW u \in Interlocuteurs
  PROVE  /\ Prendre(l, u) \in SupportTicket
         /\ Prendre(l, u).statut = l.statut
         /\ Prendre(l, u).agent = IF u \in Agents /\ l.agent = NonAssigne THEN u ELSE l.agent
BY DEF Prendre, SupportTicket, STAFF_ROLES

LEMMA StatutPose ==
  ASSUME NEW l \in SupportTicket, NEW u \in Interlocuteurs, NEW s \in Status
  PROVE  /\ [Prendre(l, u) EXCEPT !.statut = s] \in SupportTicket
         /\ [Prendre(l, u) EXCEPT !.statut = s].statut = s
         /\ [Prendre(l, u) EXCEPT !.statut = s].agent = Prendre(l, u).agent
<1>1. PICK p \in SupportTicket : p = Prendre(l, u)
  BY PrendreGarde
<1> QED
  BY <1>1 DEF SupportTicket

\* An agent who acts is the one the ticket then names.
LEMMA UnSeulAgent ==
  ASSUME SupportTypes, NEW l \in SupportTicket, NEW u \in Interlocuteurs,
         intervenants \subseteq {l.agent}, u \in Agents => l.agent \in {u, NonAssigne}, Agir(u)
  PROVE  /\ intervenants' \subseteq {Prendre(l, u).agent}
         /\ intervenants' \subseteq Agents
<1>1. CASE u \in Agents
  <2>1. Prendre(l, u).agent = u
    BY <1>1, PrendreGarde DEF NonAssigne
  <2>2. intervenants \subseteq {u}
    BY <1>1, SupportOk DEF SupportTypes, NonAssigne
  <2> QED
    BY <1>1, <2>1, <2>2 DEF Agir, SupportTypes
<1>2. CASE u \notin Agents
  BY <1>2, PrendreGarde DEF Agir, SupportTypes
<1> QED
  BY <1>1, <1>2

LEMMA AgirType ==
  ASSUME SupportTypes, NEW u, Agir(u)
  PROVE  intervenants' \subseteq Agents
BY DEF Agir, SupportTypes

LEMMA ClotureTenue ==
  ASSUME SupportTypes, Len(fil) <= FilMax, NEW l \in SupportTicket, Clore(l)
  PROVE  /\ ferme' \in -1..FilMax
         /\ ferme' # -1 => ferme' = ferme \/ (ferme = -1 /\ l.statut = "closed" /\ ferme' = Len(fil))
<1>1. PICK n \in Nat : n = Len(fil)
  BY DEF SupportTypes
<1> QED
  BY <1>1, SupportOk DEF Clore, SupportTypes

LEMMA StatutConserve ==
  ASSUME SupportInv, NEW u \in Interlocuteurs, NEW s \in Status, ChangerStatut(u, s)
  PROVE  SupportInv'
<1>1. SupportTypes /\ Len(fil) <= FilMax /\ ticket \in SupportTicket
  BY DEF SupportInv, SupportTypes
<1>2. PICK t \in SupportTicket : t = [Prendre(ticket, u) EXCEPT !.statut = s]
  BY <1>1, StatutPose
<1>3. t.statut = s /\ t.agent = Prendre(ticket, u).agent /\ ticket' = t
  BY <1>1, <1>2, StatutPose DEF ChangerStatut
<1>4. Clore(t) /\ Agir(u) /\ UNCHANGED <<fil, reclassement, rouvert>>
  BY <1>3 DEF ChangerStatut
<1>5. /\ ferme' \in -1..FilMax
      /\ ferme' # -1 => ferme' = ferme \/ (ferme = -1 /\ t.statut = "closed" /\ ferme' = Len(fil))
  BY <1>1, <1>4, ClotureTenue
<1>6. ticket.statut # "closed"
  BY DEF ChangerStatut, ALLOWED_TRANSITIONS
<1>7. SupportTypes' /\ Len(fil') <= FilMax
  BY <1>1, <1>3, <1>4, <1>5, AgirType DEF SupportTypes
<1>8. LectureJuste'
  BY <1>4 DEF SupportInv, LectureJuste
<1>9. TicketTenu'
  <2> SUFFICES ASSUME ~rouvert
               PROVE  /\ ferme' # -1 => t.statut = "closed" /\ Len(fil) = ferme'
                      /\ intervenants' \subseteq {t.agent}
    BY <1>3, <1>4 DEF TicketTenu
  <2>1. ferme = -1 /\ intervenants \subseteq {ticket.agent}
    BY <1>6 DEF SupportInv, TicketTenu
  <2>2. u \in Agents => ticket.agent \in {u, NonAssigne}
    BY AgentVoit DEF ChangerStatut
  <2>3. intervenants' \subseteq {t.agent}
    BY <1>1, <1>3, <1>4, <2>1, <2>2, UnSeulAgent
  <2> QED
    BY <1>5, <2>1, <2>3
<1> QED
  BY <1>7, <1>8, <1>9 DEF SupportInv

LEMMA AssignationConserve ==
  ASSUME SupportInv, NEW u \in Interlocuteurs, NEW a \in STAFF_ROLES, Assigner(u, a)
  PROVE  SupportInv'
<1>1. SupportTypes /\ ticket \in SupportTicket
  BY DEF SupportInv, SupportTypes
<1>2. PICK t : t = [ticket EXCEPT !.agent = a]
  OBVIOUS
<1>3. t \in SupportTicket /\ t.statut = ticket.statut /\ t.agent = a
  BY <1>1, <1>2 DEF SupportTicket
<1>4. /\ ticket' = t /\ ticket.statut # "closed"
      /\ UNCHANGED <<fil, reclassement, ferme, rouvert>>
      /\ intervenants' = {} \/ (u \in Agents /\ a = u /\ Agir(u))
  BY <1>2 DEF Assigner
<1>5. intervenants' \subseteq Agents
  BY <1>1, <1>4, AgirType
<1>6. SupportTypes' /\ Len(fil') <= FilMax
  BY <1>1, <1>3, <1>4, <1>5 DEF SupportTypes, SupportInv
<1>7. LectureJuste'
  BY <1>4 DEF SupportInv, LectureJuste
<1>8. TicketTenu'
  <2> SUFFICES ASSUME ~rouvert
               PROVE  /\ ferme = -1
                      /\ intervenants' \subseteq {a}
    BY <1>3, <1>4 DEF TicketTenu
  <2>1. ferme = -1 /\ intervenants \subseteq {ticket.agent}
    BY <1>4 DEF SupportInv, TicketTenu
  <2>2. CASE u \in Agents /\ a = u /\ Agir(u)
    <3>1. u \in Agents => ticket.agent \in {u, NonAssigne}
      BY AgentVoit DEF Assigner
    <3>2. intervenants' \subseteq {Prendre(ticket, u).agent}
      BY <1>1, <2>1, <2>2, <3>1, UnSeulAgent
    <3>3. Prendre(ticket, u).agent = u
      BY <1>1, <2>2, <3>1, PrendreGarde
    <3> QED
      BY <2>1, <2>2, <3>2, <3>3
  <2> QED
    BY <1>4, <2>1, <2>2
<1> QED
  BY <1>6, <1>7, <1>8 DEF SupportInv

LEMMA MessageConserve ==
  ASSUME SupportInv, NEW u \in Interlocuteurs, NEW interne \in BOOLEAN, EcrireMessage(u, interne)
  PROVE  SupportInv'
<1>1. SupportTypes /\ ticket \in SupportTicket
  BY DEF SupportInv, SupportTypes
<1>2. PICK s \in Status : s = StatutApres(ticket, u, interne)
  BY <1>1 DEF StatutApres, SupportTicket, Status
<1>3. PICK t : t = [Prendre(ticket, u) EXCEPT !.statut = s]
  OBVIOUS
<1>4. PICK m : m = [auteur |-> u, interne |-> interne, pieces |-> 0]
  OBVIOUS
<1>5. m \in TicketMessage
  BY <1>4, SupportOk DEF TicketMessage
<1>6. /\ t \in SupportTicket /\ t.agent = Prendre(ticket, u).agent
      /\ ticket' = t /\ ticket.statut # "closed" /\ fil' = Append(fil, m) /\ Len(fil) < FilMax
      /\ Agir(u) /\ UNCHANGED <<reclassement, ferme, rouvert>>
  BY <1>1, <1>2, <1>3, <1>4, StatutPose DEF EcrireMessage
<1>7. fil' \in Seq(TicketMessage) /\ Len(fil') <= FilMax
  BY <1>1, <1>5, <1>6, SupportOk DEF SupportTypes
<1>8. SupportTypes'
  BY <1>1, <1>6, <1>7, AgirType DEF SupportTypes
<1>9. LectureJuste'
  BY <1>6 DEF SupportInv, LectureJuste
<1>10. TicketTenu'
  <2> SUFFICES ASSUME ~rouvert
               PROVE  ferme = -1 /\ intervenants' \subseteq {t.agent}
    BY <1>6 DEF TicketTenu
  <2>1. ferme = -1 /\ intervenants \subseteq {ticket.agent}
    BY <1>6 DEF SupportInv, TicketTenu
  <2>2. u \in Agents => ticket.agent \in {u, NonAssigne}
    BY AgentVoit DEF EcrireMessage
  <2> QED
    BY <1>1, <1>3, <1>6, <2>1, <2>2, UnSeulAgent
<1> QED
  BY <1>7, <1>8, <1>9, <1>10 DEF SupportInv

LEMMA PieceConservee ==
  ASSUME SupportInv, NEW u \in Interlocuteurs, NEW i \in DOMAIN fil, JoindrePiece(u, i)
  PROVE  SupportInv'
<1>1. PICK f \in Seq(TicketMessage) : f = fil
  BY DEF SupportInv, SupportTypes
<1>2. PICK m \in TicketMessage : m = f[i]
  BY <1>1
<1>3. PICK n : n = [m EXCEPT !.pieces = m.pieces + 1]
  OBVIOUS
<1>4. n \in TicketMessage
  <2>1. m.pieces < PiecesMax /\ m.pieces \in 0..PiecesMax
    BY <1>1, <1>2 DEF JoindrePiece, TicketMessage
  <2>2. m.pieces + 1 \in 0..PiecesMax
    BY <2>1, SupportOk
  <2> QED
    BY <1>3, <2>2 DEF TicketMessage
<1>5. fil' = [f EXCEPT ![i] = n]
  BY <1>1, <1>2, <1>3 DEF JoindrePiece
<1>6. fil' \in Seq(TicketMessage) /\ Len(fil') = Len(fil)
  BY <1>1, <1>4, <1>5
<1>7. UNCHANGED <<ticket, reclassement, ferme, intervenants, rouvert>>
  BY DEF JoindrePiece
<1> QED
  BY <1>6, <1>7 DEF SupportInv, SupportTypes, LectureJuste, TicketTenu

LEMMA ReclassementConserve ==
  ASSUME SupportInv, Reclasser \/ \E u \in Interlocuteurs : LireTicket(u)
  PROVE  SupportInv'
<1>1. SupportTypes /\ ticket \in SupportTicket
  BY DEF SupportInv, SupportTypes
<1>2. ASSUME NEW u \in Interlocuteurs, LireTicket(u) PROVE SupportInv'
  <2>1. u \in STAFF_ROLES /\ Visible(u) /\ UNCHANGED <<ticket, fil, ferme, intervenants, rouvert>>
    BY <1>2 DEF LireTicket
  <2>2. PICK t \in SupportTicket : t = ticket
    BY <1>1
  <2>3. PICK r : r = [par |-> u, ligne |-> t]
    OBVIOUS
  <2>4. r \in [par : STAFF_ROLES, ligne : SupportTicket] /\ reclassement' = r
    BY <1>2, <2>1, <2>2, <2>3 DEF LireTicket
  <2>5. u \in Agents => t.agent \in {u, NonAssigne}
    BY <2>1, <2>2, AgentVoit
  <2>6. SupportTypes'
    BY <1>1, <2>1, <2>4 DEF SupportTypes
  <2> QED
    BY <2>1, <2>3, <2>4, <2>5, <2>6 DEF SupportInv, LectureJuste, TicketTenu
<1>3. CASE Reclasser
  <2>1. PICK r \in [par : STAFF_ROLES, ligne : SupportTicket] : r = reclassement
    BY <1>1, <1>3 DEF SupportTypes, Reclasser
  <2>2. PICK u \in STAFF_ROLES : u = r.par
    BY <2>1
  <2>3. PICK l \in SupportTicket : l = r.ligne
    BY <2>1
  <2>4. u \in Interlocuteurs
    BY DEF Interlocuteurs
  <2>5. /\ rouvert' = (rouvert \/ l # ticket) /\ ticket' = Prendre(l, u)
        /\ reclassement' = AucunReclassement /\ Agir(u) /\ UNCHANGED <<fil, ferme>>
    BY <1>3, <2>1, <2>2, <2>3 DEF Reclasser
  <2>6. ticket' \in SupportTicket /\ ticket'.statut = l.statut
    BY <2>4, <2>5, PrendreGarde
  <2>7. SupportTypes'
    BY <1>1, <2>5, <2>6, AgirType DEF SupportTypes
  <2>8. TicketTenu'
    <3> SUFFICES ASSUME ~rouvert, l = ticket PROVE TicketTenu'
      BY <2>5 DEF TicketTenu
    <3>1. intervenants \subseteq {l.agent} /\ (ferme # -1 => l.statut = "closed" /\ Len(fil) = ferme)
      BY DEF SupportInv, TicketTenu
    <3>2. u \in Agents => l.agent \in {u, NonAssigne}
      BY <1>3, <2>1, <2>2, <2>3 DEF SupportInv, LectureJuste, Reclasser
    <3>3. intervenants' \subseteq {ticket'.agent}
      BY <1>1, <2>4, <2>5, <3>1, <3>2, UnSeulAgent
    <3> QED
      BY <2>5, <2>6, <3>1, <3>3 DEF TicketTenu
  <2> QED
    BY <2>5, <2>7, <2>8 DEF SupportInv, LectureJuste
<1> QED
  BY <1>2, <1>3

\* A closed ticket is final and two agents never share one, but for a stale row written
\* back (apps/support/services.py).
THEOREM Ticket_Tenu == SupportSpec => []TicketTenu
<1>1. SupportInit => SupportInv
  <2> SUFFICES ASSUME SupportInit PROVE SupportInv
    OBVIOUS
  <2>1. PICK b \in BOOLEAN : ticket = [statut |-> "open", agent |-> NonAssigne, boutique |-> b, note |-> FALSE]
    BY DEF SupportInit
  <2>2. ticket \in SupportTicket
    BY <2>1 DEF SupportTicket, Status
  <2>3. fil \in Seq(TicketMessage) /\ Len(fil) <= FilMax /\ ferme \in -1..FilMax
    BY SupportOk DEF SupportInit
  <2> QED
    BY <2>2, <2>3 DEF SupportInit, SupportInv, SupportTypes, LectureJuste, TicketTenu
<1>2. SupportInv /\ [SupportNext]_supportVars => SupportInv'
  <2> SUFFICES ASSUME SupportInv, [SupportNext]_supportVars PROVE SupportInv'
    OBVIOUS
  <2>1. CASE Noter
    <3>1. PICK t \in SupportTicket : t = ticket
      BY DEF SupportInv, SupportTypes
    <3>2. PICK n : n = [t EXCEPT !.note = TRUE]
      OBVIOUS
    <3>3. n \in SupportTicket /\ n.statut = t.statut /\ n.agent = t.agent /\ ticket' = n
      BY <2>1, <3>1, <3>2 DEF SupportTicket, Noter
    <3>4. UNCHANGED <<fil, reclassement, ferme, intervenants, rouvert>>
      BY <2>1 DEF Noter
    <3> QED
      BY <3>1, <3>3, <3>4 DEF SupportInv, SupportTypes, LectureJuste, TicketTenu
  <2>2. CASE UNCHANGED supportVars
    BY <2>2 DEF supportVars, SupportInv, SupportTypes, LectureJuste, TicketTenu
  <2> QED
    BY <2>1, <2>2, StatutConserve, AssignationConserve, MessageConserve, PieceConservee,
       ReclassementConserve DEF SupportNext
<1>3. SupportInv => TicketTenu
  BY DEF SupportInv
<1> QED
  BY <1>1, <1>2, <1>3, PTL DEF SupportSpec

-----------------------------------------------------------------------------
\* Live tracking: a position is seen, or still in the queue of the socket, or on its way
\* on the pub/sub connection; the lock of the hub keeps Redis and the listeners in step.

Present(n, s) == \E i \in 1..Len(s) : s[i] = n

\* The positions come in the order in which they were published.
FluxJuste ==
  /\ cle.n \in {0, publiees}
  /\ \A i \in 1..Len(pubsub) : pubsub[i] <= publiees
  /\ \A i, j \in 1..Len(pubsub) : i < j => pubsub[i] < pubsub[j]

\* Redis is subscribed as long as someone listens, unless the connection is lost.
HubJuste ==
  /\ \A w \in Sockets : ws[w].etape = "desabonnement" => ecouteurs = {}
  /\ ~perdue /\ (ecouteurs # {} \/ \E w \in Sockets : ws[w].etape = "abonnement") => souscrit

SocketJuste(w) ==
  /\ verrou_hub = w <=> ws[w].etape \in {"abonnement", "desabonnement"}
  /\ w \in ecouteurs =>
       /\ ws[w].etape \in {"abonne", "servi", "sortie"}
       /\ \A i \in 1..Len(ws[w].queue) : ws[w].queue[i] # CLOSED /\ ws[w].queue[i] <= publiees
       /\ \A i \in 1..Len(ws[w].queue) : \A j \in 1..Len(pubsub) : ws[w].queue[i] < pubsub[j]
  /\ ws[w].etape \in {"ouvert", "abonnement"} => ws[w].queue = <<>>
  /\ ws[w].etape \in {"abonne", "servi"} => w \in ecouteurs \/ ws[w].queue = <<CLOSED>>

\* The last position reaches the client of a socket that is served.
Couverte(w) ==
  ws[w].etape = "servi" /\ w \in ecouteurs /\ ~perdue =>
    \/ ws[w].vu >= cle.n
    \/ Present(cle.n, ws[w].queue)
    \/ Present(cle.n, pubsub)

SuiviInv ==
  /\ SuiviTypes /\ FluxJuste /\ HubJuste
  /\ \A w \in Sockets : SocketJuste(w) /\ Couverte(w)

LEMMA ElementDe ==
  ASSUME NEW S, NEW s \in Seq(S)
  PROVE  Len(s) \in Nat /\ \A i \in 1..Len(s) : s[i] \in S
OBVIOUS


LEMMA SocketLu ==
  ASSUME SuiviTypes, NEW w \in Sockets
  PROVE  /\ ws[w] \in Connection /\ ws[w].queue \in Seq(0..PositionsMax) /\ ws[w].vu \in 0..PositionsMax
         /\ Len(ws[w].queue) \in Nat /\ Len(ws[w].queue) <= FileMax
<1>1. PICK r \in Connection : r = ws[w]
  BY DEF SuiviTypes
<1>2. PICK s \in Seq(0..PositionsMax) : s = r.queue
  BY DEF Connection
<1> QED
  BY <1>1, <1>2 DEF SuiviTypes, Connection

\* One socket moves; the others only see the hub keep them.
LEMMA PasDUnSocket ==
  ASSUME SuiviInv, NEW w \in Sockets, NEW n \in Connection, Len(n.queue) <= FileMax,
         ws' = [ws EXCEPT ![w] = n],
         UNCHANGED <<publiees, pubsub, droits, envoi, perdue>>,
         cle' \in PositionStockee, cle'.n \in {0, cle.n},
         ecouteurs' \subseteq Sockets,
         \A v \in Sockets : v # w => (v \in ecouteurs' <=> v \in ecouteurs),
         souscrit' \in BOOLEAN, verrou_hub' \in Sockets \cup {AucunSocket},
         \A v \in Sockets : v # w => (verrou_hub' = v <=> verrou_hub = v),
         HubJuste', SocketJuste(w)', Couverte(w)'
  PROVE  SuiviInv'
<1>1. SuiviTypes
  BY DEF SuiviInv
<1>2. ws'[w] = n /\ \A v \in Sockets : v # w => ws'[v] = ws[v]
  BY <1>1 DEF SuiviTypes
<1>3. SuiviTypes'
  BY <1>1, <1>2, SocketLu DEF SuiviTypes, droits
<1>4. FluxJuste'
  BY DEF SuiviInv, FluxJuste
<1>5. ASSUME NEW v \in Sockets, v # w PROVE SocketJuste(v)' /\ Couverte(v)'
  <2>1. ws'[v] = ws[v] /\ (v \in ecouteurs' <=> v \in ecouteurs) /\ (verrou_hub' = v <=> verrou_hub = v)
    BY <1>2, <1>5
  <2>2. SocketJuste(v)'
    BY <2>1 DEF SuiviInv, SocketJuste
  <2>3. PICK a \in Nat : a = ws[v].vu
    BY <1>1, SocketLu
  <2>4. Couverte(v)'
    <3>1. CASE cle'.n = 0
      BY <2>1, <2>3, <3>1 DEF Couverte
    <3>2. CASE cle'.n = cle.n
      BY <2>1, <3>2 DEF SuiviInv, Couverte, Present
    <3> QED
      BY <3>1, <3>2
  <2> QED
    BY <2>2, <2>4
<1> QED
  BY <1>3, <1>4, <1>5 DEF SuiviInv

LEMMA CleLue ==
  ASSUME SuiviTypes, NEW l
  PROVE  /\ cle.n \in Nat
         /\ current_position(l) \in PositionStockee /\ current_position(l).n = Montree(l)
         /\ discard_position \in PositionStockee /\ discard_position.n = 0
         /\ Montree(l) \in {0, cle.n}
<1>1. PICK c \in PositionStockee : c = cle
  BY DEF SuiviTypes
<1>2. PICK d : d = [c EXCEPT !.n = 0]
  OBVIOUS
<1>3. d \in PositionStockee /\ d.n = 0 /\ c.n \in Nat
  BY <1>2, SuiviAssumption DEF PositionStockee
<1> QED
  BY <1>1, <1>2, <1>3 DEF current_position, discard_position, Montree

\* Steps that only concern the rights, or take the position away from Redis.
LEMMA SansSocket ==
  ASSUME SuiviInv, UNCHANGED <<publiees, pubsub, hub, ws>>,
         course' \in [statut : {"en_cours", "livree", "echouee"}, livreur : Livreurs],
         comptes_actifs' \subseteq Livreurs \cup Auditeurs, envoi' \subseteq Livreurs,
         cle' \in PositionStockee, cle'.n \in {0, cle.n}
  PROVE  SuiviInv'
<1>1. SuiviTypes /\ SuiviTypes'
  BY DEF SuiviInv, SuiviTypes, hub
<1>2. FluxJuste' /\ HubJuste'
  BY DEF SuiviInv, FluxJuste, HubJuste, hub
<1>3. ASSUME NEW w \in Sockets PROVE SocketJuste(w)' /\ Couverte(w)'
  <2>1. SocketJuste(w)'
    BY DEF SuiviInv, SocketJuste, hub
  <2>2. PICK a \in Nat : a = ws[w].vu
    BY <1>1, SocketLu
  <2>3. CASE cle'.n = 0
    BY <2>1, <2>2, <2>3 DEF Couverte, hub
  <2>4. CASE cle'.n = cle.n
    BY <2>1, <2>4 DEF SuiviInv, Couverte, Present, hub
  <2> QED
    BY <2>1, <2>3, <2>4
<1> QED
  BY <1>1, <1>2, <1>3 DEF SuiviInv

LEMMA DroitsConserves ==
  ASSUME SuiviInv,
         \/ Django \/ ExpirerPosition
         \/ \E l \in Livreurs : publier_position(l) \/ EchouerEnvoi(l)
         \/ \E u \in Auditeurs : obtenir_position(u)
  PROVE  SuiviInv'
<1>1. SuiviTypes
  BY DEF SuiviInv
<1>2. /\ UNCHANGED <<publiees, pubsub, hub, ws>>
      /\ envoi' \subseteq Livreurs
  BY <1>1 DEF Django, ExpirerPosition, publier_position, EchouerEnvoi, obtenir_position, redis, SuiviTypes
<1>3. cle' \in PositionStockee /\ cle'.n \in {0, cle.n}
  BY <1>1, CleLue DEF Django, ExpirerPosition, publier_position, EchouerEnvoi, obtenir_position, redis, SuiviTypes
<1>4. /\ course' \in [statut : {"en_cours", "livree", "echouee"}, livreur : Livreurs]
      /\ comptes_actifs' \subseteq Livreurs \cup Auditeurs
  <2>1. PICK c \in [statut : {"en_cours", "livree", "echouee"}, livreur : Livreurs] : c = course
    BY <1>1 DEF SuiviTypes
  <2>2. CASE Django
    <3>1. \/ course' = c
          \/ \E s \in {"en_cours", "livree", "echouee"} : course' = [c EXCEPT !.statut = s]
          \/ \E l \in Livreurs : course' = [c EXCEPT !.livreur = l]
      BY <2>1, <2>2 DEF Django
    <3> QED
      BY <1>1, <2>2, <3>1 DEF Django, SuiviTypes
  <2>3. CASE UNCHANGED droits
    BY <1>1, <2>3 DEF droits, SuiviTypes
  <2> QED
    BY <2>2, <2>3 DEF ExpirerPosition, publier_position, EchouerEnvoi, obtenir_position
<1> QED
  BY <1>2, <1>3, <1>4, SansSocket

LEMMA PublicationConserve ==
  ASSUME SuiviInv, NEW l \in Livreurs, publish_position(l)
  PROVE  SuiviInv'
<1>1. SuiviTypes
  BY DEF SuiviInv
<1>2. PICK f \in Seq(1..PositionsMax) : f = pubsub
  BY <1>1 DEF SuiviTypes
<1>3. PICK k \in 0..PositionsMax : k = publiees
  BY <1>1 DEF SuiviTypes
<1>4. /\ publiees' = k + 1 /\ k + 1 \in 1..PositionsMax
      /\ cle' = [n |-> k + 1, livreur |-> l]
      /\ pubsub' = IF souscrit THEN Append(f, k + 1) ELSE f
      /\ envoi' = envoi \ {l} /\ UNCHANGED <<hub, droits, ws>>
  BY <1>2, <1>3, SuiviAssumption DEF publish_position
<1>5. cle' \in PositionStockee /\ cle'.n = k + 1
  BY <1>4 DEF PositionStockee
<1>6. pubsub' \in Seq(1..PositionsMax)
  <2>1. PICK x \in 1..PositionsMax : x = k + 1
    BY <1>4
  <2>2. Append(f, x) \in Seq(1..PositionsMax)
    BY <1>2
  <2> QED
    BY <1>2, <1>4, <2>1, <2>2
<1>7. SuiviTypes'
  BY <1>1, <1>4, <1>5, <1>6, SocketLu DEF SuiviTypes, hub, droits
<1>8. \A i \in 1..Len(f) : f[i] <= k
  BY <1>2, <1>3 DEF SuiviInv, FluxJuste
<1>9. ASSUME NEW i \in 1..Len(pubsub')
      PROVE  \/ i \in 1..Len(f) /\ pubsub'[i] = f[i]
             \/ i = Len(f) + 1 /\ pubsub'[i] = k + 1
  BY <1>2, <1>4
<1>10. FluxJuste'
  <2>0. PICK m \in Nat : m = Len(f)
    BY <1>2
  <2>1. ASSUME NEW i \in 1..Len(pubsub') PROVE pubsub'[i] <= publiees'
    <3>1. CASE i \in 1..Len(f) /\ pubsub'[i] = f[i]
      <4>1. f[i] \in 1..PositionsMax /\ f[i] <= k
        BY <1>2, <1>8, <3>1, ElementDe
      <4> QED
        BY <1>3, <1>4, <3>1, <4>1, SuiviAssumption
    <3>2. CASE pubsub'[i] = k + 1
      BY <1>4, <3>2
    <3> QED
      BY <1>9, <3>1, <3>2
  <2>2. \A i, j \in 1..Len(pubsub') : i < j => pubsub'[i] < pubsub'[j]
    <3>1. \A i, j \in 1..Len(f) : i < j => f[i] < f[j]
      BY <1>2 DEF SuiviInv, FluxJuste
    <3>2. \A i \in 1..m : f[i] \in 1..PositionsMax
      BY <1>2, <2>0, ElementDe
    <3>3. \A i \in 1..m : f[i] \in Nat
      BY <3>2, SuiviAssumption
    <3> QED
      BY <1>3, <1>8, <1>9, <2>0, <3>1, <3>3
  <2> QED
    BY <1>4, <1>5, <2>1, <2>2 DEF FluxJuste
<1>11. HubJuste'
  BY <1>4 DEF SuiviInv, HubJuste, hub
<1>12. ASSUME NEW w \in Sockets PROVE SocketJuste(w)' /\ Couverte(w)'
  <2>1. PICK q \in Seq(0..PositionsMax) : q = ws[w].queue
    BY <1>1, SocketLu
  <2>0. \A i \in 1..Len(q) : q[i] \in 0..PositionsMax
    BY <2>1, ElementDe
  <2>2. \A i \in 1..Len(q) : q[i] \in Nat
    BY <2>0, SuiviAssumption
  <2>3. ASSUME w \in ecouteurs, NEW i \in 1..Len(q)
        PROVE  /\ q[i] # CLOSED /\ q[i] <= k + 1
               /\ \A j \in 1..Len(pubsub') : q[i] < pubsub'[j]
    <3>1. q[i] # CLOSED /\ q[i] <= k
      BY <1>3, <2>1, <2>3 DEF SuiviInv, SocketJuste
    <3>2. \A j \in 1..Len(f) : q[i] < f[j]
      BY <1>2, <2>1, <2>3 DEF SuiviInv, SocketJuste
    <3>3. q[i] < k + 1
      BY <2>2, <3>1
    <3> QED
      BY <1>9, <2>2, <3>1, <3>2, <3>3
  <2>4. SocketJuste(w)'
    BY <1>4, <2>1, <2>3 DEF SuiviInv, SocketJuste, hub
  <2>5. ASSUME w \in ecouteurs, ~perdue PROVE Present(cle.n, pubsub)'
    <3>1. souscrit
      BY <2>5 DEF SuiviInv, HubJuste
    <3>2. pubsub' = Append(f, k + 1) /\ cle'.n = k + 1
      BY <1>4, <1>5, <3>1
    <3>3. Len(f) + 1 \in 1..Len(Append(f, k + 1)) /\ Append(f, k + 1)[Len(f) + 1] = k + 1
      BY <1>2
    <3> QED
      BY <3>2, <3>3 DEF Present
  <2> QED
    BY <1>4, <2>4, <2>5 DEF Couverte, hub
<1> QED
  BY <1>7, <1>10, <1>11, <1>12 DEF SuiviInv

\* A full queue loses its oldest position.
LEMMA PushFile ==
  ASSUME NEW q \in Seq(0..PositionsMax), Len(q) <= FileMax, NEW x \in 0..PositionsMax
  PROVE  /\ push(q, x) \in Seq(0..PositionsMax) /\ Len(push(q, x)) <= FileMax
         /\ Present(x, push(q, x))
         /\ \A i \in 1..Len(push(q, x)) : push(q, x)[i] = x \/ \E j \in 1..Len(q) : push(q, x)[i] = q[j]
<1>1. PICK t : t = IF Len(q) = FileMax THEN Tail(q) ELSE q
  OBVIOUS
<1>2. /\ t \in Seq(0..PositionsMax) /\ Len(t) + 1 <= FileMax
      /\ \A i \in 1..Len(t) : \E j \in 1..Len(q) : t[i] = q[j]
  <2>1. CASE Len(q) = FileMax
    <3>1. q # <<>> /\ t = Tail(q)
      BY <1>1, <2>1, SuiviAssumption
    <3>2. t \in Seq(0..PositionsMax) /\ Len(t) = Len(q) - 1 /\ Len(q) \in Nat
      BY <3>1
    <3>3. \A i \in 1..Len(t) : t[i] = q[i + 1] /\ i + 1 \in 1..Len(q)
      BY <3>1, <3>2
    <3> QED
      BY <2>1, <3>2, <3>3
  <2>2. CASE Len(q) # FileMax
    BY <1>1, <2>2, SuiviAssumption
  <2> QED
    BY <2>1, <2>2
<1>3. push(q, x) = Append(t, x)
  BY <1>1 DEF push
<1>4. /\ Append(t, x) \in Seq(0..PositionsMax) /\ Len(Append(t, x)) = Len(t) + 1 /\ Len(t) \in Nat
      /\ Append(t, x)[Len(t) + 1] = x /\ \A i \in 1..Len(t) : Append(t, x)[i] = t[i]
  BY <1>2
<1>5. ASSUME NEW i \in 1..Len(Append(t, x))
      PROVE  Append(t, x)[i] = x \/ \E j \in 1..Len(q) : Append(t, x)[i] = q[j]
  <2>1. i = Len(t) + 1 \/ i \in 1..Len(t)
    BY <1>4
  <2> QED
    BY <1>2, <1>4, <2>1
<1>6. Present(x, Append(t, x))
  <2>1. Len(t) + 1 \in 1..Len(Append(t, x))
    BY <1>4
  <2> QED
    BY <1>4, <2>1 DEF Present
<1> QED
  BY <1>2, <1>3, <1>4, <1>5, <1>6

LEMMA Passage ==
  ASSUME SuiviTypes, NEW w \in Sockets, NEW e \in EtapesSocket, Passer(w, e)
  PROVE  \E n \in Connection :
           /\ ws' = [ws EXCEPT ![w] = n] /\ Len(n.queue) <= FileMax
           /\ n.etape = e /\ n.queue = ws[w].queue /\ n.vu = ws[w].vu
<1>1. PICK c \in Connection : c = ws[w]
  BY SocketLu
<1>2. PICK n : n = [c EXCEPT !.etape = e]
  OBVIOUS
<1>3. n \in Connection /\ n.etape = e /\ n.queue = c.queue /\ n.vu = c.vu
  BY <1>2 DEF Connection
<1>4. ws' = [ws EXCEPT ![w] = n]
  BY <1>1, <1>2 DEF Passer
<1> QED
  BY <1>1, <1>3, <1>4, SocketLu

\* A step of one socket that leaves the hub alone.
LEMMA PasHorsHub ==
  ASSUME SuiviInv, NEW w \in Sockets, NEW n \in Connection, Len(n.queue) <= FileMax,
         ws' = [ws EXCEPT ![w] = n], UNCHANGED <<publiees, pubsub, droits, envoi, hub>>,
         cle' \in PositionStockee, cle'.n \in {0, cle.n},
         {ws[w].etape, n.etape} \cap {"abonnement", "desabonnement"} = {},
         w \in ecouteurs =>
           /\ n.etape \in {"abonne", "servi", "sortie"}
           /\ \A i \in 1..Len(n.queue) : \E j \in 1..Len(ws[w].queue) : n.queue[i] = ws[w].queue[j],
         n.etape = "ouvert" => n.queue = <<>>,
         n.etape \in {"abonne", "servi"} => w \in ecouteurs \/ n.queue = <<CLOSED>>,
         Couverte(w)'
  PROVE  SuiviInv'
<1>1. SuiviTypes
  BY DEF SuiviInv
<1>2. ws'[w] = n /\ \A v \in Sockets : v # w => ws'[v] = ws[v]
  BY <1>1 DEF SuiviTypes
<1>3. UNCHANGED <<souscrit, perdue, ecouteurs, verrou_hub>>
  BY DEF hub
<1>4. HubJuste'
  BY <1>2, <1>3 DEF SuiviInv, HubJuste
<1>5. SocketJuste(w)'
  <2>1. \A i \in 1..Len(ws[w].queue) : w \in ecouteurs =>
          /\ ws[w].queue[i] # CLOSED /\ ws[w].queue[i] <= publiees
          /\ \A j \in 1..Len(pubsub) : ws[w].queue[i] < pubsub[j]
    BY DEF SuiviInv, SocketJuste
  <2>2. verrou_hub # w
    BY DEF SuiviInv, SocketJuste
  <2>3. PICK q : q = n.queue
    OBVIOUS
  <2>4. ASSUME w \in ecouteurs, NEW i \in 1..Len(q)
        PROVE  q[i] # CLOSED /\ q[i] <= publiees /\ \A j \in 1..Len(pubsub) : q[i] < pubsub[j]
    <3>1. PICK k \in 1..Len(ws[w].queue) : q[i] = ws[w].queue[k]
      BY <2>3, <2>4
    <3> QED
      BY <2>1, <2>4, <3>1
  <2> QED
    BY <1>2, <1>3, <2>2, <2>3, <2>4 DEF SocketJuste
<1> QED
  BY <1>1, <1>3, <1>4, <1>5, PasDUnSocket DEF SuiviTypes

LEMMA OuvertureConserve ==
  ASSUME SuiviInv, NEW w \in Sockets, open(w)
  PROVE  SuiviInv'
<1>1. SuiviTypes
  BY DEF SuiviInv
<1>2. PICK n : n = [etape |-> "ouvert", access |-> course.livreur, queue |-> <<>>, vu |-> 0]
  OBVIOUS
<1>3. /\ n \in Connection /\ n.etape = "ouvert" /\ n.queue = <<>> /\ Len(n.queue) <= FileMax
      /\ ws' = [ws EXCEPT ![w] = n] /\ ws[w].etape = "ferme"
      /\ UNCHANGED <<publiees, pubsub, droits, envoi, hub, cle>>
  BY <1>1, <1>2, SuiviAssumption DEF open, Connection, EtapesSocket, SuiviTypes, redis
<1>4. w \notin ecouteurs
  BY <1>3 DEF SuiviInv, SocketJuste
<1>5. Couverte(w)'
  BY <1>3, <1>4 DEF Couverte, hub
<1>6. cle' \in PositionStockee
  BY <1>1, <1>3 DEF SuiviTypes
<1> QED
  BY <1>3, <1>4, <1>5, <1>6, PasHorsHub

LEMMA DepartConserve ==
  ASSUME SuiviInv, NEW w \in Sockets, ws[w].etape \in {"abonne", "servi"}, Passer(w, "sortie"),
         UNCHANGED <<publiees, pubsub, droits, envoi, hub>>,
         cle' \in PositionStockee, cle'.n \in {0, cle.n}
  PROVE  SuiviInv'
<1>1. SuiviTypes
  BY DEF SuiviInv
<1>2. PICK n \in Connection :
        /\ ws' = [ws EXCEPT ![w] = n] /\ Len(n.queue) <= FileMax
        /\ n.etape = "sortie" /\ n.queue = ws[w].queue
  BY <1>1, Passage DEF EtapesSocket
<1>3. Couverte(w)'
  BY <1>1, <1>2 DEF Couverte, SuiviTypes
<1> QED
  BY <1>2, <1>3, PasHorsHub

LEMMA DerniereConserve ==
  ASSUME SuiviInv, NEW w \in Sockets, EnvoyerDerniere(w)
  PROVE  SuiviInv'
<1>1. SuiviTypes
  BY DEF SuiviInv
<1>2. PICK c \in Connection : c = ws[w]
  BY <1>1, SocketLu
<1>3. PICK m : m = Montree(c.access)
  OBVIOUS
<1>4. /\ cle' = current_position(c.access) /\ cle' \in PositionStockee /\ cle'.n = m
      /\ m \in {0, cle.n} /\ m \in 0..PositionsMax
  BY <1>1, <1>2, <1>3, CleLue DEF EnvoyerDerniere, PositionStockee
<1>5. PICK x : x = Recente(w, m)
  OBVIOUS
<1>6. x \in 0..PositionsMax /\ x >= m
  <2>1. PICK a \in 0..PositionsMax : a = c.vu
    BY DEF Connection
  <2> QED
    BY <1>2, <1>4, <1>5, <2>1 DEF Recente
<1>7. PICK n : n = [c EXCEPT !.etape = "servi", !.vu = x]
  OBVIOUS
<1>8. n \in Connection /\ n.etape = "servi" /\ n.queue = c.queue /\ n.vu = x
  BY <1>6, <1>7 DEF Connection, EtapesSocket
<1>9. /\ ws' = [ws EXCEPT ![w] = n] /\ c.etape = "abonne"
      /\ UNCHANGED <<publiees, pubsub, droits, envoi, hub>>
  BY <1>2, <1>3, <1>5, <1>7 DEF EnvoyerDerniere
<1>10. Couverte(w)'
  <2>1. ws'[w] = n
    BY <1>1, <1>9 DEF SuiviTypes
  <2> QED
    BY <1>4, <1>6, <1>8, <2>1 DEF Couverte
<1>11. Len(n.queue) <= FileMax
  BY <1>1, <1>2, <1>8, SocketLu
<1>12. c.etape = "abonne" => w \in ecouteurs \/ c.queue = <<CLOSED>>
  BY <1>2 DEF SuiviInv, SocketJuste
<1> QED
  BY <1>2, <1>4, <1>8, <1>9, <1>10, <1>11, <1>12, PasHorsHub

LEMMA RevalidationConserve ==
  ASSUME SuiviInv, NEW w \in Sockets, revalidate(w)
  PROVE  SuiviInv'
<1>1. SuiviTypes
  BY DEF SuiviInv
<1>2. /\ ws[w].etape = "servi" /\ UNCHANGED <<publiees, pubsub, droits, envoi, hub>>
      /\ \/ ws' = [ws EXCEPT ![w].access = course.livreur] /\ UNCHANGED cle
         \/ Passer(w, "sortie") /\ (cle' = cle \/ cle' = discard_position)
  BY DEF revalidate, check_access
<1>3. CASE Passer(w, "sortie") /\ (cle' = cle \/ cle' = discard_position)
  BY <1>1, <1>2, <1>3, CleLue, DepartConserve DEF SuiviTypes
<1>4. CASE ws' = [ws EXCEPT ![w].access = course.livreur] /\ UNCHANGED cle
  <2>1. PICK c \in Connection : c = ws[w]
    BY <1>1, SocketLu
  <2>2. PICK l \in Livreurs : l = course.livreur
    BY <1>1 DEF SuiviTypes
  <2>3. PICK n : n = [c EXCEPT !.access = l]
    OBVIOUS
  <2>4. n \in Connection /\ n.etape = c.etape /\ n.queue = c.queue /\ n.vu = c.vu
    BY <2>3 DEF Connection
  <2>5. ws' = [ws EXCEPT ![w] = n] /\ ws'[w] = n
    BY <1>1, <1>4, <2>1, <2>2, <2>3 DEF SuiviTypes
  <2>6. Couverte(w)'
    BY <1>2, <1>4, <2>1, <2>4, <2>5 DEF SuiviInv, Couverte, Present, hub
  <2>7. /\ Len(n.queue) <= FileMax
        /\ c.etape = "servi" => w \in ecouteurs \/ c.queue = <<CLOSED>>
    BY <1>1, <2>1, <2>4, SocketLu DEF SuiviInv, SocketJuste
  <2>8. cle' \in PositionStockee /\ cle'.n = cle.n
    BY <1>1, <1>4 DEF SuiviTypes
  <2> QED
    BY <1>2, <2>1, <2>4, <2>5, <2>6, <2>7, <2>8, PasHorsHub
<1> QED
  BY <1>2, <1>3, <1>4

LEMMA LectureConserve ==
  ASSUME SuiviInv, NEW w \in Sockets, forward(w)
  PROVE  SuiviInv'
<1>1. SuiviTypes
  BY DEF SuiviInv
<1>2. PICK c \in Connection : c = ws[w]
  BY <1>1, SocketLu
<1>3. PICK q \in Seq(0..PositionsMax) : q = c.queue
  BY DEF Connection
<1>4. /\ c.etape = "servi" /\ q # <<>> /\ UNCHANGED <<publiees, pubsub, droits, envoi, hub>>
      /\ cle' = cle /\ cle' \in PositionStockee /\ Len(q) <= FileMax
  BY <1>1, <1>2, <1>3, SocketLu DEF forward, redis, SuiviTypes
<1>5. CASE Head(q) = CLOSED
  <2>1. Passer(w, "sortie")
    BY <1>2, <1>3, <1>5 DEF forward
  <2> QED
    BY <1>2, <1>4, <2>1, DepartConserve
<1>6. CASE Head(q) # CLOSED
  <2>1. PICK h : h = Head(q)
    OBVIOUS
  <2>2. PICK t : t = Tail(q)
    OBVIOUS
  <2>3. PICK x : x = Recente(w, h)
    OBVIOUS
  <2>4. PICK m \in Nat : m = Len(q)
    BY ElementDe
  <2>5. /\ t \in Seq(0..PositionsMax) /\ Len(t) = m - 1 /\ 1 <= m
        /\ \A i \in 1..Len(t) : t[i] = q[i + 1] /\ i + 1 \in 1..m
        /\ h = q[1]
    BY <1>4, <2>1, <2>2, <2>4
  <2>6. h \in 0..PositionsMax
    <3>1. 1 \in 1..Len(q)
      BY <2>4, <2>5
    <3>2. q[1] \in 0..PositionsMax
      BY <3>1, ElementDe
    <3> QED
      BY <2>5, <3>2
  <2>7. PICK a \in 0..PositionsMax : a = c.vu
    BY DEF Connection
  <2>8. x \in 0..PositionsMax /\ x >= h /\ x >= a
    BY <1>2, <2>3, <2>6, <2>7 DEF Recente
  <2>9. PICK n : n = [c EXCEPT !.queue = t, !.vu = x]
    OBVIOUS
  <2>10. n \in Connection /\ n.etape = "servi" /\ n.queue = t /\ n.vu = x
    BY <1>4, <2>5, <2>8, <2>9 DEF Connection
  <2>11. ws' = [ws EXCEPT ![w] = n]
    <3>1. ws' = [ws EXCEPT ![w].queue = t, ![w].vu = x]
      BY <1>2, <1>3, <1>6, <2>1, <2>2, <2>3 DEF forward
    <3> QED
      BY <1>2, <2>9, <3>1
  <2>12. ws'[w] = n
    BY <1>1, <2>11 DEF SuiviTypes
  <2>13. w \in ecouteurs \/ q = <<CLOSED>>
    BY <1>2, <1>3, <1>4 DEF SuiviInv, SocketJuste
  <2>14. w \in ecouteurs
    BY <1>6, <2>13
  <2>15. PICK d \in Nat : d = cle.n
    BY <1>1, CleLue
  <2>16. ASSUME Present(d, q) PROVE x >= d \/ Present(d, t)
    <3>1. PICK i \in 1..m : q[i] = d
      BY <2>4, <2>16 DEF Present
    <3>2. CASE i = 1
      BY <2>5, <2>8, <3>1, <3>2
    <3>3. CASE i # 1
      <4>1. i - 1 \in 1..Len(t)
        BY <2>5, <3>1, <3>3
      <4>2. t[i - 1] = d
        BY <2>5, <3>1, <4>1
      <4> QED
        BY <4>1, <4>2 DEF Present
    <3> QED
      BY <3>2, <3>3
  <2>17. Couverte(w)'
    <3>1. ~perdue => a >= d \/ Present(d, q) \/ Present(d, pubsub)
      BY <1>2, <1>3, <1>4, <2>7, <2>14, <2>15 DEF SuiviInv, Couverte
    <3>2. ~perdue => x >= d \/ Present(d, t) \/ Present(d, pubsub)
      BY <2>6, <2>7, <2>8, <2>15, <2>16, <3>1
    <3> QED
      BY <1>4, <2>10, <2>12, <2>15, <3>2 DEF Couverte, hub
  <2>18. \A i \in 1..Len(n.queue) : \E j \in 1..Len(ws[w].queue) : n.queue[i] = ws[w].queue[j]
    BY <1>2, <1>3, <2>4, <2>5, <2>10
  <2>19. Len(n.queue) <= FileMax
    BY <1>4, <2>4, <2>5, <2>10, SuiviAssumption
  <2> QED
    BY <1>2, <1>4, <2>10, <2>11, <2>14, <2>15, <2>17, <2>18, <2>19, PasHorsHub
<1> QED
  BY <1>5, <1>6

\* Whoever holds the lock of the hub is the only one between two of its awaits.
LEMMA SeulAuHub ==
  ASSUME SuiviInv, NEW w \in Sockets, verrou_hub \in {AucunSocket, w}, NEW v \in Sockets, v # w
  PROVE  ws[v].etape \notin {"abonnement", "desabonnement"}
BY SuiviAssumption DEF SuiviInv, SocketJuste

LEMMA AbonnementConserve ==
  ASSUME SuiviInv, NEW w \in Sockets, subscribe(w) \/ Abonner(w)
  PROVE  SuiviInv'
<1>1. SuiviTypes
  BY DEF SuiviInv
<1>2. /\ UNCHANGED <<publiees, pubsub, droits, envoi, perdue, cle>> /\ cle' \in PositionStockee
      /\ ws[w].etape \in {"ouvert", "abonnement"} /\ ws[w].queue = <<>>
      /\ w \notin ecouteurs
  BY <1>1 DEF subscribe, Abonner, hub, redis, SuiviTypes, SuiviInv, SocketJuste
<1>3. CASE subscribe(w) /\ ecouteurs = {} /\ perdue
  <2>1. Passer(w, "ferme") /\ UNCHANGED hub /\ ws[w].etape = "ouvert"
    BY <1>3 DEF subscribe
  <2>2. PICK n \in Connection :
          /\ ws' = [ws EXCEPT ![w] = n] /\ Len(n.queue) <= FileMax
          /\ n.etape = "ferme" /\ n.queue = ws[w].queue
    BY <1>1, <2>1, Passage DEF EtapesSocket
  <2>3. Couverte(w)'
    BY <1>1, <2>2 DEF Couverte, SuiviTypes
  <2> QED
    BY <1>2, <2>1, <2>2, <2>3, PasHorsHub
<1>4. CASE subscribe(w) /\ ~(ecouteurs = {} /\ perdue)
  <2>1. /\ Passer(w, "abonnement") /\ ws[w].etape = "ouvert" /\ verrou_hub = AucunSocket
        /\ verrou_hub' = w /\ souscrit' = (souscrit \/ ecouteurs = {}) /\ ecouteurs' = ecouteurs
    BY <1>4 DEF subscribe, VerrouHub
  <2>2. PICK n \in Connection :
          /\ ws' = [ws EXCEPT ![w] = n] /\ Len(n.queue) <= FileMax
          /\ n.etape = "abonnement" /\ n.queue = ws[w].queue
    BY <1>1, <2>1, Passage DEF EtapesSocket
  <2>3. ws'[w] = n /\ \A v \in Sockets : v # w => ws'[v] = ws[v]
    BY <1>1, <2>2 DEF SuiviTypes
  <2>4. HubJuste'
    <3>1. ASSUME NEW v \in Sockets PROVE ws'[v].etape # "desabonnement"
      BY <2>1, <2>2, <2>3, SeulAuHub
    <3>2. ~perdue' => souscrit'
      BY <1>2, <2>1 DEF SuiviInv, HubJuste
    <3> QED
      BY <3>1, <3>2 DEF HubJuste
  <2>5. SocketJuste(w)' /\ Couverte(w)'
    BY <1>2, <2>1, <2>2, <2>3 DEF SocketJuste, Couverte
  <2>6. /\ ecouteurs' \subseteq Sockets /\ souscrit' \in BOOLEAN /\ verrou_hub' \in Sockets
        /\ \A v \in Sockets : v # w => (verrou_hub' = v <=> verrou_hub = v)
    BY <1>1, <2>1, SuiviAssumption DEF SuiviTypes
  <2> QED
    BY <1>2, <2>1, <2>2, <2>4, <2>5, <2>6, PasDUnSocket
<1>5. CASE Abonner(w)
  <2>1. /\ Passer(w, "abonne") /\ ws[w].etape = "abonnement" /\ verrou_hub = w
        /\ verrou_hub' = AucunSocket /\ souscrit' = souscrit /\ ecouteurs' = ecouteurs \cup {w}
    BY <1>5 DEF Abonner, SuiviInv, SocketJuste
  <2>2. PICK n \in Connection :
          /\ ws' = [ws EXCEPT ![w] = n] /\ Len(n.queue) <= FileMax
          /\ n.etape = "abonne" /\ n.queue = ws[w].queue
    BY <1>1, <2>1, Passage DEF EtapesSocket
  <2>3. ws'[w] = n /\ \A v \in Sockets : v # w => ws'[v] = ws[v]
    BY <1>1, <2>2 DEF SuiviTypes
  <2>4. HubJuste'
    <3>1. ASSUME NEW v \in Sockets PROVE ws'[v].etape # "desabonnement"
      BY <2>1, <2>2, <2>3, SeulAuHub
    <3>2. ~perdue' => souscrit'
      BY <1>2, <2>1 DEF SuiviInv, HubJuste
    <3> QED
      BY <3>1, <3>2 DEF HubJuste
  <2>5. SocketJuste(w)' /\ Couverte(w)'
    <3>1. n.queue = <<>> /\ 1..Len(n.queue) = {}
      BY <1>2, <2>2
    <3>2. verrou_hub' # w
      BY <2>1, SuiviAssumption
    <3>3. n.etape = "abonne" /\ w \in ecouteurs'
      BY <2>1, <2>2
    <3> QED
      BY <2>3, <3>1, <3>2, <3>3 DEF SocketJuste, Couverte
  <2>6. /\ ecouteurs' \subseteq Sockets /\ souscrit' \in BOOLEAN /\ verrou_hub' \in {AucunSocket}
        /\ \A v \in Sockets : v # w => (verrou_hub' = v <=> verrou_hub = v)
        /\ \A v \in Sockets : v # w => (v \in ecouteurs' <=> v \in ecouteurs)
    BY <1>1, <2>1, SuiviAssumption DEF SuiviTypes
  <2> QED
    BY <1>2, <2>1, <2>2, <2>4, <2>5, <2>6, PasDUnSocket
<1> QED
  BY <1>3, <1>4, <1>5

LEMMA DesabonnementConserve ==
  ASSUME SuiviInv, NEW w \in Sockets, unsubscribe(w) \/ Desabonner(w)
  PROVE  SuiviInv'
<1>1. SuiviTypes
  BY DEF SuiviInv
<1>2. /\ UNCHANGED <<publiees, pubsub, droits, envoi, perdue, cle>> /\ cle' \in PositionStockee
      /\ verrou_hub \in {AucunSocket, w}
  BY <1>1 DEF unsubscribe, Desabonner, VerrouHub, redis, SuiviTypes, SuiviInv, SocketJuste
<1>3. PICK e \in {"ferme", "desabonnement"} :
        /\ Passer(w, e)
        /\ verrou_hub' = IF e = "ferme" THEN AucunSocket ELSE w
        /\ e = "desabonnement" => ecouteurs' = {}
        /\ ecouteurs' \subseteq ecouteurs \ {w}
        /\ \A v \in Sockets : v # w => (v \in ecouteurs' <=> v \in ecouteurs)
        /\ souscrit' \in BOOLEAN
        /\ souscrit' = souscrit \/ (ecouteurs' = {} /\ ws[w].etape = "desabonnement")
  <2>1. CASE unsubscribe(w)
    <3>1. /\ ecouteurs' = ecouteurs \ {w} /\ souscrit' = souscrit /\ souscrit \in BOOLEAN
          /\ verrou_hub = AucunSocket
      BY <1>1, <2>1 DEF unsubscribe, SuiviTypes, VerrouHub
    <3>2. \/ verrou_hub' = w /\ Passer(w, "desabonnement") /\ ecouteurs' = {}
          \/ verrou_hub' = verrou_hub /\ Passer(w, "ferme")
      BY <2>1 DEF unsubscribe
    <3>3. CASE verrou_hub' = w /\ Passer(w, "desabonnement") /\ ecouteurs' = {}
      BY <3>1, <3>3
    <3>4. CASE verrou_hub' = verrou_hub /\ Passer(w, "ferme")
      BY <3>1, <3>4
    <3> QED
      BY <3>2, <3>3, <3>4
  <2>2. CASE Desabonner(w)
    <3>1. /\ Passer(w, "ferme") /\ ecouteurs = {} /\ ecouteurs' = {} /\ souscrit' = FALSE
          /\ verrou_hub' = AucunSocket /\ ws[w].etape = "desabonnement"
      BY <2>2 DEF Desabonner, SuiviInv, HubJuste
    <3> QED
      BY <3>1
  <2> QED
    BY <2>1, <2>2
<1>4. PICK n \in Connection :
        /\ ws' = [ws EXCEPT ![w] = n] /\ Len(n.queue) <= FileMax /\ n.etape = e
  BY <1>1, <1>3, Passage DEF EtapesSocket
<1>5. ws'[w] = n /\ \A v \in Sockets : v # w => ws'[v] = ws[v]
  BY <1>1, <1>4 DEF SuiviTypes
<1>6. HubJuste'
  <2>1. \A v \in Sockets : v # w => ws'[v].etape \notin {"abonnement", "desabonnement"}
    BY <1>2, <1>5, SeulAuHub
  <2>2. \A v \in Sockets : ws'[v].etape # "abonnement"
    BY <1>3, <1>4, <1>5, <2>1
  <2>3. \A v \in Sockets : ws'[v].etape = "desabonnement" => ecouteurs' = {}
    BY <1>3, <1>4, <1>5, <2>1
  <2>4. ~perdue /\ ecouteurs' # {} => souscrit'
    BY <1>3 DEF SuiviInv, HubJuste
  <2> QED
    BY <1>2, <2>2, <2>3, <2>4 DEF HubJuste
<1>7. SocketJuste(w)' /\ Couverte(w)'
  <2>1. w \notin ecouteurs' /\ (verrou_hub' = w <=> e = "desabonnement")
    BY <1>3, SuiviAssumption
  <2> QED
    BY <1>3, <1>4, <1>5, <2>1 DEF SocketJuste, Couverte
<1>8. /\ ecouteurs' \subseteq Sockets /\ verrou_hub' \in Sockets \cup {AucunSocket}
      /\ \A v \in Sockets : v # w => (verrou_hub' = v <=> verrou_hub = v)
  BY <1>1, <1>2, <1>3, SuiviAssumption DEF SuiviTypes
<1> QED
  BY <1>2, <1>3, <1>4, <1>6, <1>7, <1>8, PasDUnSocket

LEMMA DistributionConserve ==
  ASSUME SuiviInv, dispatch
  PROVE  SuiviInv'
<1>1. SuiviTypes
  BY DEF SuiviInv
<1>2. PICK f \in Seq(1..PositionsMax) : f = pubsub
  BY <1>1 DEF SuiviTypes
<1>3. PICK x : x = Head(f)
  OBVIOUS
<1>4. PICK t : t = Tail(f)
  OBVIOUS
<1>5. PICK m \in Nat : m = Len(f)
  BY ElementDe
<1>6. PICK k \in 0..PositionsMax : k = publiees
  BY <1>1 DEF SuiviTypes
<1>7. /\ f # <<>> /\ ~perdue /\ pubsub' = t
      /\ ws' = [w \in Sockets |-> IF w \in ecouteurs
                                  THEN [ws[w] EXCEPT !.queue = push(ws[w].queue, x)] ELSE ws[w]]
      /\ UNCHANGED <<cle, publiees, envoi, hub, droits>>
  BY <1>2, <1>3, <1>4 DEF dispatch
<1>8. /\ t \in Seq(1..PositionsMax) /\ Len(t) = m - 1 /\ 1 <= m /\ x = f[1]
      /\ \A i \in 1..Len(t) : t[i] = f[i + 1] /\ i + 1 \in 1..m
  BY <1>2, <1>3, <1>4, <1>5, <1>7
<1>9. \A i \in 1..m : f[i] \in 1..PositionsMax
  BY <1>5, ElementDe
<1>10. /\ \A i \in 1..m : f[i] <= k /\ f[i] \in Nat
       /\ \A i, j \in 1..m : i < j => f[i] < f[j]
  <2>1. /\ \A i \in 1..m : f[i] <= k
        /\ \A i, j \in 1..m : i < j => f[i] < f[j]
    BY <1>2, <1>5, <1>6 DEF SuiviInv, FluxJuste
  <2>2. \A i \in 1..m : f[i] \in Nat
    BY <1>9, SuiviAssumption
  <2> QED
    BY <2>1, <2>2
<1>11. x \in 1..PositionsMax /\ x <= k /\ \A j \in 1..Len(t) : x < t[j]
  <2>1. 1 \in 1..m
    BY <1>8
  <2>2. x \in 1..PositionsMax /\ x <= k
    BY <1>8, <1>9, <1>10, <2>1
  <2>3. ASSUME NEW j \in 1..Len(t) PROVE x < t[j]
    <3>1. t[j] = f[j + 1] /\ j + 1 \in 1..m /\ 1 < j + 1
      BY <1>8
    <3> QED
      BY <1>8, <1>10, <2>1, <3>1
  <2> QED
    BY <2>2, <2>3
<1>12. ASSUME NEW w \in Sockets
       PROVE  /\ ws'[w] \in Connection /\ ws'[w].etape = ws[w].etape /\ ws'[w].vu = ws[w].vu
              /\ ws'[w].queue = IF w \in ecouteurs THEN push(ws[w].queue, x) ELSE ws[w].queue
              /\ Len(ws'[w].queue) <= FileMax
  <2>1. PICK c \in Connection : c = ws[w]
    BY <1>1, SocketLu
  <2>2. PICK q \in Seq(0..PositionsMax) : q = push(c.queue, x) /\ Len(q) <= FileMax
    <3>1. c.queue \in Seq(0..PositionsMax) /\ Len(c.queue) <= FileMax /\ x \in 0..PositionsMax
      BY <1>1, <1>11, <2>1, SocketLu
    <3> QED
      BY <3>1, PushFile
  <2>3. PICK n : n = [c EXCEPT !.queue = q]
    OBVIOUS
  <2>4. n \in Connection /\ n.etape = c.etape /\ n.vu = c.vu /\ n.queue = q
    BY <2>3 DEF Connection
  <2>5. ws'[w] = IF w \in ecouteurs THEN n ELSE c
    BY <1>7, <2>1, <2>2, <2>3
  <2> QED
    BY <1>1, <2>1, <2>2, <2>4, <2>5, SocketLu
<1>13. SuiviTypes'
  <2>1. ws' \in [Sockets -> Connection]
    <3>1. ws' = [w \in Sockets |-> ws'[w]]
      BY <1>7
    <3> QED
      BY <1>12, <3>1
  <2> QED
    BY <1>1, <1>7, <1>8, <1>12, <2>1 DEF SuiviTypes, hub, droits
<1>14. FluxJuste'
  <2>1. cle'.n \in {0, publiees'}
    BY <1>7 DEF SuiviInv, FluxJuste
  <2>2. \A i \in 1..Len(t) : t[i] <= k
    BY <1>8, <1>10
  <2>3. ASSUME NEW i \in 1..Len(t), NEW j \in 1..Len(t), i < j PROVE t[i] < t[j]
    <3>1. t[i] = f[i + 1] /\ t[j] = f[j + 1] /\ i + 1 \in 1..m /\ j + 1 \in 1..m /\ i + 1 < j + 1
      BY <1>8, <2>3
    <3> QED
      BY <1>10, <3>1
  <2> QED
    BY <1>6, <1>7, <2>1, <2>2, <2>3 DEF FluxJuste
<1>15. HubJuste'
  BY <1>7, <1>12 DEF SuiviInv, HubJuste, hub
<1>16. ASSUME NEW w \in Sockets PROVE SocketJuste(w)'
  <2>1. CASE w \in ecouteurs
    <3>1. PICK q \in Seq(0..PositionsMax) : q = ws[w].queue
      BY <1>1, SocketLu
    <3>2. /\ \A i \in 1..Len(q) : q[i] # CLOSED /\ q[i] <= k
          /\ \A i \in 1..Len(q) : \A j \in 1..m : q[i] < f[j]
          /\ ws[w].etape \in {"abonne", "servi", "sortie"}
      BY <1>2, <1>5, <1>6, <2>1, <3>1 DEF SuiviInv, SocketJuste
    <3>3. PICK p : p = push(q, x)
      OBVIOUS
    <3>4. \A i \in 1..Len(p) : p[i] = x \/ \E j \in 1..Len(q) : p[i] = q[j]
      <4>1. Len(q) <= FileMax /\ x \in 0..PositionsMax
        BY <1>1, <1>11, <3>1, SocketLu
      <4> QED
        BY <3>3, <4>1, PushFile
    <3>5. ASSUME NEW i \in 1..Len(p)
          PROVE  p[i] # CLOSED /\ p[i] <= k /\ \A j \in 1..Len(t) : p[i] < t[j]
      <4>1. CASE p[i] = x
        BY <1>11, <4>1 DEF CLOSED
      <4>2. CASE \E j \in 1..Len(q) : p[i] = q[j]
        <5>1. PICK a \in 1..Len(q) : p[i] = q[a]
          BY <4>2
        <5>2. ASSUME NEW j \in 1..Len(t) PROVE q[a] < t[j]
          BY <1>8, <3>2
        <5> QED
          BY <3>2, <5>1, <5>2
      <4> QED
        BY <3>4, <4>1, <4>2
    <3>6. ws'[w].queue = p /\ ws'[w].etape = ws[w].etape
      BY <1>12, <2>1, <3>1, <3>3
    <3>7. (verrou_hub = w) <=> (ws[w].etape \in {"abonnement", "desabonnement"})
      BY DEF SuiviInv, SocketJuste
    <3> QED
      BY <1>6, <1>7, <2>1, <3>2, <3>5, <3>6, <3>7 DEF SocketJuste, hub
  <2>2. CASE w \notin ecouteurs
    BY <1>7, <1>12, <2>2 DEF SuiviInv, SocketJuste, hub
  <2> QED
    BY <2>1, <2>2
<1>17. ASSUME NEW w \in Sockets PROVE Couverte(w)'
  <2>1. SUFFICES ASSUME ws[w].etape = "servi", w \in ecouteurs
                 PROVE  ws[w].vu >= cle.n \/ Present(cle.n, push(ws[w].queue, x)) \/ Present(cle.n, t)
    BY <1>7, <1>12 DEF Couverte, hub
  <2>2. PICK q \in Seq(0..PositionsMax) : q = ws[w].queue
    BY <1>1, SocketLu
  <2>3. ws[w].vu >= cle.n \/ Present(cle.n, q) \/ Present(cle.n, f)
    BY <1>2, <1>7, <2>1, <2>2 DEF SuiviInv, Couverte
  <2>4. CASE Present(cle.n, q)
    <3>1. PICK i \in 1..Len(q) : q[i] = cle.n
      BY <2>4 DEF Present
    <3>2. q[i] # CLOSED /\ q[i] < f[1]
      BY <1>2, <1>5, <1>8, <2>1, <2>2 DEF SuiviInv, SocketJuste
    <3>3. cle.n = k
      BY <1>6, <3>1, <3>2 DEF SuiviInv, FluxJuste, CLOSED
    <3> QED
      BY <1>6, <1>8, <1>11, <3>1, <3>2, <3>3
  <2>5. CASE Present(cle.n, f)
    <3>1. PICK i \in 1..m : f[i] = cle.n
      BY <1>5, <2>5 DEF Present
    <3>2. CASE i = 1
      <4>1. Len(q) <= FileMax /\ x \in 0..PositionsMax
        BY <1>1, <1>11, <2>2, SocketLu
      <4>2. Present(x, push(q, x))
        BY <4>1, PushFile
      <4> QED
        BY <1>8, <2>2, <3>1, <3>2, <4>2
    <3>3. CASE i # 1
      <4>1. i - 1 \in 1..Len(t)
        BY <1>8, <3>1, <3>3
      <4>2. t[i - 1] = cle.n
        BY <1>8, <3>1, <4>1
      <4> QED
        BY <4>1, <4>2 DEF Present
    <3> QED
      BY <3>2, <3>3
  <2> QED
    BY <2>3, <2>4, <2>5
<1> QED
  BY <1>13, <1>14, <1>15, <1>16, <1>17 DEF SuiviInv

LEMMA PerteConserve ==
  ASSUME SuiviInv, PerdreConnexion
  PROVE  SuiviInv'
<1>1. /\ perdue' = TRUE /\ souscrit' = FALSE /\ pubsub' = <<>> /\ 1..Len(pubsub') = {}
      /\ UNCHANGED <<cle, publiees, envoi, ecouteurs, verrou_hub, droits, ws>>
  BY DEF PerdreConnexion
<1>2. SuiviTypes'
  <2>1. <<>> \in Seq(1..PositionsMax)
    OBVIOUS
  <2>2. SuiviTypes
    BY DEF SuiviInv
  <2> QED
    BY <1>1, <2>1, <2>2 DEF SuiviTypes, droits
<1>3. FluxJuste' /\ HubJuste'
  BY <1>1 DEF SuiviInv, FluxJuste, HubJuste
<1>4. ASSUME NEW w \in Sockets PROVE SocketJuste(w)' /\ Couverte(w)'
  BY <1>1 DEF SuiviInv, SocketJuste, Couverte
<1> QED
  BY <1>2, <1>3, <1>4 DEF SuiviInv

LEMMA ReconnexionConserve ==
  ASSUME SuiviInv, Repartir
  PROVE  SuiviInv'
<1>1. SuiviTypes
  BY DEF SuiviInv
<1>2. /\ perdue' = FALSE /\ ecouteurs' = {} /\ verrou_hub = AucunSocket
      /\ ws' = [w \in Sockets |-> IF w \in ecouteurs THEN [ws[w] EXCEPT !.queue = <<CLOSED>>] ELSE ws[w]]
      /\ UNCHANGED <<cle, publiees, pubsub, envoi, souscrit, verrou_hub, droits>>
  BY DEF Repartir, redis
<1>3. ASSUME NEW w \in Sockets
      PROVE  /\ ws'[w] \in Connection /\ ws'[w].etape = ws[w].etape
             /\ ws'[w].queue = IF w \in ecouteurs THEN <<CLOSED>> ELSE ws[w].queue
             /\ Len(ws'[w].queue) <= FileMax
  <2>1. PICK c \in Connection : c = ws[w]
    BY <1>1, SocketLu
  <2>2. PICK q \in Seq(0..PositionsMax) : q = <<CLOSED>> /\ Len(q) <= FileMax
    <3>1. CLOSED \in 0..PositionsMax /\ 1 <= FileMax
      BY SuiviAssumption DEF CLOSED
    <3>2. <<CLOSED>> \in Seq(0..PositionsMax) /\ Len(<<CLOSED>>) = 1
      BY <3>1
    <3> QED
      BY <3>1, <3>2
  <2>3. PICK n : n = [c EXCEPT !.queue = q]
    OBVIOUS
  <2>4. n \in Connection /\ n.etape = c.etape /\ n.queue = q
    BY <2>3 DEF Connection
  <2>5. ws'[w] = IF w \in ecouteurs THEN n ELSE c
    BY <1>2, <2>1, <2>2, <2>3
  <2> QED
    BY <1>1, <2>1, <2>2, <2>4, <2>5, SocketLu
<1>4. SuiviTypes'
  <2>1. ws' \in [Sockets -> Connection]
    <3>1. ws' = [w \in Sockets |-> ws'[w]]
      BY <1>2
    <3> QED
      BY <1>3, <3>1
  <2> QED
    BY <1>1, <1>2, <1>3, <2>1 DEF SuiviTypes, droits
<1>5. FluxJuste'
  BY <1>2 DEF SuiviInv, FluxJuste
<1>6. HubJuste'
  <2>1. ASSUME NEW w \in Sockets PROVE ws'[w].etape # "abonnement"
    BY <1>2, <1>3, SuiviAssumption DEF SuiviInv, SocketJuste
  <2> QED
    BY <1>2, <2>1 DEF HubJuste
<1>7. ASSUME NEW w \in Sockets PROVE SocketJuste(w)' /\ Couverte(w)'
  <2>1. CASE w \in ecouteurs
    BY <1>2, <1>3, <2>1 DEF SuiviInv, SocketJuste, Couverte
  <2>2. CASE w \notin ecouteurs
    BY <1>2, <1>3, <2>2 DEF SuiviInv, SocketJuste, Couverte
  <2> QED
    BY <2>1, <2>2
<1> QED
  BY <1>4, <1>5, <1>6, <1>7 DEF SuiviInv

LEMMA SuiviPas ==
  ASSUME SuiviInv, [SuiviNext]_suiviVars
  PROVE  SuiviInv'
<1>1. CASE UNCHANGED suiviVars
  <2>1. /\ SuiviTypes' /\ FluxJuste' /\ HubJuste'
    BY <1>1 DEF SuiviInv, suiviVars, SuiviTypes, FluxJuste, HubJuste
  <2>2. ASSUME NEW w \in Sockets PROVE SocketJuste(w)' /\ Couverte(w)'
    BY <1>1 DEF SuiviInv, suiviVars, SocketJuste, Couverte, Present
  <2> QED
    BY <2>1, <2>2 DEF SuiviInv
<1>2. ASSUME NEW w \in Sockets, DeconnecterSocket(w) PROVE SuiviInv'
  <2>1. /\ ws[w].etape \in {"abonne", "servi"} /\ Passer(w, "sortie")
        /\ UNCHANGED <<publiees, pubsub, droits, envoi, hub>> /\ cle' = cle
    BY <1>2 DEF DeconnecterSocket, redis
  <2>2. cle' \in PositionStockee
    BY <2>1 DEF SuiviInv, SuiviTypes
  <2> QED
    BY <2>1, <2>2, DepartConserve
<1>3. CASE SuiviNext
  BY <1>2, <1>3, DroitsConserves, PublicationConserve, OuvertureConserve, DerniereConserve,
     RevalidationConserve, LectureConserve, AbonnementConserve, DesabonnementConserve,
     DistributionConserve, PerteConserve, ReconnexionConserve DEF SuiviNext
<1> QED
  BY <1>1, <1>3

\* Whatever positions are published, lost, expired or reassigned and however the sockets
\* come and go, the lock of the hub keeps Redis and the listeners in step.
THEOREM Invariance_Suivi == SuiviSpec => []SuiviInv
<1>1. SuiviInit => SuiviInv
  <2> SUFFICES ASSUME SuiviInit PROVE SuiviInv
    OBVIOUS
  <2>1. PICK l \in Livreurs :
          /\ course = [statut |-> "en_cours", livreur |-> l]
          /\ cle = [n |-> 0, livreur |-> l]
          /\ ws = [w \in Sockets |-> [etape |-> "ferme", access |-> l, queue |-> <<>>, vu |-> 0]]
    BY DEF SuiviInit
  <2>2. /\ comptes_actifs = Livreurs \cup Auditeurs
        /\ publiees = 0 /\ envoi = {} /\ pubsub = <<>> /\ souscrit = FALSE /\ perdue = FALSE
        /\ ecouteurs = {} /\ verrou_hub = AucunSocket /\ 1..Len(pubsub) = {}
    BY DEF SuiviInit
  <2>3. PICK n : n = [etape |-> "ferme", access |-> l, queue |-> <<>>, vu |-> 0]
    OBVIOUS
  <2>4. n \in Connection /\ n.queue = <<>> /\ n.etape = "ferme" /\ Len(n.queue) <= FileMax
    BY <2>3, SuiviAssumption DEF Connection, EtapesSocket
  <2>5. \A w \in Sockets : ws[w] = n
    BY <2>1, <2>3
  <2>6. SuiviTypes
    <3>1. ws \in [Sockets -> Connection]
      BY <2>1, <2>3, <2>4
    <3>2. cle \in PositionStockee /\ publiees \in 0..PositionsMax
      BY <2>1, <2>2, SuiviAssumption DEF PositionStockee
    <3>3. pubsub \in Seq(1..PositionsMax)
      BY <2>2
    <3>4. course \in [statut : {"en_cours", "livree", "echouee"}, livreur : Livreurs]
      BY <2>1
    <3> QED
      BY <2>2, <2>4, <2>5, <3>1, <3>2, <3>3, <3>4 DEF SuiviTypes
  <2>7. FluxJuste /\ HubJuste
    BY <2>1, <2>2, <2>4, <2>5 DEF FluxJuste, HubJuste
  <2>8. ASSUME NEW w \in Sockets PROVE SocketJuste(w) /\ Couverte(w)
    BY <2>2, <2>4, <2>5, SuiviAssumption DEF SocketJuste, Couverte
  <2> QED
    BY <2>6, <2>7, <2>8 DEF SuiviInv
<1> QED
  BY <1>1, SuiviPas, PTL DEF SuiviSpec

\* A socket that is served and has nothing on its way has shown its client a position
\* at least as recent as the one Redis keeps for the assigned courier.
THEOREM Suivi_A_Jour == SuiviSpec => []SuiviAJour
<1>1. SuiviInv => SuiviAJour
  <2> SUFFICES ASSUME SuiviInv, NEW w \in Sockets, ws[w].etape = "servi", ws[w].queue = <<>>,
                      pubsub = <<>>, ~perdue
               PROVE  ws[w].vu >= cle.n
    BY DEF SuiviAJour
  <2>0. <<CLOSED>> # <<>>
    OBVIOUS
  <2>1. w \in ecouteurs
    BY <2>0 DEF SuiviInv, SocketJuste
  <2>2. ~Present(cle.n, ws[w].queue) /\ ~Present(cle.n, pubsub)
    BY DEF Present
  <2> QED
    BY <2>1, <2>2 DEF SuiviInv, Couverte
<1> QED
  BY <1>1, Invariance_Suivi, PTL

-----------------------------------------------------------------------------
\* The address book: the lock of the account makes the count of a creation hold until
\* its row is written, and the address a request asks for the only default one.

EnEcriture == {"creation_comptee", "modification_verrouillee"}

\* An address that a creation counted has its place.
PlaceComptee(e) == editions[e].etape = "creation_comptee" => Cardinality(Enregistres \ revenus) < LieuxMax
VerrouDeCarnet(e) == editions[e].etape \in EnEcriture <=> verrouCarnet = e

CarnetInv ==
  /\ CarnetTypes /\ CarnetTenu /\ IsFiniteSet(Enregistres)
  /\ \A e \in Editions : PlaceComptee(e) /\ VerrouDeCarnet(e)

LEMMA EditionLue ==
  ASSUME CarnetTypes, NEW e \in Editions, editions[e].etape # "libre"
  PROVE  /\ editions[e].lieu \in Lieux /\ editions[e].par_defaut \in BOOLEAN
         /\ editions[e].etape \in {"modification", "modification_verrouillee"} => editions[e].envoye \in BOOLEAN
BY DEF CarnetTypes, Edition, SansEdition

\* At most one default address: no two of them.
LEMMA UnAuPlus ==
  ASSUME NEW S, IsFiniteSet(S)
  PROVE  Cardinality(S) <= 1 <=> \A x, y \in S : x = y
<1>1. Cardinality(S) \in Nat
  BY FS_CardinalityType
<1>2. ASSUME Cardinality(S) <= 1, NEW x \in S, NEW y \in S, x # y PROVE FALSE
  <2>1. PICK T : T = S \ {x}
    OBVIOUS
  <2>2. IsFiniteSet(T) /\ Cardinality(T) = Cardinality(S) - 1 /\ y \in T
    BY <1>2, <2>1, FS_RemoveElement
  <2>3. Cardinality(T) # 0
    BY <2>2, FS_EmptySet
  <2> QED
    BY <1>1, <1>2, <2>2, <2>3, FS_CardinalityType
<1>3. ASSUME \A x, y \in S : x = y PROVE Cardinality(S) <= 1
  <2>1. CASE S = {}
    BY <2>1, FS_EmptySet
  <2>2. CASE S # {}
    <3>1. PICK x : S = {x}
      BY <1>3, <2>2
    <3> QED
      BY <3>1, FS_Singleton
  <2> QED
    BY <2>1, <2>2
<1> QED
  BY <1>2, <1>3

Defauts(c) == {f \in Lieux : c[f] = "defaut"}

LEMMA DefautsFinis ==
  ASSUME CarnetTypes, IsFiniteSet(Enregistres)
  PROVE  /\ Defauts(carnet) \subseteq Enregistres /\ IsFiniteSet(Defauts(carnet))
         /\ UnDefautAuPlus(carnet) <=> \A x, y \in Defauts(carnet) : x = y
<1>1. Defauts(carnet) \subseteq Enregistres
  BY DEF Defauts, Enregistres
<1>2. IsFiniteSet(Defauts(carnet))
  BY <1>1, FS_Subset
<1> QED
  BY <1>1, <1>2, UnAuPlus DEF UnDefautAuPlus, Defauts

\* What a request writes: only its address enters the book, and only a modification
\* that sends nothing may leave two default addresses.
LEMMA Ecriture ==
  ASSUME CarnetInv, NEW e \in Editions, editions[e].etape \in EnEcriture
  PROVE  /\ Ecrit(e) \in [Lieux -> {"absente", "simple", "defaut"}]
         /\ \A f \in Lieux : f # editions[e].lieu => (Ecrit(e)[f] # "absente" <=> carnet[f] # "absente")
         /\ Ecrit(e)[editions[e].lieu] # "absente"
         /\ editions[e].etape = "creation_comptee" \/ editions[e].envoye => UnDefautAuPlus(Ecrit(e))
<1>1. CarnetTypes /\ IsFiniteSet(Enregistres) /\ UnDefautAuPlus(carnet)
  BY DEF CarnetInv, CarnetTenu
<1>2. PICK f \in Lieux : f = editions[e].lieu
  BY <1>1, EditionLue DEF EnEcriture
<1>3. PICK d \in BOOLEAN : d = editions[e].par_defaut
  BY <1>1, EditionLue DEF EnEcriture
<1>4. PICK b : b = IF d /\ (editions[e].etape = "creation_comptee" \/ editions[e].envoye) THEN Autres(f) ELSE carnet
  OBVIOUS
<1>5. Ecrit(e) = [b EXCEPT ![f] = Valeur(d)]
  BY <1>2, <1>3, <1>4 DEF Ecrit
<1>6. /\ Autres(f) \in [Lieux -> {"absente", "simple", "defaut"}]
      /\ \A g \in Lieux : g # f => Autres(f)[g] # "defaut" /\ (Autres(f)[g] # "absente" <=> carnet[g] # "absente")
  BY <1>1 DEF Autres, CarnetTypes
<1>7. /\ b \in [Lieux -> {"absente", "simple", "defaut"}]
      /\ \A g \in Lieux : g # f => (b[g] # "absente" <=> carnet[g] # "absente")
  BY <1>1, <1>4, <1>6 DEF CarnetTypes
<1>8. /\ Ecrit(e) \in [Lieux -> {"absente", "simple", "defaut"}]
      /\ Ecrit(e)[f] = Valeur(d) /\ \A g \in Lieux : g # f => Ecrit(e)[g] = b[g]
  BY <1>5, <1>7 DEF Valeur
<1>9. ASSUME editions[e].etape = "creation_comptee" \/ editions[e].envoye PROVE UnDefautAuPlus(Ecrit(e))
  <2>1. \A x, y \in Defauts(Ecrit(e)) : x = y
    <3>1. CASE d
      <4>1. Defauts(Ecrit(e)) \subseteq {f}
        BY <1>4, <1>6, <1>8, <1>9, <3>1 DEF Defauts
      <4> QED
        BY <4>1
    <3>2. CASE ~d
      <4>1. Defauts(Ecrit(e)) \subseteq Defauts(carnet)
        BY <1>4, <1>8, <3>2 DEF Defauts, Valeur
      <4> QED
        BY <1>1, <4>1, DefautsFinis
    <3> QED
      BY <3>1, <3>2
  <2>2. IsFiniteSet(Defauts(Ecrit(e)))
    <3>1. Defauts(Ecrit(e)) \subseteq Enregistres \cup {f}
      BY <1>7, <1>8 DEF Defauts, Enregistres
    <3> QED
      BY <1>1, <3>1, FS_Subset, FS_AddElement
  <2> QED
    BY <2>1, <2>2, UnAuPlus DEF UnDefautAuPlus, Defauts
<1> QED
  BY <1>2, <1>7, <1>8, <1>9 DEF Valeur

LEMMA Comptage ==
  ASSUME CarnetInv
  PROVE  /\ IsFiniteSet(Enregistres \ revenus)
         /\ Cardinality(Enregistres \ revenus) \in Nat /\ Cardinality(Enregistres) \in Nat
         /\ Cardinality(Enregistres \ revenus) <= Cardinality(Enregistres)
BY FS_Subset, FS_CardinalityType DEF CarnetInv

\* A request that takes, keeps or leaves the lock.
LEMMA RequeteAvance ==
  ASSUME CarnetInv, NEW e \in Editions, NEW n \in Edition, Avancer(e, n),
         UNCHANGED <<carnet, revenus, defautsRefuses>>,
         verrouCarnet' \in Editions \cup {Sans},
         \A d \in Editions : d # e => (verrouCarnet' = d <=> verrouCarnet = d),
         verrouCarnet' = e <=> n.etape \in EnEcriture,
         n.etape = "creation_comptee" => Cardinality(Enregistres \ revenus) < LieuxMax
  PROVE  CarnetInv'
<1>1. CarnetTypes'
  BY DEF CarnetInv, CarnetTypes, Avancer, Enregistres
<1>2. Enregistres' = Enregistres /\ CarnetTenu' /\ IsFiniteSet(Enregistres)'
  BY DEF CarnetInv, CarnetTenu, Enregistres, UnDefautAuPlus
<1>3. editions'[e] = n /\ \A d \in Editions : d # e => editions'[d] = editions[d]
  BY DEF CarnetInv, CarnetTypes, Avancer
<1>4. ASSUME NEW d \in Editions PROVE PlaceComptee(d)' /\ VerrouDeCarnet(d)'
  <2>1. CASE d = e
    BY <1>2, <1>3, <2>1 DEF PlaceComptee, VerrouDeCarnet
  <2>2. CASE d # e
    BY <1>2, <1>3, <2>2 DEF CarnetInv, PlaceComptee, VerrouDeCarnet
  <2> QED
    BY <2>1, <2>2
<1> QED
  BY <1>1, <1>2, <1>4 DEF CarnetInv

LEMMA LectureDuCarnet ==
  ASSUME CarnetInv, NEW e \in Editions, NEW f \in Lieux,
         LireLieu(e, f) \/ \E par_defaut \in BOOLEAN : DemanderAjout(e, f, par_defaut)
  PROVE  CarnetInv'
<1>1. PICK n \in Edition : Avancer(e, n) /\ n.etape \in {"creation", "modification"}
  <2>1. ASSUME NEW d \in BOOLEAN, NEW o \in BOOLEAN
        PROVE  /\ [etape |-> "creation", lieu |-> f, par_defaut |-> d] \in Edition
               /\ [etape |-> "modification", lieu |-> f, par_defaut |-> d, envoye |-> o] \in Edition
    BY DEF Edition
  <2> QED
    BY <2>1 DEF LireLieu, DemanderAjout
<1>2. /\ UNCHANGED <<carnet, verrouCarnet, revenus, defautsRefuses>> /\ editions[e] = SansEdition
  BY DEF LireLieu, DemanderAjout
<1>3. verrouCarnet' # e /\ verrouCarnet' \in Editions \cup {Sans}
  BY <1>2 DEF CarnetInv, CarnetTypes, VerrouDeCarnet, SansEdition, EnEcriture
<1> QED
  BY <1>1, <1>2, <1>3, RequeteAvance DEF EnEcriture

LEMMA CompteConserve ==
  ASSUME CarnetInv, NEW e \in Editions, CompterLieux(e) \/ VerrouillerCarnet(e)
  PROVE  CarnetInv'
<1>1. /\ editions[e].etape \in {"creation", "modification"} /\ verrouCarnet = Sans
      /\ UNCHANGED <<carnet, revenus, defautsRefuses>>
  BY DEF CompterLieux, VerrouillerCarnet, CarnetLibre
<1>2. PICK r \in Edition : r = editions[e]
  BY DEF CarnetInv, CarnetTypes
<1>3. CASE Avancer(e, SansEdition) /\ UNCHANGED verrouCarnet
  <2>1. SansEdition \in Edition /\ SansEdition.etape \notin EnEcriture /\ SansEdition.etape # "creation_comptee"
    BY DEF Edition, SansEdition, EnEcriture
  <2> QED
    BY <1>1, <1>3, <2>1, CarnetOk, RequeteAvance
<1>4. CASE /\ r.etape = "creation" /\ Cardinality(Enregistres) < LieuxMax /\ verrouCarnet' = e
           /\ Avancer(e, [r EXCEPT !.etape = "creation_comptee"])
  <2>1. PICK n : n = [r EXCEPT !.etape = "creation_comptee"]
    OBVIOUS
  <2>2. n \in Edition /\ n.etape = "creation_comptee"
    BY <1>4, <2>1 DEF Edition, SansEdition
  <2>3. Cardinality(Enregistres \ revenus) < LieuxMax
    BY <1>4, Comptage, CarnetOk
  <2> QED
    BY <1>1, <1>4, <2>1, <2>2, <2>3, CarnetOk, RequeteAvance DEF EnEcriture
<1>5. CASE /\ r.etape = "modification" /\ verrouCarnet' = e
           /\ Avancer(e, [r EXCEPT !.etape = "modification_verrouillee"])
  <2>1. PICK n : n = [r EXCEPT !.etape = "modification_verrouillee"]
    OBVIOUS
  <2>2. n \in Edition /\ n.etape = "modification_verrouillee"
    BY <1>5, <2>1 DEF Edition, SansEdition
  <2> QED
    BY <1>1, <1>5, <2>1, <2>2, CarnetOk, RequeteAvance DEF EnEcriture
<1>6. CASE CompterLieux(e)
  <2>1. r.etape = "creation" /\
        \/ Avancer(e, SansEdition) /\ UNCHANGED verrouCarnet
        \/ /\ ~(Cardinality(Enregistres) >= LieuxMax) /\ verrouCarnet' = e
           /\ Avancer(e, [r EXCEPT !.etape = "creation_comptee"])
    BY <1>2, <1>6 DEF CompterLieux
  <2>2. ~(Cardinality(Enregistres) >= LieuxMax) => Cardinality(Enregistres) < LieuxMax
    BY Comptage, CarnetOk
  <2> QED
    BY <1>3, <1>4, <2>1, <2>2
<1>7. CASE VerrouillerCarnet(e)
  BY <1>2, <1>5, <1>7 DEF VerrouillerCarnet
<1> QED
  BY <1>6, <1>7

\* The book gains at most the address written, and a row inserted again is counted apart.
LEMMA EcritureConserve ==
  ASSUME CarnetInv, NEW e \in Editions, EcrireLieu(e)
  PROVE  CarnetInv'
<1>1. CarnetTypes /\ IsFiniteSet(Enregistres)
  BY DEF CarnetInv
<1>2. /\ editions[e].etape \in EnEcriture /\ UnDefautAuPlus(carnet') /\ carnet' = Ecrit(e)
      /\ Avancer(e, SansEdition) /\ verrouCarnet' = Sans /\ UNCHANGED defautsRefuses
      /\ revenus' = IF editions[e].etape = "modification_verrouillee" /\ carnet[editions[e].lieu] = "absente"
                    THEN revenus \cup {editions[e].lieu} ELSE revenus
  BY DEF EcrireLieu, LibererCarnet, EnEcriture
<1>3. verrouCarnet = e
  BY <1>2 DEF CarnetInv, VerrouDeCarnet
<1>4. PICK f \in Lieux : f = editions[e].lieu
  BY <1>1, <1>2, EditionLue DEF EnEcriture
<1>5. PICK E : E = Enregistres
  OBVIOUS
<1>6. Enregistres' = E \cup {f}
  BY <1>1, <1>2, <1>4, <1>5, Ecriture DEF Enregistres
<1>7. PICK R : R = Enregistres \ revenus
  OBVIOUS
<1>8. /\ IsFiniteSet(R) /\ Cardinality(R) \in Nat /\ Cardinality(R) <= LieuxMax
      /\ editions[e].etape = "creation_comptee" => Cardinality(R) < LieuxMax
  BY <1>7, Comptage DEF CarnetInv, CarnetTenu, PlaceComptee
<1>9. /\ (Enregistres \ revenus)' \subseteq R \cup {f}
      /\ editions[e].etape = "modification_verrouillee" => (Enregistres \ revenus)' \subseteq R
  BY <1>2, <1>4, <1>5, <1>6, <1>7 DEF Enregistres
<1>10. Cardinality((Enregistres \ revenus)') <= LieuxMax
  <2>1. PICK N : N = (Enregistres \ revenus)'
    OBVIOUS
  <2>2. CASE editions[e].etape = "modification_verrouillee"
    <3>1. Cardinality(N) <= Cardinality(R) /\ Cardinality(N) \in Nat
      BY <1>8, <1>9, <2>1, <2>2, FS_Subset, FS_CardinalityType
    <3> QED
      BY <1>8, <2>1, <3>1, CarnetOk
  <2>3. CASE editions[e].etape = "creation_comptee"
    <3>1. PICK U : U = R \cup {f}
      OBVIOUS
    <3>2. IsFiniteSet(U) /\ Cardinality(U) \in Nat /\ Cardinality(U) <= Cardinality(R) + 1
      <4>1. IsFiniteSet(U) /\ (Cardinality(U) = Cardinality(R) \/ Cardinality(U) = Cardinality(R) + 1)
        BY <1>8, <3>1, FS_AddElement
      <4> QED
        BY <1>8, <4>1
    <3>3. Cardinality(N) <= Cardinality(U) /\ Cardinality(N) \in Nat
      BY <1>9, <2>1, <3>1, <3>2, FS_Subset, FS_CardinalityType
    <3> QED
      BY <1>8, <2>1, <2>3, <3>2, <3>3, CarnetOk
  <2> QED
    BY <1>2, <2>2, <2>3 DEF EnEcriture
<1>11. CarnetTypes'
  <2>1. editions' \in [Editions -> Edition]
    BY <1>1, <1>2 DEF CarnetTypes, Avancer, Edition
  <2>2. revenus' \subseteq Enregistres'
    BY <1>1, <1>2, <1>4, <1>5, <1>6 DEF CarnetTypes
  <2> QED
    BY <1>2, <2>1, <2>2, Ecriture DEF CarnetTypes
<1>12. IsFiniteSet(Enregistres')
  BY <1>1, <1>5, <1>6, FS_AddElement
<1>13. CarnetTenu'
  BY <1>2, <1>10 DEF CarnetInv, CarnetTenu, UnDefautAuPlus
<1>14. ASSUME NEW d \in Editions PROVE PlaceComptee(d)' /\ VerrouDeCarnet(d)'
  <2>1. CASE d = e
    BY <1>1, <1>2, <2>1, CarnetOk DEF PlaceComptee, VerrouDeCarnet, Avancer, SansEdition, EnEcriture, CarnetTypes
  <2>2. CASE d # e
    <3>1. editions[d].etape \notin EnEcriture
      BY <1>3, <2>2 DEF CarnetInv, VerrouDeCarnet
    <3>2. editions'[d] = editions[d]
      BY <1>1, <1>2, <2>2 DEF Avancer, CarnetTypes
    <3> QED
      BY <1>2, <3>1, <3>2, CarnetOk DEF PlaceComptee, VerrouDeCarnet, EnEcriture
  <2> QED
    BY <2>1, <2>2
<1> QED
  BY <1>11, <1>12, <1>13, <1>14 DEF CarnetInv

LEMMA RefusConserve ==
  ASSUME CarnetInv, NEW e \in Editions, RefuserLieu(e)
  PROVE  CarnetInv'
<1>1. /\ editions[e].etape \in EnEcriture /\ ~UnDefautAuPlus(Ecrit(e))
      /\ defautsRefuses' = (defautsRefuses \/ editions[e].etape = "creation_comptee" \/ editions[e].envoye)
      /\ Avancer(e, SansEdition) /\ verrouCarnet' = Sans /\ UNCHANGED <<carnet, revenus>>
  BY DEF RefuserLieu, LibererCarnet, EnEcriture
<1>2. ~(editions[e].etape = "creation_comptee" \/ editions[e].envoye)
  BY <1>1, Ecriture
<1>3. ~defautsRefuses /\ verrouCarnet = e
  BY <1>1 DEF CarnetInv, CarnetTenu, VerrouDeCarnet
<1>4. editions[e].envoye \in BOOLEAN
  BY <1>1, <1>2, EditionLue DEF CarnetInv, EnEcriture
<1>5. ~defautsRefuses'
  BY <1>1, <1>2, <1>3, <1>4
<1>6. SansEdition \in Edition /\ SansEdition.etape \notin EnEcriture
  BY DEF Edition, SansEdition, EnEcriture
<1>7. CarnetTypes' /\ Enregistres' = Enregistres
  BY <1>1, <1>6 DEF CarnetInv, CarnetTypes, Avancer, Enregistres
<1>8. CarnetTenu'
  BY <1>1, <1>5, <1>7 DEF CarnetInv, CarnetTenu, UnDefautAuPlus
<1>9. ASSUME NEW d \in Editions PROVE PlaceComptee(d)' /\ VerrouDeCarnet(d)'
  <2>1. editions'[d] = IF d = e THEN SansEdition ELSE editions[d]
    BY <1>1 DEF CarnetInv, CarnetTypes, Avancer
  <2>2. editions'[d].etape \notin EnEcriture
    BY <1>3, <1>6, <2>1 DEF CarnetInv, VerrouDeCarnet
  <2> QED
    BY <1>1, <2>2, CarnetOk DEF PlaceComptee, VerrouDeCarnet, EnEcriture
<1> QED
  BY <1>7, <1>8, <1>9 DEF CarnetInv

LEMMA SuppressionConserve ==
  ASSUME CarnetInv, NEW f \in Lieux, SupprimerLieu(f)
  PROVE  CarnetInv'
<1>1. CarnetTypes /\ IsFiniteSet(Enregistres)
  BY DEF CarnetInv
<1>2. /\ carnet' = [carnet EXCEPT ![f] = "absente"] /\ revenus' = revenus \ {f}
      /\ UNCHANGED <<editions, verrouCarnet, defautsRefuses>>
  BY DEF SupprimerLieu
<1>3. Enregistres' = Enregistres \ {f}
  BY <1>1, <1>2 DEF Enregistres, CarnetTypes
<1>4. CarnetTypes'
  BY <1>1, <1>2, <1>3 DEF CarnetTypes
<1>5. PICK N : N = (Enregistres \ revenus)'
  OBVIOUS
<1>6. N \subseteq Enregistres \ revenus
  BY <1>2, <1>3, <1>5
<1>7. Cardinality(N) \in Nat /\ Cardinality(N) <= Cardinality(Enregistres \ revenus)
  BY <1>6, Comptage, FS_Subset, FS_CardinalityType
<1>8. UnDefautAuPlus(carnet')
  <2>1. Defauts(carnet') \subseteq Defauts(carnet)
    BY <1>1, <1>2 DEF Defauts, CarnetTypes
  <2>2. \A x, y \in Defauts(carnet) : x = y
    BY <1>1, DefautsFinis DEF CarnetInv, CarnetTenu
  <2>3. IsFiniteSet(Defauts(carnet'))
    BY <1>1, <2>1, DefautsFinis, FS_Subset
  <2> QED
    BY <2>1, <2>2, <2>3, UnAuPlus DEF UnDefautAuPlus, Defauts
<1>9. CarnetTenu'
  BY <1>2, <1>5, <1>7, <1>8, Comptage, CarnetOk DEF CarnetInv, CarnetTenu, UnDefautAuPlus
<1>10. IsFiniteSet(Enregistres')
  BY <1>1, <1>3, FS_Subset
<1>11. ASSUME NEW d \in Editions PROVE PlaceComptee(d)' /\ VerrouDeCarnet(d)'
  <2>1. PICK n \in Nat : n = Cardinality(Enregistres \ revenus)
    BY Comptage
  <2>2. editions[d].etape = "creation_comptee" => n < LieuxMax
    BY <2>1 DEF CarnetInv, PlaceComptee
  <2>3. editions[d].etape = "creation_comptee" => Cardinality(N) < LieuxMax
    BY <1>7, <2>1, <2>2, CarnetOk
  <2>4. VerrouDeCarnet(d)'
    BY <1>2 DEF CarnetInv, VerrouDeCarnet
  <2> QED
    BY <1>2, <1>5, <2>3, <2>4 DEF PlaceComptee
<1> QED
  BY <1>4, <1>9, <1>10, <1>11 DEF CarnetInv

\* Whatever requests and deletions overlap, the book holds its maximum but for the rows
\* inserted again, keeps one default address at most, and never refuses one asked for.
THEOREM Carnet_Tenu == CarnetSpec => []CarnetTenu
<1>1. CarnetInit => CarnetInv
  <2> SUFFICES ASSUME CarnetInit PROVE CarnetInv
    OBVIOUS
  <2>1. Enregistres = {} /\ Defauts(carnet) = {} /\ revenus = {} /\ Enregistres \ revenus = {}
    BY DEF CarnetInit, Enregistres, Defauts
  <2>2. IsFiniteSet({}) /\ Cardinality({}) = 0
    BY FS_EmptySet
  <2>3. CarnetTypes
    BY <2>1 DEF CarnetInit, CarnetTypes, Edition
  <2>4. CarnetTenu
    BY <2>1, <2>2, CarnetOk DEF CarnetInit, CarnetTenu, UnDefautAuPlus, Defauts
  <2>5. \A e \in Editions : PlaceComptee(e) /\ VerrouDeCarnet(e)
    BY CarnetOk DEF CarnetInit, PlaceComptee, VerrouDeCarnet, SansEdition, EnEcriture
  <2> QED
    BY <2>1, <2>2, <2>3, <2>4, <2>5 DEF CarnetInv
<1>2. CarnetInv /\ [CarnetNext]_carnetVars => CarnetInv'
  <2> SUFFICES ASSUME CarnetInv, [CarnetNext]_carnetVars PROVE CarnetInv'
    OBVIOUS
  <2>1. CASE UNCHANGED carnetVars
    BY <2>1 DEF CarnetInv, carnetVars, CarnetTypes, CarnetTenu, Enregistres, UnDefautAuPlus,
                PlaceComptee, VerrouDeCarnet
  <2>2. CASE CarnetNext
    BY <2>2, SuppressionConserve, LectureDuCarnet, CompteConserve, EcritureConserve, RefusConserve
       DEF CarnetNext
  <2> QED
    BY <2>1, <2>2
<1>3. CarnetInv => CarnetTenu
  BY DEF CarnetInv
<1> QED
  BY <1>1, <1>2, <1>3, PTL DEF CarnetSpec

-----------------------------------------------------------------------------
\* The notifications: the transaction that changes an order carries its notices, and the
\* signal of a step of a return names one of those who can take it further.

ActionsRetour == {"creer", "approuver", "rejeter", "contester", "en_transit", "receptionner", "rembourser",
                  "cloturer", "annuler", "escalader", "clore_refus"}
EtapesRetour == {"aucune", "demande", "approuve", "refuse_vendeur", "refuse_moderation", "en_moderation",
                 "en_arbitrage", "en_transit", "receptionne", "rembourse", "cloture", "rejete", "annule"}
ActeursRetour == {"aucun", "client", "vendeur", "moderation", "administration", "systeme"}
SignalRetour == [action : ActionsRetour, depuis : EtapesRetour, vers : EtapesRetour, auteur : ActeursRetour, pas : Nat]

\* A step the table allows, or the request that opens the return.
PasPermis(s) ==
  \/ s.action = "creer" /\ s.depuis = "aucune" /\ s.vers = "demande" /\ s.auteur = "client"
  \/ \E regle \in Table!TRANSITIONS :
       s.action = regle.action /\ s.depuis \in regle.depuis /\ s.vers = regle.vers /\ s.auteur \in regle.acteurs

\* Whoever is told by the signal of a step, with its author, can take the return further.
Avertis(s) == Destinataires(s) \cup {s.auteur}

\* The rules of the table one by one, as steps.
LEMMA PasDeLaTable ==
  ASSUME NEW s, PasPermis(s)
  PROVE  \/ s.action = "creer" /\ s.depuis = "aucune" /\ s.vers = "demande" /\ s.auteur = "client"
         \/ s.action = "approuver" /\ s.vers = "approuve" /\ s.depuis = "demande" /\ s.auteur = "vendeur"
         \/ s.action = "approuver" /\ s.vers = "approuve" /\ s.depuis = "en_moderation" /\ s.auteur = "moderation"
         \/ s.action = "approuver" /\ s.vers = "approuve" /\ s.depuis = "en_arbitrage" /\ s.auteur = "administration"
         \/ s.action = "rejeter" /\ s.vers = "refuse_vendeur" /\ s.depuis \in {"demande", "approuve"} /\ s.auteur = "vendeur"
         \/ s.action = "rejeter" /\ s.vers = "refuse_moderation" /\ s.depuis = "en_moderation" /\ s.auteur = "moderation"
         \/ s.action = "rejeter" /\ s.vers = "rejete" /\ s.depuis = "en_arbitrage" /\ s.auteur = "administration"
         \/ s.action = "contester" /\ s.vers = "en_moderation" /\ s.depuis = "refuse_vendeur" /\ s.auteur = "client"
         \/ s.action = "contester" /\ s.vers = "en_arbitrage" /\ s.depuis = "refuse_moderation" /\ s.auteur = "client"
         \/ s.action = "en_transit" /\ s.vers = "en_transit" /\ s.depuis = "approuve"
            /\ s.auteur \in {"client", "vendeur", "administration"}
         \/ s.action = "receptionner" /\ s.vers = "receptionne" /\ s.depuis \in {"approuve", "en_transit"}
            /\ s.auteur \in {"vendeur", "administration"}
         \/ s.action = "rembourser" /\ s.vers = "rembourse" /\ s.depuis = "receptionne"
            /\ s.auteur \in {"vendeur", "administration"}
         \/ s.action = "cloturer" /\ s.vers = "cloture" /\ s.depuis = "rembourse"
            /\ s.auteur \in {"vendeur", "administration"}
         \/ s.action = "annuler" /\ s.vers = "annule" /\ s.auteur = "client"
            /\ s.depuis \in {"demande", "approuve", "en_moderation", "en_arbitrage", "refuse_vendeur", "refuse_moderation"}
         \/ s.action = "escalader" /\ s.vers = "en_moderation" /\ s.depuis = "demande" /\ s.auteur = "systeme"
         \/ s.action = "clore_refus" /\ s.vers = "rejete" /\ s.depuis \in {"refuse_vendeur", "refuse_moderation"}
            /\ s.auteur = "systeme"
<1>1. CASE \E regle \in Table!TRANSITIONS :
             s.action = regle.action /\ s.depuis \in regle.depuis /\ s.vers = regle.vers /\ s.auteur \in regle.acteurs
  BY <1>1 DEF Table!TRANSITIONS, Table!Regle, Table!Boutique, Table!STATUTS_REFUS, Table!STATUTS_ANNULABLES
<1> QED
  BY <1>1 DEF PasPermis

LEMMA PasType ==
  ASSUME NEW s, PasPermis(s)
  PROVE  /\ s.action \in ActionsRetour /\ s.depuis \in EtapesRetour /\ s.vers \in EtapesRetour \ {"aucune"}
         /\ s.auteur \in ActeursRetour \ {"aucun"}
BY PasDeLaTable DEF ActionsRetour, EtapesRetour, ActeursRetour

\* The rules that take a return out of each status: one that its parties may follow, or none.
LEMMA SuitesDeLaTable ==
         /\ \A regle \in Table!TRANSITIONS :
              regle.depuis \cap {"rejete", "cloture", "annule"} = {}
         /\ \E regle \in Table!TRANSITIONS :
              "demande" \in regle.depuis /\ regle.action # "annuler" /\ regle.acteurs = {"vendeur"}
         /\ \E regle \in Table!TRANSITIONS :
              "approuve" \in regle.depuis /\ regle.action # "annuler" /\ "client" \in regle.acteurs
         /\ \E regle \in Table!TRANSITIONS :
              "refuse_vendeur" \in regle.depuis /\ regle.action # "annuler" /\ "client" \in regle.acteurs
         /\ \E regle \in Table!TRANSITIONS :
              "refuse_moderation" \in regle.depuis /\ regle.action # "annuler" /\ "client" \in regle.acteurs
         /\ \E regle \in Table!TRANSITIONS :
              "en_moderation" \in regle.depuis /\ regle.action # "annuler" /\ "moderation" \in regle.acteurs
         /\ \E regle \in Table!TRANSITIONS :
              "en_arbitrage" \in regle.depuis /\ regle.action # "annuler" /\ "administration" \in regle.acteurs
         /\ \E regle \in Table!TRANSITIONS :
              "en_transit" \in regle.depuis /\ regle.action # "annuler" /\ {"vendeur", "administration"} \subseteq regle.acteurs
         /\ \E regle \in Table!TRANSITIONS :
              "receptionne" \in regle.depuis /\ regle.action # "annuler" /\ {"vendeur", "administration"} \subseteq regle.acteurs
         /\ \E regle \in Table!TRANSITIONS :
              "rembourse" \in regle.depuis /\ regle.action # "annuler" /\ {"vendeur", "administration"} \subseteq regle.acteurs
<1>1. /\ Table!Regle("approuver", {"demande"}, "approuve", {"vendeur"}, "echeance_vendeur") \in Table!TRANSITIONS
      /\ Table!Regle("approuver", {"en_moderation"}, "approuve", {"moderation"}, "aucun") \in Table!TRANSITIONS
      /\ Table!Regle("approuver", {"en_arbitrage"}, "approuve", {"administration"}, "aucun") \in Table!TRANSITIONS
      /\ Table!Regle("contester", {"refuse_vendeur"}, "en_moderation", {"client"}, "contestation") \in Table!TRANSITIONS
      /\ Table!Regle("contester", {"refuse_moderation"}, "en_arbitrage", {"client"}, "contestation") \in Table!TRANSITIONS
      /\ Table!Regle("en_transit", {"approuve"}, "en_transit", {"client"} \union Table!Boutique, "aucun") \in Table!TRANSITIONS
      /\ Table!Regle("receptionner", {"approuve", "en_transit"}, "receptionne", Table!Boutique, "aucun") \in Table!TRANSITIONS
      /\ Table!Regle("rembourser", {"receptionne"}, "rembourse", Table!Boutique, "aucun") \in Table!TRANSITIONS
      /\ Table!Regle("cloturer", {"rembourse"}, "cloture", Table!Boutique, "aucun") \in Table!TRANSITIONS
  BY Zenon DEF Table!TRANSITIONS
<1>2. \A regle \in Table!TRANSITIONS : regle.depuis \cap {"rejete", "cloture", "annule"} = {}
  BY DEF Table!TRANSITIONS, Table!Regle, Table!STATUTS_REFUS, Table!STATUTS_ANNULABLES
<1>3. ASSUME NEW a, NEW d, NEW v, NEW q, NEW c
      PROVE  /\ Table!Regle(a, d, v, q, c).action = a /\ Table!Regle(a, d, v, q, c).depuis = d
             /\ Table!Regle(a, d, v, q, c).acteurs = q
  BY DEF Table!Regle
<1>4. \E regle \in Table!TRANSITIONS : "demande" \in regle.depuis /\ regle.action # "annuler" /\ regle.acteurs = {"vendeur"}
  BY <1>1, <1>3
<1>5. \E regle \in Table!TRANSITIONS : "approuve" \in regle.depuis /\ regle.action # "annuler" /\ "client" \in regle.acteurs
  BY <1>1, <1>3
<1>6. \E regle \in Table!TRANSITIONS : "refuse_vendeur" \in regle.depuis /\ regle.action # "annuler" /\ "client" \in regle.acteurs
  BY <1>1, <1>3
<1>7. \E regle \in Table!TRANSITIONS : "refuse_moderation" \in regle.depuis /\ regle.action # "annuler" /\ "client" \in regle.acteurs
  BY <1>1, <1>3
<1>8. \E regle \in Table!TRANSITIONS : "en_moderation" \in regle.depuis /\ regle.action # "annuler" /\ "moderation" \in regle.acteurs
  BY <1>1, <1>3
<1>9. \E regle \in Table!TRANSITIONS : "en_arbitrage" \in regle.depuis /\ regle.action # "annuler" /\ "administration" \in regle.acteurs
  BY <1>1, <1>3
<1>10. \E regle \in Table!TRANSITIONS :
         "en_transit" \in regle.depuis /\ regle.action # "annuler" /\ {"vendeur", "administration"} \subseteq regle.acteurs
  BY <1>1, <1>3 DEF Table!Boutique
<1>11. \E regle \in Table!TRANSITIONS :
         "receptionne" \in regle.depuis /\ regle.action # "annuler" /\ {"vendeur", "administration"} \subseteq regle.acteurs
  BY <1>1, <1>3 DEF Table!Boutique
<1>12. \E regle \in Table!TRANSITIONS :
         "rembourse" \in regle.depuis /\ regle.action # "annuler" /\ {"vendeur", "administration"} \subseteq regle.acteurs
  BY <1>1, <1>3 DEF Table!Boutique
<1> QED
  BY <1>2, <1>4, <1>5, <1>6, <1>7, <1>8, <1>9, <1>10, <1>11, <1>12

LEMMA QuiSait ==
  ASSUME NEW s, PasPermis(s)
  PROVE  /\ "client" \in Avertis(s) /\ (s.auteur # "administration" => "vendeur" \in Avertis(s))
         /\ s.vers = "annule" => Instance(s.depuis) \subseteq Avertis(s)
         /\ s.vers = "en_moderation" => "moderation" \in Avertis(s)
         /\ s.vers = "en_arbitrage" => "administration" \in Avertis(s)
         /\ s.vers \in {"en_transit", "receptionne", "rembourse"} => {"vendeur", "administration"} \cap Avertis(s) # {}
         /\ Destinataires(s) \subseteq PartiesPrevenues
BY PasDeLaTable DEF Avertis, Destinataires, DestinatairesSansInstance, Instance, PartiesPrevenues

\* One of those who may take the return out of the status reached by a step knows of it.
LEMMA SuiteConnue ==
  ASSUME NEW s, PasPermis(s), NEW etape, etape = s.vers,
         NEW regle \in Table!TRANSITIONS, etape \in regle.depuis, regle.action # "annuler"
  PROVE  \E r \in Table!TRANSITIONS : etape \in r.depuis /\ r.action # "annuler" /\ r.acteurs \cap Avertis(s) # {}
<1>1. s.vers \notin {"rejete", "cloture", "annule"}
  BY SuitesDeLaTable
<1>2. CASE s.vers = "demande"
  <2>1. s.auteur = "client" /\ "vendeur" \in Avertis(s)
    BY <1>2, PasDeLaTable, QuiSait
  <2> QED
    BY <1>2, <2>1, SuitesDeLaTable
<1>3. CASE s.vers \in {"approuve", "refuse_vendeur", "refuse_moderation"}
  BY <1>3, QuiSait, SuitesDeLaTable
<1>4. CASE s.vers \in {"en_moderation", "en_arbitrage"}
  BY <1>4, QuiSait, SuitesDeLaTable
<1>5. CASE s.vers \in {"en_transit", "receptionne", "rembourse"}
  <2>1. PICK q \in {"vendeur", "administration"} : q \in Avertis(s)
    BY <1>5, QuiSait
  <2> QED
    BY <1>5, <2>1, SuitesDeLaTable
<1>6. s.vers \in {"demande", "approuve", "refuse_vendeur", "refuse_moderation", "en_moderation", "en_arbitrage",
                  "en_transit", "receptionne", "rembourse", "rejete", "cloture", "annule"}
  BY PasType DEF EtapesRetour
<1> QED
  BY <1>1, <1>2, <1>3, <1>4, <1>5, <1>6

-----------------------------------------------------------------------------
\* The notices of an order

Autre == Courses \ {"creee"}
NoticesDe(S, payee) == {n \in Notifications : n.statut \in S /\ n.a \in Prevenus(n.statut, payee)}

AvisInv ==
  /\ traversees \subseteq Courses /\ encaissee \in BOOLEAN
  /\ "annulee" \in traversees => avancement = "annulee"
  /\ boite = NoticesDe(traversees, encaissee)
  /\ courrielsAvis \subseteq [avis : boite, essai : Nat]
  /\ ecritureAvis # SansEcriture =>
       /\ <<avancement, ecritureAvis.vers>> \in EtapesCommande
       /\ ecritureAvis.avis = NoticesDe({ecritureAvis.vers}, encaissee)
       /\ ecritureAvis.emails \subseteq ecritureAvis.avis

\* Only a cancellation is told to different parties before and after the payment.
LEMMA PrevenusMemes ==
  ASSUME NEW vers \in Courses, NEW p \in BOOLEAN, NEW q \in BOOLEAN, vers # "annulee" \/ p = q
  PROVE  Prevenus(vers, p) = Prevenus(vers, q) /\ Prevenus(vers, p) \subseteq {"client", "vendeur"}
BY DEF Prevenus, AvisDePaiement, AvisDAnnulation, AvisDeLivraison, Courses

LEMMA PublicationJuste ==
  ASSUME AvisInv, ecritureAvis # SansEcriture, NEW emails \in SUBSET ecritureAvis.avis, Publier(emails),
         NEW vers \in Courses, vers = ecritureAvis.vers, <<avancement, vers>> \in EtapesCommande
  PROVE  AvisInv'
<1>1. /\ avancement' = vers /\ encaissee' = (encaissee \/ vers = "confirmee")
      /\ traversees' = traversees \cup {vers} /\ boite' = boite \cup ecritureAvis.avis
      /\ courrielsAvis' = courrielsAvis \cup {[avis |-> n, essai |-> 0] : n \in emails}
      /\ ecritureAvis' = SansEcriture
  BY DEF Publier
<1>2. encaissee \in BOOLEAN /\ encaissee' \in BOOLEAN
  BY <1>1 DEF AvisInv
<1>3. "annulee" \in traversees' => avancement' = "annulee" /\ encaissee' = encaissee
  BY <1>1, <1>2 DEF AvisInv, EtapesCommande
<1>4. \A v \in traversees' : Prevenus(v, encaissee) = Prevenus(v, encaissee')
  BY <1>1, <1>2, <1>3, PrevenusMemes DEF AvisInv
<1>5. boite' = NoticesDe(traversees', encaissee')
  <2>1. boite' = NoticesDe(traversees, encaissee) \cup NoticesDe({vers}, encaissee)
    BY <1>1 DEF AvisInv
  <2> QED
    BY <1>1, <1>4, <2>1 DEF NoticesDe
<1>6. courrielsAvis' \subseteq [avis : boite', essai : Nat]
  BY <1>1 DEF AvisInv
<1>7. traversees' \subseteq Courses
  BY <1>1 DEF AvisInv
<1> QED
  BY <1>1, <1>2, <1>3, <1>5, <1>6, <1>7 DEF AvisInv

LEMMA AvisConserve ==
  ASSUME AvisInv,
         \/ \E vers \in Courses : EcrireAvis(vers)
         \/ CommettreAvis \/ CommettreSansCourriel \/ AbandonnerEcriture \/ ChangerPreference
         \/ \E c \in courrielsAvis : EnvoyerCourriel(c) \/ EchouerCourriel(c)
         \/ UNCHANGED ordreVars
  PROVE  AvisInv'
<1>1. ASSUME NEW vers \in Courses, EcrireAvis(vers) PROVE AvisInv'
  <2>1. PICK e : e = [vers |-> vers,
                      avis |-> {[a |-> q, statut |-> vers] : q \in Prevenus(vers, encaissee)},
                      emails |-> {[a |-> q, statut |-> vers] : q \in Prevenus(vers, encaissee) \cap Souhaitent}]
    OBVIOUS
  <2>2. /\ ecritureAvis' = e /\ <<avancement, vers>> \in EtapesCommande
        /\ UNCHANGED <<avancement, encaissee, traversees, boite, courrielsAvis>>
    BY <1>1, <2>1 DEF EcrireAvis
  <2>3. /\ e.vers = vers /\ e.emails \subseteq e.avis
        /\ e.avis = {[a |-> q, statut |-> vers] : q \in Prevenus(vers, encaissee)}
    BY <2>1
  <2>4. e.avis = NoticesDe({vers}, encaissee)
    <3>1. Prevenus(vers, encaissee) \subseteq {"client", "vendeur"}
      BY PrevenusMemes DEF AvisInv
    <3>2. PICK P : P = Prevenus(vers, encaissee)
      OBVIOUS
    <3>3. NoticesDe({vers}, encaissee) = {n \in Notifications : n.statut = vers /\ n.a \in P}
      BY <3>2 DEF NoticesDe
    <3>4. ASSUME NEW n \in Notifications, n.statut = vers, n.a \in P
          PROVE  n = [a |-> n.a, statut |-> vers]
      BY <3>4 DEF Notifications
    <3>5. ASSUME NEW q \in P
          PROVE  LET n == [a |-> q, statut |-> vers] IN n \in Notifications /\ n.statut = vers /\ n.a = q
      BY <3>1, <3>2 DEF Notifications
    <3> QED
      BY <2>3, <3>2, <3>3, <3>4, <3>5
  <2> QED
    BY <2>2, <2>3, <2>4 DEF AvisInv
<1>2. CASE CommettreAvis \/ CommettreSansCourriel
  <2>1. PICK emails \in SUBSET ecritureAvis.avis : Publier(emails) /\ ecritureAvis # SansEcriture
    BY <1>2 DEF CommettreAvis, CommettreSansCourriel, AvisInv
  <2>2. PICK vers : vers = ecritureAvis.vers /\ <<avancement, vers>> \in EtapesCommande
    BY <2>1 DEF AvisInv
  <2>3. vers \in Courses
    BY <2>2 DEF EtapesCommande, Courses
  <2> QED
    BY <2>1, <2>2, <2>3, PublicationJuste
<1>3. CASE AbandonnerEcriture \/ ChangerPreference \/ UNCHANGED ordreVars
  BY <1>3 DEF AbandonnerEcriture, ChangerPreference, ordreVars, AvisInv
<1>4. ASSUME NEW c \in courrielsAvis, EnvoyerCourriel(c) \/ EchouerCourriel(c) PROVE AvisInv'
  <2>1. /\ UNCHANGED <<avancement, encaissee, ecritureAvis, traversees, boite>>
        /\ courrielsAvis' \subseteq courrielsAvis \cup {[c EXCEPT !.essai = c.essai + 1]}
    BY <1>4 DEF EnvoyerCourriel, EchouerCourriel
  <2>2. PICK d \in [avis : boite, essai : Nat] : d = c
    BY <1>4 DEF AvisInv
  <2>3. [d EXCEPT !.essai = d.essai + 1] \in [avis : boite, essai : Nat]
    OBVIOUS
  <2> QED
    BY <2>1, <2>2, <2>3 DEF AvisInv
<1> QED
  BY <1>1, <1>2, <1>3, <1>4

-----------------------------------------------------------------------------
\* The signals of a return

DossierRetour == [etape : EtapesRetour, depuis : EtapesRetour, auteur : ActeursRetour, accord : ActeursRetour,
                  pas : Nat, echue : BOOLEAN, relances : Nat]

\* The signal of the step the return is at.
Courant(s) == PasPermis(s) /\ s.vers = retour.etape /\ s.depuis = retour.depuis /\ s.auteur = retour.auteur

DossierInv ==
  /\ retour \in DossierRetour /\ tus \in BOOLEAN
  /\ \A s \in signaux_retour : s.pas \in Nat /\ s.pas <= retour.pas /\ (s.pas = retour.pas => Courant(s))
  /\ retour.etape # "aucune" =>
       \/ tus
       \/ \E s \in signaux_retour : s.pas = retour.pas
       \/ \E s \in SignalRetour : Courant(s) /\ Destinataires(s) \subseteq informes

LEMMA FranchirConserve ==
  ASSUME DossierInv, NEW action, NEW vers, NEW auteur, Franchir(action, vers, auteur),
         PasPermis([action |-> action, depuis |-> retour.etape, vers |-> vers, auteur |-> auteur, pas |-> retour.pas + 1])
  PROVE  DossierInv'
<1>1. PICK d \in DossierRetour : d = retour
  BY DEF DossierInv
<1>2. PICK s : s = [action |-> action, depuis |-> d.etape, vers |-> vers, auteur |-> auteur, pas |-> d.pas + 1]
  OBVIOUS
<1>3. /\ PasPermis(s) /\ s.action = action /\ s.depuis = d.etape /\ s.vers = vers /\ s.auteur = auteur
      /\ s.pas = d.pas + 1 /\ d.pas \in Nat /\ s.pas \in Nat
  BY <1>1, <1>2 DEF DossierRetour
<1>4. vers \in EtapesRetour /\ auteur \in ActeursRetour
  BY <1>3, PasType
<1>11. PICK accord \in ActeursRetour : accord = IF vers = "approuve" THEN auteur ELSE d.accord
  BY <1>4 DEF DossierRetour
<1>5. PICK n : n = [d EXCEPT !.depuis = d.etape, !.etape = vers, !.auteur = auteur, !.pas = d.pas + 1,
                             !.echue = FALSE, !.relances = 0, !.accord = accord]
  OBVIOUS
<1>12. PICK pas \in Nat : pas = d.pas + 1
  BY <1>3
<1>13. PICK non \in BOOLEAN : non = FALSE
  OBVIOUS
<1>14. n = [etape |-> vers, depuis |-> d.etape, auteur |-> auteur, accord |-> accord, pas |-> pas, echue |-> non,
            relances |-> 0]
  BY <1>5, <1>12, <1>13 DEF DossierRetour
<1>6. n \in DossierRetour /\ n.depuis = d.etape /\ n.etape = vers /\ n.auteur = auteur /\ n.pas = d.pas + 1
  <2>1. d.etape \in EtapesRetour
    BY DEF DossierRetour
  <2>2. n \in DossierRetour
    BY <1>4, <1>14, <2>1 DEF DossierRetour
  <2> QED
    BY <1>12, <1>14, <2>2
<1>7. retour' = n /\ signaux_retour' = signaux_retour \cup {s} /\ tus' = FALSE
  BY <1>1, <1>2, <1>5, <1>11 DEF Franchir
<1>8. Courant(s)'
  BY <1>3, <1>6, <1>7 DEF Courant
<1>9. ASSUME NEW t \in signaux_retour' PROVE t.pas \in Nat /\ t.pas <= n.pas /\ (t.pas = n.pas => Courant(t)')
  <2>1. CASE t = s
    BY <1>3, <1>6, <1>8, <2>1
  <2>2. CASE t \in signaux_retour
    <3>1. t.pas \in Nat /\ t.pas <= d.pas
      BY <1>1, <2>2 DEF DossierInv
    <3> QED
      BY <1>3, <1>6, <3>1
  <2> QED
    BY <1>7, <2>1, <2>2
<1>10. \E t \in signaux_retour' : t.pas = retour'.pas
  BY <1>3, <1>6, <1>7
<1> QED
  BY <1>6, <1>7, <1>9, <1>10 DEF DossierInv

\* Nothing of the step itself changes.
LEMMA MemePasConserve ==
  ASSUME DossierInv, retour' \in DossierRetour,
         retour'.etape = retour.etape, retour'.depuis = retour.depuis, retour'.auteur = retour.auteur,
         retour'.pas = retour.pas, UNCHANGED <<signaux_retour, tus>>, informes \subseteq informes'
  PROVE  DossierInv'
<1>1. ASSUME NEW s PROVE Courant(s)' <=> Courant(s)
  BY DEF Courant
<1> QED
  BY <1>1 DEF DossierInv

LEMMA DossierConserve ==
  ASSUME DossierInv,
         \/ DemanderRetour \/ RefuserRemboursement \/ EchoirDossier \/ RelancerDossier
         \/ \E regle \in Table!TRANSITIONS : \E auteur \in regle.acteurs : FranchirEtape(regle, auteur)
         \/ \E s \in signaux_retour : \E joints \in SUBSET Destinataires(s) : TraiterSignal(s, joints)
         \/ UNCHANGED dossierVars
  PROVE  DossierInv'
<1>1. PICK d \in DossierRetour : d = retour
  BY DEF DossierInv
<1>2. CASE DemanderRetour
  <2>1. Franchir("creer", "demande", "client") /\ retour.etape = "aucune"
    BY <1>2 DEF DemanderRetour
  <2>2. PasPermis([action |-> "creer", depuis |-> retour.etape, vers |-> "demande", auteur |-> "client", pas |-> retour.pas + 1])
    BY <2>1 DEF PasPermis
  <2> QED
    BY <2>1, <2>2, FranchirConserve
<1>3. ASSUME NEW regle \in Table!TRANSITIONS, NEW auteur \in regle.acteurs, FranchirEtape(regle, auteur) PROVE DossierInv'
  <2>1. Franchir(regle.action, regle.vers, auteur) /\ retour.etape \in regle.depuis
    BY <1>3 DEF FranchirEtape, Permis
  <2>2. PICK s : s = [action |-> regle.action, depuis |-> retour.etape, vers |-> regle.vers, auteur |-> auteur, pas |-> retour.pas + 1]
    OBVIOUS
  <2>3. s.action = regle.action /\ s.depuis \in regle.depuis /\ s.vers = regle.vers /\ s.auteur \in regle.acteurs
    BY <2>1, <2>2
  <2>4. PasPermis(s)
    BY <2>3 DEF PasPermis
  <2> QED
    BY <2>1, <2>2, <2>4, FranchirConserve
<1>4. CASE RefuserRemboursement \/ UNCHANGED dossierVars
  BY <1>4, MemePasConserve DEF RefuserRemboursement, dossierVars, DossierInv
<1>5. CASE EchoirDossier \/ RelancerDossier
  <2>1. PICK n : n = [d EXCEPT !.echue = TRUE]
    OBVIOUS
  <2>2. PICK m : m = [d EXCEPT !.relances = d.relances + 1]
    OBVIOUS
  <2>5. PICK r \in Nat : r = d.relances + 1
    BY DEF DossierRetour
  <2>6. PICK oui \in BOOLEAN : oui = TRUE
    OBVIOUS
  <2>7. /\ n.etape = d.etape /\ n.depuis = d.depuis /\ n.auteur = d.auteur /\ n.pas = d.pas
        /\ n = [d EXCEPT !.echue = oui]
    BY <2>1, <2>6 DEF DossierRetour
  <2>8. /\ m.etape = d.etape /\ m.depuis = d.depuis /\ m.auteur = d.auteur /\ m.pas = d.pas
        /\ m = [d EXCEPT !.relances = r]
    BY <2>2, <2>5 DEF DossierRetour
  <2>9. n \in DossierRetour
    BY <2>7 DEF DossierRetour
  <2>3. m \in DossierRetour
    BY <2>8 DEF DossierRetour
  <2>4. (retour' = n \/ retour' = m) /\ UNCHANGED <<signaux_retour, tus>> /\ informes \subseteq informes'
    BY <1>1, <1>5, <2>1, <2>2 DEF EchoirDossier, RelancerDossier
  <2> QED
    BY <1>1, <2>3, <2>4, <2>7, <2>8, <2>9, MemePasConserve
<1>6. ASSUME NEW s \in signaux_retour, NEW joints \in SUBSET Destinataires(s), TraiterSignal(s, joints) PROVE DossierInv'
  <2>1. /\ signaux_retour' = signaux_retour \ {s} /\ retour' = retour
        /\ informes' = IF s.pas = retour.pas THEN informes \cup joints ELSE informes
        /\ tus' = (tus \/ (s.pas = retour.pas /\ joints # Destinataires(s)))
    BY <1>6 DEF TraiterSignal
  <2>2. \A t : Courant(t)' <=> Courant(t)
    BY <2>1 DEF Courant
  <2>3. CASE s.pas # retour.pas
    BY <2>1, <2>2, <2>3 DEF DossierInv
  <2>4. CASE s.pas = retour.pas /\ joints # Destinataires(s)
    <3>1. tus' = TRUE
      BY <2>1, <2>4
    <3> QED
      BY <2>1, <2>2, <3>1 DEF DossierInv
  <2>5. CASE s.pas = retour.pas /\ joints = Destinataires(s)
    <3>1. Courant(s)
      BY <2>5 DEF DossierInv
    <3>2. PICK t : t = [action |-> s.action, depuis |-> s.depuis, vers |-> s.vers, auteur |-> s.auteur, pas |-> 0]
      OBVIOUS
    <3>3. t \in SignalRetour /\ t.action = s.action /\ t.depuis = s.depuis /\ t.vers = s.vers /\ t.auteur = s.auteur
      BY <3>1, <3>2, PasType DEF SignalRetour, Courant
    <3>4. Courant(t) /\ Destinataires(t) = Destinataires(s)
      BY <3>1, <3>3 DEF Courant, PasPermis, Destinataires, DestinatairesSansInstance
    <3>5. Destinataires(t) \subseteq informes'
      BY <2>1, <2>5, <3>4
    <3>6. tus' = tus
      BY <2>1, <2>5 DEF DossierInv
    <3> QED
      BY <2>1, <2>2, <3>3, <3>4, <3>5, <3>6 DEF DossierInv
  <2> QED
    BY <2>3, <2>4, <2>5
<1> QED
  BY <1>2, <1>3, <1>4, <1>5, <1>6

\* What the client and the shop of an order are told is what was recorded and all of it,
\* and a return never waits for people none of whom was told.
THEOREM Chacun_Prevenu == AvertissementsSpec => []ChacunPrevenu
<1>1. AvertissementsInit => AvisInv /\ DossierInv
  <2> SUFFICES ASSUME AvertissementsInit PROVE AvisInv /\ DossierInv
    OBVIOUS
  <2>1. AvisInv
    BY DEF AvertissementsInit, AvisInv, NoticesDe
  <2>2. retour \in DossierRetour /\ retour.etape = "aucune"
    BY DEF AvertissementsInit, PasDeDossier, DossierRetour, EtapesRetour, ActeursRetour
  <2>3. DossierInv
    BY <2>2 DEF AvertissementsInit, DossierInv
  <2> QED
    BY <2>1, <2>3
<1>2. AvisInv /\ DossierInv /\ [AvertissementsNext]_avertissementsVars => AvisInv' /\ DossierInv'
  <2> SUFFICES ASSUME AvisInv, DossierInv, [AvertissementsNext]_avertissementsVars PROVE AvisInv' /\ DossierInv'
    OBVIOUS
  <2>1. \/ /\ \/ \E vers \in Courses : EcrireAvis(vers)
              \/ CommettreAvis \/ CommettreSansCourriel \/ AbandonnerEcriture \/ ChangerPreference
              \/ \E c \in courrielsAvis : EnvoyerCourriel(c) \/ EchouerCourriel(c)
           /\ UNCHANGED dossierVars
        \/ /\ \/ DemanderRetour \/ RefuserRemboursement \/ EchoirDossier \/ RelancerDossier
              \/ \E regle \in Table!TRANSITIONS : \E auteur \in regle.acteurs : FranchirEtape(regle, auteur)
              \/ \E s \in signaux_retour : \E joints \in SUBSET Destinataires(s) : TraiterSignal(s, joints)
           /\ UNCHANGED ordreVars
        \/ UNCHANGED avertissementsVars
    BY DEF AvertissementsNext, EcrireAvis, CommettreAvis, CommettreSansCourriel, AbandonnerEcriture, ChangerPreference,
           EnvoyerCourriel, EchouerCourriel, DemanderRetour, RefuserRemboursement, EchoirDossier, RelancerDossier,
           FranchirEtape, TraiterSignal
  <2>2. UNCHANGED avertissementsVars => UNCHANGED ordreVars /\ UNCHANGED dossierVars
    BY DEF avertissementsVars
  <2> QED
    BY <2>1, <2>2, AvisConserve, DossierConserve
<1>3. AvisInv => AvisDeCeQuiFut
  BY DEF AvisInv, AvisDeCeQuiFut, NoticesDe
<1>4. DossierInv => AttenduPrevenu
  <2> SUFFICES ASSUME DossierInv, retour.etape # "aucune", ~tus, \A s \in signaux_retour : s.pas # retour.pas
               PROVE  AttenduPrevenu
    BY DEF AttenduPrevenu
  <2>1. PICK s \in SignalRetour : Courant(s) /\ Destinataires(s) \subseteq informes
    BY DEF DossierInv
  <2>2. PICK avertis : avertis = informes \cup {retour.auteur}
    OBVIOUS
  <2>3. PasPermis(s) /\ Avertis(s) \subseteq avertis /\ s.vers = retour.etape /\ s.depuis = retour.depuis /\ s.auteur = retour.auteur
    BY <2>1, <2>2 DEF Courant, Avertis
  <2>4. /\ "client" \in avertis /\ (retour.auteur # "administration" => "vendeur" \in avertis)
        /\ retour.etape = "annule" => Instance(retour.depuis) \subseteq avertis
    BY <2>3, QuiSait
  <2>5. ASSUME NEW r \in Table!TRANSITIONS, retour.etape \in r.depuis, r.action # "annuler"
        PROVE  \E q \in Table!TRANSITIONS : retour.etape \in q.depuis /\ q.action # "annuler" /\ q.acteurs \cap avertis # {}
    BY <2>3, <2>5, SuiteConnue
  <2> QED
    BY <2>2, <2>4, <2>5 DEF AttenduPrevenu
<1> QED
  BY <1>1, <1>2, <1>3, <1>4, PTL DEF AvertissementsSpec, ChacunPrevenu
=============================================================================
