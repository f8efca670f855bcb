----------------------------- MODULE Livraison -----------------------------
(***************************************************************************)
(* A delivery and its couriers.  Each step of a delivery runs under the    *)
(* lock of its row; the courier of a request was read when the request     *)
(* was authenticated, the one the administration assigns before the lock.  *)
(* The client reads the code of the attempt in progress and gives it to    *)
(* the courier, who has a bounded number of tries.                         *)
(***************************************************************************)
EXTENDS Comptes

CONSTANTS
  Colis,           \* the orders, one delivery each
  CodeEssaisMax,   \* CODE_ESSAIS_MAX
  TentativesMax    \* LIVRAISON_TENTATIVES_MAX

VARIABLES
  vente,      \* Commande.status
  livraison,  \* Livraison: statut, livreur, tentatives, code, essais
  requete,    \* couriers with an authenticated request not served yet
  choix,      \* the couriers the administration read for an assignment
  donne,      \* the attempts whose code the client gave
  faux,       \* history: wrong codes tried
  remises     \* history: the delivery handed over and the code shown then

colisVars == <<vente, livraison, requete, choix, donne, faux, remises>>
livraisonVars == <<comptesVars, colisVars>>

StatutsVente == {"confirmee", "preparation", "expediee", "livree", "annulee"}
StatutsColis == {"en_attente", "expediee", "en_cours", "livree", "echouee", "annulee"}
STATUTS_TERMINES == {"livree", "annulee"}
Personne == "personne"

ASSUME LivraisonOk == CodeEssaisMax \in Nat \ {0} /\ TentativesMax \in Nat \ {0} /\ Personne \notin Comptes

Fiche == [statut: StatutsColis, livreur: Comptes \cup {Personne}, tentatives: 0..TentativesMax,
          code: 0..TentativesMax, essais: 0..CodeEssaisMax]

LivraisonTypes ==
  /\ vente \in [Colis -> StatutsVente]
  /\ livraison \in [Colis -> Fiche]
  /\ requete \subseteq Comptes
  /\ choix \in [Colis -> Comptes \cup {Personne}]
  /\ donne \in [Colis -> SUBSET (1..TentativesMax)]
  /\ faux \in [Colis -> Nat]
  /\ remises \in [Colis -> 0..TentativesMax]

LivraisonInit ==
  /\ vente = [l \in Colis |-> "confirmee"]
  /\ livraison = [l \in Colis |-> [statut |-> "en_attente", livreur |-> Personne,
                                   tentatives |-> 0, code |-> 0, essais |-> 0]]
  /\ requete = {}
  /\ choix = [l \in Colis |-> Personne]
  /\ donne = [l \in Colis |-> {}]
  /\ faux = [l \in Colis |-> 0]
  /\ remises = [l \in Colis |-> 0]

Statut(l) == livraison[l].statut

-----------------------------------------------------------------------------
(* What each party sees of a delivery.                                      *)

\* LivraisonClientSerializer: the code is shown during the attempt, 0 otherwise.
CodeAffiche(l) == IF Statut(l) = "en_cours" THEN livraison[l].code ELSE 0

\* LivreurListView: the couriers the administration is offered.
LivreursProposes == {c \in Comptes : compte[c].role = "livreur" /\ compte[c].actif}

-----------------------------------------------------------------------------
(* The order of the delivery.                                               *)

PasserEnPreparation(l) ==
  /\ vente[l] = "confirmee"
  /\ vente' = [vente EXCEPT ![l] = "preparation"]
  /\ UNCHANGED <<comptesVars, livraison, requete, choix, donne, faux, remises>>

\* annuler_livraison_de: a parcel that left refuses the cancellation.
Annulable(l) ==
  /\ vente[l] \in {"confirmee", "preparation", "expediee"}
  /\ Statut(l) \in {"en_attente", "echouee"}

AnnulerColis(l) ==
  /\ vente' = [vente EXCEPT ![l] = "annulee"]
  /\ livraison' = [livraison EXCEPT ![l].statut = "annulee", ![l].code = 0]
  /\ UNCHANGED <<comptesVars, requete, choix, donne, faux, remises>>

\* The client or the seller, before the parcel leaves.
AnnulerVente(l) == vente[l] \in {"confirmee", "preparation"} /\ Annulable(l) /\ AnnulerColis(l)

AbandonnerLivraison(l) == Statut(l) = "echouee" /\ Annulable(l) /\ AnnulerColis(l)

-----------------------------------------------------------------------------
(* The assignment.                                                          *)

\* AssignerLivreurView reads the account; livreur_eligible judges what it read.
ChoisirLivreur(l, c) ==
  /\ choix[l] = Personne
  /\ c \in LivreursProposes
  /\ choix' = [choix EXCEPT ![l] = c]
  /\ UNCHANGED <<comptesVars, vente, livraison, requete, donne, faux, remises>>

AssignerLivreur(l) ==
  /\ choix[l] # Personne
  /\ choix' = [choix EXCEPT ![l] = Personne]
  /\ livraison' = IF Statut(l) \in STATUTS_TERMINES THEN livraison
                  ELSE [livraison EXCEPT ![l].livreur = choix[l]]
  /\ UNCHANGED <<comptesVars, vente, requete, donne, faux, remises>>

-----------------------------------------------------------------------------
(* The requests of a courier.                                               *)

\* JWTAuthentication and EstLivreurOuAdministrateur.
AuthentifierLivreur(c) ==
  /\ c \notin requete
  /\ compte[c].actif /\ compte[c].role = "livreur"
  /\ requete' = requete \cup {c}
  /\ UNCHANGED <<comptesVars, vente, livraison, choix, donne, faux, remises>>

\* _controler_acteur: the row is read under the lock, the account was read before.
ControlerActeur(c, l) == c \in requete /\ livraison[l].livreur = c

Servir(c) == requete' = requete \ {c} /\ UNCHANGED <<comptesVars, choix>>

\* A refusal writes nothing.
RefuserRequete(c) ==
  /\ c \in requete
  /\ Servir(c)
  /\ UNCHANGED <<vente, livraison, donne, faux, remises>>

Expedier(c, l) ==
  /\ ControlerActeur(c, l) /\ Statut(l) = "en_attente"
  /\ vente[l] = "preparation"
  /\ vente' = [vente EXCEPT ![l] = "expediee"]
  /\ livraison' = [livraison EXCEPT ![l].statut = "expediee"]
  /\ Servir(c)
  /\ UNCHANGED <<donne, faux, remises>>

NouvelleTentative(l) ==
  [livraison EXCEPT ![l].statut = "en_cours", ![l].tentatives = @ + 1,
                    ![l].code = livraison[l].tentatives + 1, ![l].essais = 0]

Presenter(l) ==
  /\ livraison[l].tentatives < TentativesMax
  /\ livraison' = NouvelleTentative(l)
  /\ UNCHANGED <<vente, donne, faux, remises>>

PartirEnTournee(c, l) == ControlerActeur(c, l) /\ Statut(l) = "expediee" /\ Presenter(l) /\ Servir(c)

\* A new attempt is the administration's.
RelancerLivraison(l) ==
  /\ Statut(l) = "echouee"
  /\ Presenter(l)
  /\ UNCHANGED <<comptesVars, requete, choix>>

DeclarerEchec(c, l) ==
  /\ ControlerActeur(c, l) /\ Statut(l) \in {"expediee", "en_cours"}
  /\ livraison' = [livraison EXCEPT ![l].statut = "echouee"]
  /\ Servir(c)
  /\ UNCHANGED <<vente, donne, faux, remises>>

\* The client gives the code its page shows; the old codes stay known.
DonnerCode(l) ==
  /\ CodeAffiche(l) # 0
  /\ donne' = [donne EXCEPT ![l] = @ \cup {CodeAffiche(l)}]
  /\ UNCHANGED <<comptesVars, vente, livraison, requete, choix, faux, remises>>

CodeJuste(l, k) == k # 0 /\ k = livraison[l].code

\* The codes a courier may type: one it was given, of this attempt or not, or a wrong one (0).
LivrerCodeJuste(c, l) ==
  /\ ControlerActeur(c, l) /\ Statut(l) = "en_cours"
  /\ livraison[l].essais < CodeEssaisMax
  /\ vente[l] = "expediee"
  /\ \E k \in donne[l] \cup {0} :
       /\ CodeJuste(l, k)
       /\ remises' = [remises EXCEPT ![l] = k]
  /\ vente' = [vente EXCEPT ![l] = "livree"]
  /\ livraison' = [livraison EXCEPT ![l].statut = "livree", ![l].code = 0]
  /\ Servir(c)
  /\ UNCHANGED <<donne, faux>>

EssaiSansCompte(l) == livraison
EssaiCompte(l) == [livraison EXCEPT ![l].essais = @ + 1]

\* The wrong try is counted and committed before the refusal is raised.
LivrerCodeFaux(c, l) ==
  /\ ControlerActeur(c, l) /\ Statut(l) = "en_cours"
  /\ livraison[l].essais < CodeEssaisMax
  /\ faux[l] <= CodeEssaisMax * TentativesMax
  /\ \E k \in donne[l] \cup {0} : ~CodeJuste(l, k)
  /\ livraison' = EssaiCompte(l)
  /\ faux' = [faux EXCEPT ![l] = @ + 1]
  /\ Servir(c)
  /\ UNCHANGED <<vente, donne, remises>>

RequeteLivreur(c) ==
  \/ AuthentifierLivreur(c)
  \/ RefuserRequete(c)
  \/ \E l \in Colis :
       \/ Expedier(c, l)
       \/ PartirEnTournee(c, l)
       \/ DeclarerEchec(c, l)
       \/ LivrerCodeJuste(c, l)
       \/ LivrerCodeFaux(c, l)

RoleLivreur(c) ==
  /\ \/ NommerLivreur(c)
     \/ RetirerLivreur(c)
     \/ \E oui \in BOOLEAN : Activer(c, oui)
  /\ UNCHANGED colisVars

LivraisonNext ==
  \/ \E c \in Comptes : RequeteLivreur(c) \/ RoleLivreur(c)
  \/ \E l \in Colis :
       \/ PasserEnPreparation(l)
       \/ AnnulerVente(l)
       \/ AbandonnerLivraison(l)
       \/ \E c \in Comptes : ChoisirLivreur(l, c)
       \/ AssignerLivreur(l)
       \/ RelancerLivraison(l)
       \/ DonnerCode(l)

LivraisonSpec == ComptesInit /\ LivraisonInit /\ [][LivraisonNext]_livraisonVars

-----------------------------------------------------------------------------
(* A parcel is only marked delivered with the code its client read during the
   attempt under way, and the wrong codes tried on a delivery are bounded,
   new attempts and reassignments included. *)
RemiseProuvee ==
  \A l \in Colis :
    /\ Statut(l) = "livree" => remises[l] \in donne[l] /\ remises[l] = livraison[l].tentatives
    /\ faux[l] <= CodeEssaisMax * TentativesMax

(* The delivery and its order never contradict each other, whoever moves them:
   couriers, seller, client or administration. *)
ColisEtVenteAccordes ==
  \A l \in Colis :
    /\ Statut(l) = "livree" <=> vente[l] = "livree"
    /\ Statut(l) = "annulee" <=> vente[l] = "annulee"
    /\ Statut(l) \in {"expediee", "en_cours", "echouee"} <=> vente[l] = "expediee"
    /\ Statut(l) = "en_cours" => livraison[l].livreur # Personne

(* A delivery is proved by the code of its attempt and agrees with its order:
   RemiseProuvee and ColisEtVenteAccordes, whatever requests of couriers,
   assignments and cancellations cross (apps/livraison/services.py). *)
LivraisonTenue == RemiseProuvee /\ ColisEtVenteAccordes
=============================================================================
