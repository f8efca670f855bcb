------------------------------- MODULE Carnet -------------------------------
(***************************************************************************)
(* The address book of a client (apps/utilisateurs).  Creations and        *)
(* modifications take the lock of the account; but the row a modification  *)
(* saves was read before, and a deletion takes no lock.                    *)
(***************************************************************************)
EXTENDS Naturals, FiniteSets

CONSTANTS
  Lieux,         \* the addresses the client may save
  LieuxMax,      \* ADRESSES_MAX_PAR_CLIENT
  Editions       \* requests that may be under way at once

Sans == "libre"    \* no request holds the lock

ASSUME CarnetOk == LieuxMax \in Nat \ {0} /\ Sans \notin Editions

VARIABLES
  carnet,        \* AdresseClient: "absente", "simple" or "defaut" (par_defaut)
  editions,      \* the requests under way
  verrouCarnet,  \* the request that holds the lock of the account
  revenus,       \* history: deleted addresses a modification inserted again
  defautsRefuses \* history: a request that asked for the default one failed

carnetVars == <<carnet, editions, verrouCarnet, revenus, defautsRefuses>>

SansEdition == [etape |-> "libre"]
Edition ==
  {SansEdition}
  \cup [etape : {"creation", "creation_comptee"}, lieu : Lieux, par_defaut : BOOLEAN]
  \cup [etape : {"modification", "modification_verrouillee"}, lieu : Lieux, par_defaut : BOOLEAN,
        envoye : BOOLEAN]

Enregistres == {f \in Lieux : carnet[f] # "absente"}
Valeur(par_defaut) == IF par_defaut THEN "defaut" ELSE "simple"

CarnetInit ==
  /\ carnet = [f \in Lieux |-> "absente"]
  /\ editions = [e \in Editions |-> SansEdition]
  /\ verrouCarnet = Sans
  /\ revenus = {} /\ defautsRefuses = FALSE

Avancer(e, edition) == editions' = [editions EXCEPT ![e] = edition]
Autres(f) == [g \in Lieux |-> IF g # f /\ carnet[g] = "defaut" THEN "simple" ELSE carnet[g]]
UnDefautAuPlus(c) == Cardinality({f \in Lieux : c[f] = "defaut"}) <= 1

\* AdresseClientListCreateView: the body is validated, no row is read.
DemanderAjout(e, f, par_defaut) ==
  /\ editions[e] = SansEdition /\ carnet[f] = "absente"
  /\ \A d \in Editions : editions[d] # SansEdition => editions[d].lieu # f
  /\ Avancer(e, [etape |-> "creation", lieu |-> f, par_defaut |-> par_defaut])
  /\ UNCHANGED <<carnet, verrouCarnet, revenus, defautsRefuses>>

\* AdresseClientDetailView reads the row, 404 without it.  par_defaut is sent, or
\* keeps in the instance the value read.
LireLieu(e, f) ==
  /\ editions[e] = SansEdition /\ carnet[f] # "absente"
  /\ \/ \E demande \in BOOLEAN :
          Avancer(e, [etape |-> "modification", lieu |-> f, par_defaut |-> demande, envoye |-> TRUE])
     \/ Avancer(e, [etape |-> "modification", lieu |-> f, par_defaut |-> carnet[f] = "defaut", envoye |-> FALSE])
  /\ UNCHANGED <<carnet, verrouCarnet, revenus, defautsRefuses>>

\* _verrouiller_carnet; without it, two requests count the same rows.
SansVerrouCarnet(e) == editions[e] # SansEdition
CarnetLibre(e) == verrouCarnet = Sans

\* creer_adresse: the count, under the lock, or carnet_plein
CompterLieux(e) ==
  /\ editions[e].etape = "creation" /\ CarnetLibre(e)
  /\ IF Cardinality(Enregistres) >= LieuxMax
     THEN Avancer(e, SansEdition) /\ UNCHANGED verrouCarnet
     ELSE Avancer(e, [editions[e] EXCEPT !.etape = "creation_comptee"]) /\ verrouCarnet' = e
  /\ UNCHANGED <<carnet, revenus, defautsRefuses>>

\* modifier_adresse
VerrouillerCarnet(e) ==
  /\ editions[e].etape = "modification" /\ CarnetLibre(e)
  /\ Avancer(e, [editions[e] EXCEPT !.etape = "modification_verrouillee"])
  /\ verrouCarnet' = e
  /\ UNCHANGED <<carnet, revenus, defautsRefuses>>

LibererCarnet(e) == Avancer(e, SansEdition) /\ verrouCarnet' = Sans

\* What the request writes: the other default address gives its place to one
\* that is asked for, then the whole row of this one (save).
Ecrit(e) ==
  LET f == editions[e].lieu
      creation == editions[e].etape = "creation_comptee"
      demande == editions[e].par_defaut /\ (creation \/ editions[e].envoye)
  IN [(IF demande THEN Autres(f) ELSE carnet) EXCEPT ![f] = Valeur(editions[e].par_defaut)]

\* A row that a deletion has taken away is inserted again.
EcrireLieu(e) ==
  /\ editions[e].etape \in {"creation_comptee", "modification_verrouillee"}
  /\ UnDefautAuPlus(Ecrit(e))
  /\ carnet' = Ecrit(e)
  /\ revenus' = IF editions[e].etape = "modification_verrouillee" /\ carnet[editions[e].lieu] = "absente"
                THEN revenus \cup {editions[e].lieu} ELSE revenus
  /\ LibererCarnet(e)
  /\ UNCHANGED defautsRefuses

\* adresseclient_une_seule_par_defaut refuses the row: a 500, nothing is written.
RefuserLieu(e) ==
  /\ editions[e].etape \in {"creation_comptee", "modification_verrouillee"}
  /\ ~UnDefautAuPlus(Ecrit(e))
  /\ defautsRefuses' = (defautsRefuses \/ editions[e].etape = "creation_comptee" \/ editions[e].envoye)
  /\ LibererCarnet(e)
  /\ UNCHANGED <<carnet, revenus>>

\* DELETE, without the lock of the account
SupprimerLieu(f) ==
  /\ carnet[f] # "absente"
  /\ carnet' = [carnet EXCEPT ![f] = "absente"]
  /\ revenus' = revenus \ {f}
  /\ UNCHANGED <<editions, verrouCarnet, defautsRefuses>>

CarnetNext ==
  \/ \E f \in Lieux : SupprimerLieu(f)
  \/ \E e \in Editions :
       \/ \E f \in Lieux : LireLieu(e, f) \/ \E par_defaut \in BOOLEAN : DemanderAjout(e, f, par_defaut)
       \/ CompterLieux(e) \/ VerrouillerCarnet(e) \/ EcrireLieu(e) \/ RefuserLieu(e)

CarnetSpec == CarnetInit /\ [][CarnetNext]_carnetVars

-----------------------------------------------------------------------------
CarnetTypes ==
  /\ carnet \in [Lieux -> {"absente", "simple", "defaut"}]
  /\ editions \in [Editions -> Edition] /\ verrouCarnet \in Editions \cup {Sans}
  /\ revenus \subseteq Enregistres

\* The book holds its maximum at most, but for the addresses a modification in
\* flight inserted again after their deletion; one address is the default one
\* at most, and a request that asks for it never fails for that: only a
\* modification that sends back the value it read may.
CarnetTenu ==
  /\ Cardinality(Enregistres \ revenus) <= LieuxMax
  /\ UnDefautAuPlus(carnet) /\ ~defautsRefuses
=============================================================================
