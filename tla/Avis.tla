-------------------------------- MODULE Avis --------------------------------
(***************************************************************************)
(* The reviews of the products of a shop: the author writes, modifies and  *)
(* deletes, the seller answers, another user reports, a moderator hides,   *)
(* restores or rejects the report.  A writing transaction locks product,   *)
(* shop and review in that order, recomputes the aggregates of both from   *)
(* the published reviews, and commits.  Rejecting a report locks the       *)
(* report, then the review through the foreign key of its decision; a      *)
(* report reads the review without a lock and is inserted in a later step. *)
(***************************************************************************)
EXTENDS Boutiques, Sequences

CONSTANTS
  Auteurs,      \* clients with a delivered article
  ProduitDe,    \* the product of the article of each
  Notes,        \* the notes given
  Signales      \* the authors whose review is reported or moderated

ASSUME AvisOk ==
  /\ ProduitDe \in [Auteurs -> Produits] /\ IsFiniteSet(Auteurs)
  /\ Notes \subseteq 1..5 /\ Signales \subseteq Auteurs

VARIABLES
  avis,         \* Avis of the author: statut and note
  signalement,  \* SignalementAvis on the review: its statut
  signalant,    \* the request that reports the review: what it read, and whether a hiding passed it
  derniere,     \* the last DecisionModeration on the review that is not a rejection
  rang,         \* the locks a transaction holds: how many of Ordre(t)
  ecriture,     \* what it wrote and computed before its commit, or RienEcrit
  perimee       \* history: a PATCH on the shop wrote counters it had read before

signalements == <<signalement, signalant, derniere>>
feuillets == <<avis, signalements, rang, ecriture, perimee>>
avisVars == <<boutiquesVars, feuillets>>

StatutsAvis == {"absent", "publie", "masque", "supprime"}
StatutsSignalement == {"aucun", "ouvert", "accepte", "rejete"}
EtapesSignalant == {"non", "lu", "depasse"}
DecisionsAvis == {"aucune", "masquer", "retablir"}
LigneAvis == [statut: StatutsAvis, note: Notes \cup {0}]
PasDAvis == [statut |-> "absent", note |-> 0]
NOTE_POSITIVE_MIN == 4
RienEcrit == [avis |-> PasDAvis]

Transactions == (Auteurs \X {"auteur"}) \cup (Signales \X {"moderation", "rejet"})

AvisTypes ==
  /\ avis \in [Auteurs -> LigneAvis]
  /\ signalement \in [Auteurs -> StatutsSignalement]
  /\ signalant \in [Auteurs -> EtapesSignalant] /\ derniere \in [Auteurs -> DecisionsAvis]
  /\ rang \in [Transactions -> 0..4]
  /\ perimee \in BOOLEAN

AvisInit ==
  /\ avis = [a \in Auteurs |-> PasDAvis]
  /\ signalement = [a \in Auteurs |-> "aucun"]
  /\ signalant = [a \in Auteurs |-> "non"]
  /\ derniere = [a \in Auteurs |-> "aucune"]
  /\ rang = [t \in Transactions |-> 0]
  /\ ecriture = [t \in Transactions |-> RienEcrit]
  /\ perimee = FALSE

-----------------------------------------------------------------------------
(* The locks.                                                               *)

OrdreInverse(t) ==
  IF t[2] = "rejet" THEN << <<"signalement", t[1]>>, <<"avis", t[1]>> >>
  ELSE IF t[2] = "auteur" THEN << <<"produit", ProduitDe[t[1]]>>, <<"boutique">>, <<"avis", t[1]>> >>
  ELSE << <<"boutique">>, <<"produit", ProduitDe[t[1]]>>, <<"avis", t[1]>>, <<"signalement", t[1]>> >>
\* Hiding ends with the open reports of the review.
Ordre(t) ==
  IF t[2] = "rejet" THEN << <<"signalement", t[1]>>, <<"avis", t[1]>> >>
  ELSE << <<"produit", ProduitDe[t[1]]>>, <<"boutique">>, <<"avis", t[1]>> >>
       \o IF t[2] = "moderation" THEN << <<"signalement", t[1]>> >> ELSE <<>>

TientVerrou(t, v) == \E i \in 1..rang[t] : Ordre(t)[i] = v
Complet(t) == rang[t] = Len(Ordre(t))
Suivant(t) == Ordre(t)[rang[t] + 1]
Attend(t, u) == t # u /\ rang[t] \in 1..(Len(Ordre(t)) - 1) /\ TientVerrou(u, Suivant(t))
SansVerrou(v) == TRUE
VerrouLibre(v) == \A t \in Transactions : ~TientVerrou(t, v)

PrendreVerrouAvis(t) ==
  /\ ~Complet(t)
  /\ VerrouLibre(Suivant(t))
  /\ rang' = [rang EXCEPT ![t] = @ + 1]
  /\ UNCHANGED <<boutiquesVars, avis, signalements, ecriture, perimee>>

\* Refused under the locks, cancelled by the deadlock detector, or stopped.
AbandonnerTransaction(t) ==
  /\ rang[t] > 0
  /\ rang' = [rang EXCEPT ![t] = 0]
  /\ ecriture' = [ecriture EXCEPT ![t] = RienEcrit]
  /\ UNCHANGED <<boutiquesVars, avis, signalements, perimee>>

-----------------------------------------------------------------------------
(* The aggregates: recalculer_agregats.                                     *)

Publiees(lignes, p) == {a \in Auteurs : lignes[a].statut = "publie" /\ ProduitDe[a] = p}
PublieesBoutique(lignes) == {a \in Auteurs : lignes[a].statut = "publie"}

NombreDe(lignes, p, n) == Cardinality({a \in Publiees(lignes, p) : lignes[a].note = n})
SommeDesNotes(lignes, p) ==
  NombreDe(lignes, p, 1) + 2 * NombreDe(lignes, p, 2) + 3 * NombreDe(lignes, p, 3)
    + 4 * NombreDe(lignes, p, 4) + 5 * NombreDe(lignes, p, 5)
\* note_moyenne, in hundredths, rounded half up.
Moyenne(somme, nombre) == IF nombre = 0 THEN 0 ELSE (200 * somme + nombre) \div (2 * nombre)

Agregats(lignes, p) ==
  [nombre |-> Cardinality(Publiees(lignes, p)), somme |-> SommeDesNotes(lignes, p),
   boutique |-> Cardinality(PublieesBoutique(lignes)),
   positifs |-> Cardinality({a \in PublieesBoutique(lignes) : lignes[a].note >= NOTE_POSITIVE_MIN})]

\* A writing transaction sees what is committed and what it wrote itself.
Ecrire(t, ligne) ==
  /\ Complet(t) /\ ecriture[t] = RienEcrit
  /\ ecriture' = [ecriture EXCEPT ![t] =
       [avis |-> ligne, agregats |-> Agregats([avis EXCEPT ![t[1]] = ligne], ProduitDe[t[1]])]]
  /\ UNCHANGED <<boutiquesVars, avis, signalements, rang, perimee>>

-----------------------------------------------------------------------------
(* The author.  The rights are judged again under the locks.                *)

\* _verifier_eligibilite, and one review per client and product, deleted
\* included.  Past a delay the transaction is refused: AbandonnerTransaction.
PeutNoter(a) == avis[a].statut = "absent"

CreerAvis(a) ==
  /\ PeutNoter(a)
  /\ \E n \in Notes : Ecrire(<<a, "auteur">>, [statut |-> "publie", note |-> n])

ModifiableParAuteur(a) == avis[a].statut = "publie"

ModifierAvis(a) ==
  /\ ModifiableParAuteur(a)
  /\ \E n \in Notes : Ecrire(<<a, "auteur">>, [avis[a] EXCEPT !.note = n])

SupprimerAvis(a) ==
  /\ ModifiableParAuteur(a)
  /\ Ecrire(<<a, "auteur">>, [avis[a] EXCEPT !.statut = "supprime"])

-----------------------------------------------------------------------------
(* The moderation.                                                          *)

MasquerAvis(a) ==
  /\ a \in Signales
  /\ avis[a].statut = "publie"
  /\ Ecrire(<<a, "moderation">>, [avis[a] EXCEPT !.statut = "masque"])

RetablirAvis(a) ==
  /\ a \in Signales
  /\ avis[a].statut = "masque"
  /\ Ecrire(<<a, "moderation">>, [avis[a] EXCEPT !.statut = "publie"])

\* A decision is kept; hiding accepts the report that is open, not the one that
\* a request has yet to insert.
TenirDecision(a, ligne) ==
  IF ligne.statut = "masque"
  THEN /\ derniere' = [derniere EXCEPT ![a] = "masquer"]
       /\ signalement' = [signalement EXCEPT ![a] = IF @ = "ouvert" THEN "accepte" ELSE @]
       /\ signalant' = [signalant EXCEPT ![a] = IF @ = "lu" THEN "depasse" ELSE @]
  ELSE derniere' = [derniere EXCEPT ![a] = "retablir"] /\ UNCHANGED <<signalement, signalant>>

Valider(t) ==
  /\ ecriture[t] # RienEcrit
  /\ LET a == t[1]  e == ecriture[t] IN
     /\ avis' = [avis EXCEPT ![a] = e.avis]
     /\ IF t[2] = "moderation" THEN TenirDecision(a, e.avis) ELSE UNCHANGED signalements
     /\ produit' = [produit EXCEPT ![ProduitDe[a]].nombre = e.agregats.nombre,
                                   ![ProduitDe[a]].somme = e.agregats.somme]
     /\ boutique' = [boutique EXCEPT !.nombre = e.agregats.boutique, !.positifs = e.agregats.positifs]
  /\ perimee' = FALSE
  /\ ecriture' = [ecriture EXCEPT ![t] = RienEcrit]
  /\ rang' = [rang EXCEPT ![t] = 0]
  /\ UNCHANGED <<titulaire, pages, fiches, variante, stock, inventaire, galerie, suspension, bloques,
                 ventes>>

\* rejeter_signalement: the review stays as it is.
RejeterSignalement(a) ==
  /\ a \in Signales
  /\ Complet(<<a, "rejet">>)
  /\ signalement[a] = "ouvert"
  /\ signalement' = [signalement EXCEPT ![a] = "rejete"]
  /\ rang' = [rang EXCEPT ![<<a, "rejet">>] = 0]
  /\ UNCHANGED <<boutiquesVars, avis, signalant, derniere, ecriture, perimee>>

\* signaler_avis: the review is read without a lock, the report inserted in a
\* transaction of its own, which waits for the one that locks the review; one
\* report by user and review.
LirePourSignaler(a) ==
  /\ a \in Signales
  /\ avis[a].statut = "publie" /\ signalement[a] = "aucun" /\ signalant[a] = "non"
  /\ signalant' = [signalant EXCEPT ![a] = "lu"]
  /\ UNCHANGED <<boutiquesVars, avis, signalement, derniere, rang, ecriture, perimee>>

SignalerAvis(a) ==
  /\ signalant[a] # "non" /\ signalement[a] = "aucun"
  /\ VerrouLibre(<<"avis", a>>)
  /\ signalement' = [signalement EXCEPT ![a] = "ouvert"]
  /\ signalant' = [signalant EXCEPT ![a] = IF @ = "lu" THEN "non" ELSE @]
  /\ UNCHANGED <<boutiquesVars, avis, derniere, rang, ecriture, perimee>>

\* The row the seller saves holds the counters it read.
PageVendeur ==
  \/ LirePage("vendeur") /\ UNCHANGED feuillets
  \/ /\ VerrouLibre(<<"boutique">>)
     /\ EnregistrerBoutique(TRUE)
     /\ perimee' = (boutique'.nombre # boutique.nombre \/ boutique'.positifs # boutique.positifs \/ perimee)
     /\ UNCHANGED <<avis, signalements, rang, ecriture>>

-----------------------------------------------------------------------------
(* What each party reads.                                                   *)

AvisPublics(p) == IF p \in VisiblesPubliquement THEN Publiees(avis, p) ELSE {}
AvisRecus == PublieesBoutique(avis)

AvisNext ==
  \/ \E t \in Transactions : PrendreVerrouAvis(t) \/ AbandonnerTransaction(t) \/ Valider(t)
  \/ \E a \in Auteurs :
       \/ CreerAvis(a)
       \/ ModifierAvis(a)
       \/ SupprimerAvis(a)
       \/ MasquerAvis(a)
       \/ RetablirAvis(a)
       \/ RejeterSignalement(a)
       \/ LirePourSignaler(a)
       \/ SignalerAvis(a)
  \/ PageVendeur

AvisSpec == BoutiquesInit /\ AvisInit /\ [][AvisNext]_avisVars

-----------------------------------------------------------------------------
(* The figures shown are those of the reviews shown: the note and the count of
   a product are those of its public list, and the counters of the shop those
   of the reviews it received, until a PATCH on the shop writes back the ones
   it had read (recalculer_agregats).  An accepted report hid its review, which
   stays hidden until a moderator restores it, its author included
   (apps/avis/models.py:136); and hiding a review leaves no report open
   (apps/avis/services.py:302) but one read before it and inserted after. *)
AvisExacts ==
  /\ \A p \in Produits :
       /\ produit[p].nombre = Cardinality(Publiees(avis, p))
       /\ Moyenne(produit[p].somme, produit[p].nombre) = Moyenne(SommeDesNotes(avis, p), produit[p].nombre)
       /\ p \in VisiblesPubliquement => produit[p].nombre = Cardinality(AvisPublics(p))
  /\ ~perimee => boutique.nombre = Cardinality(AvisRecus) /\ boutique.positifs <= boutique.nombre
  /\ \A a \in Auteurs :
       /\ signalement[a] = "accepte" => avis[a].statut = "masque" \/ derniere[a] = "retablir"
       /\ signalement[a] = "ouvert" /\ avis[a].statut = "masque" => signalant[a] = "depasse"

(* The transactions on reviews never wait for each other in a circle
   (apps/avis/services.py:105), a masking and the rejection of a report on the
   same review excepted. *)
AttentesSansCercle ==
  \A S \in SUBSET {t \in Transactions : rang[t] > 0} :
    (S # {} /\ \A t \in S : \E u \in S : Attend(t, u)) =>
      \E a \in Signales : {<<a, "rejet">>, <<a, "moderation">>} \subseteq S
=============================================================================
