------------------------------ MODULE Baremes -------------------------------
(***************************************************************************)
(* The schedules of the fees a shop pays (apps/paiements: BaremeFrais).    *)
(* The administration plans, changes, closes and deletes them while the    *)
(* checkouts freeze in every line the fees of the one in force.  A request *)
(* reads the row, validates at an instant and saves the whole row later.   *)
(***************************************************************************)
EXTENDS Integers, FiniteSets

CONSTANTS
  Grilles,        \* the schedules
  Tarifications,  \* rate in percent, fixed fee, threshold of the small article (0: none) and its fee
  LignesVendues,  \* lines a checkout may sell: price and quantity
  Reglages,       \* requests of the administration that may be under way at once
  InstantsMax     \* bound: instants

\* decimals and amounts are checked by the serializer; a quantity is at least one.
ASSUME BaremesOk ==
  /\ InstantsMax \in Nat \ {0} /\ Tarifications # {}
  /\ \A t \in Tarifications : t.taux \in Nat /\ t.fixe \in Nat /\ t.seuil \in Nat /\ t.petit \in Nat
  /\ \A l \in LignesVendues : l.prix \in Nat /\ l.quantite \in Nat \ {0}

VARIABLES
  grilles,   \* BaremeFrais, or SansGrille
  reglages,  \* the requests under way
  instant,   \* timezone.now(): two readings of the clock differ
  facturees     \* the lines sold while no request of the administration was under way

baremesVars == <<grilles, reglages, instant, facturees>>

Tolerance == 1   \* TOLERANCE_MAINTENANT, in instants
Ouverte == 0     \* date_fin is null
SansDate == 0    \* date_debut was not sent
SansGrille == [pour |-> "aucune"]
SansReglage == [etape |-> "libre"]
Dates == 1..(InstantsMax + 1)
LigneGrille ==
  [pour : {"plateforme", "boutique"}, tarif : Tarifications, debut : Dates \cup {SansDate}, fin : Dates \cup {Ouverte}]

Premier == CHOOSE t \in Tarifications : TRUE
BaremesInit ==
  /\ \E g \in Grilles :
       grilles = [h \in Grilles |->
         IF h = g THEN [pour |-> "plateforme", tarif |-> Premier, debut |-> 1, fin |-> Ouverte] ELSE SansGrille]
  /\ reglages = [m \in Reglages |-> SansReglage]
  /\ instant = 1
  /\ facturees = {}

-----------------------------------------------------------------------------
(* Fees: every amount in francs, frozen in the line.                        *)

AuFranc(a, b) == (2 * a + b) \div (2 * b)   \* ROUND_HALF_UP
LeMoindre(a, b) == IF a <= b THEN a ELSE b

FraisFixePour(t, prix) == IF t.seuil # 0 /\ prix <= t.seuil THEN t.petit ELSE t.fixe

\* calculer_frais_ligne
FraisDeLigne(l, t) ==
  LET brut == l.prix * l.quantite
      commission == LeMoindre(AuFranc(brut * t.taux, 100), brut)
      fixes == LeMoindre(FraisFixePour(t, l.prix) * l.quantite, brut - commission)
  IN  [taux |-> t.taux, commission |-> commission, fixes |-> fixes, net |-> brut - commission - fixes]

\* part_vendeur_retournee: the share of the commission is given back, the fixed fee is not.
PartRetournee(v, n) == v.ligne.prix * n - AuFranc(v.frais.commission * n, v.ligne.quantite)

\* bareme_en_vigueur: that of the shop first, the latest one; the order of two that begin together is free.
CommenceesPour(pour, t) ==
  {g \in Grilles : /\ grilles[g].pour = pour /\ grilles[g].debut <= t
                   /\ (grilles[g].fin = Ouverte \/ grilles[g].fin > t)}
EnVigueur(t) ==
  LET propres == CommenceesPour("boutique", t)
      celles == IF propres # {} THEN propres ELSE CommenceesPour("plateforme", t)
  IN  {g \in celles : \A h \in celles : grilles[h].debut <= grilles[g].debut}
FraisPossibles(l, t) == {FraisDeLigne(l, grilles[g].tarif) : g \in EnVigueur(t)}

\* ValiderPanierView, for one line; without a schedule it answers 503.
FacturerLigne(l) ==
  /\ instant < InstantsMax
  /\ \E f \in FraisPossibles(l, instant) :
       facturees' = IF \A m \in Reglages : reglages[m] = SansReglage
                 THEN facturees \cup {[ligne |-> l, moment |-> instant, frais |-> f]} ELSE facturees
  /\ instant' = instant + 1
  /\ UNCHANGED <<grilles, reglages>>

PasserInstant ==
  /\ instant < InstantsMax
  /\ instant' = instant + 1
  /\ UNCHANGED <<grilles, reglages, facturees>>

-----------------------------------------------------------------------------
(* BaremeFraisSerializer.                                                   *)

\* Dates a client may send: late by the tolerance, now, or later.
Envoyees == {d \in Dates : d >= instant - Tolerance /\ d <= instant + 2}
LePlusTard(d) == IF d < instant THEN instant ELSE d

\* Mutant: the date is taken as it came.
DebutRecu(d) == d
\* valider_date_debut
DebutRetenu(d) == LePlusTard(d)

\* The end comes after the beginning, which is now when it was not sent.
DatesCoherentes(ligne) ==
  ligne.fin = Ouverte \/ ligne.fin > (IF ligne.debut = SansDate THEN instant ELSE ligne.debut)

\* a_commence, on the row that was read
Commencee(ligne) == ligne.debut <= instant

\* validate, on a schedule to come: everything may change, the shop it is for included.
Reprogrammations(ligne) ==
  {r \in [pour : {"plateforme", "boutique"}, tarif : Tarifications,
          debut : {ligne.debut} \cup {DebutRetenu(d) : d \in Envoyees}, fin : {ligne.fin, Ouverte} \cup Envoyees] :
     DatesCoherentes(r)}

\* valider_cloture_seule: a schedule that began may only be closed, once.
Clotures(ligne) ==
  {r \in {[ligne EXCEPT !.fin = LePlusTard(d)] : d \in Envoyees} :
     DatesCoherentes(r) /\ (ligne.fin = Ouverte \/ ligne.fin > instant)}

Valides(ligne) == IF Commencee(ligne) THEN {ligne} \cup Clotures(ligne) ELSE Reprogrammations(ligne)

Regler(m, r) == reglages' = [reglages EXCEPT ![m] = r]
PrendreInstant == instant < InstantsMax /\ instant' = instant + 1

DemanderGrille(m, g) ==
  /\ reglages[m] = SansReglage /\ grilles[g] = SansGrille
  /\ \A autre \in Reglages : reglages[autre] # SansReglage => reglages[autre].g # g
  /\ \E r \in [pour : {"plateforme", "boutique"}, tarif : Tarifications,
               debut : {SansDate} \cup {DebutRetenu(d) : d \in Envoyees}, fin : {Ouverte} \cup Envoyees] :
       DatesCoherentes(r) /\ Regler(m, [etape |-> "validee", g |-> g, ligne |-> r])
  /\ PrendreInstant
  /\ UNCHANGED <<grilles, facturees>>

\* get_object
LireGrille(m, g) ==
  /\ reglages[m] = SansReglage /\ grilles[g] # SansGrille
  /\ Regler(m, [etape |-> "lue", g |-> g, ligne |-> grilles[g]])
  /\ UNCHANGED <<grilles, instant, facturees>>

\* PUT and PATCH
ValiderGrille(m) ==
  /\ reglages[m].etape = "lue"
  /\ \E r \in Valides(reglages[m].ligne) : Regler(m, [reglages[m] EXCEPT !.etape = "validee", !.ligne = r])
  /\ PrendreInstant
  /\ UNCHANGED <<grilles, facturees>>

\* perform_destroy checks the row that was read.
ValiderSuppression(m) ==
  /\ reglages[m].etape = "lue" /\ ~Commencee(reglages[m].ligne)
  /\ Regler(m, [reglages[m] EXCEPT !.etape = "a_supprimer"])
  /\ PrendreInstant
  /\ UNCHANGED <<grilles, facturees>>

\* bareme_deja_applique, date_debut_passee, and every other refusal
RefuserReglage(m) ==
  /\ reglages[m].etape = "lue"
  /\ Regler(m, SansReglage)
  /\ UNCHANGED <<grilles, instant, facturees>>

\* save: the whole row, inserted when a deletion took it away; a schedule without
\* a beginning begins now, or the constraint of the table refuses it (500).
EcrireGrille(m) ==
  /\ reglages[m].etape = "validee"
  /\ LET r == reglages[m].ligne
         ligne == IF r.debut = SansDate THEN [r EXCEPT !.debut = instant] ELSE r
     IN  grilles' = IF DatesCoherentes(ligne) THEN [grilles EXCEPT ![reglages[m].g] = ligne] ELSE grilles
  /\ Regler(m, SansReglage)
  /\ UNCHANGED <<instant, facturees>>

SupprimerGrille(m) ==
  /\ reglages[m].etape = "a_supprimer"
  /\ grilles' = [grilles EXCEPT ![reglages[m].g] = SansGrille]
  /\ Regler(m, SansReglage)
  /\ UNCHANGED <<instant, facturees>>

BaremesNext ==
  \/ PasserInstant
  \/ \E l \in LignesVendues : FacturerLigne(l)
  \/ \E m \in Reglages :
       \/ \E g \in Grilles : DemanderGrille(m, g) \/ LireGrille(m, g)
       \/ ValiderGrille(m) \/ ValiderSuppression(m) \/ RefuserReglage(m) \/ EcrireGrille(m) \/ SupprimerGrille(m)

BaremesSpec == BaremesInit /\ [][BaremesNext]_baremesVars

-----------------------------------------------------------------------------
BaremesTypes ==
  /\ grilles \in [Grilles -> LigneGrille \cup {SansGrille}]
  /\ instant \in 1..InstantsMax

\* The schedules stay the history of the sales: whatever requests overlap and
\* however stale the rows they save, the schedule in force at the instant of a
\* sale, read afterwards, still gives the fees frozen in its line (a sale made
\* while a request was under way is left aside).  Returned at once, a line costs
\* its shop its price less its commission; in parts, at most a franc per part more or less.
BaremesTenus ==
  \A v \in facturees :
    LET q == v.ligne.quantite IN
    /\ v.frais \in FraisPossibles(v.ligne, v.moment)
    /\ PartRetournee(v, q) = v.ligne.prix * q - v.frais.commission
    /\ \A n, p \in 1..q : n + p <= q =>
         PartRetournee(v, n) + PartRetournee(v, p) - PartRetournee(v, n + p) \in -1..1
=============================================================================
