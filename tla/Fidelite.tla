------------------------------ MODULE Fidelite ------------------------------
(***************************************************************************)
(* Loyalty points of one client (apps/fidelite).  A delivered order opens  *)
(* a waiting gain; an hourly task lists the gains whose withdrawal period  *)
(* is over and credits them one by one; a refunded return sends a signal   *)
(* after its own commit, which recomputes a waiting gain or takes points   *)
(* back.  Points are exchanged for coupons: the balance is first read      *)
(* without a lock, then debited under one.                                 *)
(* A signal whose process dies between the commit and its run is lost.     *)
(***************************************************************************)
EXTENDS Integers, FiniteSets, Functions

CONSTANTS Achats,        \* the client's orders
          Paye,          \* Paye[c]: what c cost without delivery (FCFA)
          Renvois,       \* returns
          AchatDe,       \* AchatDe[r]: the order of a return
          Part,          \* Part[r]: the refund of its articles
          Echanges,      \* requests to convert points
          Option         \* points of the chosen option

ASSUME FideliteAssumption ==
    /\ Paye \in [Achats -> Nat] /\ Part \in [Renvois -> Nat]
    /\ AchatDe \in [Renvois -> Achats] /\ Option \in Nat \ {0}
    /\ IsFiniteSet(Achats) /\ IsFiniteSet(Renvois)

VARIABLES gain,          \* GainFidelite of each order
          echu,          \* orders whose withdrawal period is over
          renvoi,        \* status of each return
          plainte,       \* dispute of the delivery of each order
          signaux,       \* signals committed returns have yet to send
          signaux_perdus,        \* signals lost with their process (history)
          releve,        \* gains the running task listed and has not taken
          solde, cumul,  \* CompteFidelite
          mouvements,    \* TransactionFidelite rows
          echange        \* progress of each conversion

fideliteVars == <<gain, echu, renvoi, plainte, signaux, signaux_perdus, releve,
                  solde, cumul, mouvements, echange>>

StatutGain == {"aucun", "en_attente", "credite", "annule"}
GainFidelite == [statut : StatutGain, points : Nat]
Transaction == [type : {"gain", "depense", "reprise"},
                ref : Achats \cup Renvois \cup Echanges, points : Nat]

TRANCHE_FCFA == 1000
points_pour(montant) == montant \div TRANCHE_FCFA

Renvoyes(c, statuts) == {r \in Renvois : AchatDe[r] = c /\ renvoi[r] \in statuts}
Rembourse(c) == SumFunctionOnSet(Part, Renvoyes(c, {"rembourse"}))
Vaut(c, rendu) == IF rendu >= Paye[c] THEN 0 ELSE points_pour(Paye[c] - rendu)
Reste(c) == Vaut(c, Rembourse(c))

FideliteInit ==
    /\ gain = [c \in Achats |-> [statut |-> "aucun", points |-> 0]]
    /\ echu = {} /\ renvoi = [r \in Renvois |-> "aucun"]
    /\ plainte = [c \in Achats |-> "aucune"]
    /\ signaux = {} /\ signaux_perdus = {} /\ releve = {}
    /\ solde = 0 /\ cumul = 0 /\ mouvements = {}
    /\ echange = [e \in Echanges |-> "aucun"]

-----------------------------------------------------------------------------
(* Movements.  The unique constraint of TransactionFidelite makes a second  *)
(* movement of the same type and reference fail.                            *)

Inedit(type, ref) == \A t \in mouvements : t.type # type \/ t.ref # ref

crediter_points(ref, n) ==
    IF n = 0 THEN UNCHANGED <<solde, cumul, mouvements>>
    ELSE /\ Inedit("gain", ref)
         /\ solde' = solde + n /\ cumul' = cumul + n
         /\ mouvements' = mouvements \cup {[type |-> "gain", ref |-> ref, points |-> n]}

SoldeSuffit(n) == solde >= n

debiter_points(type, ref, n) ==
    /\ n > 0 /\ SoldeSuffit(n) /\ Inedit(type, ref)
    /\ solde' = solde - n /\ UNCHANGED cumul
    /\ mouvements' = mouvements \cup {[type |-> type, ref |-> ref, points |-> n]}

-----------------------------------------------------------------------------
(* Gains *)

ouvrir_gain(c) ==
    /\ gain[c].statut = "aucun" /\ points_pour(Paye[c]) > 0
    /\ gain' = [gain EXCEPT ![c] = [statut |-> "en_attente", points |-> points_pour(Paye[c])]]
    /\ UNCHANGED <<echu, renvoi, plainte, signaux, signaux_perdus, releve, solde, cumul, mouvements, echange>>

DelaiEcoule(c) ==
    /\ gain[c].statut = "en_attente" /\ c \notin echu
    /\ echu' = echu \cup {c}
    /\ UNCHANGED <<gain, renvoi, plainte, signaux, signaux_perdus, releve, solde, cumul, mouvements, echange>>

\* External to this module: the return of an article and the dispute of a
\* delivery, which may also be opened after the end of the period.
OuvrirRenvoi(r) ==
    /\ renvoi[r] = "aucun" /\ gain[AchatDe[r]].statut # "aucun"
    /\ renvoi' = [renvoi EXCEPT ![r] = "ouvert"]
    /\ UNCHANGED <<gain, echu, plainte, signaux, signaux_perdus, releve, solde, cumul, mouvements, echange>>

\* A return refused or cancelled; a refunded one emits its signal on commit.
CloreRenvoi(r) ==
    /\ renvoi[r] = "ouvert"
    /\ \/ renvoi' = [renvoi EXCEPT ![r] = "rejete"] /\ UNCHANGED signaux
       \/ /\ renvoi' = [renvoi EXCEPT ![r] = "rembourse"]
          /\ signaux' = signaux \cup {r}
    /\ UNCHANGED <<gain, echu, plainte, signaux_perdus, releve, solde, cumul, mouvements, echange>>

Contester(c) ==
    /\ gain[c].statut # "aucun" /\ plainte[c] = "aucune"
    /\ plainte' = [plainte EXCEPT ![c] = "ouverte"]
    /\ UNCHANGED <<gain, echu, renvoi, signaux, signaux_perdus, releve, solde, cumul, mouvements, echange>>

\* The administration decides a dispute; "not received" cancels a gain that
\* still waits, in the same transaction.
annuler_gain(c) ==
    IF gain[c].statut = "en_attente" THEN [gain EXCEPT ![c].statut = "annule"] ELSE gain

Trancher(c) ==
    /\ plainte[c] = "ouverte"
    /\ \/ plainte' = [plainte EXCEPT ![c] = "rejetee"] /\ UNCHANGED gain
       \/ plainte' = [plainte EXCEPT ![c] = "fondee"] /\ gain' = annuler_gain(c)
    /\ UNCHANGED <<echu, renvoi, signaux, signaux_perdus, releve, solde, cumul, mouvements, echange>>

-----------------------------------------------------------------------------
(* The signal of a refunded return *)

\* The line is locked, the refunds are summed under the lock.
RecalculerGain(c) ==
    /\ gain[c].statut = "en_attente"
    /\ gain' = [gain EXCEPT ![c] =
            IF Reste(c) = 0 THEN [@ EXCEPT !.statut = "annule"]
            ELSE [gain[c] EXCEPT !.points = IF Reste(c) < @ THEN Reste(c) ELSE @]]
    /\ UNCHANGED <<solde, cumul, mouvements>>

ADebiter(n) == IF n < solde THEN n ELSE solde

ReprendrePoints(c, r) ==
    /\ gain[c].statut = "credite"
    /\ LET n == ADebiter(points_pour(Part[r])) IN
       IF n = 0 \/ ~Inedit("reprise", r) THEN UNCHANGED <<solde, cumul, mouvements>>
       ELSE debiter_points("reprise", r, n)
    /\ UNCHANGED gain

ajuster_points_apres_retour(r) ==
    LET c == AchatDe[r] IN
    /\ r \in signaux /\ signaux' = signaux \ {r}
    /\ \/ RecalculerGain(c)
       \/ ReprendrePoints(c, r)
       \/ gain[c].statut = "annule" /\ UNCHANGED <<gain, solde, cumul, mouvements>>
    /\ UNCHANGED <<echu, renvoi, plainte, signaux_perdus, releve, echange>>

\* The process dies after the commit of the return.
PerdreSignal(r) ==
    /\ r \in signaux /\ signaux' = signaux \ {r} /\ signaux_perdus' = signaux_perdus \cup {r}
    /\ UNCHANGED <<gain, echu, renvoi, plainte, releve, solde, cumul, mouvements, echange>>

-----------------------------------------------------------------------------
(* The hourly task: the list is read once, each gain is then taken alone.   *)

gains_echus ==
    {c \in echu : /\ gain[c].statut = "en_attente"
                  /\ Renvoyes(c, {"ouvert"}) = {}
                  /\ plainte[c] # "ouverte"}

crediter_gains_echus ==
    /\ releve = {} /\ gains_echus # {} /\ releve' = gains_echus
    /\ UNCHANGED <<gain, echu, renvoi, plainte, signaux, signaux_perdus, solde, cumul, mouvements, echange>>

\* Only the status is read again under the lock.
CreditableSelonLaListe(c) == TRUE
Creditable(c) == gain[c].statut = "en_attente"

crediter_gain(c) ==
    /\ c \in releve /\ releve' = releve \ {c}
    /\ IF Creditable(c)
       THEN /\ crediter_points(c, gain[c].points)
            /\ gain' = [gain EXCEPT ![c].statut = "credite"]
       ELSE UNCHANGED <<gain, solde, cumul, mouvements>>
    /\ UNCHANGED <<echu, renvoi, plainte, signaux, signaux_perdus, echange>>

-----------------------------------------------------------------------------
(* ConvertirPointsEnCouponView: the serializer checks the balance without a *)
(* lock; the debit, under the lock, checks it again and creates the coupon. *)

VerifierSolde(e) ==
    /\ echange[e] = "aucun" /\ solde >= Option
    /\ echange' = [echange EXCEPT ![e] = "verifie"]
    /\ UNCHANGED <<gain, echu, renvoi, plainte, signaux, signaux_perdus, releve, solde, cumul, mouvements>>

ConvertirPoints(e) ==
    /\ echange[e] = "verifie"
    /\ IF SoldeSuffit(Option)
       THEN /\ debiter_points("depense", e, Option)
            /\ echange' = [echange EXCEPT ![e] = "coupon"]
       ELSE /\ echange' = [echange EXCEPT ![e] = "refuse"]
            /\ UNCHANGED <<solde, cumul, mouvements>>
    /\ UNCHANGED <<gain, echu, renvoi, plainte, signaux, signaux_perdus, releve>>

FideliteNext ==
    \/ \E c \in Achats : ouvrir_gain(c) \/ DelaiEcoule(c) \/ Contester(c) \/ Trancher(c)
    \/ \E r \in Renvois : \/ OuvrirRenvoi(r) \/ CloreRenvoi(r)
                          \/ ajuster_points_apres_retour(r) \/ PerdreSignal(r)
    \/ crediter_gains_echus
    \/ \E c \in Achats : crediter_gain(c)
    \/ \E e \in Echanges : VerifierSolde(e) \/ ConvertirPoints(e)

FideliteSpec == FideliteInit /\ [][FideliteNext]_fideliteVars
-----------------------------------------------------------------------------
Points(S) == SumFunctionOnSet([t \in S |-> t.points], S)
Mouvements(type, refs) == {t \in mouvements : t.type = type /\ t.ref \in refs}

FideliteTypes ==
    /\ gain \in [Achats -> GainFidelite] /\ echu \subseteq Achats
    /\ renvoi \in [Renvois -> {"aucun", "ouvert", "rejete", "rembourse"}]
    /\ plainte \in [Achats -> {"aucune", "ouverte", "rejetee", "fondee"}]
    /\ signaux \subseteq Renvois /\ signaux_perdus \subseteq Renvois /\ releve \subseteq Achats
    /\ solde \in Nat /\ cumul \in Nat /\ mouvements \subseteq Transaction
    /\ echange \in [Echanges -> {"aucun", "verifie", "coupon", "refuse"}]

\* The balance is what the movements leave, it is never negative, and every
\* coupon was paid by points the client still had when it was created.
SoldeExact ==
    /\ solde + Points(Mouvements("depense", Echanges)) + Points(Mouvements("reprise", Renvois))
         = Points(Mouvements("gain", Achats))
    /\ solde \in Nat /\ cumul >= solde
    /\ {e \in Echanges : echange[e] = "coupon"} = {t.ref : t \in Mouvements("depense", Echanges)}

\* The refunded returns of an order whose signal was treated, and what the
\* client may keep for it: one point of rounding for each of them.
Traites(c) == Renvoyes(c, {"rembourse"}) \ (signaux \cup signaux_perdus)
PointsDus(c) == Vaut(c, SumFunctionOnSet(Part, Traites(c))) + Cardinality(Traites(c))

\* A client never holds more points than what it still pays for is worth,
\* whatever the order in which a refund, its signal and the hourly task run:
\* only a return whose signal waits or was lost keeps its points.
PointsExacts ==
    /\ SoldeExact
    /\ solde <= SumFunctionOnSet([c \in Achats |-> IF gain[c].statut = "credite" THEN PointsDus(c) ELSE 0], Achats)
=============================================================================
