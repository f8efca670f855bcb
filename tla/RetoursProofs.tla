---------------------------- MODULE RetoursProofs ----------------------------
(***************************************************************************)
(* What the table of transitions, the deadlines and the amounts of the     *)
(* returns promise, for any order, any number of returns and of passes of  *)
(* the task that overlap: rules first, then units, then money.             *)
(***************************************************************************)
EXTENDS Retours, Sommes

Sources == {"vendeur", "moderation", "administration"}
Gagnes == {"approuve", "en_transit", "receptionne", "rembourse", "cloture", "annule"}

TypeStatuts ==
    /\ statut \in [Demandes -> Statuts]
    /\ approbation \in [Demandes -> {"personne"} \union Sources]
    /\ echues \subseteq Demandes /\ figees \in [Passages -> SUBSET Demandes]

\* The instant of a pass is in the past: what it holds to be over is over.
InstantPasse == \A p \in Passages : figees[p] \subseteq echues

IInv == TypeStatuts /\ InstantPasse /\ RecoursGagne

-----------------------------------------------------------------------------
\* The table

\* A rule leads to "rejete" from the arbitration, or from a refusal the delay
\* of which is over.
LEMMA RegleRejet ==
    ASSUME NEW regle \in TRANSITIONS, regle.vers = "rejete"
    PROVE  \/ regle.depuis = {"en_arbitrage"}
           \/ regle.depuis = STATUTS_REFUS /\ regle.controle = "contestation_passee"
  BY DEF TRANSITIONS, Regle, STATUTS_ANNULABLES, STATUTS_REFUS, Boutique

\* Every rule leads to a status, and only people approve.
LEMMA RegleTypee ==
    ASSUME NEW regle \in TRANSITIONS
    PROVE  /\ regle.vers \in Statuts \ {"aucune"}
           /\ regle.vers = "approuve" => regle.acteurs \subseteq Sources
  BY DEF TRANSITIONS, Regle, STATUTS_ANNULABLES, STATUTS_REFUS, Boutique, Statuts, Sources

\* From a status reached after an approval, the rules lead to such a status,
\* but the one that lets the seller take back an approval of his own.
LEMMA RegleApresApprobation ==
    ASSUME NEW regle \in TRANSITIONS, NEW s \in Gagnes, s \in regle.depuis
    PROVE  regle.vers \in Gagnes \/ regle.controle = "approbation_du_vendeur"
  BY DEF TRANSITIONS, Regle, STATUTS_ANNULABLES, STATUTS_REFUS, Boutique, Gagnes

-----------------------------------------------------------------------------
\* One step of a return

\* Appliquer keeps the invariant, whoever applies the rule, when the rule may
\* be applied in the present status and Controle accepts it at some instant.
LEMMA AppliquerConserve ==
    ASSUME IInv, NEW d \in Demandes, NEW regle \in TRANSITIONS, NEW source \in regle.acteurs,
           NEW restock, NEW echue, statut[d] \in regle.depuis, Controle(regle, d, echue),
           Appliquer(d, regle, source, restock)
    PROVE  IInv'
<1>1. /\ statut' = [statut EXCEPT ![d] = regle.vers]
      /\ approbation' = [approbation EXCEPT ![d] = IF regle.vers = "approuve" THEN source ELSE @]
      /\ echues' = echues \ {d}
      /\ figees' = [p \in Passages |-> figees[p] \ {d}]
  BY DEF Appliquer
<1>2. regle.vers \in Statuts /\ (regle.vers = "approuve" => source \in Sources)
  BY RegleTypee
<1>3. TypeStatuts'
  BY <1>1, <1>2 DEF IInv, TypeStatuts
<1>4. InstantPasse'
  BY <1>1 DEF IInv, InstantPasse, TypeStatuts
<1>5. ASSUME NEW e \in Demandes, approbation'[e] \in {"moderation", "administration"}
      PROVE  statut'[e] \in Gagnes
  <2>1. CASE e # d
    BY <1>1, <1>5, <2>1 DEF IInv, RecoursGagne, TypeStatuts, Gagnes
  <2>2. CASE e = d /\ regle.vers = "approuve"
    BY <1>1, <2>2 DEF IInv, TypeStatuts, Gagnes
  <2>3. CASE e = d /\ regle.vers # "approuve"
    <3>1. approbation[d] \in {"moderation", "administration"} /\ statut[d] \in Gagnes
      BY <1>1, <1>5, <2>3 DEF IInv, RecoursGagne, TypeStatuts, Gagnes
    <3>2. regle.vers \in Gagnes
      BY <3>1, RegleApresApprobation DEF Controle
    <3> QED BY <1>1, <2>3, <3>2 DEF IInv, TypeStatuts
  <2> QED BY <2>1, <2>2, <2>3
<1>6. RecoursGagne'
  BY <1>5 DEF RecoursGagne, Gagnes
<1> QED BY <1>3, <1>4, <1>6 DEF IInv

\* The invariant holds at first.
LEMMA InductionInit == Init => IInv
  BY DEF Init, IInv, TypeStatuts, InstantPasse, RecoursGagne, Statuts, Sources

\* Every step keeps it: the steps that apply a rule by AppliquerConserve, the
\* others because they leave statuses and approvals alone.
LEMMA InductionNext == IInv /\ [Next]_vars => IInv'
<1> SUFFICES ASSUME IInv, [Next]_vars PROVE IInv'
  OBVIOUS
<1> USE DEF IInv, TypeStatuts, InstantPasse, RecoursGagne
<1>1. ASSUME NEW d \in Demandes, CreerDemande(d) PROVE IInv'
  BY <1>1 DEF CreerDemande, Statuts, tache
<1>2. ASSUME NEW d \in Demandes, NEW regle \in TRANSITIONS, NEW source \in regle.acteurs, Traiter(d, regle, source)
      PROVE  IInv'
  BY <1>2, AppliquerConserve DEF Traiter
<1>3. ASSUME NEW d \in Demandes, Echoir(d) PROVE IInv'
  BY <1>3 DEF Echoir, tache
<1>4. ASSUME NEW d \in Demandes, EffectuerRemboursement(d) PROVE IInv'
  BY <1>4 DEF EffectuerRemboursement, tache
<1>5. ASSUME NEW d \in Demandes, NEW p \in Passages, AppliquerEcheance(p, d) PROVE IInv'
  <2>1. PICK regle \in TRANSITIONS :
            /\ Echeance(d, regle) /\ Controle(regle, d, d \in figees[p])
            /\ Appliquer(d, regle, "systeme", FALSE)
    BY <1>5 DEF AppliquerEcheance
  <2> QED BY <2>1, AppliquerConserve DEF Echeance
<1>6. ASSUME NEW d \in Demandes, NEW p \in Passages, LaisserEcheance(p, d) PROVE IInv'
  BY <1>6 DEF LaisserEcheance, Quitter
<1>7. ASSUME NEW p \in Passages, ListerEcheances(p) PROVE IInv'
  <2> DEFINE dues == {d \in echues : statut[d] \in {"demande"} \union STATUTS_REFUS}
  <2>1. dues \subseteq echues /\ figees' = [figees EXCEPT ![p] = dues]
    BY <1>7 DEF ListerEcheances, Lister
  <2>2. UNCHANGED <<statut, approbation, echues>>
    BY <1>7 DEF ListerEcheances, Lister
  <2> QED BY <2>1, <2>2
<1>8. ASSUME NEW delai, DelaiEcoule(delai) PROVE IInv'
  BY <1>8 DEF DelaiEcoule, tache
<1>9. ASSUME ContesterLivraison \/ RejeterContestation \/ RetenirContestation PROVE IInv'
  BY <1>9 DEF ContesterLivraison, RejeterContestation, RetenirContestation, tache
<1>10. ASSUME NEW decision, TraiterNonRecu(decision) PROVE IInv'
  BY <1>10 DEF TraiterNonRecu, tache
<1>11. CASE UNCHANGED vars
  BY <1>11 DEF vars, tache
<1> QED
  BY <1>1, <1>2, <1>3, <1>4, <1>5, <1>6, <1>7, <1>8, <1>9, <1>10, <1>11 DEF Next

\* The inductive invariant holds in every reachable state.
THEOREM Invariance == Spec => []IInv
  BY InductionInit, InductionNext, PTL DEF Spec

\* What a client won on appeal stays won (_controler, APPROBATION_DU_VENDEUR).
THEOREM Recours_Gagne == Spec => []RecoursGagne
<1>1. IInv => RecoursGagne
  BY DEF IInv
<1> QED BY <1>1, Invariance, PTL

-----------------------------------------------------------------------------
\* Rejections

\* A step that rejects a return applies a rule of the table to it.
LEMMA RejetParRegle ==
    ASSUME IInv, Next, NEW d \in Demandes, statut[d] # "rejete", statut'[d] = "rejete"
    PROVE  statut[d] = "en_arbitrage" \/ (statut[d] \in STATUTS_REFUS /\ d \in echues)
<1>1. ASSUME NEW e \in Demandes, CreerDemande(e) PROVE FALSE
  BY <1>1 DEF CreerDemande, IInv, TypeStatuts
<1>2. ASSUME NEW e \in Demandes, NEW regle \in TRANSITIONS, NEW source, NEW restock, NEW echue,
             Appliquer(e, regle, source, restock), statut[e] \in regle.depuis, Controle(regle, e, echue),
             echue => e \in echues
      PROVE  statut[d] = "en_arbitrage" \/ (statut[d] \in STATUTS_REFUS /\ d \in echues)
  <2>1. e = d /\ regle.vers = "rejete"
    BY <1>2 DEF Appliquer, IInv, TypeStatuts
  <2>2. statut[d] \in regle.depuis
    BY <1>2, <2>1
  <2>3. CASE regle.depuis = {"en_arbitrage"}
    BY <2>2, <2>3
  <2>4. CASE regle.depuis = STATUTS_REFUS /\ regle.controle = "contestation_passee"
    BY <1>2, <2>1, <2>2, <2>4 DEF Controle
  <2> QED BY <2>1, <2>3, <2>4, RegleRejet
<1>3. ASSUME NEW e \in Demandes, NEW regle \in TRANSITIONS, NEW source \in regle.acteurs, Traiter(e, regle, source)
      PROVE  statut[d] = "en_arbitrage" \/ (statut[d] \in STATUTS_REFUS /\ d \in echues)
  BY <1>2, <1>3 DEF Traiter
<1>4. ASSUME NEW e \in Demandes, NEW p \in Passages, AppliquerEcheance(p, e)
      PROVE  statut[d] = "en_arbitrage" \/ (statut[d] \in STATUTS_REFUS /\ d \in echues)
  <2>1. e \in figees[p] => e \in echues
    BY DEF IInv, InstantPasse
  <2>2. PICK regle \in TRANSITIONS :
            /\ statut[e] \in regle.depuis /\ Controle(regle, e, e \in figees[p])
            /\ Appliquer(e, regle, "systeme", FALSE)
    BY <1>4 DEF AppliquerEcheance, Echeance
  <2> QED BY <1>2, <2>1, <2>2
<1>5. CASE UNCHANGED statut
  BY <1>5
<1>6. ASSUME NEW e \in Demandes,
             \/ Echoir(e) \/ EffectuerRemboursement(e)
             \/ \E p \in Passages : LaisserEcheance(p, e) \/ ListerEcheances(p)
             \/ \E delai \in {"retour", "livraison"} : DelaiEcoule(delai)
             \/ ContesterLivraison \/ RejeterContestation \/ RetenirContestation
             \/ \E decision \in {"effectue", "refuse"} : TraiterNonRecu(decision)
      PROVE  UNCHANGED statut
  BY <1>6 DEF Echoir, EffectuerRemboursement, LaisserEcheance, ListerEcheances, Lister, DelaiEcoule,
              ContesterLivraison, RejeterContestation, RetenirContestation, TraiterNonRecu
<1> QED BY <1>1, <1>3, <1>4, <1>5, <1>6 DEF Next

\* Nothing but the arbitration, or the end of the delay of the refusal in
\* force, rejects a return, however many passes of the task overlap
\* (appliquer_echeance).
THEOREM Rejet_Motive == Spec => RejetMotive
<1>1. ASSUME IInv, [Next]_vars, NEW d \in Demandes, statut[d] # "rejete", statut'[d] = "rejete"
      PROVE  statut[d] = "en_arbitrage" \/ (statut[d] \in STATUTS_REFUS /\ d \in echues)
  BY <1>1, RejetParRegle DEF vars
<1>2. IInv /\ [Next]_vars =>
        [\A d \in Demandes :
            statut[d] # "rejete" /\ statut'[d] = "rejete" =>
               \/ statut[d] = "en_arbitrage"
               \/ statut[d] \in STATUTS_REFUS /\ d \in echues]_vars
  BY <1>1
<1> QED BY <1>2, Invariance, PTL DEF Spec, RejetMotive

-----------------------------------------------------------------------------
\* Units: what was asked back, what came back and what is in stock again

Recus == {"receptionne", "rembourse", "cloture"}
Rendus == {"rembourse", "cloture"}
Ecartes == {"aucune", "rejete", "annule"}

Recues == {d \in Demandes : statut[d] \in Recus}

LotDe(a) == [d \in Demandes |-> lot[d][a]]

TypeLots ==
    /\ statut \in [Demandes -> Statuts]
    /\ lot \in [Demandes -> [Articles -> Nat]]
    /\ remis \in [Articles -> Nat]

\* What was put back in stock came back with a return that is received, and
\* stays so.
RemisRecus == \A a \in Articles : remis[a] <= SumFunctionOnSet(LotDe(a), Recues)

CouvertureDe(a) == Couverts(a) <= Quantite[a]

Quantites == TypeLots /\ RemisRecus /\ \A a \in Articles : CouvertureDe(a)

\* What the rules do to a return that is received, refunded or out of the count.
LEMMA RegleEtapes ==
    ASSUME NEW regle \in TRANSITIONS, NEW s \in regle.depuis
    PROVE  /\ s \notin Ecartes /\ regle.vers \in Statuts \ {"aucune"}
           /\ regle.action = "receptionner" => s \notin Recus /\ regle.vers \in Recus
           /\ regle.action # "receptionner" => (s \in Recus <=> regle.vers \in Recus)
           /\ regle.action = "rembourser" => s \notin Rendus /\ regle.vers \in Rendus
           /\ regle.action # "rembourser" => (s \in Rendus <=> regle.vers \in Rendus)
  BY DEF TRANSITIONS, Regle, STATUTS_ANNULABLES, STATUTS_REFUS, Boutique, Statuts, Recus, Rendus, Ecartes

LEMMA Finis ==
    ASSUME TypeLots
    PROVE  /\ IsFiniteSet(Demandes) /\ IsFiniteSet(Engagees) /\ IsFiniteSet(Recues)
           /\ Recues \subseteq Engagees /\ Engagees \subseteq Demandes
           /\ \A a \in Articles : \A d \in Demandes : LotDe(a)[d] = lot[d][a] /\ LotDe(a)[d] \in Nat
<1>1. IsFiniteSet(Demandes)
  BY CommandeOk DEF CommandeOk
<1>2. Recues \subseteq Engagees /\ Engagees \subseteq Demandes
  BY DEF Recues, Engagees, Recus
<1>3. IsFiniteSet(Engagees) /\ IsFiniteSet(Recues)
  BY <1>1, <1>2, FS_Subset
<1>4. \A a \in Articles : \A d \in Demandes : LotDe(a)[d] = lot[d][a] /\ LotDe(a)[d] \in Nat
  BY DEF TypeLots, LotDe
<1> QED BY <1>1, <1>2, <1>3, <1>4

LEMMA CouvertsEst == ASSUME NEW a PROVE Couverts(a) = SumFunctionOnSet(LotDe(a), Engagees)
  BY DEF Couverts, LotDe

\* A new return is out of both counts before, and in the first one after: its
\* units were checked against what is left.
LEMMA CreerQuantites ==
    ASSUME Quantites, NEW d \in Demandes, CreerDemande(d) PROVE Quantites'
<1>1. PICK choix \in Lots : /\ \A a \in Articles : Couverts(a) + choix[a] <= Quantite[a]
                            /\ lot' = [lot EXCEPT ![d] = choix]
  BY DEF CreerDemande
<1>2. /\ statut[d] = "aucune" /\ statut' = [statut EXCEPT ![d] = "demande"] /\ remis' = remis
  BY DEF CreerDemande
<1>3. choix \in [Articles -> Nat]
  BY CommandeOk DEF CommandeOk
<1>4. TypeLots'
  BY <1>1, <1>2, <1>3 DEF Quantites, TypeLots, Statuts
<1>5. /\ d \notin Engagees /\ Engagees' = Engagees \cup {d} /\ Recues' = Recues /\ d \notin Recues
  BY <1>2 DEF Quantites, TypeLots, Engagees, Recues, Recus, STATUTS_REFUS
<1>6. \A e \in Demandes : lot'[e] = IF e = d THEN choix ELSE lot[e]
  BY <1>1 DEF Quantites, TypeLots
<1>7. ASSUME NEW a \in Articles
      PROVE  remis'[a] <= SumFunctionOnSet(LotDe(a)', Recues') /\ CouvertureDe(a)'
  <2>1. PICK f, g : f = LotDe(a) /\ g = LotDe(a)'
    OBVIOUS
  <2>2. /\ \A e \in Demandes : e # d => f[e] = g[e]
        /\ \A e \in Demandes : f[e] \in Nat
        /\ g[d] = choix[a] /\ g[d] \in Nat
    BY <1>3, <1>6, <2>1, Finis DEF LotDe, Quantites
  <2>3. IsFiniteSet(Engagees) /\ IsFiniteSet(Recues) /\ Engagees \subseteq Demandes /\ Recues \subseteq Demandes
    BY Finis DEF Quantites
  <2>4. SumFunctionOnSet(f, Recues) = SumFunctionOnSet(g, Recues)
    <3>1. \A e \in Recues : f[e] = g[e] /\ f[e] \in Int
      BY <1>5, <2>2, <2>3
    <3> QED BY <2>3, <3>1, SommeEgale
  <2>5. SumFunctionOnSet(f, Engagees) = SumFunctionOnSet(g, Engagees)
    <3>1. \A e \in Engagees : f[e] = g[e] /\ f[e] \in Int
      BY <1>5, <2>2, <2>3
    <3> QED BY <2>3, <3>1, SommeEgale
  <2>6. SumFunctionOnSet(g, Engagees \cup {d}) = SumFunctionOnSet(g, Engagees) + g[d]
    <3>1. \A e \in Engagees : g[e] \in Int
      BY <1>5, <2>2, <2>3
    <3>2. g[d] \in Int
      BY <2>2
    <3> QED BY <1>5, <2>3, <3>1, <3>2, SommeAvec
  <2>7. Couverts(a)' = SumFunctionOnSet(g, Engagees')
    BY <2>1 DEF Couverts, LotDe
  <2>8. Couverts(a)' = Couverts(a) + choix[a]
    BY <1>5, <2>1, <2>2, <2>5, <2>6, <2>7, CouvertsEst
  <2>9. CouvertureDe(a)'
    BY <1>1, <2>8 DEF CouvertureDe
  <2> QED BY <1>2, <1>5, <2>1, <2>4, <2>9 DEF Quantites, RemisRecus
<1> QED BY <1>4, <1>7 DEF Quantites, RemisRecus

\* A rule takes no return back into the count, and what it puts in stock is the
\* lot of the return it receives.
LEMMA AppliquerQuantites ==
    ASSUME Quantites, NEW d \in Demandes, NEW regle \in TRANSITIONS, NEW source, NEW restock,
           statut[d] \in regle.depuis, Appliquer(d, regle, source, restock), UNCHANGED lot
    PROVE  Quantites'
<1>1. statut' = [statut EXCEPT ![d] = regle.vers]
  BY DEF Appliquer
<1>2. /\ statut[d] \notin Ecartes /\ regle.vers \in Statuts \ {"aucune"}
      /\ regle.action = "receptionner" => statut[d] \notin Recus /\ regle.vers \in Recus
      /\ regle.action # "receptionner" => (statut[d] \in Recus <=> regle.vers \in Recus)
  BY RegleEtapes
<1>3. \/ remis' = remis
      \/ regle.action = "receptionner" /\ remis' = [a \in Articles |-> remis[a] + lot[d][a]]
  BY DEF Appliquer, Reintegrer
<1>4. TypeLots'
  <2>1. \A a \in Articles : lot[d][a] \in Nat /\ remis[a] \in Nat
    BY DEF Quantites, TypeLots
  <2>2. remis' \in [Articles -> Nat]
    BY <1>3, <2>1 DEF Quantites, TypeLots
  <2> QED BY <1>1, <1>2, <2>2 DEF Quantites, TypeLots
<1>5. Engagees' \subseteq Engagees
  BY <1>1, <1>2 DEF Engagees, Quantites, TypeLots, Ecartes
<1>6. /\ regle.action # "receptionner" => Recues' = Recues
      /\ regle.action = "receptionner" => d \notin Recues /\ Recues' = Recues \cup {d}
  BY <1>1, <1>2 DEF Recues, Quantites, TypeLots
<1>7. ASSUME NEW a \in Articles
      PROVE  remis'[a] <= SumFunctionOnSet(LotDe(a)', Recues') /\ CouvertureDe(a)'
  <2>1. PICK f : f = LotDe(a)
    OBVIOUS
  <2>2. LotDe(a)' = f /\ \A e \in Demandes : f[e] \in Nat /\ f[e] = lot[e][a]
    BY <2>1, Finis DEF LotDe, Quantites
  <2>3. /\ IsFiniteSet(Engagees) /\ IsFiniteSet(Recues)
        /\ \A e \in Engagees : f[e] \in Nat
        /\ \A e \in Recues : f[e] \in Nat
    BY <2>2, Finis DEF Quantites
  <2>4. SumFunctionOnSet(f, Engagees') <= SumFunctionOnSet(f, Engagees)
    BY <1>5, <2>3, SommeInclusion
  <2>5. Couverts(a)' = SumFunctionOnSet(f, Engagees')
    BY <2>2 DEF Couverts, LotDe
  <2>6. CouvertureDe(a)'
    <3>1. SumFunctionOnSet(f, Engagees) <= Quantite[a]
      BY <2>1, CouvertsEst DEF Quantites, CouvertureDe
    <3>2. SumFunctionOnSet(f, Engagees) \in Int /\ SumFunctionOnSet(f, Engagees') \in Int
      <4>1. IsFiniteSet(Engagees') /\ \A e \in Engagees' : f[e] \in Int
        BY <1>5, <2>3, FS_Subset
      <4>2. \A e \in Engagees : f[e] \in Int
        BY <2>3
      <4> QED BY <2>3, <4>1, <4>2, SommeUn
    <3>3. Quantite[a] \in Int
      BY CommandeOk DEF CommandeOk
    <3> QED BY <2>4, <2>5, <3>1, <3>2, <3>3 DEF CouvertureDe
  <2>7. remis[a] <= SumFunctionOnSet(f, Recues) /\ remis[a] \in Nat /\ f[d] = lot[d][a] /\ f[d] \in Nat
    BY <2>1, <2>2 DEF Quantites, RemisRecus, TypeLots
  <2>8. remis'[a] <= SumFunctionOnSet(f, Recues')
    <3>1. CASE regle.action # "receptionner"
      BY <1>3, <1>6, <2>7, <3>1
    <3>2. CASE regle.action = "receptionner"
      <4>1. SumFunctionOnSet(f, Recues \cup {d}) = SumFunctionOnSet(f, Recues) + f[d]
        <5>1. \A e \in Recues : f[e] \in Int
          BY <2>3
        <5>2. d \notin Recues /\ f[d] \in Int
          BY <1>6, <2>7, <3>2
        <5> QED BY <2>3, <5>1, <5>2, SommeAvec
      <4>2. SumFunctionOnSet(f, Recues) \in Int
        BY <2>3, SommeUn
      <4>3. remis'[a] = remis[a] \/ remis'[a] = remis[a] + f[d]
        BY <1>3, <2>7
      <4> QED BY <1>6, <2>7, <3>2, <4>1, <4>2, <4>3
    <3> QED BY <3>1, <3>2
  <2> QED BY <2>2, <2>6, <2>8
<1> QED BY <1>4, <1>7 DEF Quantites, RemisRecus

LEMMA QuantitesMemes ==
    ASSUME Quantites, UNCHANGED <<statut, lot, remis>> PROVE Quantites'
<1>1. Engagees' = Engagees /\ Recues' = Recues
  BY DEF Engagees, Recues
<1>2. \A a \in Articles : LotDe(a)' = LotDe(a) /\ Couverts(a)' = Couverts(a)
  BY <1>1 DEF LotDe, Couverts
<1> QED BY <1>1, <1>2 DEF Quantites, TypeLots, RemisRecus, CouvertureDe

LEMMA QuantitesInit == Init => Quantites
<1> SUFFICES ASSUME Init PROVE Quantites
  OBVIOUS
<1>1. TypeLots
  BY DEF Init, TypeLots, Statuts
<1>2. Engagees = {} /\ Recues = {}
  BY DEF Init, Engagees, Recues, Recus
<1>3. \A a \in Articles : Couverts(a) = 0 /\ SumFunctionOnSet(LotDe(a), Recues) = 0 /\ remis[a] = 0
  BY <1>2, CouvertsEst, SommeVide DEF Init
<1>4. \A a \in Articles : Quantite[a] \in Nat
  BY CommandeOk DEF CommandeOk
<1> QED BY <1>1, <1>3, <1>4 DEF Quantites, RemisRecus, CouvertureDe

LEMMA QuantitesNext == Quantites /\ [Next]_vars => Quantites'
<1> SUFFICES ASSUME Quantites, [Next]_vars PROVE Quantites'
  OBVIOUS
<1>1. ASSUME NEW d \in Demandes, CreerDemande(d) PROVE Quantites'
  BY <1>1, CreerQuantites
<1>2. ASSUME NEW d \in Demandes, NEW regle \in TRANSITIONS, NEW source \in regle.acteurs, Traiter(d, regle, source)
      PROVE  Quantites'
  BY <1>2, AppliquerQuantites DEF Traiter
<1>3. ASSUME NEW d \in Demandes, NEW p \in Passages, AppliquerEcheance(p, d) PROVE Quantites'
  <2>1. PICK regle \in TRANSITIONS : statut[d] \in regle.depuis /\ Appliquer(d, regle, "systeme", FALSE)
    BY <1>3 DEF AppliquerEcheance, Echeance
  <2> QED BY <1>3, <2>1, AppliquerQuantites DEF AppliquerEcheance, Quitter
<1>4. ASSUME \/ \E d \in Demandes : \/ Echoir(d) \/ EffectuerRemboursement(d)
                                    \/ \E p \in Passages : LaisserEcheance(p, d)
             \/ \E p \in Passages : ListerEcheances(p)
             \/ \E delai \in {"retour", "livraison"} : DelaiEcoule(delai)
             \/ ContesterLivraison \/ RejeterContestation \/ RetenirContestation
             \/ \E decision \in {"effectue", "refuse"} : TraiterNonRecu(decision)
             \/ UNCHANGED vars
      PROVE  Quantites'
  <2>1. UNCHANGED <<statut, lot, remis>>
    BY <1>4 DEF Echoir, EffectuerRemboursement, LaisserEcheance, Quitter, ListerEcheances, Lister, DelaiEcoule,
                ContesterLivraison, RejeterContestation, RetenirContestation, TraiterNonRecu, vars
  <2> QED BY <2>1, QuantitesMemes
<1> QED BY <1>1, <1>2, <1>3, <1>4 DEF Next

LEMMA QuantitesToujours == Spec => []Quantites
  BY QuantitesInit, QuantitesNext, PTL DEF Spec

\* For any order and any number of returns, refused, cancelled or asked again:
\* no more units are asked back, and none more put in stock, than were bought
\* (CreerDemandeRetourSerializer.validate, _reintegrer_stock).
THEOREM Article_Rendu_Une_Fois == Spec => []ArticleRenduUneFois
<1>1. Quantites => ArticleRenduUneFois
  <2> SUFFICES ASSUME Quantites, NEW a \in Articles PROVE Couverts(a) <= Quantite[a] /\ remis[a] <= Quantite[a]
    BY DEF ArticleRenduUneFois
  <2>1. PICK f : f = LotDe(a)
    OBVIOUS
  <2>2. /\ IsFiniteSet(Engagees) /\ Recues \subseteq Engagees
        /\ \A e \in Engagees : f[e] \in Nat
    BY <2>1, Finis DEF Quantites
  <2>3. SumFunctionOnSet(f, Recues) <= SumFunctionOnSet(f, Engagees)
    BY <2>2, SommeInclusion
  <2>4. SumFunctionOnSet(f, Recues) \in Int /\ SumFunctionOnSet(f, Engagees) \in Int
    <3>1. IsFiniteSet(Recues) /\ (\A e \in Engagees : f[e] \in Int) /\ \A e \in Recues : f[e] \in Int
      BY <2>2, FS_Subset
    <3> QED BY <2>2, <3>1, SommeUn
  <2>5. remis[a] <= SumFunctionOnSet(f, Recues) /\ SumFunctionOnSet(f, Engagees) <= Quantite[a]
    BY <2>1, CouvertsEst DEF Quantites, RemisRecus, CouvertureDe
  <2>6. remis[a] \in Int /\ Quantite[a] \in Int
    BY CommandeOk DEF CommandeOk, Quantites, TypeLots
  <2> QED BY <2>3, <2>4, <2>5, <2>6 DEF Quantites, CouvertureDe
<1> QED BY <1>1, QuantitesToujours, PTL

-----------------------------------------------------------------------------
\* Amounts: the returns that count never cost more than what was paid

MontantDes == [d \in Demandes |-> Montant(d)]
PrixDes == [d \in Demandes |-> PrixDe(lot[d])]
PartDes == [d \in Demandes |-> MontantArticles(lot[d])]

\* The lines of the order.
LEMMA Lignes ==
    /\ IsFiniteSet(Articles) /\ Articles # {}
    /\ \A a \in Articles : Quantite[a] \in Nat /\ Quantite[a] > 0 /\ Prix[a] \in Nat /\ Prix[a] > 0
  BY CommandeOk DEF CommandeOk

LEMMA PrixNaturel ==
    ASSUME NEW choix \in [Articles -> Nat] PROVE PrixDe(choix) \in Nat
<1>1. PICK f : f = [a \in Articles |-> Prix[a] * choix[a]]
  OBVIOUS
<1>2. \A a \in Articles : f[a] \in Nat
  <2>1. ASSUME NEW a \in Articles PROVE f[a] \in Nat
    <3>1. f[a] = Prix[a] * choix[a] /\ Prix[a] \in Nat /\ choix[a] \in Nat
      BY <1>1, Lignes
    <3> QED BY <3>1
  <2> QED BY <2>1
<1>3. SumFunctionOnSet(f, Articles) \in Nat
  BY <1>2, Lignes, SommeNaturelle
<1> QED BY <1>1, <1>3 DEF PrixDe

\* An order costs something.
LEMMA BrutPositif == Brut \in Nat /\ Brut > 0
<1>1. PICK f : f = [a \in Articles |-> Prix[a] * Quantite[a]]
  OBVIOUS
<1>2. ASSUME NEW a \in Articles PROVE f[a] \in Nat /\ f[a] > 0
  <2>1. f[a] = Prix[a] * Quantite[a] /\ Prix[a] \in Nat /\ Prix[a] > 0 /\ Quantite[a] \in Nat /\ Quantite[a] > 0
    BY <1>1, Lignes
  <2> QED BY <2>1
<1>3. PICK a \in Articles : TRUE
  BY Lignes
<1>4. SumFunctionOnSet(f, Articles) \in Nat /\ f[a] <= SumFunctionOnSet(f, Articles)
  BY <1>2, Lignes, SommeNaturelle
<1> QED BY <1>1, <1>2, <1>4 DEF Brut, PrixDe

LEMMA ArrondiInferieur ==
    ASSUME NEW x \in Nat, NEW b \in Nat, b > 0
    PROVE  x \div b \in Nat /\ b * (x \div b) <= x
  OBVIOUS

LEMMA ProduitMonotone ==
    ASSUME NEW k \in Nat, NEW x \in Int, NEW y \in Int, x <= y
    PROVE  k * x <= k * y
  OBVIOUS

LEMMA ProduitSimplifiable ==
    ASSUME NEW b \in Nat, b > 0, NEW x \in Int, NEW y \in Int, b * x <= b * y
    PROVE  x <= y
  OBVIOUS

\* A return costs the share of its articles, and the delivery fees it takes.
LEMMA MontantsNaturels ==
    ASSUME Remise <= Brut, TypeLots, frais \in [Demandes -> {0, FraisLivraison}], NEW d \in Demandes
    PROVE  /\ PrixDes[d] \in Nat /\ PartDes[d] \in Nat /\ frais[d] \in Nat
           /\ Brut * PartDes[d] <= (Brut - Remise) * PrixDes[d]
           /\ Montant(d) = PartDes[d] + frais[d] /\ MontantDes[d] = Montant(d) /\ Montant(d) \in Nat
<1>1. lot[d] \in [Articles -> Nat]
  BY DEF TypeLots
<1>2. PICK p : p = PrixDe(lot[d])
  OBVIOUS
<1>3. PICK b : b = Brut
  OBVIOUS
<1>4. p \in Nat /\ b \in Nat /\ b > 0 /\ Remise \in Nat /\ FraisLivraison \in Nat
  BY <1>1, <1>2, <1>3, PrixNaturel, BrutPositif, CommandeOk DEF CommandeOk
<1>5. b - Remise \in Nat
  BY <1>3, <1>4
<1>6. PICK k : k = b - Remise
  OBVIOUS
<1>7. PICK part : part = (p * k) \div b
  OBVIOUS
<1>8. p * k \in Nat /\ p * k = k * p
  BY <1>4, <1>5, <1>6
<1>9. part \in Nat /\ b * part <= k * p
  BY <1>4, <1>7, <1>8, ArrondiInferieur
<1>10. PartDes[d] = part /\ PrixDes[d] = p /\ MontantArticles(lot[d]) = part
  BY <1>2, <1>3, <1>6, <1>7 DEF PartDes, PrixDes, MontantArticles
<1>11. frais[d] \in Nat
  BY <1>4
<1>12. Montant(d) = part + frais[d] /\ MontantDes[d] = Montant(d)
  BY <1>10 DEF Montant, MontantDes
<1> QED BY <1>3, <1>4, <1>6, <1>9, <1>10, <1>11, <1>12

\* The price of several returns is the price of their units, line by line.
LEMMA PrixCumule ==
    ASSUME TypeLots
    PROVE  SumFunctionOnSet(PrixDes, Engagees)
              = SumFunctionOnSet([a \in Articles |-> Prix[a] * Couverts(a)], Articles)
<1> DEFINE Ligne(T) == [a \in Articles |-> Prix[a] * SumFunctionOnSet(LotDe(a), T)]
           F == {T \in SUBSET Engagees : SumFunctionOnSet(PrixDes, T) = SumFunctionOnSet(Ligne(T), Articles)}
<1>0. /\ IsFiniteSet(Engagees) /\ Engagees \subseteq Demandes
      /\ \A a \in Articles : \A d \in Demandes : LotDe(a)[d] = lot[d][a] /\ LotDe(a)[d] \in Nat
  BY Finis
<1>1. {} \in F
  <2>1. PICK f : f = Ligne({})
    OBVIOUS
  <2>2. ASSUME NEW a \in Articles PROVE f[a] = 0
    <3>1. f[a] = Prix[a] * SumFunctionOnSet(LotDe(a), {})
      BY <2>1
    <3>2. SumFunctionOnSet(LotDe(a), {}) = 0 /\ Prix[a] \in Int
      BY SommeVide, Lignes
    <3> QED BY <3>1, <3>2
  <2>3. SumFunctionOnSet(f, Articles) = 0
    BY <2>2, Lignes, SommeNulle
  <2>6. SumFunctionOnSet(Ligne({}), Articles) = 0
    BY <2>1, <2>3
  <2> HIDE DEF Ligne
  <2> QED BY <2>6, SommeVide
<1>2. ASSUME NEW T \in SUBSET Engagees, NEW x \in Engagees, T \in F, x \notin T PROVE T \cup {x} \in F
  <2>1. IsFiniteSet(T) /\ x \in Demandes /\ T \subseteq Demandes
    BY <1>0, FS_Subset
  <2>2. PICK f, g, h : f = Ligne(T) /\ g = [a \in Articles |-> Prix[a] * lot[x][a]] /\ h = Ligne(T \cup {x})
    OBVIOUS
  <2>3. ASSUME NEW a \in Articles PROVE f[a] \in Int /\ g[a] \in Int /\ h[a] = f[a] + g[a]
    <3>1. PICK q : q = LotDe(a)
      OBVIOUS
    <3>2. q[x] \in Int /\ q[x] = lot[x][a] /\ \A d \in T : q[d] \in Int
      BY <1>0, <2>1, <3>1
    <3>3. SumFunctionOnSet(q, T \cup {x}) = SumFunctionOnSet(q, T) + q[x]
      BY <1>2, <2>1, <3>2, SommeAvec
    <3>4. SumFunctionOnSet(q, T) \in Int
      BY <2>1, <3>2, SommeUn
    <3>5. PICK m, n : m = SumFunctionOnSet(q, T) /\ n = q[x]
      OBVIOUS
    <3>6. f[a] = Prix[a] * m /\ g[a] = Prix[a] * n /\ h[a] = Prix[a] * (m + n)
      BY <2>2, <3>1, <3>2, <3>3, <3>5
    <3>7. Prix[a] \in Int /\ m \in Int /\ n \in Int
      BY <3>2, <3>4, <3>5, Lignes
    <3> QED BY <3>6, <3>7
  <2>4. SumFunctionOnSet(h, Articles) = SumFunctionOnSet(f, Articles) + SumFunctionOnSet(g, Articles)
    BY <2>3, Lignes, SommePlus
  <2>5. SumFunctionOnSet(PrixDes, T \cup {x}) = SumFunctionOnSet(PrixDes, T) + PrixDes[x]
    <3>1. \A d \in Demandes : PrixDes[d] \in Int
      BY PrixNaturel DEF PrixDes, TypeLots
    <3>2. PrixDes[x] \in Int /\ \A d \in T : PrixDes[d] \in Int
      BY <2>1, <3>1
    <3> QED BY <1>2, <2>1, <3>2, SommeAvec
  <2>6. PrixDes[x] = SumFunctionOnSet(g, Articles)
    BY <2>1, <2>2 DEF PrixDes, PrixDe
  <2>7. SumFunctionOnSet(PrixDes, T) = SumFunctionOnSet(f, Articles)
    BY <1>2, <2>2
  <2>8. SumFunctionOnSet(PrixDes, T \cup {x}) = SumFunctionOnSet(Ligne(T \cup {x}), Articles)
    BY <2>2, <2>4, <2>5, <2>6, <2>7
  <2> HIDE DEF Ligne
  <2> QED BY <2>8
<1>3. SUBSET Engagees \subseteq F
  <2> HIDE DEF F
  <2> QED BY <1>0, <1>1, <1>2, RecurrenceEnsembles
<1>4. Ligne(Engagees) = [a \in Articles |-> Prix[a] * Couverts(a)]
  BY CouvertsEst
<1> HIDE DEF Ligne
<1> QED BY <1>3, <1>4

\* The delivery is given back once.
FraisUneFois == \A d, e \in Engagees : frais[d] # 0 /\ frais[e] # 0 => d = e

\* What the returns that count cost, in rounded shares and fees, was paid.
LEMMA RetoursPayes ==
    ASSUME Remise <= Brut, Quantites, frais \in [Demandes -> {0, FraisLivraison}], FraisUneFois
    PROVE  SumFunctionOnSet(MontantDes, Engagees) <= Total
<1>0. /\ IsFiniteSet(Engagees) /\ Engagees \subseteq Demandes
      /\ \A d \in Engagees :
            /\ PrixDes[d] \in Nat /\ PartDes[d] \in Nat /\ frais[d] \in Nat
            /\ Brut * PartDes[d] <= (Brut - Remise) * PrixDes[d]
            /\ MontantDes[d] = PartDes[d] + frais[d]
  <2>1. IsFiniteSet(Engagees) /\ Engagees \subseteq Demandes
    BY Finis DEF Quantites
  <2>2. ASSUME NEW d \in Engagees
        PROVE  /\ PrixDes[d] \in Nat /\ PartDes[d] \in Nat /\ frais[d] \in Nat
               /\ Brut * PartDes[d] <= (Brut - Remise) * PrixDes[d]
               /\ MontantDes[d] = PartDes[d] + frais[d]
    <3>1. d \in Demandes
      BY <2>1
    <3> QED BY <3>1, MontantsNaturels DEF Quantites
  <2> QED BY <2>1, <2>2
<1>1. PICK b, k : b = Brut /\ k = Brut - Remise
  OBVIOUS
<1>2. b \in Nat /\ b > 0 /\ k \in Nat /\ Remise \in Nat /\ FraisLivraison \in Nat
  <2>1. Brut \in Nat /\ Brut > 0 /\ Remise \in Nat /\ FraisLivraison \in Nat
    BY BrutPositif, CommandeOk DEF CommandeOk
  <2> QED BY <1>1, <2>1
<1>3. PICK prix, part, cout : /\ prix = SumFunctionOnSet(PrixDes, Engagees)
                              /\ part = SumFunctionOnSet(PartDes, Engagees)
                              /\ cout = SumFunctionOnSet(frais, Engagees)
  OBVIOUS
<1>4. prix \in Nat /\ part \in Nat /\ cout \in Nat
  BY <1>0, <1>3, SommeNaturelle
<1>5. prix <= b
  <2>1. PICK f, g : /\ f = [a \in Articles |-> Prix[a] * Couverts(a)]
                    /\ g = [a \in Articles |-> Prix[a] * Quantite[a]]
    OBVIOUS
  <2>2. ASSUME NEW a \in Articles PROVE f[a] \in Int /\ g[a] \in Int /\ f[a] <= g[a]
    <3>1. PICK x, y, p : x = Couverts(a) /\ y = Quantite[a] /\ p = Prix[a]
      OBVIOUS
    <3>2. y \in Nat /\ p \in Nat /\ x <= y
      BY <3>1, Lignes DEF Quantites, CouvertureDe
    <3>3. x \in Int
      <4>1. \A d \in Engagees : LotDe(a)[d] \in Int
        BY Finis DEF Quantites
      <4> QED BY <1>0, <3>1, <4>1, CouvertsEst, SommeUn
    <3>4. p * x <= p * y /\ p * x \in Int /\ p * y \in Int
      BY <3>2, <3>3, ProduitMonotone
    <3>5. f[a] = p * x /\ g[a] = p * y
      BY <2>1, <3>1
    <3> QED BY <3>4, <3>5
  <2>3. SumFunctionOnSet(f, Articles) <= SumFunctionOnSet(g, Articles)
    BY <2>2, Lignes, SommeBornee
  <2>4. prix = SumFunctionOnSet(f, Articles)
    BY <1>3, <2>1, PrixCumule DEF Quantites
  <2>5. b = SumFunctionOnSet(g, Articles)
    BY <1>1, <2>1 DEF Brut, PrixDe
  <2> QED BY <2>3, <2>4, <2>5
<1>6. part <= k
  <2>1. \A d \in Engagees : PrixDes[d] \in Int /\ PartDes[d] \in Int /\ b * PartDes[d] <= k * PrixDes[d]
    BY <1>0, <1>1
  <2>2. b * part <= k * prix
    BY <1>0, <1>2, <1>3, <2>1, SommeProportion
  <2>3. k * prix <= k * b /\ k * b = b * k /\ k * prix \in Int /\ b * k \in Int /\ b * part \in Int
    BY <1>2, <1>4, <1>5, ProduitMonotone
  <2>4. b * part <= b * k
    BY <2>2, <2>3
  <2> QED BY <1>2, <1>4, <2>4, ProduitSimplifiable
<1>7. cout <= FraisLivraison
  <2>2. CASE \A d \in Engagees : frais[d] = 0
    BY <1>0, <1>2, <1>3, <2>2, SommeNulle
  <2>3. CASE \E d \in Engagees : frais[d] # 0
    <3>1. PICK d \in Engagees : frais[d] # 0
      BY <2>3
    <3>2. IsFiniteSet(Engagees \ {d}) /\ \A e \in Engagees \ {d} : frais[e] = 0
      BY <1>0, <3>1, FS_RemoveElement DEF FraisUneFois
    <3>3. SumFunctionOnSet(frais, Engagees \ {d}) = 0
      BY <3>2, SommeNulle
    <3>4. \A e \in Engagees : frais[e] \in Int
      BY <1>0
    <3>5. SumFunctionOnSet(frais, Engagees) = frais[d] + SumFunctionOnSet(frais, Engagees \ {d})
      BY <1>0, <3>4, SommeUn
    <3>6. frais[d] \in {0, FraisLivraison}
      BY <1>0
    <3> QED BY <1>2, <1>3, <3>3, <3>5, <3>6
  <2> QED BY <2>2, <2>3
<1>8. SumFunctionOnSet(MontantDes, Engagees) = part + cout
  <2>1. \A d \in Engagees : PartDes[d] \in Int /\ frais[d] \in Int /\ MontantDes[d] = PartDes[d] + frais[d]
    BY <1>0
  <2> QED BY <1>0, <1>3, <2>1, SommePlus
<1>9. Total = k + FraisLivraison
  BY <1>1 DEF Total
<1> QED BY <1>2, <1>4, <1>6, <1>7, <1>8, <1>9

-----------------------------------------------------------------------------
\* One ceiling for the returns and the contested delivery

Accordees == {d \in Demandes : remboursement[d] # "aucun"}

TypeArgent ==
    /\ frais \in [Demandes -> {0, FraisLivraison}]
    /\ remboursement \in [Demandes -> {"aucun", "a_traiter", "effectue"}]
    /\ contestation \in {"aucune", "ouverte", "rejetee", "fondee"}
    /\ nonRecu \in [etat : {"aucun", "a_traiter", "effectue", "refuse"}, montant : Nat]

\* A refund is granted with the status of its return, and the refund of a lost
\* parcel with its contestation.
Accords ==
    /\ \A d \in Demandes : remboursement[d] # "aucun" <=> statut[d] \in Rendus
    /\ contestation # "fondee" => nonRecu.etat = "aucun"

Argent == TypeArgent /\ FraisUneFois /\ Accords /\ LivraisonNonRecueRendue

LEMMA AccordeEst ==
    ASSUME Remise <= Brut, Quantites, TypeArgent
    PROVE  /\ AccordeRetours = SumFunctionOnSet(MontantDes, Accordees)
           /\ AccordeRetours \in Nat /\ Accorde \in Int /\ Total \in Int /\ nonRecu.montant \in Nat
           /\ IsFiniteSet(Accordees) /\ Accordees \subseteq Demandes
           /\ \A d \in Demandes : MontantDes[d] \in Nat /\ MontantDes[d] = Montant(d)
<1>1. IsFiniteSet(Accordees) /\ Accordees \subseteq Demandes
  <2>1. Accordees \subseteq Demandes
    BY DEF Accordees
  <2> QED BY <2>1, Finis, FS_Subset DEF Quantites
<1>2. \A d \in Demandes : MontantDes[d] \in Nat /\ MontantDes[d] = Montant(d)
  BY MontantsNaturels DEF Quantites, TypeArgent
<1>3. AccordeRetours = SumFunctionOnSet(MontantDes, Accordees)
  BY DEF AccordeRetours, MontantDes, Accordees
<1>4. AccordeRetours \in Nat
  <2>1. \A d \in Accordees : MontantDes[d] \in Nat
    BY <1>1, <1>2
  <2> QED BY <1>1, <1>3, <2>1, SommeNaturelle
<1>5. nonRecu.montant \in Nat
  BY DEF TypeArgent
<1>6. Total \in Int
  BY BrutPositif, CommandeOk DEF Total, CommandeOk
<1> QED BY <1>1, <1>2, <1>3, <1>4, <1>5, <1>6 DEF Accorde

\* Steps that leave the amounts granted alone.
LEMMA AccordeMeme ==
    ASSUME Remise <= Brut, Quantites, Argent, UNCHANGED <<contestation, nonRecu>>,
           \A d \in Accordees : lot'[d] = lot[d] /\ frais'[d] = frais[d], Accordees' = Accordees
    PROVE  LivraisonNonRecueRendue'
<1>1. IsFiniteSet(Accordees) /\ Accordees \subseteq Demandes /\ \A d \in Demandes : MontantDes[d] \in Nat
  BY AccordeEst DEF Argent
<1>2. PICK f, g : f = MontantDes /\ g = MontantDes'
  OBVIOUS
<1>3. \A d \in Accordees : f[d] = g[d] /\ f[d] \in Int
  BY <1>1, <1>2 DEF MontantDes, Montant, MontantArticles, PrixDe
<1>4. SumFunctionOnSet(f, Accordees) = SumFunctionOnSet(g, Accordees)
  BY <1>1, <1>3, SommeEgale
<1>5. AccordeRetours' = SumFunctionOnSet(g, Accordees)
  BY <1>2 DEF AccordeRetours, MontantDes, Accordees
<1>6. AccordeRetours' = AccordeRetours
  BY <1>2, <1>4, <1>5, AccordeEst DEF Argent
<1>7. Accorde' = Accorde
  BY <1>6 DEF Accorde
<1> QED BY <1>7 DEF Argent, LivraisonNonRecueRendue, PlafondRespecte

LEMMA ArgentInit == ASSUME Remise <= Brut PROVE Init => Argent
<1> SUFFICES ASSUME Init PROVE Argent
  OBVIOUS
<1>1. TypeArgent /\ Accords
  BY DEF Init, TypeArgent, Accords, Rendus
<1>2. FraisUneFois
  BY DEF Init, FraisUneFois, Engagees
<1>3. Quantites
  BY QuantitesInit
<1>4. Accordees = {}
  BY DEF Init, Accordees
<1>5. Accorde = 0
  BY <1>1, <1>3, <1>4, AccordeEst, SommeVide DEF Accorde, Init
<1>6. Total >= 0
  <2>1. Brut \in Nat /\ Remise \in Nat /\ FraisLivraison \in Nat
    BY BrutPositif, CommandeOk DEF CommandeOk
  <2> QED BY <2>1 DEF Total
<1>7. Total \in Int
  BY <1>1, <1>3, AccordeEst
<1>8. LivraisonNonRecueRendue
  BY <1>5, <1>6, <1>7 DEF LivraisonNonRecueRendue, PlafondRespecte, Init
<1> QED BY <1>1, <1>2, <1>8 DEF Argent

LEMMA CreerArgent ==
    ASSUME Remise <= Brut, Quantites, Argent, NEW d \in Demandes, CreerDemande(d) PROVE Argent'
<1>1. PICK motif \in BOOLEAN : frais' = [frais EXCEPT ![d] = FraisARembourser(motif)]
  BY DEF CreerDemande
<1>2. PICK choix : lot' = [lot EXCEPT ![d] = choix]
  BY DEF CreerDemande
<1>3. /\ statut[d] = "aucune" /\ statut' = [statut EXCEPT ![d] = "demande"]
      /\ UNCHANGED <<remboursement, contestation, nonRecu>>
  BY DEF CreerDemande, livraison
<1>4. /\ FraisARembourser(motif) \in {0, FraisLivraison}
      /\ FraisARembourser(motif) # 0 => \A e \in Engagees : frais[e] = 0
  BY DEF FraisARembourser
<1>5. TypeArgent'
  BY <1>1, <1>3, <1>4 DEF Argent, TypeArgent
<1>6. Accords'
  BY <1>3 DEF Argent, Accords, Quantites, TypeLots, Rendus
<1>7. /\ Engagees' = Engagees \cup {d} /\ d \notin Engagees
      /\ \A e \in Demandes : e # d => frais'[e] = frais[e] /\ lot'[e] = lot[e]
      /\ frais'[d] = FraisARembourser(motif)
  BY <1>1, <1>2, <1>3 DEF Quantites, TypeLots, Engagees, Argent, TypeArgent
<1>8. FraisUneFois'
  BY <1>4, <1>7, Finis DEF Argent, FraisUneFois, Quantites
<1>9. Accordees' = Accordees /\ d \notin Accordees /\ Accordees \subseteq Demandes
  BY <1>3 DEF Accordees, Argent, Accords, Rendus
<1>10. LivraisonNonRecueRendue'
  BY <1>3, <1>7, <1>9, AccordeMeme
<1> QED BY <1>5, <1>6, <1>8, <1>10 DEF Argent

LEMMA AppliquerArgent ==
    ASSUME Remise <= Brut, Quantites, Argent, NEW d \in Demandes, NEW regle \in TRANSITIONS,
           NEW source, NEW restock, statut[d] \in regle.depuis, Appliquer(d, regle, source, restock),
           UNCHANGED <<lot, frais, contestation, nonRecu>>
    PROVE  Argent'
<1>1. statut' = [statut EXCEPT ![d] = regle.vers]
  BY DEF Appliquer
<1>2. /\ statut[d] \notin Ecartes /\ regle.vers \in Statuts \ {"aucune"}
      /\ regle.action = "rembourser" => statut[d] \notin Rendus /\ regle.vers \in Rendus
      /\ regle.action # "rembourser" => (statut[d] \in Rendus <=> regle.vers \in Rendus)
  BY RegleEtapes
<1>3. /\ regle.action # "rembourser" => remboursement' = remboursement
      /\ regle.action = "rembourser" =>
            Remboursable(d) /\ remboursement' = [remboursement EXCEPT ![d] = "a_traiter"]
  BY DEF Appliquer
<1>4. TypeArgent'
  BY <1>3 DEF Argent, TypeArgent
<1>5. Accords'
  BY <1>1, <1>2, <1>3 DEF Argent, Accords, Quantites, TypeLots, TypeArgent
<1>6. Engagees' \subseteq Engagees
  BY <1>1, <1>2 DEF Engagees, Quantites, TypeLots, Ecartes
<1>7. FraisUneFois'
  BY <1>6 DEF Argent, FraisUneFois
<1>8. CASE regle.action # "rembourser"
  <2>1. Accordees' = Accordees
    BY <1>3, <1>8 DEF Accordees
  <2>2. LivraisonNonRecueRendue'
    BY <2>1, AccordeMeme
  <2> QED BY <1>4, <1>5, <1>7, <2>2 DEF Argent
<1>9. CASE regle.action = "rembourser"
  <2>1. Accordees' = Accordees \cup {d} /\ d \notin Accordees
    BY <1>2, <1>3, <1>9 DEF Accordees, Argent, Accords, TypeArgent
  <2>2. PICK f : f = MontantDes
    OBVIOUS
  <2>3. MontantDes' = f
    BY <2>2 DEF MontantDes, Montant, MontantArticles, PrixDe
  <2>4. /\ AccordeRetours = SumFunctionOnSet(f, Accordees)
        /\ AccordeRetours \in Nat /\ Accorde \in Int /\ Total \in Int /\ nonRecu.montant \in Nat
        /\ IsFiniteSet(Accordees) /\ Accordees \subseteq Demandes
        /\ \A e \in Demandes : f[e] \in Nat /\ f[e] = Montant(e)
    BY <2>2, AccordeEst DEF Argent
  <2>5. SumFunctionOnSet(f, Accordees \cup {d}) = SumFunctionOnSet(f, Accordees) + f[d]
    <3>1. f[d] \in Int /\ \A e \in Accordees : f[e] \in Int
      BY <2>4
    <3> QED BY <2>1, <2>4, <3>1, SommeAvec
  <2>6. AccordeRetours' = SumFunctionOnSet(f, Accordees')
    BY <2>3 DEF AccordeRetours, MontantDes, Accordees
  <2>7. AccordeRetours' = AccordeRetours + Montant(d)
    BY <2>1, <2>4, <2>5, <2>6
  <2>8. Accorde' = Accorde + Montant(d)
    BY <2>4, <2>7 DEF Accorde
  <2>9. Montant(d) > 0 /\ Montant(d) <= Total - Accorde /\ Montant(d) \in Nat
    BY <1>3, <1>9, <2>4 DEF Remboursable, ResteDu
  <2>10. Accorde' <= Total /\ Accorde # Total
    BY <2>4, <2>8, <2>9
  <2>11. LivraisonNonRecueRendue'
    <3>1. Total' = Total
      BY DEF Total
    <3> QED BY <2>10, <3>1 DEF Argent, LivraisonNonRecueRendue, PlafondRespecte
  <2> QED BY <1>4, <1>5, <1>7, <2>11 DEF Argent
<1> QED BY <1>8, <1>9

\* The contestation upheld takes what is left under the ceiling.
LEMMA RetenirArgent ==
    ASSUME Remise <= Brut, Quantites, Argent, RetenirContestation PROVE Argent'
<1>1. /\ contestation = "ouverte" /\ contestation' = "fondee" /\ nonRecu.etat = "aucun"
      /\ UNCHANGED <<statut, lot, frais, remboursement>>
      /\ nonRecu' = IF ResteDu > 0 THEN [etat |-> "a_traiter", montant |-> ResteDu] ELSE nonRecu
  BY DEF RetenirContestation, Argent, Accords
<1>2. AccordeRetours' = AccordeRetours /\ Total' = Total
  BY <1>1 DEF AccordeRetours, Montant, MontantArticles, PrixDe, Total
<1>3. Accorde = AccordeRetours /\ AccordeRetours \in Nat /\ Total \in Int
  BY <1>1, AccordeEst DEF Accorde, Argent
<1>4. PICK reste : reste = ResteDu
  OBVIOUS
<1>5. reste \in Int /\ reste = Total - AccordeRetours /\ AccordeRetours <= Total
  BY <1>3, <1>4 DEF ResteDu, Argent, LivraisonNonRecueRendue, PlafondRespecte
<1>6. TypeArgent'
  <2>1. nonRecu' \in [etat : {"aucun", "a_traiter", "effectue", "refuse"}, montant : Nat]
    BY <1>1, <1>4, <1>5 DEF Argent, TypeArgent
  <2> QED BY <1>1, <2>1 DEF Argent, TypeArgent
<1>7. Accords' /\ FraisUneFois'
  BY <1>1 DEF Argent, Accords, FraisUneFois, Engagees
<1>8. Accorde' = Total
  <2>1. CASE reste > 0
    BY <1>1, <1>2, <1>3, <1>4, <1>5, <2>1 DEF Accorde
  <2>2. CASE ~(reste > 0)
    BY <1>1, <1>2, <1>3, <1>4, <1>5, <2>2 DEF Accorde
  <2> QED BY <2>1, <2>2
<1>9. LivraisonNonRecueRendue'
  BY <1>2, <1>3, <1>8 DEF LivraisonNonRecueRendue, PlafondRespecte
<1> QED BY <1>6, <1>7, <1>9 DEF Argent

LEMMA TraiterNonRecuArgent ==
    ASSUME Remise <= Brut, Quantites, Argent, NEW decision \in {"effectue", "refuse"}, TraiterNonRecu(decision)
    PROVE  Argent'
<1>1. /\ nonRecu.etat = "a_traiter" /\ nonRecu' = [nonRecu EXCEPT !.etat = decision]
      /\ UNCHANGED <<statut, lot, frais, remboursement, contestation>>
  BY DEF TraiterNonRecu
<1>2. TypeArgent' /\ nonRecu'.etat = decision /\ nonRecu'.montant = nonRecu.montant
  BY <1>1 DEF Argent, TypeArgent
<1>3. Accords' /\ FraisUneFois'
  BY <1>1, <1>2 DEF Argent, Accords, FraisUneFois, Engagees
<1>4. AccordeRetours' = AccordeRetours /\ Total' = Total
  BY <1>1 DEF AccordeRetours, Montant, MontantArticles, PrixDe, Total
<1>5. AccordeRetours \in Nat /\ nonRecu.montant \in Nat /\ Total \in Int /\ Accorde = AccordeRetours + nonRecu.montant
  BY <1>1, AccordeEst DEF Accorde, Argent
<1>6. \/ decision = "effectue" /\ Accorde' = Accorde
      \/ decision = "refuse" /\ Accorde' = AccordeRetours
  BY <1>2, <1>4, <1>5 DEF Accorde
<1>7. LivraisonNonRecueRendue'
  BY <1>1, <1>2, <1>4, <1>5, <1>6 DEF Argent, LivraisonNonRecueRendue, PlafondRespecte
<1> QED BY <1>2, <1>3, <1>7 DEF Argent

LEMMA ArgentNext == ASSUME Remise <= Brut PROVE Quantites /\ Argent /\ [Next]_vars => Argent'
<1> SUFFICES ASSUME Quantites, Argent, [Next]_vars PROVE Argent'
  OBVIOUS
<1>1. ASSUME NEW d \in Demandes, CreerDemande(d) PROVE Argent'
  BY <1>1, CreerArgent
<1>2. ASSUME NEW d \in Demandes, NEW regle \in TRANSITIONS, NEW source \in regle.acteurs, Traiter(d, regle, source)
      PROVE  Argent'
  BY <1>2, AppliquerArgent DEF Traiter, livraison
<1>3. ASSUME NEW d \in Demandes, NEW p \in Passages, AppliquerEcheance(p, d) PROVE Argent'
  <2>1. PICK regle \in TRANSITIONS : statut[d] \in regle.depuis /\ Appliquer(d, regle, "systeme", FALSE)
    BY <1>3 DEF AppliquerEcheance, Echeance
  <2> QED BY <1>3, <2>1, AppliquerArgent DEF AppliquerEcheance, Quitter, livraison
<1>4. ASSUME UNCHANGED <<statut, lot, frais, nonRecu>>, TypeArgent', Accords', Accordees' = Accordees,
             contestation' = contestation \/ {contestation, contestation'} \subseteq {"aucune", "ouverte", "rejetee"}
      PROVE  Argent'
  <2>1. FraisUneFois'
    BY <1>4 DEF Argent, FraisUneFois, Engagees
  <2>2. AccordeRetours' = AccordeRetours /\ Total' = Total
    BY <1>4 DEF AccordeRetours, Montant, MontantArticles, PrixDe, Total, Accordees
  <2>3. LivraisonNonRecueRendue'
    BY <1>4, <2>2 DEF Argent, LivraisonNonRecueRendue, PlafondRespecte, Accorde
  <2> QED BY <1>4, <2>1, <2>3 DEF Argent
<1>5. ASSUME NEW d \in Demandes, EffectuerRemboursement(d) PROVE Argent'
  BY <1>4, <1>5 DEF EffectuerRemboursement, livraison, Argent, TypeArgent, Accords, Accordees
<1>6. ASSUME \/ \E d \in Demandes : Echoir(d) \/ \E p \in Passages : LaisserEcheance(p, d)
             \/ \E p \in Passages : ListerEcheances(p)
             \/ \E delai \in {"retour", "livraison"} : DelaiEcoule(delai)
             \/ UNCHANGED vars
      PROVE  Argent'
  <2>1. UNCHANGED <<statut, lot, frais, remboursement, contestation, nonRecu>>
    BY <1>6 DEF Echoir, LaisserEcheance, Quitter, ListerEcheances, Lister, DelaiEcoule, vars, livraison
  <2> QED BY <1>4, <2>1 DEF Argent, TypeArgent, Accords, Accordees
<1>7. ASSUME ContesterLivraison \/ RejeterContestation PROVE Argent'
  <2>1. /\ UNCHANGED <<statut, lot, frais, remboursement, nonRecu>>
        /\ {contestation, contestation'} \subseteq {"aucune", "ouverte", "rejetee"}
    BY <1>7 DEF ContesterLivraison, RejeterContestation
  <2> QED BY <1>4, <2>1 DEF Argent, TypeArgent, Accords, Accordees
<1>8. CASE RetenirContestation
  BY <1>8, RetenirArgent
<1>9. ASSUME NEW decision \in {"effectue", "refuse"}, TraiterNonRecu(decision) PROVE Argent'
  BY <1>9, TraiterNonRecuArgent
<1> QED BY <1>1, <1>2, <1>3, <1>5, <1>6, <1>7, <1>8, <1>9 DEF Next

\* A received return is one of those that count, and not one of those that were
\* refunded.
LEMMA Recevable ==
    ASSUME Remise <= Brut, Quantites, Argent PROVE RecuRemboursable
<1> SUFFICES ASSUME NEW d \in Demandes, statut[d] = "receptionne", nonRecu.etat \notin {"a_traiter", "effectue"}
             PROVE  Montant(d) <= ResteDu
  BY DEF RecuRemboursable
<1>1. PICK f : f = MontantDes
  OBVIOUS
<1>2. /\ AccordeRetours = SumFunctionOnSet(f, Accordees) /\ AccordeRetours \in Nat /\ Total \in Int
      /\ IsFiniteSet(Accordees)
      /\ \A e \in Demandes : f[e] \in Nat /\ f[e] = Montant(e)
  BY <1>1, AccordeEst DEF Argent
<1>3. /\ d \notin Accordees /\ d \in Engagees /\ Accordees \subseteq Engagees
      /\ IsFiniteSet(Engagees) /\ Engagees \subseteq Demandes
  <2>1. IsFiniteSet(Engagees) /\ Engagees \subseteq Demandes
    BY Finis DEF Quantites
  <2>2. d \notin Accordees /\ d \in Engagees /\ Accordees \subseteq Engagees
    BY DEF Accordees, Engagees, Argent, Accords, Rendus, STATUTS_REFUS
  <2> QED BY <2>1, <2>2
<1>4. SumFunctionOnSet(f, Accordees \cup {d}) = SumFunctionOnSet(f, Accordees) + f[d]
  <2>1. f[d] \in Int /\ \A e \in Accordees : f[e] \in Int
    BY <1>2, <1>3
  <2> QED BY <1>2, <1>3, <2>1, SommeAvec
<1>5. SumFunctionOnSet(f, Accordees \cup {d}) <= SumFunctionOnSet(f, Engagees)
  <2>1. Accordees \cup {d} \in SUBSET Engagees
    BY <1>3
  <2>2. \A e \in Engagees : f[e] \in Nat
    BY <1>2, <1>3
  <2> QED BY <1>3, <2>1, <2>2, SommeInclusion
<1>6. SumFunctionOnSet(f, Engagees) <= Total
  BY <1>1, RetoursPayes DEF Argent, TypeArgent
<1>7. SumFunctionOnSet(f, Engagees) \in Int
  <2>1. \A e \in Engagees : f[e] \in Int
    BY <1>2, <1>3
  <2> QED BY <1>3, <2>1, SommeUn
<1>8. AccordeRetours + Montant(d) <= Total /\ Montant(d) \in Nat
  BY <1>2, <1>4, <1>5, <1>6, <1>7
<1>9. ResteDu = Total - AccordeRetours
  BY <1>2 DEF ResteDu, Accorde
<1> QED BY <1>2, <1>8, <1>9

\* For any order whose coupon is worth no more than its articles: a parcel that
\* came back is never left unpaid for want of money, whatever the rounding and
\* the other refunds, and a lost delivery is given back in full, never more
\* (creer_remboursement, montant_a_rembourser).
THEOREM Argent_Des_Retours == ASSUME Remise <= Brut PROVE Spec => []ArgentDesRetours
<1>1. Quantites /\ Argent => ArgentDesRetours
  BY Recevable DEF Argent, ArgentDesRetours
<1> QED BY <1>1, ArgentInit, ArgentNext, QuantitesToujours, PTL DEF Spec
=============================================================================
