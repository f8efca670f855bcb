---------------------------- MODULE VerrousProofs ----------------------------
(***************************************************************************)
(* Proofs about Verrous, for any number of orders, payments, checkouts and *)
(* transactions: a cancelled order has no active sheet and is refunded,    *)
(* the last of several cancellations finishes the checkout, no two         *)
(* payments may collect the same order, and, without two crossings of the  *)
(* code, nobody waits in a circle.                                         *)
(*                                                                         *)
(* What makes it true is what a transaction knows from the moment it holds *)
(* a row (Sait), and that the rows the others must hold to write keep this *)
(* knowledge true until its commit (Interference). The last result rests   *)
(* on an order of the rows that every transaction follows (Suit).          *)
(***************************************************************************)
EXTENDS Verrous, Sommes, SequenceTheorems

-----------------------------------------------------------------------------
(* The rows, and the requests of a transaction. *)

(* The queries. *)
Noms == {"livraison", "commande", "relue", "groupe", "stocks", "paiement", "reversement", "coupon",
         "commandes", "panier", "actifs", "fiche", "demande"}

Cles == Nat \cup Groupes \cup Boutiques \cup Coupons
Tables == {"livraison", "commande", "groupe", "stock", "paiement", "reversement", "coupon", "panier",
           "boutique", "demande"}
Rangees == Tables \X Cles

StatutsCommande == {"absente", "creee", "confirmee", "expediee", "livree", "annulee"}
StatutsFiche == {"aucune", "en_attente", "partie", "livree", "annulee"}
StatutsPaiement == {"aucun", "en_attente", "valide", "annule"}
Actifs == {"en_attente", "valide"}

TypeDonnees ==
    /\ statut \in [Commandes -> StatutsCommande]
    /\ fiche \in [Commandes -> StatutsFiche]
    /\ paiement \in [Paiements -> StatutsPaiement]
    /\ utilise \subseteq Groupes
    /\ rembourse \subseteq Paiements \X Commandes

TypeTransactions ==
    /\ etat \in [Transactions -> {"repos", "ouverte", "finie"}]
    /\ reste \in [Transactions -> Seq(Noms)]
    /\ aPrendre \in [Transactions -> Seq(Rangees)]
    /\ tient \in [Transactions -> SUBSET Rangees]
    /\ lu \in [Transactions -> [Paiements -> StatutsPaiement]]

(* No row has two holders. *)
Exclusion == \A t, u \in Transactions : t # u => tient[t] \cap tient[u] = {}

(* What remains to be done is the end of the list of queries. *)
Fin(s, r) ==
    /\ Len(r) <= Len(s)
    /\ \A i \in 1..Len(r) : r[i] = s[Len(s) - Len(r) + i]

Avancement ==
    \A t \in Transactions :
        /\ Fin(Phases(t.genre), reste[t])
        /\ etat[t] = "repos" => reste[t] = Phases(t.genre) /\ aPrendre[t] = <<>> /\ tient[t] = {}

-----------------------------------------------------------------------------
(* What an open transaction knows. *)

(* t holds the row, or its current query will not end without it. *)
Demande(t, ligne) == ligne \in tient[t] \/ \E i \in 1..Len(aPrendre[t]) : aPrendre[t][i] = ligne

SaitCheckout(t) == Len(reste[t]) <= 2 => Demande(t, <<"panier", t.cible>>)

SaitInitier(t) ==
    /\ Len(reste[t]) <= 1 => \A c \in Couvre[t.cible] : Demande(t, <<"commande", c>>)
    /\ Len(reste[t]) = 0 =>
          /\ \A c \in Couvre[t.cible] : Tient(t, <<"commande", c>>)
          /\ \A p \in Paiements :
                Couvre[p] \cap Couvre[t.cible] # {} /\ paiement[p] \in Actifs => lu[t][p] \in Actifs

SaitValider(t) ==
    /\ Len(reste[t]) <= 1 => \A c \in Couvre[t.cible] : Demande(t, <<"commande", c>>)
    /\ Len(reste[t]) = 0 => \A c \in Couvre[t.cible] : Tient(t, <<"commande", c>>)
    /\ Len(reste[t]) = 0 => Demande(t, <<"paiement", t.cible>>)

SaitLivrer(t) ==
    Len(reste[t]) <= 1 => Demande(t, <<"livraison", t.cible>>) /\ Demande(t, <<"commande", t.cible>>)

(* The payments locked by the cancellation are those it concerns, as it read them. *)
PaiementsLus(t) ==
    \A p \in Paiements : LET c == t.cible IN
        /\ Demande(t, <<"paiement", p>>) =>
              /\ c \in Couvre[p]
              /\ lu[t][p] \in Actifs
              /\ lu[t][p] = "en_attente" => \A d \in Couvre[p] : AnnuleePour(c, d)
        /\ c \in Couvre[p] /\ paiement[p] = "valide" => lu[t][p] = "valide" /\ Demande(t, <<"paiement", p>>)
        /\ c \in Couvre[p] /\ paiement[p] = "en_attente" /\ (\A d \in Couvre[p] : AnnuleePour(c, d)) =>
              lu[t][p] = "en_attente" /\ Demande(t, <<"paiement", p>>)

CouponLu(t) ==
    LET g == GroupeDe[t.cible] IN
    CouponDe[g] # Aucun /\ (\A d \in Commandes : GroupeDe[d] = g => AnnuleePour(t.cible, d)) =>
        Demande(t, <<"coupon", CouponDe[g]>>)

SaitAnnuler(t) == LET c == t.cible IN
    /\ Len(reste[t]) <= 6 => Demande(t, <<"commande", c>>)
    /\ Len(reste[t]) <= 5 => Tient(t, <<"commande", c>>)
    /\ Len(reste[t]) <= 5 /\ fiche[c] # "aucune" => Demande(t, <<"livraison", c>>)
    /\ Len(reste[t]) <= 4 => Demande(t, <<"groupe", GroupeDe[c]>>)
    /\ Len(reste[t]) <= 3 => Tient(t, <<"groupe", GroupeDe[c]>>)
    /\ Len(reste[t]) >= 3 => \A p \in Paiements : ~ Demande(t, <<"paiement", p>>)
    /\ Len(reste[t]) <= 2 => PaiementsLus(t)
    /\ Len(reste[t]) = 0 => CouponLu(t)

SaitDe(t) ==
    /\ t.genre = "checkout" => SaitCheckout(t)
    /\ t.genre = "initier"  => SaitInitier(t)
    /\ t.genre = "valider"  => SaitValider(t)
    /\ t.genre = "livrer"   => SaitLivrer(t)
    /\ t.genre = "annuler"  => SaitAnnuler(t)

Sait == \A t \in Transactions : etat[t] = "ouverte" => SaitDe(t)

-----------------------------------------------------------------------------
(* What the committed data say. *)

(* Of the payments of an order, one at most was ever opened before the order was cancelled. *)
UnSeulOuvert == \A p, q \in Paiements : SeRecouvrent(p, q) /\ paiement[p] # "aucun" => paiement[q] = "aucun"

CloseParAnnulation ==
    \A p \in Paiements : paiement[p] = "annule" => \A c \in Couvre[p] : statut[c] = "annulee"

CouponUtilise == \A g \in utilise : CouponDe[g] # Aucun

DonneesJustes ==
    /\ UnSeulOuvert /\ CloseParAnnulation /\ CouponUtilise
    /\ AnnuleeSansFiche /\ AnnuleeRemboursee /\ DerniereAnnulationFinalise

Controle == TypeTransactions /\ Exclusion /\ Avancement

IInv == TypeDonnees /\ Controle /\ Sait /\ DonneesJustes

-----------------------------------------------------------------------------
(* The rows of a query, sorted by primary key, are all the rows of the query. *)

SuiteCroissante(S, s) ==
    /\ s \in [1..Cardinality(S) -> S]
    /\ \A i, j \in 1..Cardinality(S) : i < j => s[i] < s[j]

LEMMA Bornes ==
    ASSUME NEW S, S \subseteq Nat, IsFiniteSet(S)
    PROVE  \E n \in Nat : \A x \in S : x < n
<1>. DEFINE F == {T \in SUBSET S : \E n \in Nat : \A x \in T : x < n}
<1>1. {} \in F
      OBVIOUS
<1>2. ASSUME NEW T \in SUBSET S, NEW x \in S, T \in F, x \notin T PROVE T \cup {x} \in F
  <2>1. PICK n \in Nat : \A y \in T : y < n
        BY <1>2
  <2>2. PICK m \in Nat : n <= m /\ x < m
    <3>1. x \in Nat
          OBVIOUS
    <3>2. CASE n <= x
          BY <3>1, <3>2, x + 1 \in Nat /\ n <= x + 1 /\ x < x + 1
    <3>3. CASE x < n
          BY <3>1, <3>3
    <3>. QED BY <3>1, <3>2, <3>3
  <2>3. \A y \in T \cup {x} : y < m
        BY <2>1, <2>2
  <2>. QED BY <2>3
<1>. HIDE DEF F
<1>3. SUBSET S \subseteq F
      BY <1>1, <1>2, RecurrenceEnsembles
<1>. QED BY <1>3 DEF F

LEMMA SuiteExiste ==
    ASSUME NEW S, S \subseteq Nat, IsFiniteSet(S)
    PROVE  \E s : SuiteCroissante(S, s)
<1>. DEFINE Sous(n) == {T \in SUBSET Nat : IsFiniteSet(T) /\ \A x \in T : x < n}
            N == {n \in Nat : \A T \in Sous(n) : \E s : SuiteCroissante(T, s)}
<1>1. 0 \in N
  <2>1. ASSUME NEW T \in Sous(0) PROVE \E s : SuiteCroissante(T, s)
    <3>1. T = {}
          OBVIOUS
    <3>2. Cardinality(T) = 0
          BY <3>1, FS_EmptySet
    <3>3. SuiteCroissante(T, [i \in 1..0 |-> 0])
          BY <3>1, <3>2 DEF SuiteCroissante
    <3>. QED BY <3>3
  <2>. QED BY <2>1
<1>2. ASSUME NEW n \in Nat, n \in N PROVE n + 1 \in N
  <2>1. ASSUME NEW T \in Sous(n + 1) PROVE \E s : SuiteCroissante(T, s)
    <3>1. CASE n \notin T
      <4>1. T \in Sous(n)
            BY <3>1
      <4>. QED BY <4>1, <1>2
    <3>2. CASE n \in T
      <4>. DEFINE U == T \ {n}
                  k == Cardinality(U)
      <4>1. U \in Sous(n) /\ IsFiniteSet(U) /\ k \in Nat
            BY FS_RemoveElement, FS_CardinalityType
      <4>2. Cardinality(T) = k + 1
            BY <3>2, <4>1, FS_AddElement, U \cup {n} = T, n \notin U
      <4>3. PICK r : SuiteCroissante(U, r)
            BY <1>2, <4>1
      <4>a. /\ r \in [1..k -> U] /\ \A i, j \in 1..k : i < j => r[i] < r[j]
            /\ U \subseteq T /\ T \subseteq Nat /\ k \in Nat /\ \A x \in U : x < n
            BY <4>1, <4>3 DEF SuiteCroissante
      <4>. HIDE DEF U, k
      <4>. DEFINE s == [i \in 1..(k + 1) |-> IF i = k + 1 THEN n ELSE r[i]]
      <4>4. \A i \in 1..k : i \in 1..(k + 1) /\ i # k + 1
            BY <4>a
      <4>b. \A i \in 1..k : s[i] = r[i] /\ r[i] \in U
            BY <4>4, <4>a
      <4>5. k + 1 \in 1..(k + 1) /\ s[k + 1] = n
            BY <4>a
      <4>c. \A i \in 1..(k + 1) : i # k + 1 => i \in 1..k
            BY <4>a
      <4>6. s \in [1..(k + 1) -> T]
        <5>1. \A i \in 1..(k + 1) : s[i] \in T
              BY <3>2, <4>a, <4>b, <4>5, <4>c
        <5>. QED BY <5>1
      <4>d. \A i \in 1..(k + 1), j \in 1..k : i < j => i \in 1..k
            BY <4>a
      <4>. HIDE DEF s
      <4>7. ASSUME NEW i \in 1..(k + 1), NEW j \in 1..(k + 1), i < j PROVE s[i] < s[j]
        <5>1. CASE j = k + 1
          <6>1. i \in 1..k
                BY <4>a, <4>7, <5>1
          <6>. QED BY <4>a, <4>b, <4>5, <5>1, <6>1
        <5>2. CASE j # k + 1
          <6>1. i \in 1..k /\ j \in 1..k
                BY <4>c, <4>d, <4>7, <5>2
          <6>. QED BY <4>a, <4>b, <4>7, <6>1
        <5>. QED BY <5>1, <5>2
      <4>e. Cardinality(T) = k + 1
            BY <4>2 DEF k
      <4>f. SuiteCroissante(T, s)
            BY <4>6, <4>7, <4>e DEF SuiteCroissante
      <4>. QED BY <4>f
    <3>. QED BY <3>1, <3>2
  <2>. QED BY <2>1
<1>. HIDE DEF N
<1>3. Nat \subseteq N
      BY <1>1, <1>2, Recurrence
<1>4. PICK n \in Nat : \A x \in S : x < n
      BY Bornes
<1>5. S \in Sous(n)
      BY <1>4
<1>. QED BY <1>3, <1>5 DEF N

LEMMA CroissantEnumere ==
    ASSUME NEW S, S \subseteq Nat, IsFiniteSet(S)
    PROVE  /\ Croissant(S) \in Seq(S)
           /\ \A x \in S : \E i \in 1..Len(Croissant(S)) : Croissant(S)[i] = x
<1>. DEFINE s == Croissant(S)
            n == Cardinality(S)
<1>1. SuiteCroissante(S, s)
      BY SuiteExiste DEF SuiteCroissante, Croissant
<1>2. n \in Nat /\ IsFiniteSet(1..n) /\ Cardinality(1..n) = n
      BY FS_CardinalityType, FS_Interval
<1>. HIDE DEF s, n
<1>3. s \in [1..n -> S] /\ \A i, j \in 1..n : i < j => s[i] < s[j]
      BY <1>1 DEF SuiteCroissante, n
<1>4. s \in Injection(1..n, S)
  <2>1. ASSUME NEW i \in 1..n, NEW j \in 1..n, s[i] = s[j] PROVE i = j
    <3>0. s[i] \in S /\ s[j] \in S
          BY <1>3
    <3>1. s[i] \in Nat /\ s[j] \in Nat
          BY <3>0, Zenon
    <3>2. i \in Int /\ j \in Int
          BY <1>2
    <3>3. ~ (i < j) /\ ~ (j < i)
          BY <1>3, <2>1, <3>1
    <3>. QED BY <3>2, <3>3
  <2>. QED BY <1>3, <2>1 DEF Injection, IsInjective
<1>5. s \in Surjection(1..n, S)
      BY <1>2, <1>4, FS_Injection DEF n
<1>6. s \in Seq(S) /\ Len(s) = n
      BY <1>2, <1>3, IsASeq
<1>. QED BY <1>5, <1>6 DEF s, Surjection

LEMMA TableEnumere ==
    ASSUME NEW S, S \subseteq Nat, IsFiniteSet(S), NEW table \in Tables
    PROVE  LET lignes == Table(table, Croissant(S)) IN
           /\ lignes \in Seq(Rangees)
           /\ \A x \in S : \E i \in 1..Len(lignes) : lignes[i] = <<table, x>>
           /\ \A i \in 1..Len(lignes) : lignes[i][1] = table
           /\ \A i \in 1..Len(lignes) : \E x \in S : lignes[i] = <<table, x>>
<1>. DEFINE s == Croissant(S)
            n == Len(s)
            lignes == Table(table, s)
<1>1. s \in Seq(S) /\ \A x \in S : \E i \in 1..n : s[i] = x
      BY CroissantEnumere
<1>2. n \in Nat /\ DOMAIN s = 1..n /\ \A i \in 1..n : s[i] \in S
      BY <1>1, LenProperties, ElementOfSeq
<1>. HIDE DEF s, n
<1>3. lignes = [i \in 1..n |-> <<table, s[i]>>]
      BY <1>2 DEF Table
<1>4. \A i \in 1..n : <<table, s[i]>> \in Rangees
      BY <1>2 DEF Rangees, Cles
<1>. HIDE DEF lignes
<1>6. lignes \in [1..n -> Rangees] /\ \A i \in 1..n : lignes[i] = <<table, s[i]>>
      BY <1>3, <1>4
<1>5. lignes \in Seq(Rangees) /\ Len(lignes) = n
      BY <1>2, <1>6
<1>7. \A x \in S : \E i \in 1..Len(lignes) : lignes[i] = <<table, x>>
      BY <1>1, <1>5, <1>6
<1>8. \A i \in 1..Len(lignes) : \E x \in S : lignes[i] = <<table, x>>
      BY <1>2, <1>5, <1>6
<1>9. \A i \in 1..Len(lignes) : lignes[i][1] = table
      BY <1>8
<1>. QED BY <1>5, <1>7, <1>8, <1>9 DEF lignes, s

-----------------------------------------------------------------------------
(* The queries of each transaction. *)

LEMMA TransactionsTypees ==
    ASSUME NEW t \in Transactions
    PROVE  /\ t.genre \in Genres
           /\ t.genre = "checkout" => t.cible \in Groupes
           /\ t.genre \in {"initier", "valider"} => t.cible \in Paiements
           /\ t.genre \notin {"checkout", "initier", "valider"} => t.cible \in Commandes
BY VerrousOk DEF VerrousOk, Transactions, Cibles

LEMMA PhasesDesGenres ==
    ASSUME NEW t \in Transactions
    PROVE  LET s == Phases(t.genre) IN
           /\ s \in Seq(Noms)
           /\ t.genre = "annuler" =>
                 /\ Len(s) = 8 /\ s[1] = "livraison" /\ s[2] = "commande" /\ s[3] = "relue" /\ s[4] = "groupe"
                 /\ s[5] = "stocks" /\ s[6] = "paiement" /\ s[7] = "reversement" /\ s[8] = "coupon"
           /\ t.genre = "valider" => Len(s) = 2 /\ s[1] = "commandes" /\ s[2] = "paiement"
           /\ t.genre = "checkout" => Len(s) = 3 /\ s[1] = "panier" /\ s[2] = "coupon" /\ s[3] = "stocks"
           /\ t.genre = "initier" => Len(s) = 2 /\ s[1] = "commandes" /\ s[2] = "actifs"
           /\ t.genre \in {"livrer", "contester"} => Len(s) = 2 /\ s[1] = "fiche" /\ s[2] = "reversement"
           /\ t.genre = "demander_retour" => Len(s) = 2 /\ s[1] = "commandes" /\ s[2] = "reversement"
           /\ t.genre = "receptionner" => Len(s) = 2 /\ s[1] = "demande" /\ s[2] = "stocks"
           /\ t.genre = "rembourser" =>
                 Len(s) = 3 /\ s[1] = "demande" /\ s[2] = "paiement" /\ s[3] = "reversement"
<1>1. CASE t.genre = "annuler"
  <2>1. Phases(t.genre) = <<"livraison", "commande", "relue", "groupe", "stocks", "paiement", "reversement", "coupon">>
        BY <1>1 DEF Phases, PhasesAnnuler
  <2>2. Phases(t.genre) \in Seq(Noms)
        BY <2>1 DEF Noms
  <2>. QED BY <1>1, <2>1, <2>2
<1>2. CASE t.genre = "valider"
  <2>1. Phases(t.genre) = <<"commandes", "paiement">>
        BY <1>2 DEF Phases, PhasesValider
  <2>2. Phases(t.genre) \in Seq(Noms)
        BY <2>1 DEF Noms
  <2>. QED BY <1>2, <2>1, <2>2
<1>3. CASE t.genre = "checkout"
  <2>1. Phases(t.genre) = <<"panier", "coupon", "stocks">>
        BY <1>3 DEF Phases
  <2>2. Phases(t.genre) \in Seq(Noms)
        BY <2>1 DEF Noms
  <2>. QED BY <1>3, <2>1, <2>2
<1>4. CASE t.genre = "initier"
  <2>1. Phases(t.genre) = <<"commandes", "actifs">>
        BY <1>4 DEF Phases, PhasesInitier
  <2>2. Phases(t.genre) \in Seq(Noms)
        BY <2>1 DEF Noms
  <2>. QED BY <1>4, <2>1, <2>2
<1>5. CASE t.genre = "livrer"
  <2>1. Phases(t.genre) = <<"fiche", "reversement">>
        BY <1>5 DEF Phases
  <2>2. Phases(t.genre) \in Seq(Noms)
        BY <2>1 DEF Noms
  <2>. QED BY <1>5, <2>1, <2>2
<1>6. CASE t.genre = "contester"
  <2>1. Phases(t.genre) = <<"fiche", "reversement">>
        BY <1>6 DEF Phases
  <2>2. Phases(t.genre) \in Seq(Noms)
        BY <2>1 DEF Noms
  <2>. QED BY <1>6, <2>1, <2>2
<1>7. CASE t.genre = "demander_retour"
  <2>1. Phases(t.genre) = <<"commandes", "reversement">>
        BY <1>7 DEF Phases
  <2>2. Phases(t.genre) \in Seq(Noms)
        BY <2>1 DEF Noms
  <2>. QED BY <1>7, <2>1, <2>2
<1>8. CASE t.genre = "receptionner"
  <2>1. Phases(t.genre) = <<"demande", "stocks">>
        BY <1>8 DEF Phases
  <2>2. Phases(t.genre) \in Seq(Noms)
        BY <2>1 DEF Noms
  <2>. QED BY <1>8, <2>1, <2>2
<1>9. CASE t.genre = "rembourser"
  <2>1. Phases(t.genre) = <<"demande", "paiement", "reversement">>
        BY <1>9 DEF Phases
  <2>2. Phases(t.genre) \in Seq(Noms)
        BY <2>1 DEF Noms
  <2>. QED BY <1>9, <2>1, <2>2
<1>. QED BY <1>1, <1>2, <1>3, <1>4, <1>5, <1>6, <1>7, <1>8, <1>9, TransactionsTypees DEF Genres

LEMMA Ensembles ==
    ASSUME NEW t \in Transactions
    PROVE  /\ CommandesDe(t) \subseteq Commandes
           /\ CommandesDe(t) \subseteq Nat /\ IsFiniteSet(CommandesDe(t))
           /\ UNION {VariantesDe[d] : d \in CommandesDe(t)} \subseteq Nat
           /\ IsFiniteSet(UNION {VariantesDe[d] : d \in CommandesDe(t)})
           /\ \A P \in SUBSET Paiements : P \subseteq Nat /\ IsFiniteSet(P)
<1>1. CommandesDe(t) \subseteq Commandes
      BY VerrousOk, TransactionsTypees DEF VerrousOk, CommandesDe, Genres
<1>2. UNION {VariantesDe[d] : d \in CommandesDe(t)} \subseteq Variantes
  <2>1. \A d \in CommandesDe(t) : VariantesDe[d] \subseteq Variantes
        BY <1>1, VerrousOk DEF VerrousOk
  <2>. QED BY <2>1
<1>3. IsFiniteSet(CommandesDe(t)) /\ IsFiniteSet(UNION {VariantesDe[d] : d \in CommandesDe(t)})
      BY <1>1, <1>2, FS_Subset, VerrousOk DEF VerrousOk
<1>4. \A P \in SUBSET Paiements : P \subseteq Nat /\ IsFiniteSet(P)
      BY FS_Subset, VerrousOk DEF VerrousOk
<1>. QED BY <1>1, <1>2, <1>3, <1>4, VerrousOk DEF VerrousOk

(* The payments a query locks. *)
PaiementsVoulus(t) ==
    CASE t.genre = "valider"    -> {t.cible}
      [] t.genre = "annuler"    -> PaiementsConcernes(t.cible)
      [] t.genre = "rembourser" -> {p \in Paiements : t.cible \in Couvre[p] /\ paiement[p] = "valide"}

LEMMA PhasePossible ==
    ASSUME NEW t \in Transactions, NEW i \in 1..Len(Phases(t.genre))
    PROVE  LET phase == Phases(t.genre)[i] IN
           /\ phase \in Noms
           /\ phase = "panier" => t.genre = "checkout"
           /\ phase \in {"livraison", "commande", "relue", "groupe", "fiche", "demande", "reversement"} =>
                 t.genre \notin {"checkout", "initier", "valider"}
           /\ phase = "paiement" => t.genre \in {"valider", "annuler", "rembourser"}
           /\ phase = "coupon" => t.genre \in {"checkout", "annuler"}
<1>. DEFINE s == Phases(t.genre)
<1>1. CASE t.genre = "annuler"
      BY SMTT(30), <1>1, PhasesDesGenres DEF Noms
<1>2. CASE t.genre = "valider"
      BY <1>2, PhasesDesGenres DEF Noms
<1>3. CASE t.genre = "checkout"
      BY <1>3, PhasesDesGenres DEF Noms
<1>4. CASE t.genre = "initier"
      BY <1>4, PhasesDesGenres DEF Noms
<1>5. CASE t.genre \in {"livrer", "contester"}
      BY <1>5, PhasesDesGenres DEF Noms
<1>6. CASE t.genre = "demander_retour"
      BY <1>6, PhasesDesGenres DEF Noms
<1>7. CASE t.genre = "receptionner"
      BY <1>7, PhasesDesGenres DEF Noms
<1>8. CASE t.genre = "rembourser"
      BY <1>8, PhasesDesGenres DEF Noms
<1>. QED BY <1>1, <1>2, <1>3, <1>4, <1>5, <1>6, <1>7, <1>8, TransactionsTypees DEF Genres

LEMMA UneLigne ==
    ASSUME NEW l \in Rangees
    PROVE  <<l>> \in Seq(Rangees) /\ Len(<<l>>) = 1 /\ <<l>>[1] = l
OBVIOUS

LEMMA AucuneLigne == <<>> \in Seq(Rangees) /\ Len(<<>>) = 0
OBVIOUS

LEMMA Rangs ==
    /\ \A table \in Tables, c \in Commandes : <<table, c>> \in Rangees /\ <<table, GroupeDe[c]>> \in Rangees
                                              /\ <<table, BoutiqueDe[c]>> \in Rangees
    /\ \A table \in Tables, p \in Paiements : <<table, p>> \in Rangees
    /\ \A table \in Tables, g \in Groupes : <<table, g>> \in Rangees
                                            /\ (CouponDe[g] # Aucun => <<table, CouponDe[g]>> \in Rangees)
BY VerrousOk DEF VerrousOk, Rangees, Cles

LEMMA LignesDesPhases ==
    ASSUME NEW t
    PROVE  LET c == t.cible IN
           /\ Lignes(t, "panier") = <<<<"panier", c>>>>
           /\ Lignes(t, "stocks") = Table("stock", Croissant(UNION {VariantesDe[d] : d \in CommandesDe(t)}))
           /\ Lignes(t, "commandes") = Table("commande", Croissant(CommandesDe(t)))
           /\ Lignes(t, "livraison") = Si(fiche[c] # "aucune", <<"livraison", c>>)
           /\ Lignes(t, "commande") = <<<<"commande", c>>>>
           /\ Lignes(t, "actifs") = <<>>
           /\ Lignes(t, "relue") = Si(~ Tient(t, <<"livraison", c>>) /\ fiche[c] # "aucune", <<"livraison", c>>)
           /\ Lignes(t, "groupe") = <<<<"groupe", GroupeDe[c]>>>>
           /\ Lignes(t, "fiche") = <<<<"livraison", c>>, <<"commande", c>>, <<"boutique", BoutiqueDe[c]>>>>
           /\ Lignes(t, "demande") = <<<<"demande", c>>>>
           /\ Lignes(t, "reversement") \in {<<>>, <<<<"reversement", c>>>>}
           /\ Lignes(t, "paiement") = Table("paiement", Croissant(PaiementsVoulus(t)))
           /\ LET g == IF t.genre = "checkout" THEN c ELSE GroupeDe[c]
                  libere == \A d \in Commandes : GroupeDe[d] = g => AnnuleePour(c, d)
              IN Lignes(t, "coupon") =
                    Si(CouponDe[g] # Aucun /\ (t.genre = "checkout" \/ libere), <<"coupon", CouponDe[g]>>)
BY DEF Lignes, PaiementsVoulus, Si

LEMMA LignesType ==
    ASSUME NEW t \in Transactions, NEW i \in 1..Len(Phases(t.genre))
    PROVE  Lignes(t, Phases(t.genre)[i]) \in Seq(Rangees)
<1>1. PICK phase : phase = Phases(t.genre)[i]
      OBVIOUS
<1>. DEFINE c == t.cible
            Normales == {"livraison", "commande", "relue", "groupe", "fiche", "demande", "reversement"}
<1>2. phase \in Noms /\ (phase \in Normales => c \in Commandes)
      BY <1>1, PhasePossible, TransactionsTypees
<1>3. phase = "panier" => Lignes(t, "panier") \in Seq(Rangees)
  <2>1. phase = "panier" => c \in Groupes
        BY <1>1, PhasePossible, TransactionsTypees
  <2>2. phase = "panier" => <<"panier", c>> \in Rangees
        BY <2>1, Rangs DEF Tables
  <2>. QED BY <2>2, UneLigne, LignesDesPhases
<1>4. Lignes(t, "stocks") \in Seq(Rangees)
  <2>1. "stock" \in Tables
        BY DEF Tables
  <2>2. Table("stock", Croissant(UNION {VariantesDe[d] : d \in CommandesDe(t)})) \in Seq(Rangees)
        BY <2>1, Ensembles, TableEnumere
  <2>. QED BY <2>2, LignesDesPhases
<1>5. Lignes(t, "commandes") \in Seq(Rangees)
  <2>1. "commande" \in Tables
        BY DEF Tables
  <2>2. Table("commande", Croissant(CommandesDe(t))) \in Seq(Rangees)
        BY <2>1, Ensembles, TableEnumere
  <2>. QED BY <2>2, LignesDesPhases
<1>6. c \in Commandes => Lignes(t, "livraison") \in Seq(Rangees) /\ Lignes(t, "relue") \in Seq(Rangees)
  <2>1. c \in Commandes => <<"livraison", c>> \in Rangees
        BY Rangs DEF Tables
  <2>. QED BY <2>1, UneLigne, AucuneLigne, LignesDesPhases DEF Si
<1>7. c \in Commandes => Lignes(t, "reversement") \in Seq(Rangees)
  <2>1. c \in Commandes => <<"reversement", c>> \in Rangees
        BY Rangs DEF Tables
  <2>. QED BY <2>1, UneLigne, AucuneLigne, LignesDesPhases DEF Si
<1>8. c \in Commandes => Lignes(t, "commande") \in Seq(Rangees) /\ Lignes(t, "demande") \in Seq(Rangees)
  <2>1. c \in Commandes => <<"commande", c>> \in Rangees /\ <<"demande", c>> \in Rangees
        BY Rangs DEF Tables
  <2>. QED BY <2>1, UneLigne, LignesDesPhases
<1>9. c \in Commandes => Lignes(t, "groupe") \in Seq(Rangees)
  <2>1. c \in Commandes => <<"groupe", GroupeDe[c]>> \in Rangees
        BY Rangs DEF Tables
  <2>. QED BY <2>1, UneLigne, LignesDesPhases
<1>10. Lignes(t, "actifs") \in Seq(Rangees)
       BY AucuneLigne, LignesDesPhases
<1>11. c \in Commandes => Lignes(t, "fiche") \in Seq(Rangees)
  <2>1. c \in Commandes =>
           /\ <<"livraison", c>> \in Rangees /\ <<"commande", c>> \in Rangees
           /\ <<"boutique", BoutiqueDe[c]>> \in Rangees
        BY Rangs DEF Tables
  <2>2. \A k, l, m \in Rangees : <<k, l, m>> \in Seq(Rangees)
        OBVIOUS
  <2>. QED BY <2>1, <2>2, LignesDesPhases
<1>12. phase = "paiement" => Lignes(t, "paiement") \in Seq(Rangees)
  <2>1. phase = "paiement" => t.genre \in {"valider", "annuler", "rembourser"}
        BY <1>1, PhasePossible
  <2>2. phase = "paiement" => PaiementsVoulus(t) \in SUBSET Paiements
        BY <2>1, TransactionsTypees DEF PaiementsVoulus, PaiementsConcernes
  <2>3. "paiement" \in Tables
        BY DEF Tables
  <2>4. phase = "paiement" => PaiementsVoulus(t) \subseteq Nat /\ IsFiniteSet(PaiementsVoulus(t))
        BY <2>2, Ensembles
  <2>5. phase = "paiement" => Table("paiement", Croissant(PaiementsVoulus(t))) \in Seq(Rangees)
        BY <2>3, <2>4, TableEnumere
  <2>. QED BY <2>5, LignesDesPhases
<1>13. phase = "coupon" => Lignes(t, "coupon") \in Seq(Rangees)
  <2>. DEFINE g == IF t.genre = "checkout" THEN t.cible ELSE GroupeDe[c]
              b == CouponDe[g] # Aucun /\ (t.genre = "checkout" \/ \A d \in Commandes : GroupeDe[d] = g => AnnuleePour(c, d))
  <2>1. phase = "coupon" => g \in Groupes
        BY ZenonT(40), <1>1, PhasePossible, TransactionsTypees, VerrousOk DEF VerrousOk
  <2>2. phase = "coupon" /\ CouponDe[g] # Aucun => <<"coupon", CouponDe[g]>> \in Rangees
        BY <2>1, Rangs DEF Tables
  <2>3. Lignes(t, "coupon") = Si(b, <<"coupon", CouponDe[g]>>) /\ (b => CouponDe[g] # Aucun)
        BY LignesDesPhases
  <2>. HIDE DEF g, b
  <2>4. CASE phase = "coupon" /\ b
        BY <2>2, <2>3, <2>4, UneLigne DEF Si
  <2>5. CASE ~ b
        BY <2>3, <2>5, AucuneLigne DEF Si
  <2>. QED BY <2>4, <2>5
<1>14. Lignes(t, phase) \in Seq(Rangees)
       BY <1>2, <1>3, <1>4, <1>5, <1>6, <1>7, <1>8, <1>9, <1>10, <1>11, <1>12, <1>13 DEF Noms
<1>. QED BY <1>1, <1>14

-----------------------------------------------------------------------------
(* Types, exclusion and progress. *)

LEMMA Tete ==
    ASSUME Controle, NEW t \in Transactions, reste[t] # <<>>
    PROVE  LET s == Phases(t.genre)
               n == Len(reste[t])
           IN /\ n \in 1..Len(s) /\ Len(s) \in Nat
              /\ Len(s) - n + 1 \in 1..Len(s)
              /\ Head(reste[t]) = s[Len(s) - n + 1]
              /\ Tail(reste[t]) \in Seq(Noms) /\ Len(Tail(reste[t])) = n - 1
              /\ Fin(s, Tail(reste[t]))
<1>. DEFINE s == Phases(t.genre)
            r == reste[t]
            n == Len(r)
<1>1. r \in Seq(Noms) /\ r # <<>> /\ Fin(s, r)
      BY DEF Controle, TypeTransactions, Avancement
<1>2. Len(s) \in Nat
      BY PhasesDesGenres
<1>. HIDE DEF s, r
<1>3. n \in Nat /\ n # 0 /\ n <= Len(s) /\ 1 \in 1..n
      BY <1>1 DEF Fin
<1>4. Head(r) = r[1] /\ Tail(r) \in Seq(Noms) /\ Len(Tail(r)) = n - 1 /\ \A i \in 1..(n - 1) : Tail(r)[i] = r[i + 1]
      BY <1>1, HeadTailProperties
<1>5. r[1] = s[Len(s) - n + 1]
      BY <1>1, <1>3 DEF Fin
<1>6. Fin(s, Tail(r))
  <2>1. ASSUME NEW i \in 1..(n - 1) PROVE Tail(r)[i] = s[Len(s) - (n - 1) + i]
    <3>1. i + 1 \in 1..n
          BY <1>3
    <3>2. r[i + 1] = s[Len(s) - n + (i + 1)]
          BY <1>1, <3>1 DEF Fin
    <3>3. Len(s) - n + (i + 1) = Len(s) - (n - 1) + i
          BY <1>2, <1>3
    <3>. QED BY <1>4, <3>2, <3>3
  <2>. QED BY <1>2, <1>3, <1>4, <2>1 DEF Fin
<1>7. n \in 1..Len(s) /\ Len(s) - n + 1 \in 1..Len(s)
      BY <1>2, <1>3
<1>. QED BY <1>2, <1>4, <1>5, <1>6, <1>7 DEF s, r

(* The queries of t go on, those of the others do not move. *)
LEMMA ControleInterroger ==
    ASSUME TypeDonnees, Controle, NEW t \in Transactions, Interroger(t)
    PROVE  Controle'
<1>1. /\ etat[t] = "ouverte" /\ reste[t] # <<>>
      /\ aPrendre' = [aPrendre EXCEPT ![t] = Lignes(t, Head(reste[t]))]
      /\ reste' = [reste EXCEPT ![t] = Tail(reste[t])]
      /\ lu' = [lu EXCEPT ![t] = IF Head(reste[t]) \in {"paiement", "actifs"} THEN paiement ELSE @]
      /\ UNCHANGED <<etat, tient>>
      BY DEF Interroger, PretePourLaSuite, Controle, TypeTransactions
<1>2. Lignes(t, Head(reste[t])) \in Seq(Rangees)
      BY <1>1, Tete, LignesType
<1>3. TypeTransactions'
      BY <1>1, <1>2, Tete DEF TypeDonnees, Controle, TypeTransactions
<1>4. Exclusion'
      BY <1>1 DEF Controle, Exclusion
<1>5. Avancement'
  <2>1. ASSUME NEW u \in Transactions
        PROVE  Fin(Phases(u.genre), reste'[u]) /\ (etat'[u] = "repos" => reste'[u] = Phases(u.genre)
                                                     /\ aPrendre'[u] = <<>> /\ tient'[u] = {})
    <3>1. CASE u = t
      <4>1. reste'[t] = Tail(reste[t]) /\ etat'[t] = "ouverte"
            BY <1>1 DEF Controle, TypeTransactions
      <4>. QED BY <1>1, <3>1, <4>1, Tete
    <3>2. CASE u # t
      <4>1. reste'[u] = reste[u] /\ aPrendre'[u] = aPrendre[u] /\ etat'[u] = etat[u] /\ tient'[u] = tient[u]
            BY <1>1, <3>2 DEF Controle, TypeTransactions
      <4>. QED BY <4>1 DEF Controle, Avancement
    <3>. QED BY <3>1, <3>2
  <2>. QED BY <2>1 DEF Avancement
<1>. QED BY <1>3, <1>4, <1>5 DEF Controle

LEMMA ControlePrendre ==
    ASSUME Controle, NEW t \in Transactions, Prendre(t)
    PROVE  /\ Controle'
           /\ \A l : Demande(t, l)' <=> Demande(t, l)
           /\ tient[t] \subseteq tient'[t]
           /\ \A u \in Transactions : u # t => tient'[u] = tient[u] /\ aPrendre'[u] = aPrendre[u]
<1>. DEFINE r == aPrendre[t]
<1>1. /\ etat[t] = "ouverte" /\ r \in Seq(Rangees) /\ r # <<>>
      /\ \A u \in Transactions \ {t} : Head(r) \notin tient[u]
      /\ tient' = [tient EXCEPT ![t] = tient[t] \cup {Head(r)}]
      /\ aPrendre' = [aPrendre EXCEPT ![t] = Tail(r)]
      /\ UNCHANGED <<etat, reste, lu>>
      BY DEF Prendre, Tient, Controle, TypeTransactions
<1>2. /\ Head(r) \in Rangees /\ Tail(r) \in Seq(Rangees) /\ Len(Tail(r)) = Len(r) - 1
      /\ \A i \in 1..Len(Tail(r)) : Tail(r)[i] = r[i + 1]
      /\ Len(r) \in Nat /\ Len(r) # 0 /\ Head(r) = r[1]
      BY <1>1, HeadTailProperties
<1>3. /\ tient'[t] = tient[t] \cup {Head(r)} /\ aPrendre'[t] = Tail(r)
      /\ \A u \in Transactions : u # t => tient'[u] = tient[u] /\ aPrendre'[u] = aPrendre[u]
      BY <1>1 DEF Controle, TypeTransactions
<1>4. TypeTransactions'
      BY <1>1, <1>2 DEF Controle, TypeTransactions
<1>5. Exclusion'
      BY <1>1, <1>3 DEF Controle, Exclusion
<1>6. Avancement'
      BY <1>1, <1>3 DEF Controle, Avancement
<1>7. ASSUME NEW l PROVE Demande(t, l)' <=> Demande(t, l)
  <2>. DEFINE q == Tail(r)
  <2>1. (\E i \in 1..Len(r) : r[i] = l) <=> (l = r[1] \/ \E i \in 1..Len(q) : q[i] = l)
    <3>1. ASSUME NEW i \in 1..Len(r), r[i] = l, i # 1 PROVE \E j \in 1..Len(q) : q[j] = l
      <4>1. i - 1 \in 1..Len(q) /\ (i - 1) + 1 = i
            BY <1>2, <3>1
      <4>2. q[i - 1] = l
            BY <1>2, <3>1, <4>1
      <4>. QED BY <4>1, <4>2
    <3>2. \A i \in 1..Len(q) : i + 1 \in 1..Len(r) /\ q[i] = r[i + 1]
          BY <1>2
    <3>3. 1 \in 1..Len(r)
          BY <1>2
    <3>. QED BY <3>1, <3>2, <3>3
  <2>. QED BY <1>2, <1>3, <2>1 DEF Demande
<1>. QED BY <1>3, <1>4, <1>5, <1>6, <1>7 DEF Controle

LEMMA ControleTerminer ==
    ASSUME Controle, NEW t \in Transactions, etat[t] = "ouverte", Terminer(t)
    PROVE  Controle' /\ etat'[t] = "finie"
<1>1. /\ etat' = [etat EXCEPT ![t] = "finie"] /\ tient' = [tient EXCEPT ![t] = {}]
      /\ UNCHANGED <<reste, aPrendre, lu>>
      BY DEF Terminer
<1>2. TypeTransactions'
      BY <1>1 DEF Controle, TypeTransactions
<1>3. \A u \in Transactions : /\ etat'[u] = IF u = t THEN "finie" ELSE etat[u]
                              /\ tient'[u] = IF u = t THEN {} ELSE tient[u]
      BY <1>1 DEF Controle, TypeTransactions
<1>4. Exclusion' /\ Avancement'
      BY <1>1, <1>3 DEF Controle, Exclusion, Avancement
<1>. QED BY <1>2, <1>3, <1>4 DEF Controle

LEMMA ControleCommencer ==
    ASSUME Controle, NEW t \in Transactions, Commencer(t)
    PROVE  Controle'
<1>1. etat' = [etat EXCEPT ![t] = "ouverte"] /\ UNCHANGED <<reste, aPrendre, tient, lu>>
      BY DEF Commencer
<1>2. TypeTransactions'
      BY <1>1 DEF Controle, TypeTransactions
<1>3. \A u \in Transactions : etat'[u] = IF u = t THEN "ouverte" ELSE etat[u]
      BY <1>1 DEF Controle, TypeTransactions
<1>4. Exclusion' /\ Avancement'
      BY <1>1, <1>3 DEF Controle, Exclusion, Avancement
<1>. QED BY <1>2, <1>4 DEF Controle

-----------------------------------------------------------------------------
(* What is true at a commit. *)

LEMMA AuCommit ==
    ASSUME IInv, NEW t \in Transactions, Commettre(t)
    PROVE  /\ etat[t] = "ouverte" /\ SaitDe(t) /\ ~ Refusee(t) /\ Effet(t) /\ Terminer(t)
           /\ reste[t] = <<>> /\ Len(reste[t]) = 0
           /\ \A l : Demande(t, l) => Tient(t, l)
<1>1. etat[t] = "ouverte" /\ aPrendre[t] = <<>> /\ reste[t] = <<>> /\ ~ Refusee(t) /\ Effet(t) /\ Terminer(t)
      BY DEF Commettre, PretePourLaSuite
<1>2. Len(reste[t]) = 0 /\ Len(aPrendre[t]) = 0
      BY <1>1
<1>. QED BY <1>1, <1>2 DEF IInv, Sait, Demande, Tient

LEMMA CommitValider ==
    ASSUME IInv, NEW t \in Transactions, Commettre(t), t.genre = "valider"
    PROVE  /\ t.cible \in Paiements /\ EffetValider(t)
           /\ \A c \in Couvre[t.cible] : Tient(t, <<"commande", c>>)
           /\ paiement[t.cible] \in {"en_attente", "annule"}
<1>1. SaitValider(t) /\ ~ Refusee(t) /\ EffetValider(t)
      BY AuCommit DEF SaitDe, Effet
<1>. QED BY <1>1, AuCommit, TransactionsTypees DEF SaitValider, Refusee

LEMMA CommitInitier ==
    ASSUME IInv, NEW t \in Transactions, Commettre(t), t.genre = "initier"
    PROVE  /\ t.cible \in Paiements /\ EffetInitier(t)
           /\ \A c \in Couvre[t.cible] : Tient(t, <<"commande", c>>) /\ statut[c] = "creee"
           /\ \A p \in Paiements : Couvre[p] \cap Couvre[t.cible] # {} => paiement[p] \notin Actifs
<1>1. SaitInitier(t) /\ ~ Refusee(t) /\ EffetInitier(t)
      BY AuCommit DEF SaitDe, Effet
<1>. QED BY <1>1, AuCommit, TransactionsTypees DEF SaitInitier, Refusee, Actifs

LEMMA CommitLivrer ==
    ASSUME IInv, NEW t \in Transactions, Commettre(t), t.genre = "livrer"
    PROVE  /\ t.cible \in Commandes /\ EffetLivrer(t)
           /\ Tient(t, <<"commande", t.cible>>)
           /\ \/ fiche[t.cible] = "en_attente" /\ statut[t.cible] = "confirmee"
              \/ fiche[t.cible] = "partie" /\ statut[t.cible] = "expediee"
<1>1. SaitLivrer(t) /\ ~ Refusee(t) /\ EffetLivrer(t)
      BY AuCommit DEF SaitDe, Effet
<1>2. Tient(t, <<"livraison", t.cible>>) /\ Tient(t, <<"commande", t.cible>>)
      BY <1>1, AuCommit DEF SaitLivrer
<1>3. \/ fiche[t.cible] = "en_attente" /\ statut[t.cible] = "confirmee"
      \/ fiche[t.cible] = "partie" /\ statut[t.cible] = "expediee"
      BY <1>1, <1>2 DEF Refusee
<1>. QED BY <1>1, <1>2, <1>3, TransactionsTypees

LEMMA CommitCheckout ==
    ASSUME IInv, NEW t \in Transactions, Commettre(t), t.genre = "checkout"
    PROVE  /\ t.cible \in Groupes /\ EffetCheckout(t)
           /\ \A d \in CommandesDe(t) : statut[d] = "absente"
           /\ CommandesDe(t) = {d \in Commandes : GroupeDe[d] = t.cible}
<1>1. SaitCheckout(t) /\ ~ Refusee(t) /\ EffetCheckout(t)
      BY AuCommit DEF SaitDe, Effet
<1>2. Tient(t, <<"panier", t.cible>>)
      BY <1>1, AuCommit DEF SaitCheckout
<1>3. \A d \in CommandesDe(t) : statut[d] = "absente"
      BY <1>1, <1>2 DEF Refusee
<1>4. CommandesDe(t) = {d \in Commandes : GroupeDe[d] = t.cible}
      BY DEF CommandesDe
<1>. QED BY <1>1, <1>3, <1>4, TransactionsTypees

LEMMA CommitAnnuler ==
    ASSUME IInv, NEW t \in Transactions, Commettre(t), t.genre = "annuler"
    PROVE  /\ t.cible \in Commandes /\ EffetAnnuler(t)
           /\ Tient(t, <<"commande", t.cible>>) /\ Tient(t, <<"groupe", GroupeDe[t.cible]>>)
           /\ fiche[t.cible] # "aucune" => Tient(t, <<"livraison", t.cible>>)
           /\ PaiementsLus(t) /\ CouponLu(t)
<1>1. SaitAnnuler(t) /\ EffetAnnuler(t)
      BY AuCommit DEF SaitDe, Effet
<1>. QED BY <1>1, AuCommit, TransactionsTypees DEF SaitAnnuler

LEMMA CommitAutre ==
    ASSUME IInv, NEW t \in Transactions, Commettre(t),
           t.genre \notin {"valider", "initier", "livrer", "checkout", "annuler"}
    PROVE  UNCHANGED donnees
BY AuCommit DEF Effet

-----------------------------------------------------------------------------
(* What a commit cannot write without holding the rows the others rely on. *)

Ecritures(t) ==
    /\ \A c \in Commandes : statut[c] = "annulee" => statut'[c] = "annulee"
    /\ \A c \in Commandes : statut'[c] = "annulee" /\ statut[c] # "annulee" =>
          t.genre = "annuler" /\ c = t.cible /\ Tient(t, <<"groupe", GroupeDe[c]>>)
    /\ \A c \in Commandes : fiche'[c] # "aucune" /\ fiche[c] = "aucune" => Tient(t, <<"commande", c>>)
    /\ \A p \in Paiements : paiement'[p] \in Actifs /\ paiement'[p] # paiement[p] =>
          \A c \in Couvre[p] : Tient(t, <<"commande", c>>)

LEMMA EcrituresCommit ==
    ASSUME IInv, NEW t \in Transactions, Commettre(t)
    PROVE  TypeDonnees' /\ Ecritures(t)
<1>0. TypeDonnees
      BY DEF IInv
<1>1. CASE t.genre = "valider"
  <2>1. \A c \in Couvre[t.cible] : c \in Commandes
        BY <1>1, CommitValider, VerrousOk DEF VerrousOk
  <2>. QED BY <1>0, <1>1, <2>1, CommitValider
           DEF EffetValider, TypeDonnees, Ecritures, StatutsCommande, StatutsFiche, StatutsPaiement
<1>2. CASE t.genre = "initier"
      BY <1>0, <1>2, CommitInitier
      DEF EffetInitier, TypeDonnees, Ecritures, StatutsCommande, StatutsFiche, StatutsPaiement
<1>3. CASE t.genre = "livrer"
      BY ZenonT(40), <1>0, <1>3, CommitLivrer
      DEF EffetLivrer, TypeDonnees, Ecritures, StatutsCommande, StatutsFiche, StatutsPaiement
<1>4. CASE t.genre = "checkout"
      BY <1>0, <1>4, CommitCheckout
      DEF EffetCheckout, TypeDonnees, Ecritures, StatutsCommande, StatutsFiche, StatutsPaiement
<1>5. CASE t.genre = "annuler"
  <2>. DEFINE c == t.cible
              tenus == {p \in Paiements : Tient(t, <<"paiement", p>>)}
  <2>1. /\ c \in Commandes /\ c \in DOMAIN statut /\ c \in DOMAIN fiche
        /\ statut' = [statut EXCEPT ![c] = "annulee"]
        /\ fiche' = IF Tient(t, <<"livraison", c>>) THEN [fiche EXCEPT ![c] = "annulee"] ELSE fiche
        /\ \A p \in Paiements : paiement'[p] = paiement[p] \/ paiement'[p] = "annule"
        /\ paiement' \in [Paiements -> StatutsPaiement]
        /\ utilise' \subseteq utilise
        /\ Tient(t, <<"groupe", GroupeDe[c]>>) /\ Tient(t, <<"commande", c>>)
        BY <1>0, <1>5, CommitAnnuler DEF EffetAnnuler, TypeDonnees, StatutsPaiement
  <2>2. rembourse' \subseteq Paiements \X Commandes
    <3>1. rembourse' = rembourse \cup {<<p, c>> : p \in {q \in tenus : lu[t][q] = "valide"}}
          BY <1>5, CommitAnnuler DEF EffetAnnuler
    <3>2. \A p \in {q \in tenus : lu[t][q] = "valide"} : <<p, c>> \in Paiements \X Commandes
          BY <2>1
    <3>3. rembourse \subseteq Paiements \X Commandes
          BY <1>0 DEF TypeDonnees
    <3>. HIDE DEF tenus
    <3>. QED BY <3>1, <3>2, <3>3
  <2>3. TypeDonnees'
        BY <1>0, <2>1, <2>2 DEF TypeDonnees, StatutsCommande, StatutsFiche
  <2>4. Ecritures(t)
        BY <1>0, <1>5, <2>1 DEF TypeDonnees, Ecritures, Actifs
  <2>. QED BY <2>3, <2>4
<1>6. CASE t.genre \notin {"valider", "initier", "livrer", "checkout", "annuler"}
      BY <1>0, <1>6, CommitAutre DEF donnees, TypeDonnees, Ecritures
<1>. QED BY <1>1, <1>2, <1>3, <1>4, <1>5, <1>6

(* A commit does not change what another open transaction knows. *)
LEMMA Interference ==
    ASSUME IInv, NEW t \in Transactions, Commettre(t), NEW u \in Transactions, u # t, etat[u] = "ouverte"
    PROVE  SaitDe(u)'
<1>1. Ecritures(t) /\ SaitDe(u)
      BY EcrituresCommit DEF IInv, Sait
<1>2. reste'[u] = reste[u] /\ aPrendre'[u] = aPrendre[u] /\ lu'[u] = lu[u] /\ tient'[u] = tient[u]
      BY AuCommit DEF Terminer, IInv, Controle, TypeTransactions
<1>3. \A l : (Demande(u, l)' <=> Demande(u, l)) /\ (Tient(u, l)' <=> Tient(u, l))
      BY <1>2 DEF Demande, Tient
<1>4. \A l : ~ (Tient(t, l) /\ Tient(u, l))
      BY DEF IInv, Controle, Exclusion, Tient
<1>5. CASE u.genre = "annuler"
  <2>. DEFINE c == u.cible
  <2>1. SaitAnnuler(u) /\ c \in Commandes
        BY <1>1, <1>5, TransactionsTypees DEF SaitDe
  <2>2. \A d \in Commandes : AnnuleePour(c, d) => AnnuleePour(c, d)'
        BY <1>1 DEF AnnuleePour, Ecritures
  <2>3. \A d \in Commandes :
           Tient(u, <<"groupe", GroupeDe[c]>>) /\ GroupeDe[d] = GroupeDe[c] /\ AnnuleePour(c, d)' => AnnuleePour(c, d)
        BY <1>1, <1>4 DEF AnnuleePour, Ecritures
  <2>4. Tient(u, <<"commande", c>>) /\ fiche'[c] # "aucune" => fiche[c] # "aucune"
        BY <1>1, <1>4, <2>1 DEF Ecritures
  <2>5. ASSUME Tient(u, <<"commande", c>>), Tient(u, <<"groupe", GroupeDe[c]>>), PaiementsLus(u)
        PROVE  PaiementsLus(u)'
    <3>1. ASSUME NEW p \in Paiements, c \in Couvre[p] PROVE paiement'[p] \in Actifs => paiement'[p] = paiement[p]
          BY <1>1, <1>4, <2>5, <3>1 DEF Ecritures
    <3>2. \A p \in Paiements : c \in Couvre[p] => \A d \in Couvre[p] : d \in Commandes /\ GroupeDe[d] = GroupeDe[c]
          BY VerrousOk DEF VerrousOk
    <3>. QED BY <1>2, <1>3, <2>2, <2>3, <2>5, <3>1, <3>2 DEF PaiementsLus, Actifs
  <2>6. ASSUME Tient(u, <<"groupe", GroupeDe[c]>>), CouponLu(u) PROVE CouponLu(u)'
        BY <1>2, <1>3, <2>3, <2>6 DEF CouponLu
  <2>7. Len(reste[u]) \in Nat
        BY DEF IInv, Controle, TypeTransactions
  <2>8. SaitAnnuler(u)'
        BY <1>2, <1>3, <2>1, <2>4, <2>5, <2>6, <2>7 DEF SaitAnnuler
  <2>. QED BY <1>5, <2>8 DEF SaitDe
<1>6. CASE u.genre = "initier"
  <2>1. SaitInitier(u)
        BY <1>1, <1>6 DEF SaitDe
  <2>2. ASSUME NEW p \in Paiements, Couvre[p] \cap Couvre[u.cible] # {}, Len(reste[u]) = 0,
               paiement'[p] \in Actifs
        PROVE  paiement'[p] = paiement[p]
        BY <1>1, <1>4, <2>1, <2>2 DEF SaitInitier, Ecritures
  <2>3. SaitInitier(u)'
        BY <1>2, <1>3, <2>1, <2>2 DEF SaitInitier
  <2>. QED BY <1>6, <2>3 DEF SaitDe
<1>7. CASE u.genre \notin {"annuler", "initier"}
      BY <1>1, <1>2, <1>3, <1>7 DEF SaitDe, SaitCheckout, SaitValider, SaitLivrer
<1>. QED BY <1>5, <1>6, <1>7

-----------------------------------------------------------------------------
(* The committed data stay right. *)

LEMMA JusteAnnuler ==
    ASSUME IInv, NEW t \in Transactions, Commettre(t), t.genre = "annuler"
    PROVE  DonneesJustes'
<1>. DEFINE c == t.cible
            g == GroupeDe[c]
            Tenu(p) == Tient(t, <<"paiement", p>>)
<1>a. /\ c \in Commandes /\ statut' = [statut EXCEPT ![c] = "annulee"]
      /\ fiche' = IF Tient(t, <<"livraison", c>>) THEN [fiche EXCEPT ![c] = "annulee"] ELSE fiche
      BY CommitAnnuler DEF EffetAnnuler
<1>b. statut \in [Commandes -> StatutsCommande] /\ fiche \in [Commandes -> StatutsFiche]
      BY DEF IInv, TypeDonnees
<1>c. \A d \in Commandes : statut'[d] = IF d = c THEN "annulee" ELSE statut[d]
      BY <1>a, <1>b
<1>d. \A d \in Commandes : fiche'[d] = IF d = c /\ Tient(t, <<"livraison", c>>) THEN "annulee" ELSE fiche[d]
      BY <1>a, <1>b
<1>e. g \in Groupes
      BY <1>a, VerrousOk DEF VerrousOk
<1>f. fiche[c] # "aucune" => Tient(t, <<"livraison", c>>)
      BY CommitAnnuler
<1>1. /\ c \in Commandes /\ g \in Groupes
      /\ \A d \in Commandes : statut'[d] = IF d = c THEN "annulee" ELSE statut[d]
      /\ \A d \in Commandes : fiche'[d] = IF d = c /\ Tient(t, <<"livraison", c>>) THEN "annulee" ELSE fiche[d]
      /\ fiche[c] # "aucune" => Tient(t, <<"livraison", c>>)
      BY <1>a, <1>c, <1>d, <1>e, <1>f
<1>2. \A p \in Paiements :
         paiement'[p] = IF Tenu(p) /\ lu[t][p] = "en_attente" /\ paiement[p] = "en_attente" THEN "annule"
                        ELSE paiement[p]
      BY ZenonT(40), CommitAnnuler DEF EffetAnnuler
<1>3. /\ \A p \in Paiements : Tenu(p) /\ lu[t][p] = "valide" => <<p, c>> \in rembourse'
      /\ rembourse \subseteq rembourse'
      BY CommitAnnuler DEF EffetAnnuler
<1>4. utilise' = IF Tient(t, <<"coupon", CouponDe[g]>>) THEN utilise \ {g} ELSE utilise
      BY CommitAnnuler DEF EffetAnnuler
<1>5. \A p \in Paiements :
         /\ Tenu(p) => c \in Couvre[p] /\ lu[t][p] \in Actifs
                       /\ (lu[t][p] = "en_attente" => \A d \in Couvre[p] : AnnuleePour(c, d))
         /\ c \in Couvre[p] /\ paiement[p] = "valide" => lu[t][p] = "valide" /\ Tenu(p)
         /\ c \in Couvre[p] /\ paiement[p] = "en_attente" /\ (\A d \in Couvre[p] : AnnuleePour(c, d)) =>
               lu[t][p] = "en_attente" /\ Tenu(p)
      BY CommitAnnuler, AuCommit DEF PaiementsLus, Demande, Tient
<1>6. CouponDe[g] # Aucun /\ (\A d \in Commandes : GroupeDe[d] = g => AnnuleePour(c, d)) =>
         Tient(t, <<"coupon", CouponDe[g]>>)
      BY CommitAnnuler, AuCommit DEF CouponLu
<1>7. \A p \in Paiements : \A d \in Couvre[p] : d \in Commandes
      BY VerrousOk DEF VerrousOk
<1>8. DonneesJustes
      BY DEF IInv
<1>. HIDE DEF c, g, Tenu
<1>9. UnSeulOuvert'
      BY <1>2, <1>8 DEF DonneesJustes, UnSeulOuvert
<1>10. CloseParAnnulation'
  <2>. SUFFICES ASSUME NEW p \in Paiements, paiement'[p] = "annule", NEW d \in Couvre[p]
                PROVE  statut'[d] = "annulee"
       BY DEF CloseParAnnulation
  <2>1. CASE paiement[p] = "annule"
        BY <1>1, <1>7, <1>8, <2>1 DEF DonneesJustes, CloseParAnnulation
  <2>2. CASE paiement[p] # "annule"
    <3>1. AnnuleePour(c, d)
          BY <1>2, <1>5, <2>2
    <3>. QED BY <1>1, <1>7, <3>1 DEF AnnuleePour
  <2>. QED BY <2>1, <2>2
<1>11. CouponUtilise'
       BY <1>4, <1>8 DEF DonneesJustes, CouponUtilise
<1>12. AnnuleeSansFiche'
       BY <1>1, <1>8 DEF DonneesJustes, AnnuleeSansFiche
<1>13. AnnuleeRemboursee'
  <2>. SUFFICES ASSUME NEW p \in Paiements, NEW d \in Couvre[p], paiement'[p] = "valide", statut'[d] = "annulee"
                PROVE  <<p, d>> \in rembourse'
       BY DEF AnnuleeRemboursee
  <2>1. paiement[p] = "valide"
        BY <1>2
  <2>2. CASE d = c
        BY <1>3, <1>5, <2>1, <2>2
  <2>3. CASE d # c
        BY <1>1, <1>3, <1>7, <1>8, <2>1, <2>3 DEF DonneesJustes, AnnuleeRemboursee
  <2>. QED BY <2>2, <2>3
<1>14. DerniereAnnulationFinalise'
  <2>1. ASSUME NEW p \in Paiements, \A d \in Couvre[p] : statut'[d] = "annulee", paiement'[p] = "en_attente"
        PROVE  FALSE
    <3>1. paiement[p] = "en_attente" /\ ~ (Tenu(p) /\ lu[t][p] = "en_attente")
          BY <1>2, <2>1
    <3>2. \A d \in Couvre[p] : AnnuleePour(c, d)
          BY <1>1, <1>7, <2>1 DEF AnnuleePour
    <3>3. c \notin Couvre[p]
          BY <1>5, <3>1, <3>2
    <3>4. \A d \in Couvre[p] : statut[d] = "annulee"
          BY <3>2, <3>3 DEF AnnuleePour
    <3>. QED BY <1>8, <3>1, <3>4 DEF DonneesJustes, DerniereAnnulationFinalise
  <2>2. ASSUME NEW h \in utilise' PROVE \E d \in Commandes : GroupeDe[d] = h /\ statut'[d] # "annulee"
    <3>1. h \in utilise
          BY <1>4
    <3>2. CASE h = g
      <4>1. CouponDe[g] # Aucun /\ ~ Tient(t, <<"coupon", CouponDe[g]>>)
            BY <1>4, <1>8, <3>1, <3>2 DEF DonneesJustes, CouponUtilise
      <4>2. PICK d \in Commandes : GroupeDe[d] = g /\ ~ AnnuleePour(c, d)
            BY <1>6, <4>1
      <4>. QED BY <1>1, <3>2, <4>2 DEF AnnuleePour
    <3>3. CASE h # g
      <4>1. PICK d \in Commandes : GroupeDe[d] = h /\ statut[d] # "annulee"
            BY <1>8, <3>1 DEF DonneesJustes, DerniereAnnulationFinalise
      <4>2. d # c
            BY <3>3, <4>1 DEF g
      <4>. QED BY <1>1, <4>1, <4>2
    <3>. QED BY <3>2, <3>3
  <2>. QED BY <2>1, <2>2 DEF DerniereAnnulationFinalise
<1>. QED BY <1>9, <1>10, <1>11, <1>12, <1>13, <1>14 DEF DonneesJustes

(* The others cancel nothing. *)
LEMMA JusteSansAnnuler ==
    ASSUME IInv, NEW t \in Transactions, Commettre(t), t.genre # "annuler"
    PROVE  DonneesJustes'
<1>1. DonneesJustes /\ TypeDonnees /\ Ecritures(t)
      BY EcrituresCommit DEF IInv
<1>2. \A c \in Commandes : statut'[c] = "annulee" <=> statut[c] = "annulee"
      BY <1>1 DEF Ecritures
<1>3. \A p \in Paiements : Couvre[p] \subseteq Commandes /\ Couvre[p] # {}
      BY VerrousOk DEF VerrousOk
<1>4. CASE t.genre = "valider"
  <2>. DEFINE p == t.cible
  <2>1. /\ p \in Paiements /\ paiement[p] # "aucun"
        /\ \A q \in Paiements : paiement'[q] = IF q = p THEN "valide" ELSE paiement[q]
        /\ \A c \in Commandes : fiche'[c] = fiche[c] \/ statut[c] = "creee"
        /\ \A c \in Couvre[p] : statut'[c] = "annulee" => <<p, c>> \in rembourse'
        /\ rembourse \subseteq rembourse' /\ utilise' = utilise
        BY <1>1, <1>2, <1>3, <1>4, CommitValider DEF EffetValider, TypeDonnees
  <2>. HIDE DEF p
  <2>2. UnSeulOuvert' /\ CouponUtilise'
        BY <1>1, <2>1 DEF DonneesJustes, UnSeulOuvert, CouponUtilise
  <2>3. CloseParAnnulation' /\ AnnuleeSansFiche' /\ AnnuleeRemboursee'
        BY <1>1, <1>2, <1>3, <2>1 DEF DonneesJustes, CloseParAnnulation, AnnuleeSansFiche, AnnuleeRemboursee
  <2>4. DerniereAnnulationFinalise'
        BY <1>1, <1>2, <1>3, <2>1 DEF DonneesJustes, DerniereAnnulationFinalise
  <2>. QED BY <2>2, <2>3, <2>4 DEF DonneesJustes
<1>5. CASE t.genre = "initier"
  <2>. DEFINE p == t.cible
  <2>1. /\ p \in Paiements
        /\ \A q \in Paiements : paiement'[q] = IF q = p THEN "en_attente" ELSE paiement[q]
        /\ \A c \in Couvre[p] : statut[c] = "creee"
        /\ \A q \in Paiements : Couvre[q] \cap Couvre[p] # {} => paiement[q] \notin Actifs
        /\ UNCHANGED <<statut, fiche, utilise, rembourse>>
        BY <1>1, <1>5, CommitInitier DEF EffetInitier, TypeDonnees
  <2>. HIDE DEF p
  <2>2. ASSUME NEW q \in Paiements, Couvre[q] \cap Couvre[p] # {} PROVE paiement[q] = "aucun"
        BY <1>1, <2>1, <2>2 DEF TypeDonnees, StatutsPaiement, Actifs, DonneesJustes, CloseParAnnulation
  <2>3. UnSeulOuvert'
        BY <1>1, <2>1, <2>2 DEF DonneesJustes, UnSeulOuvert, SeRecouvrent
  <2>4. CouponUtilise' /\ CloseParAnnulation' /\ AnnuleeSansFiche' /\ AnnuleeRemboursee'
        BY <1>1, <1>2, <1>3, <2>1
        DEF DonneesJustes, CouponUtilise, CloseParAnnulation, AnnuleeSansFiche, AnnuleeRemboursee
  <2>5. DerniereAnnulationFinalise'
        BY <1>1, <1>3, <2>1 DEF DonneesJustes, DerniereAnnulationFinalise
  <2>. QED BY <2>3, <2>4, <2>5 DEF DonneesJustes
<1>6. CASE t.genre = "livrer"
  <2>. DEFINE c == t.cible
  <2>1. /\ c \in Commandes /\ statut[c] # "annulee"
        /\ \A d \in Commandes : d # c => fiche'[d] = fiche[d]
        /\ UNCHANGED <<paiement, utilise, rembourse>>
        BY <1>1, <1>6, CommitLivrer DEF EffetLivrer, TypeDonnees
  <2>. HIDE DEF c
  <2>2. /\ UnSeulOuvert' /\ CouponUtilise' /\ CloseParAnnulation'
        /\ AnnuleeSansFiche' /\ AnnuleeRemboursee' /\ DerniereAnnulationFinalise'
        BY <1>1, <1>2, <1>3, <2>1
        DEF DonneesJustes, UnSeulOuvert, CouponUtilise, CloseParAnnulation, AnnuleeSansFiche,
            AnnuleeRemboursee, DerniereAnnulationFinalise
  <2>. QED BY <2>2 DEF DonneesJustes
<1>7. CASE t.genre = "checkout"
  <2>. DEFINE g == t.cible
  <2>1. /\ g \in Groupes
        /\ UNCHANGED <<fiche, paiement, rembourse>>
        /\ utilise' = IF CouponDe[g] = Aucun THEN utilise ELSE utilise \cup {g}
        /\ \A c \in Commandes : GroupeDe[c] = g => statut[c] = "absente"
        BY <1>7, CommitCheckout DEF EffetCheckout
  <2>2. PICK c \in Commandes : GroupeDe[c] = g
        BY <2>1, VerrousOk DEF VerrousOk
  <2>. HIDE DEF g
  <2>3. /\ UnSeulOuvert' /\ CouponUtilise' /\ CloseParAnnulation'
        /\ AnnuleeSansFiche' /\ AnnuleeRemboursee'
        BY <1>1, <1>2, <1>3, <2>1
        DEF DonneesJustes, UnSeulOuvert, CouponUtilise, CloseParAnnulation, AnnuleeSansFiche, AnnuleeRemboursee
  <2>4. statut'[c] # "annulee"
        BY <1>2, <2>1, <2>2
  <2>5. DerniereAnnulationFinalise'
        BY <1>1, <1>2, <1>3, <2>1, <2>2, <2>4 DEF DonneesJustes, DerniereAnnulationFinalise
  <2>. QED BY <2>3, <2>5 DEF DonneesJustes
<1>8. CASE t.genre \notin {"valider", "initier", "livrer", "checkout", "annuler"}
  <2>1. UNCHANGED <<statut, fiche, paiement, utilise, rembourse>>
        BY <1>8, CommitAutre DEF donnees
  <2>. QED BY <1>1, <2>1
       DEF DonneesJustes, UnSeulOuvert, CouponUtilise, CloseParAnnulation, AnnuleeSansFiche,
           AnnuleeRemboursee, DerniereAnnulationFinalise
<1>. QED BY <1>4, <1>5, <1>6, <1>7, <1>8

-----------------------------------------------------------------------------
(* What a transaction knows after a step of its own. *)

(* A row is among the rows of a query. *)
Parmi(ligne, lignes) == \E i \in 1..Len(lignes) : lignes[i] = ligne

LEMMA ParmiUne == \A k, l : Parmi(k, <<l>>) <=> k = l
BY DEF Parmi

LEMMA ParmiAucune == \A k : ~ Parmi(k, <<>>)
BY DEF Parmi

LEMMA ParmiSi ==
    ASSUME NEW k, NEW l, NEW condition
    PROVE  /\ Parmi(k, Si(condition, l)) => k = l
           /\ condition => Parmi(l, Si(condition, l))
BY ParmiUne, ParmiAucune DEF Si

LEMMA Requete ==
    ASSUME TypeDonnees, Controle, NEW t \in Transactions, Interroger(t)
    PROVE  LET s == Phases(t.genre)
               n == Len(reste[t])
               phase == s[Len(s) - n + 1]
           IN /\ n \in 1..Len(s) /\ Len(reste'[t]) = n - 1 /\ UNCHANGED donnees
              /\ phase \in {"paiement", "actifs"} => lu'[t] = paiement
              /\ phase \notin {"paiement", "actifs"} => lu'[t] = lu[t]
              /\ \A l : Tient(t, l)' <=> Tient(t, l)
              /\ \A l : Demande(t, l) <=> Tient(t, l)
              /\ \A l : Demande(t, l)' <=> Tient(t, l) \/ Parmi(l, Lignes(t, phase))
<1>1. /\ aPrendre[t] = <<>> /\ reste[t] # <<>>
      /\ aPrendre' = [aPrendre EXCEPT ![t] = Lignes(t, Head(reste[t]))]
      /\ reste' = [reste EXCEPT ![t] = Tail(reste[t])]
      /\ lu' = [lu EXCEPT ![t] = IF Head(reste[t]) \in {"paiement", "actifs"} THEN paiement ELSE lu[t]]
      /\ UNCHANGED donnees /\ tient' = tient
      BY DEF Interroger, PretePourLaSuite
<1>2. /\ aPrendre'[t] = Lignes(t, Head(reste[t])) /\ reste'[t] = Tail(reste[t])
      /\ lu'[t] = IF Head(reste[t]) \in {"paiement", "actifs"} THEN paiement ELSE lu[t]
      BY <1>1 DEF Controle, TypeTransactions
<1>3. \A l : Demande(t, l) <=> Tient(t, l)
      BY <1>1 DEF Demande, Tient
<1>4. \A l : Tient(t, l)' <=> Tient(t, l)
      BY <1>1 DEF Tient
<1>5. \A l : Demande(t, l)' <=> Tient(t, l) \/ Parmi(l, Lignes(t, Head(reste[t])))
      BY <1>1, <1>2 DEF Demande, Tient, Parmi
<1>6. /\ Len(reste[t]) \in 1..Len(Phases(t.genre))
      /\ Head(reste[t]) = Phases(t.genre)[Len(Phases(t.genre)) - Len(reste[t]) + 1]
      /\ Len(Tail(reste[t])) = Len(reste[t]) - 1
      BY <1>1, Tete
<1>. QED BY <1>1, <1>2, <1>3, <1>4, <1>5, <1>6

LEMMA TableParmi ==
    ASSUME NEW S, S \subseteq Nat, IsFiniteSet(S), NEW table \in Tables
    PROVE  LET lignes == Table(table, Croissant(S)) IN
           /\ \A x : Parmi(<<table, x>>, lignes) <=> x \in S
           /\ \A autre, x : autre # table => ~ Parmi(<<autre, x>>, lignes)
<1>. DEFINE lignes == Table(table, Croissant(S))
<1>1. /\ \A x \in S : \E i \in 1..Len(lignes) : lignes[i] = <<table, x>>
      /\ \A i \in 1..Len(lignes) : \E x \in S : lignes[i] = <<table, x>>
      BY ZenonT(40), TableEnumere
<1>. HIDE DEF lignes
<1>2. ASSUME NEW autre, NEW x, Parmi(<<autre, x>>, lignes) PROVE autre = table /\ x \in S
  <2>1. PICK i \in 1..Len(lignes) : lignes[i] = <<autre, x>>
        BY <1>2 DEF Parmi
  <2>2. PICK y \in S : lignes[i] = <<table, y>>
        BY <1>1
  <2>. QED BY <2>1, <2>2
<1>3. \A x \in S : Parmi(<<table, x>>, lignes)
      BY <1>1 DEF Parmi
<1>4. /\ \A x : Parmi(<<table, x>>, lignes) <=> x \in S
      /\ \A autre, x : autre # table => ~ Parmi(<<autre, x>>, lignes)
      BY <1>2, <1>3
<1>. QED BY <1>4 DEF lignes

(* The orders of a payment, locked in the order of their keys, are all of them. *)
LEMMA CommandesEnumerees ==
    ASSUME NEW t \in Transactions, t.genre \in {"initier", "valider"}
    PROVE  \A c \in Couvre[t.cible] : Parmi(<<"commande", c>>, Lignes(t, "commandes"))
<1>1. PICK S : S = CommandesDe(t)
      OBVIOUS
<1>2. S = Couvre[t.cible]
      BY <1>1 DEF CommandesDe
<1>3. S \subseteq Nat /\ IsFiniteSet(S) /\ "commande" \in Tables
      BY <1>1, Ensembles DEF Tables
<1>4. Lignes(t, "commandes") = Table("commande", Croissant(S))
      BY <1>1, LignesDesPhases
<1>5. \A c : Parmi(<<"commande", c>>, Table("commande", Croissant(S))) <=> c \in S
      BY <1>3, TableParmi
<1>. QED BY <1>2, <1>4, <1>5

LEMMA PaiementsEnumeres ==
    ASSUME NEW t \in Transactions, t.genre \in {"annuler", "valider"}
    PROVE  \A p : Parmi(<<"paiement", p>>, Lignes(t, "paiement")) <=> p \in PaiementsVoulus(t)
<1>1. PICK S : S = PaiementsVoulus(t)
      OBVIOUS
<1>2. S \in SUBSET Paiements
      BY <1>1, TransactionsTypees DEF PaiementsVoulus, PaiementsConcernes
<1>3. S \subseteq Nat /\ IsFiniteSet(S) /\ "paiement" \in Tables
      BY <1>2, Ensembles DEF Tables
<1>4. Lignes(t, "paiement") = Table("paiement", Croissant(S))
      BY <1>1, LignesDesPhases
<1>5. \A p : Parmi(<<"paiement", p>>, Table("paiement", Croissant(S))) <=> p \in S
      BY <1>3, TableParmi
<1>. QED BY <1>1, <1>4, <1>5

(* The cancellation locks a payment in one query only. *)
LEMMA PaiementsAilleurs ==
    ASSUME NEW t \in Transactions, NEW p,
           NEW phase \in {"livraison", "commande", "relue", "groupe", "stocks", "reversement", "coupon"}
    PROVE  ~ Parmi(<<"paiement", p>>, Lignes(t, phase))
<1>. DEFINE l == <<"paiement", p>>
<1>1. \A table, k : table # "paiement" => <<table, k>> # l
      OBVIOUS
<1>2. ~ Parmi(l, Lignes(t, "stocks"))
  <2>1. PICK S : S = UNION {VariantesDe[d] : d \in CommandesDe(t)}
        OBVIOUS
  <2>2. S \subseteq Nat /\ IsFiniteSet(S) /\ "stock" \in Tables
        BY <2>1, Ensembles DEF Tables
  <2>3. Lignes(t, "stocks") = Table("stock", Croissant(S))
        BY <2>1, LignesDesPhases
  <2>4. \A autre, x : autre # "stock" => ~ Parmi(<<autre, x>>, Table("stock", Croissant(S)))
        BY <2>2, TableParmi
  <2>. QED BY <2>3, <2>4
<1>. HIDE DEF l
<1>3. \A table, k : table # "paiement" => ~ Parmi(l, <<<<table, k>>>>)
      BY <1>1, ParmiUne
<1>4. ~ Parmi(l, Lignes(t, "livraison"))
  <2>1. Lignes(t, "livraison") = Si(fiche[t.cible] # "aucune", <<"livraison", t.cible>>)
        BY LignesDesPhases
  <2>. QED BY <1>1, <2>1, ParmiUne, ParmiAucune DEF Si
<1>5. ~ Parmi(l, Lignes(t, "relue"))
  <2>1. Lignes(t, "relue") =
           Si(~ Tient(t, <<"livraison", t.cible>>) /\ fiche[t.cible] # "aucune", <<"livraison", t.cible>>)
        BY LignesDesPhases
  <2>. QED BY <1>1, <2>1, ParmiUne, ParmiAucune DEF Si
<1>6. ~ Parmi(l, Lignes(t, "coupon"))
  <2>1. PICK g : g = IF t.genre = "checkout" THEN t.cible ELSE GroupeDe[t.cible]
        OBVIOUS
  <2>2. PICK b : b = (CouponDe[g] # Aucun /\
                        (t.genre = "checkout" \/ \A d \in Commandes : GroupeDe[d] = g => AnnuleePour(t.cible, d)))
        OBVIOUS
  <2>3. Lignes(t, "coupon") = Si(b, <<"coupon", CouponDe[g]>>)
        BY <2>1, <2>2, LignesDesPhases
  <2>. QED BY <1>1, <2>3, ParmiUne, ParmiAucune DEF Si
<1>7. ~ Parmi(l, Lignes(t, "commande"))
  <2>1. Lignes(t, "commande") = <<<<"commande", t.cible>>>>
        BY LignesDesPhases
  <2>. QED BY <1>3, <2>1
<1>8. ~ Parmi(l, Lignes(t, "groupe"))
  <2>1. Lignes(t, "groupe") = <<<<"groupe", GroupeDe[t.cible]>>>>
        BY LignesDesPhases
  <2>. QED BY <1>3, <2>1
<1>9. ~ Parmi(l, Lignes(t, "reversement"))
  <2>1. Lignes(t, "reversement") \in {<<>>, <<<<"reversement", t.cible>>>>}
        BY LignesDesPhases
  <2>. QED BY <1>3, <2>1, ParmiAucune
<1>. QED BY <1>2, <1>4, <1>5, <1>6, <1>7, <1>8, <1>9 DEF l

LEMMA SaitCommencer ==
    ASSUME Controle, NEW t \in Transactions, Commencer(t)
    PROVE  SaitDe(t)'
<1>1. /\ aPrendre[t] = <<>> /\ tient[t] = {} /\ reste[t] = Phases(t.genre)
      /\ UNCHANGED <<reste, aPrendre, tient>>
      BY DEF Commencer, Controle, Avancement
<1>2. \A l : ~ Demande(t, l)'
      BY <1>1, Len(<<>>) = 0 DEF Demande
<1>3. Len(reste'[t]) = Len(Phases(t.genre))
      BY <1>1
<1>4. /\ t.genre = "annuler" => Len(reste'[t]) = 8
      /\ t.genre \in {"initier", "valider", "livrer"} => Len(reste'[t]) = 2
      /\ t.genre = "checkout" => Len(reste'[t]) = 3
      BY <1>3, PhasesDesGenres
<1>5. t.genre = "annuler" => SaitAnnuler(t)'
  <2>. SUFFICES ASSUME t.genre = "annuler" PROVE SaitAnnuler(t)'
       OBVIOUS
  <2>1. PICK n : n = Len(reste'[t])
        OBVIOUS
  <2>2. n = 8
        BY <1>4, <2>1
  <2>3. ~ (n <= 6) /\ ~ (n <= 5) /\ ~ (n <= 4) /\ ~ (n <= 3) /\ ~ (n <= 2) /\ n # 0
        BY <2>2
  <2>. QED BY <1>2, <2>1, <2>3, Zenon DEF SaitAnnuler
<1>6. t.genre \in {"initier", "valider", "livrer"} => ~ (Len(reste'[t]) <= 1) /\ Len(reste'[t]) # 0
  <2>. SUFFICES ASSUME t.genre \in {"initier", "valider", "livrer"}
                PROVE  ~ (Len(reste'[t]) <= 1) /\ Len(reste'[t]) # 0
       OBVIOUS
  <2>1. Len(reste'[t]) = 2
        BY <1>4
  <2>. QED BY <2>1, ~ (2 <= 1) /\ 2 # 0
<1>7. t.genre = "initier" => SaitInitier(t)'
      BY <1>6, Zenon DEF SaitInitier
<1>8. t.genre = "valider" => SaitValider(t)'
      BY <1>6, Zenon DEF SaitValider
<1>9. t.genre = "livrer" => SaitLivrer(t)'
      BY <1>6, Zenon DEF SaitLivrer
<1>10. t.genre = "checkout" => SaitCheckout(t)'
  <2>1. t.genre = "checkout" => ~ (Len(reste'[t]) <= 2)
        BY <1>4, ~ (3 <= 2)
  <2>. QED BY <2>1, Zenon DEF SaitCheckout
<1>. QED BY <1>5, <1>7, <1>8, <1>9, <1>10 DEF SaitDe

LEMMA SaitPrendre ==
    ASSUME Controle, NEW t \in Transactions, SaitDe(t), Prendre(t)
    PROVE  SaitDe(t)'
<1>1. /\ UNCHANGED <<statut, fiche, paiement, reste, lu>>
      /\ \A l : (Demande(t, l)' <=> Demande(t, l)) /\ (Tient(t, l) => Tient(t, l)')
      BY ControlePrendre DEF Prendre, donnees, Tient
<1>2. CASE t.genre = "annuler"
  <2>1. SaitAnnuler(t)
        BY <1>2 DEF SaitDe
  <2>2. \A c, d : AnnuleePour(c, d)' <=> AnnuleePour(c, d)
        BY <1>1 DEF AnnuleePour
  <2>3. PaiementsLus(t) => PaiementsLus(t)'
        BY <1>1, <2>2 DEF PaiementsLus
  <2>4. CouponLu(t) => CouponLu(t)'
        BY <1>1, <2>2 DEF CouponLu
  <2>5. SaitAnnuler(t)'
        BY <1>1, <2>1, <2>3, <2>4 DEF SaitAnnuler
  <2>. QED BY <1>2, <2>5 DEF SaitDe
<1>3. CASE t.genre # "annuler"
      BY <1>1, <1>3 DEF SaitDe, SaitCheckout, SaitInitier, SaitValider, SaitLivrer
<1>. QED BY <1>2, <1>3

LEMMA SaitInterrogerAnnuler ==
    ASSUME TypeDonnees, Controle, NEW t \in Transactions, SaitAnnuler(t), Interroger(t), t.genre = "annuler"
    PROVE  SaitAnnuler(t)'
<1>. DEFINE c == t.cible
            s == Phases(t.genre)
            g == GroupeDe[c]
<1>1. PICK n : n = Len(reste[t])
      OBVIOUS
<1>2. PICK phase : phase = s[Len(s) - n + 1]
      OBVIOUS
<1>3. /\ n \in 1..8 /\ Len(reste'[t]) = n - 1
      /\ n = 8 => phase = "livraison"
      /\ n = 7 => phase = "commande"
      /\ n = 6 => phase = "relue"
      /\ n = 5 => phase = "groupe"
      /\ n = 4 => phase = "stocks"
      /\ n = 3 => phase = "paiement"
      /\ n = 2 => phase = "reversement"
      /\ n = 1 => phase = "coupon"
  <2>1. n \in 1..Len(s) /\ Len(reste'[t]) = n - 1
        BY <1>1, Requete
  <2>2. /\ Len(s) = 8 /\ s[1] = "livraison" /\ s[2] = "commande" /\ s[3] = "relue" /\ s[4] = "groupe"
        /\ s[5] = "stocks" /\ s[6] = "paiement" /\ s[7] = "reversement" /\ s[8] = "coupon"
        BY PhasesDesGenres
  <2>3. \A i \in 1..8 : n = 9 - i => phase = s[i]
    <3>1. \A i \in 1..8 : n = 9 - i => 8 - n + 1 = i
          BY <2>1
    <3>. QED BY <1>2, <2>2, <3>1
  <2>. HIDE DEF s
  <2>. QED BY <2>1, <2>2, <2>3
<1>4. /\ UNCHANGED <<statut, fiche, paiement>>
      /\ phase = "paiement" => lu'[t] = paiement
      /\ phase \notin {"paiement", "actifs"} => lu'[t] = lu[t]
      /\ \A l : Tient(t, l)' <=> Tient(t, l)
      /\ \A l : Demande(t, l) <=> Tient(t, l)
      /\ \A l : Demande(t, l)' <=> Tient(t, l) \/ Parmi(l, Lignes(t, phase))
      BY <1>1, <1>2, Requete DEF donnees
<1>5. \A b, d : AnnuleePour(b, d)' <=> AnnuleePour(b, d)
      BY <1>4 DEF AnnuleePour
<1>6. c \in Commandes
      BY TransactionsTypees
<1>. HIDE DEF s
<1>7. Len(reste'[t]) <= 6 => Demande(t, <<"commande", c>>)'
  <2>1. CASE n = 7
    <3>1. Lignes(t, phase) = <<<<"commande", c>>>>
          BY <1>3, <2>1, LignesDesPhases
    <3>. QED BY <1>4, <3>1, ParmiUne
  <2>2. CASE n <= 6
        BY <1>1, <1>4, <2>2 DEF SaitAnnuler
  <2>. QED BY <1>3, <2>1, <2>2
<1>8. Len(reste'[t]) <= 5 => Tient(t, <<"commande", c>>)'
      BY <1>1, <1>3, <1>4 DEF SaitAnnuler
<1>9. Len(reste'[t]) <= 5 /\ fiche'[c] # "aucune" => Demande(t, <<"livraison", c>>)'
  <2>1. CASE n = 6
    <3>1. Lignes(t, phase) = Si(~ Tient(t, <<"livraison", c>>) /\ fiche[c] # "aucune", <<"livraison", c>>)
          BY <1>3, <2>1, LignesDesPhases
    <3>. QED BY <1>4, <3>1, ParmiUne DEF Si
  <2>2. CASE n <= 5
        BY <1>1, <1>4, <2>2 DEF SaitAnnuler
  <2>. QED BY <1>3, <2>1, <2>2
<1>10. Len(reste'[t]) <= 4 => Demande(t, <<"groupe", GroupeDe[c]>>)'
  <2>1. CASE n = 5
    <3>1. Lignes(t, phase) = <<<<"groupe", g>>>>
          BY <1>3, <2>1, LignesDesPhases
    <3>. QED BY <1>4, <3>1, ParmiUne
  <2>2. CASE n <= 4
        BY <1>1, <1>4, <2>2 DEF SaitAnnuler
  <2>. QED BY <1>3, <2>1, <2>2
<1>11. Len(reste'[t]) <= 3 => Tient(t, <<"groupe", GroupeDe[c]>>)'
       BY <1>1, <1>3, <1>4 DEF SaitAnnuler
<1>12. ASSUME n # 3, NEW p \in Paiements PROVE Demande(t, <<"paiement", p>>)' <=> Demande(t, <<"paiement", p>>)
  <2>1. phase \in {"livraison", "commande", "relue", "groupe", "stocks", "reversement", "coupon"}
        BY <1>3, <1>12
  <2>2. ~ Parmi(<<"paiement", p>>, Lignes(t, phase))
        BY <2>1, PaiementsAilleurs
  <2>. QED BY <1>4, <2>2
<1>13. ASSUME Len(reste'[t]) >= 3, NEW p \in Paiements PROVE ~ Demande(t, <<"paiement", p>>)'
  <2>1. n # 3 /\ n >= 3
        BY <1>3, <1>13
  <2>2. ~ Demande(t, <<"paiement", p>>)
        BY <1>1, <2>1 DEF SaitAnnuler
  <2>. QED BY <1>12, <2>1, <2>2
<1>14. Len(reste'[t]) <= 2 => PaiementsLus(t)'
  <2>1. CASE n = 3
    <3>a. Len(reste[t]) >= 3
          BY <1>1, <2>1
    <3>0. \A p \in Paiements : ~ Demande(t, <<"paiement", p>>)
          BY <3>a DEF SaitAnnuler
    <3>1. \A p \in Paiements : ~ Tient(t, <<"paiement", p>>)
          BY <1>4, <3>0
    <3>2. phase = "paiement" /\ lu'[t] = paiement
          BY <1>3, <1>4, <2>1
    <3>3. PaiementsVoulus(t) = PaiementsConcernes(c)
          BY DEF PaiementsVoulus
    <3>4. \A p \in Paiements : Demande(t, <<"paiement", p>>)' <=> p \in PaiementsConcernes(c)
          BY <1>4, <3>1, <3>2, <3>3, PaiementsEnumeres
    <3>5. ASSUME NEW p \in Paiements
          PROVE  /\ p \in PaiementsConcernes(c) =>
                       /\ c \in Couvre[p] /\ paiement[p] \in Actifs
                       /\ paiement[p] = "en_attente" => \A d \in Couvre[p] : AnnuleePour(c, d)
                 /\ c \in Couvre[p] /\ paiement[p] = "valide" => p \in PaiementsConcernes(c)
                 /\ c \in Couvre[p] /\ paiement[p] = "en_attente" /\ (\A d \in Couvre[p] : AnnuleePour(c, d)) =>
                       p \in PaiementsConcernes(c)
          BY DEF PaiementsConcernes, Actifs
    <3>. QED BY <1>4, <1>5, <3>2, <3>4, <3>5 DEF PaiementsLus
  <2>2. CASE n <= 2
    <3>1. PaiementsLus(t)
          BY <1>1, <2>2 DEF SaitAnnuler
    <3>2. lu'[t] = lu[t] /\ n # 3
          BY <1>3, <1>4, <2>2
    <3>. QED BY <1>4, <1>5, <1>12, <3>1, <3>2 DEF PaiementsLus
  <2>. QED BY <1>3, <2>1, <2>2
<1>15. Len(reste'[t]) = 0 => CouponLu(t)'
  <2>. SUFFICES ASSUME n = 1, CouponDe[g] # Aucun, \A d \in Commandes : GroupeDe[d] = g => AnnuleePour(c, d)
                PROVE  Demande(t, <<"coupon", CouponDe[g]>>)'
       BY <1>3, <1>5 DEF CouponLu
  <2>1. Lignes(t, phase) = Si(CouponDe[g] # Aucun /\ (\A d \in Commandes : GroupeDe[d] = g => AnnuleePour(c, d)),
                              <<"coupon", CouponDe[g]>>)
        BY <1>3, LignesDesPhases
  <2>2. Lignes(t, phase) = <<<<"coupon", CouponDe[g]>>>>
        BY <2>1 DEF Si
  <2>. QED BY <1>4, <2>2, ParmiUne
<1>. QED BY <1>7, <1>8, <1>9, <1>10, <1>11, <1>13, <1>14, <1>15 DEF SaitAnnuler

LEMMA SaitInterroger ==
    ASSUME TypeDonnees, Controle, NEW t \in Transactions, SaitDe(t), Interroger(t)
    PROVE  SaitDe(t)'
<1>. DEFINE s == Phases(t.genre)
<1>1. PICK n : n = Len(reste[t])
      OBVIOUS
<1>2. PICK phase : phase = s[Len(s) - n + 1]
      OBVIOUS
<1>3. /\ n \in 1..Len(s) /\ Len(reste'[t]) = n - 1 /\ UNCHANGED <<statut, fiche, paiement>>
      /\ phase \in {"paiement", "actifs"} => lu'[t] = paiement
      /\ \A l : Tient(t, l)' <=> Tient(t, l)
      /\ \A l : Demande(t, l) <=> Tient(t, l)
      /\ \A l : Demande(t, l)' <=> Tient(t, l) \/ Parmi(l, Lignes(t, phase))
      BY <1>1, <1>2, Requete DEF donnees
<1>4. CASE t.genre = "annuler"
  <2>1. SaitAnnuler(t)'
        BY <1>4, SaitInterrogerAnnuler DEF SaitDe
  <2>. QED BY <1>4, <2>1 DEF SaitDe
<1>5. CASE t.genre = "initier"
  <2>1. SaitInitier(t)
        BY <1>5 DEF SaitDe
  <2>2. n \in 1..2 /\ (n = 2 => phase = "commandes") /\ (n = 1 => phase = "actifs")
    <3>1. Len(s) = 2 /\ s[1] = "commandes" /\ s[2] = "actifs"
          BY <1>5, PhasesDesGenres
    <3>. QED BY <1>2, <1>3, <3>1
  <2>. HIDE DEF s
  <2>3. \A c \in Couvre[t.cible] : Parmi(<<"commande", c>>, Lignes(t, "commandes"))
        BY <1>5, CommandesEnumerees
  <2>4. CASE n = 2
    <3>1. SaitInitier(t)'
          BY <1>3, <2>2, <2>3, <2>4 DEF SaitInitier
    <3>. QED BY <1>5, <3>1 DEF SaitDe
  <2>5. CASE n = 1
    <3>1. \A c \in Couvre[t.cible] : Tient(t, <<"commande", c>>)
      <4>0. Len(reste[t]) <= 1
            BY <1>1, <2>5
      <4>1. \A c \in Couvre[t.cible] : Demande(t, <<"commande", c>>)
            BY <2>1, <4>0 DEF SaitInitier
      <4>. QED BY <1>3, <4>1
    <3>2. lu'[t] = paiement
          BY <1>3, <2>2, <2>5
    <3>3. SaitInitier(t)'
          BY <1>3, <3>1, <3>2 DEF SaitInitier
    <3>. QED BY <1>5, <3>3 DEF SaitDe
  <2>. QED BY <2>2, <2>4, <2>5
<1>6. CASE t.genre = "valider"
  <2>1. SaitValider(t)
        BY <1>6 DEF SaitDe
  <2>2. n \in 1..2 /\ (n = 2 => phase = "commandes") /\ (n = 1 => phase = "paiement")
    <3>1. Len(s) = 2 /\ s[1] = "commandes" /\ s[2] = "paiement"
          BY <1>6, PhasesDesGenres
    <3>. QED BY <1>2, <1>3, <3>1
  <2>. HIDE DEF s
  <2>3. \A c \in Couvre[t.cible] : Parmi(<<"commande", c>>, Lignes(t, "commandes"))
        BY <1>6, CommandesEnumerees
  <2>4. Parmi(<<"paiement", t.cible>>, Lignes(t, "paiement"))
        BY <1>6, PaiementsEnumeres DEF PaiementsVoulus
  <2>5. CASE n = 2
    <3>1. SaitValider(t)'
          BY <1>3, <2>2, <2>3, <2>5 DEF SaitValider
    <3>. QED BY <1>6, <3>1 DEF SaitDe
  <2>6. CASE n = 1
    <3>1. \A c \in Couvre[t.cible] : Tient(t, <<"commande", c>>)
      <4>0. Len(reste[t]) <= 1
            BY <1>1, <2>6
      <4>1. \A c \in Couvre[t.cible] : Demande(t, <<"commande", c>>)
            BY <2>1, <4>0 DEF SaitValider
      <4>. QED BY <1>3, <4>1
    <3>2. SaitValider(t)'
          BY <1>3, <2>2, <2>4, <2>6, <3>1 DEF SaitValider
    <3>. QED BY <1>6, <3>2 DEF SaitDe
  <2>. QED BY <2>2, <2>5, <2>6
<1>7. CASE t.genre = "checkout"
  <2>1. n \in 1..3 /\ (n = 3 => phase = "panier")
    <3>1. Len(s) = 3 /\ s[1] = "panier"
          BY <1>7, PhasesDesGenres
    <3>. QED BY <1>2, <1>3, <3>1
  <2>. HIDE DEF s
  <2>2. Lignes(t, "panier") = <<<<"panier", t.cible>>>>
        BY LignesDesPhases
  <2>3. Parmi(<<"panier", t.cible>>, Lignes(t, "panier"))
        BY <2>2, ParmiUne
  <2>4. n = 3 \/ Demande(t, <<"panier", t.cible>>)
    <3>0. n = 3 \/ n <= 2
          BY <2>1
    <3>1. n = 3 \/ Len(reste[t]) <= 2
          BY <1>1, <3>0
    <3>2. SaitCheckout(t)
          BY <1>7 DEF SaitDe
    <3>. QED BY <3>1, <3>2 DEF SaitCheckout
  <2>5. Demande(t, <<"panier", t.cible>>)'
        BY <1>3, <2>1, <2>3, <2>4
  <2>6. SaitCheckout(t)'
        BY <2>5 DEF SaitCheckout
  <2>. QED BY <1>7, <2>6 DEF SaitDe
<1>8. CASE t.genre = "livrer"
  <2>1. n \in 1..2 /\ (n = 2 => phase = "fiche")
    <3>1. Len(s) = 2 /\ s[1] = "fiche"
          BY <1>8, PhasesDesGenres
    <3>. QED BY <1>2, <1>3, <3>1
  <2>. HIDE DEF s
  <2>2. PICK q : q = Lignes(t, "fiche")
        OBVIOUS
  <2>3. q = <<<<"livraison", t.cible>>, <<"commande", t.cible>>, <<"boutique", BoutiqueDe[t.cible]>>>>
        BY <2>2, LignesDesPhases
  <2>4. Len(q) = 3 /\ q[1] = <<"livraison", t.cible>> /\ q[2] = <<"commande", t.cible>>
        BY <2>3
  <2>5. Parmi(<<"livraison", t.cible>>, q) /\ Parmi(<<"commande", t.cible>>, q)
        BY <2>4, 1 \in 1..3, 2 \in 1..3 DEF Parmi
  <2>6. n = 2 \/ (Demande(t, <<"livraison", t.cible>>) /\ Demande(t, <<"commande", t.cible>>))
    <3>1. n = 2 \/ Len(reste[t]) <= 1
          BY <1>1, <2>1
    <3>2. SaitLivrer(t)
          BY <1>8 DEF SaitDe
    <3>. QED BY <3>1, <3>2 DEF SaitLivrer
  <2>7. n = 2 => Lignes(t, phase) = q
        BY <2>1, <2>2
  <2>8. Demande(t, <<"livraison", t.cible>>)' /\ Demande(t, <<"commande", t.cible>>)'
        BY <1>3, <2>5, <2>6, <2>7
  <2>9. SaitLivrer(t)'
        BY <2>8 DEF SaitLivrer
  <2>. QED BY <1>8, <2>9 DEF SaitDe
<1>9. CASE t.genre \notin {"annuler", "initier", "valider", "checkout", "livrer"}
      BY <1>9 DEF SaitDe
<1>. QED BY <1>4, <1>5, <1>6, <1>7, <1>8, <1>9

-----------------------------------------------------------------------------
(* The invariant. *)

LEMMA InductionInit ==
    ASSUME Init
    PROVE  IInv
<1>1. PICK d \in Departs :
         /\ statut = d.statut /\ paiement = d.paiement /\ rembourse = {}
         /\ fiche = [c \in Commandes |-> CASE statut[c] = "livree" -> "livree"
                                           [] statut[c] = "confirmee" -> "en_attente" [] OTHER -> "aucune"]
         /\ utilise = {g \in Groupes : CouponDe[g] # Aucun
                          /\ \E c \in Commandes : GroupeDe[c] = g /\ statut[c] # "absente"}
         /\ etat = [t \in Transactions |-> IF t \in d.transactions THEN "repos" ELSE "finie"]
         /\ reste = [t \in Transactions |-> Phases(t.genre)]
         /\ aPrendre = [t \in Transactions |-> <<>>]
         /\ tient = [t \in Transactions |-> {}]
         /\ lu = [t \in Transactions |-> d.paiement]
      BY DEF Init
<1>2. /\ statut \in [Commandes -> {"absente", "creee", "confirmee", "livree"}]
      /\ paiement \in [Paiements -> {"aucun", "en_attente", "valide"}]
      /\ \A p, q \in Paiements : SeRecouvrent(p, q) /\ paiement[p] # "aucun" => paiement[q] = "aucun"
      BY <1>1, VerrousOk DEF VerrousOk
<1>3. \A c \in Commandes : statut[c] # "annulee"
      BY <1>2
<1>4. TypeDonnees
  <2>1. statut \in [Commandes -> StatutsCommande]
        BY <1>2 DEF StatutsCommande
  <2>2. paiement \in [Paiements -> StatutsPaiement]
        BY <1>2 DEF StatutsPaiement
  <2>3. fiche \in [Commandes -> StatutsFiche]
        BY <1>1 DEF StatutsFiche
  <2>. QED BY <1>1, <2>1, <2>2, <2>3 DEF TypeDonnees
<1>5. Controle
  <2>1. \A t \in Transactions : Phases(t.genre) \in Seq(Noms)
        BY PhasesDesGenres
  <2>2. TypeTransactions
    <3>1. reste \in [Transactions -> Seq(Noms)]
          BY <1>1, <2>1
    <3>2. aPrendre \in [Transactions -> Seq(Rangees)]
          BY <1>1, AucuneLigne
    <3>3. lu \in [Transactions -> [Paiements -> StatutsPaiement]]
          BY <1>1, <1>4 DEF TypeDonnees
    <3>4. etat \in [Transactions -> {"repos", "ouverte", "finie"}]
          BY <1>1
    <3>5. tient \in [Transactions -> SUBSET Rangees]
          BY <1>1
    <3>. QED BY <3>1, <3>2, <3>3, <3>4, <3>5 DEF TypeTransactions
  <2>3. Exclusion
        BY <1>1 DEF Exclusion
  <2>4. Avancement
    <3>1. ASSUME NEW t \in Transactions PROVE Fin(Phases(t.genre), Phases(t.genre))
      <4>1. PICK s : s = Phases(t.genre)
            OBVIOUS
      <4>2. Len(s) \in Nat
            BY <2>1, <4>1
      <4>3. \A i \in 1..Len(s) : Len(s) - Len(s) + i = i
            BY <4>2
      <4>. QED BY <4>1, <4>2, <4>3 DEF Fin
    <3>. QED BY <1>1, <3>1 DEF Avancement
  <2>. QED BY <2>2, <2>3, <2>4 DEF Controle
<1>6. Sait
      BY <1>1 DEF Sait
<1>7. DonneesJustes
  <2>1. UnSeulOuvert
        BY <1>2 DEF UnSeulOuvert
  <2>2. CloseParAnnulation /\ AnnuleeSansFiche
        BY <1>2, <1>3 DEF CloseParAnnulation, AnnuleeSansFiche
  <2>a. \A p \in Paiements : Couvre[p] \subseteq Commandes /\ Couvre[p] # {}
        BY VerrousOk DEF VerrousOk
  <2>3. \A p \in Paiements : Couvre[p] \subseteq Commandes /\ \E c \in Commandes : c \in Couvre[p]
        BY <2>a
  <2>4. AnnuleeRemboursee
        BY <1>3, <2>3 DEF AnnuleeRemboursee
  <2>5. CouponUtilise
        BY <1>1 DEF CouponUtilise
  <2>6. DerniereAnnulationFinalise
        BY <1>1, <1>3, <2>3 DEF DerniereAnnulationFinalise
  <2>. QED BY <2>1, <2>2, <2>4, <2>5, <2>6 DEF DonneesJustes
<1>. QED BY <1>4, <1>5, <1>6, <1>7 DEF IInv

(* A step that publishes nothing leaves the data right. *)
LEMMA SansEcriture ==
    ASSUME TypeDonnees, DonneesJustes, UNCHANGED donnees
    PROVE  TypeDonnees' /\ DonneesJustes'
BY DEF donnees, TypeDonnees, DonneesJustes, UnSeulOuvert, CloseParAnnulation, CouponUtilise,
       AnnuleeSansFiche, AnnuleeRemboursee, DerniereAnnulationFinalise

(* What a transaction knows depends on the data and on its own rows only. *)
LEMMA SaitInchange ==
    ASSUME NEW u \in Transactions, SaitDe(u), UNCHANGED donnees,
           reste'[u] = reste[u], aPrendre'[u] = aPrendre[u], lu'[u] = lu[u], tient'[u] = tient[u]
    PROVE  SaitDe(u)'
<1>1. \A l : (Demande(u, l)' <=> Demande(u, l)) /\ (Tient(u, l)' <=> Tient(u, l))
      BY DEF Demande, Tient
<1>2. \A c, d : AnnuleePour(c, d)' <=> AnnuleePour(c, d)
      BY DEF AnnuleePour, donnees
<1>3. fiche' = fiche /\ paiement' = paiement
      BY DEF donnees
<1>4. SaitAnnuler(u) => SaitAnnuler(u)'
  <2>1. PaiementsLus(u) => PaiementsLus(u)'
        BY <1>1, <1>2, <1>3 DEF PaiementsLus
  <2>2. CouponLu(u) => CouponLu(u)'
        BY <1>1, <1>2 DEF CouponLu
  <2>. QED BY <1>1, <1>3, <2>1, <2>2 DEF SaitAnnuler
<1>5. /\ SaitCheckout(u) => SaitCheckout(u)'
      /\ SaitInitier(u) => SaitInitier(u)'
      /\ SaitValider(u) => SaitValider(u)'
      /\ SaitLivrer(u) => SaitLivrer(u)'
      BY <1>1, <1>3 DEF SaitCheckout, SaitInitier, SaitValider, SaitLivrer
<1>. QED BY <1>4, <1>5 DEF SaitDe

LEMMA InductionNext == IInv /\ [Next]_vars => IInv'
<1> SUFFICES ASSUME IInv, [Next]_vars PROVE IInv'
     OBVIOUS
<1>0. TypeDonnees /\ Controle /\ TypeTransactions /\ Sait /\ DonneesJustes
      BY DEF IInv, Controle
<1>1. ASSUME NEW t \in Transactions, Commencer(t) PROVE IInv'
  <2>1. Controle' /\ UNCHANGED <<donnees, reste, aPrendre, tient, lu>> /\ etat' = [etat EXCEPT ![t] = "ouverte"]
        BY <1>0, <1>1, ControleCommencer DEF Commencer
  <2>2. ASSUME NEW u \in Transactions, etat'[u] = "ouverte" PROVE SaitDe(u)'
    <3>1. CASE u = t
          BY <1>0, <1>1, <3>1, SaitCommencer
    <3>2. CASE u # t
      <4>1. etat[u] = "ouverte"
            BY <1>0, <2>1, <2>2, <3>2 DEF TypeTransactions
      <4>. QED BY <1>0, <2>1, <4>1, SaitInchange DEF Sait
    <3>. QED BY <3>1, <3>2
  <2>. QED BY <1>0, <2>1, <2>2, SansEcriture DEF IInv, Sait
<1>2. ASSUME NEW t \in Transactions, Interroger(t) PROVE IInv'
  <2>1. /\ Controle' /\ UNCHANGED <<donnees, etat, tient>> /\ etat[t] = "ouverte"
        /\ aPrendre' = [aPrendre EXCEPT ![t] = Lignes(t, Head(reste[t]))]
        /\ reste' = [reste EXCEPT ![t] = Tail(reste[t])]
        /\ lu' = [lu EXCEPT ![t] = IF Head(reste[t]) \in {"paiement", "actifs"} THEN paiement ELSE lu[t]]
        BY <1>0, <1>2, ControleInterroger DEF Interroger, PretePourLaSuite
  <2>2. ASSUME NEW u \in Transactions, etat'[u] = "ouverte" PROVE SaitDe(u)'
    <3>0. SaitDe(u)
          BY <1>0, <2>1, <2>2 DEF Sait
    <3>1. CASE u = t
          BY <1>0, <1>2, <3>0, <3>1, SaitInterroger
    <3>2. CASE u # t
      <4>1. reste'[u] = reste[u] /\ aPrendre'[u] = aPrendre[u] /\ lu'[u] = lu[u] /\ tient'[u] = tient[u]
            BY <1>0, <2>1, <3>2 DEF TypeTransactions
      <4>. QED BY <2>1, <3>0, <4>1, SaitInchange
    <3>. QED BY <3>1, <3>2
  <2>. QED BY <1>0, <2>1, <2>2, SansEcriture DEF IInv, Sait
<1>3. ASSUME NEW t \in Transactions, Prendre(t) PROVE IInv'
  <2>1. /\ Controle' /\ UNCHANGED <<donnees, etat, reste, lu>> /\ etat[t] = "ouverte"
        /\ \A u \in Transactions : u # t => tient'[u] = tient[u] /\ aPrendre'[u] = aPrendre[u]
        BY <1>0, <1>3, ControlePrendre DEF Prendre
  <2>2. ASSUME NEW u \in Transactions, etat'[u] = "ouverte" PROVE SaitDe(u)'
    <3>0. SaitDe(u)
          BY <1>0, <2>1, <2>2 DEF Sait
    <3>1. CASE u = t
          BY <1>0, <1>3, <3>0, <3>1, SaitPrendre
    <3>2. CASE u # t
          BY <2>1, <3>0, <3>2, SaitInchange
    <3>. QED BY <3>1, <3>2
  <2>. QED BY <1>0, <2>1, <2>2, SansEcriture DEF IInv, Sait
<1>4. ASSUME NEW t \in Transactions, Refuser(t) PROVE IInv'
  <2>1. etat[t] = "ouverte" /\ Terminer(t) /\ UNCHANGED donnees
        BY <1>4 DEF Refuser, PretePourLaSuite
  <2>2. Controle' /\ etat'[t] = "finie"
        BY <1>0, <2>1, ControleTerminer
  <2>3. ASSUME NEW u \in Transactions, etat'[u] = "ouverte" PROVE SaitDe(u)'
    <3>1. u # t
          BY <2>2, <2>3
    <3>2. /\ etat[u] = "ouverte" /\ reste'[u] = reste[u] /\ aPrendre'[u] = aPrendre[u] /\ lu'[u] = lu[u]
          /\ tient'[u] = tient[u]
          BY <1>0, <2>1, <2>3, <3>1 DEF Terminer, TypeTransactions
    <3>. QED BY <1>0, <2>1, <3>2, SaitInchange DEF Sait
  <2>. QED BY <1>0, <2>1, <2>2, <2>3, SansEcriture DEF IInv, Sait
<1>5. ASSUME NEW t \in Transactions, Commettre(t) PROVE IInv'
  <2>1. etat[t] = "ouverte" /\ Terminer(t)
        BY <1>5, AuCommit
  <2>2. Controle' /\ etat'[t] = "finie"
        BY <1>0, <2>1, ControleTerminer
  <2>3. ASSUME NEW u \in Transactions, etat'[u] = "ouverte" PROVE SaitDe(u)'
    <3>1. u # t
          BY <2>2, <2>3
    <3>2. etat[u] = "ouverte"
          BY <1>0, <2>1, <2>3, <3>1 DEF Terminer, TypeTransactions
    <3>. QED BY <1>5, <3>1, <3>2, Interference
  <2>4. DonneesJustes'
        BY <1>5, JusteAnnuler, JusteSansAnnuler
  <2>5. TypeDonnees'
        BY <1>5, EcrituresCommit
  <2>. QED BY <2>2, <2>3, <2>4, <2>5 DEF IInv, Sait
<1>6. CASE UNCHANGED vars
  <2>1. UNCHANGED <<donnees, etat, reste, aPrendre, tient, lu>>
        BY <1>6 DEF vars
  <2>2. Controle'
        BY <1>0, <2>1 DEF Controle, TypeTransactions, Exclusion, Avancement
  <2>3. Sait'
    <3>. SUFFICES ASSUME NEW u \in Transactions, etat'[u] = "ouverte" PROVE SaitDe(u)'
         BY DEF Sait
    <3>. QED BY <1>0, <2>1, SaitInchange DEF Sait
  <2>. QED BY <1>0, <2>1, <2>2, <2>3, SansEcriture DEF IInv
<1>. QED BY <1>1, <1>2, <1>3, <1>4, <1>5, <1>6 DEF Next

(***************************************************************************)
(* In every state: the types, one holder for each row, what every open     *)
(* transaction knows, and the right data.                                  *)
(***************************************************************************)
THEOREM Invariance == Spec => []IInv
<1>1. Init => IInv
      BY InductionInit
<1>2. IInv /\ [Next]_vars => IInv'
      BY InductionNext
<1>. QED BY <1>1, <1>2, PTL DEF Spec

(* The types of the tables and of the transactions, and no row with two holders. *)
THEOREM Types == Spec => []TypeOK
<1>1. IInv => TypeOK
      BY DEF IInv, Controle, TypeDonnees, TypeTransactions, Exclusion, TypeOK,
             StatutsCommande, StatutsFiche, StatutsPaiement
<1>. QED BY <1>1, Invariance, PTL

(***************************************************************************)
(* However cancellations, payments, shipments and checkouts interleave     *)
(* between two locks, a cancelled order has no active sheet and is         *)
(* refunded of every payment collected for it.                             *)
(***************************************************************************)
THEOREM Annulation_Relue == Spec => []AnnulationRelue
<1>1. IInv => AnnulationRelue
      BY DEF IInv, DonneesJustes, AnnulationRelue
<1>. QED BY <1>1, Invariance, PTL

(***************************************************************************)
(* Whatever the number of sister orders cancelled at the same time, no     *)
(* pending payment is left on orders that are all cancelled, and no coupon *)
(* stays used for a checkout that is.                                      *)
(***************************************************************************)
THEOREM Derniere_Annulation_Finalise == Spec => []DerniereAnnulationFinalise
<1>1. IInv => DerniereAnnulationFinalise
      BY DEF IInv, DonneesJustes
<1>. QED BY <1>1, Invariance, PTL

(* Two payments that cover an order are never active together, whatever opened them. *)
THEOREM Un_Seul_Actif == Spec => []UnSeulActif
<1>1. IInv => UnSeulActif
      BY DEF IInv, DonneesJustes, UnSeulOuvert, UnSeulActif
<1>. QED BY <1>1, Invariance, PTL

-----------------------------------------------------------------------------
(* One order of the rows, in which every transaction takes them. *)

(* A coupon is taken by the checkouts of a start, or by its cancellations. *)
Achete(d, k) == \E u \in d.transactions : u.genre = "checkout" /\ CouponDe[u.cible] = k

(* The rank of a table, then the primary key where a query takes several rows. *)
Poids(d, l) ==
    CASE l[1] = "panier"      -> 0
      [] l[1] = "livraison"   -> 1
      [] l[1] = "commande"    -> 2
      [] l[1] = "stock"       -> 5
      [] l[1] = "paiement"    -> 6
      [] l[1] = "reversement" -> 7
      [] l[1] = "coupon"      -> IF Achete(d, l[2]) THEN 4 ELSE 8
      [] OTHER                -> 3

Cle(l) == IF l[1] \in {"commande", "stock", "paiement"} THEN l[2] ELSE 0

Numeros == Commandes \cup Variantes \cup Paiements \cup {0}

Avant(d, k, l) == \/ Poids(d, k) < Poids(d, l)
                  \/ Poids(d, k) = Poids(d, l) /\ Cle(k) < Cle(l)

(* The least rank of the rows of a query. *)
PoidsPhase(t, phase) ==
    CASE phase = "panier"                    -> 0
      [] phase \in {"livraison", "fiche"}    -> 1
      [] phase \in {"commande", "commandes"} -> 2
      [] phase \in {"groupe", "demande"}     -> 3
      [] phase = "stocks"                    -> 5
      [] phase = "paiement"                  -> 6
      [] phase = "reversement"               -> 7
      [] phase = "coupon"                    -> IF t.genre = "checkout" THEN 4 ELSE 8
      [] OTHER                               -> 9

(* The second reading of the sheet, which nobody else asks for. *)
Relue(d, t, l) == t.genre = "annuler" /\ SansFiche(d, t.cible) /\ l = <<"livraison", t.cible>>

(* What t may ask for with n queries to come: a row that comes before theirs. *)
Permise(d, t, n, l) ==
    LET s == Phases(t.genre) IN
    /\ \A j \in 1..Len(s) :
          j > Len(s) - n /\ s[j] \notin {"relue", "actifs"} => Poids(d, l) < PoidsPhase(t, s[j])
    /\ l[1] = "livraison" => t.genre \in {"annuler", "livrer", "contester"} /\ l[2] = t.cible
    /\ Cle(l) \in Numeros

(* t follows the order: what it holds comes before what its query has still *)
(* to take, and both before what its next queries will take.               *)
Apres(d, t, a, tenues) ==
    /\ \A i \in 1..Len(a) : \A l \in tenues : Avant(d, l, a[i]) \/ Relue(d, t, a[i])
    /\ \A i, j \in 1..Len(a) : i < j => Avant(d, a[i], a[j])

Suit(d, t) ==
    /\ Apres(d, t, aPrendre[t], tient[t])
    /\ \A l : Demande(t, l) => Permise(d, t, Len(reste[t]), l)
    /\ t.genre = "annuler" /\ ~ SansFiche(d, t.cible) /\ Len(reste[t]) <= 7 =>
          Demande(t, <<"livraison", t.cible>>)

(* A sheet that was there at the start still is. *)
FichesGardees(d) == \A c \in Commandes : ~ SansFiche(d, c) => fiche[c] # "aucune"

OrdreSuivi(d) ==
    /\ FichesGardees(d)
    /\ \A t \in Transactions :
          /\ etat[t] = "ouverte" => Suit(d, t)
          /\ etat[t] # "ouverte" => tient[t] = {}
          /\ etat[t] # "finie" => t \in d.transactions

-----------------------------------------------------------------------------
(* The rows of a table are taken in the order of their keys. *)
LEMMA CroissantTrie ==
    ASSUME NEW S, S \subseteq Nat, IsFiniteSet(S)
    PROVE  /\ Croissant(S) \in Seq(S)
           /\ \A i, j \in 1..Len(Croissant(S)) : i < j => Croissant(S)[i] < Croissant(S)[j]
<1>1. SuiteCroissante(S, Croissant(S))
      BY SuiteExiste DEF SuiteCroissante, Croissant
<1>2. PICK n \in Nat : n = Cardinality(S)
      BY FS_CardinalityType
<1>3. PICK s : s = Croissant(S)
      OBVIOUS
<1>4. s \in [1..n -> S] /\ \A i, j \in 1..n : i < j => s[i] < s[j]
      BY <1>1, <1>2, <1>3 DEF SuiteCroissante
<1>5. s \in Seq(S) /\ Len(s) = n
      BY <1>2, <1>4, IsASeq
<1>. QED BY <1>3, <1>4, <1>5

LEMMA TableTriee ==
    ASSUME NEW S, S \subseteq Nat, IsFiniteSet(S), NEW table
    PROVE  LET lignes == Table(table, Croissant(S)) IN
           /\ \A i \in 1..Len(lignes) : lignes[i][1] = table /\ lignes[i][2] \in S
           /\ \A i, j \in 1..Len(lignes) : i < j => lignes[i][2] < lignes[j][2]
<1>1. PICK s \in Seq(S) : s = Croissant(S) /\ \A i, j \in 1..Len(s) : i < j => s[i] < s[j]
      BY CroissantTrie
<1>2. PICK n \in Nat : n = Len(s) /\ DOMAIN s = 1..n
      BY LenProperties
<1>3. PICK lignes : lignes = Table(table, s)
      OBVIOUS
<1>4. lignes = [i \in 1..n |-> <<table, s[i]>>]
      BY <1>2, <1>3 DEF Table
<1>5. Len(lignes) = n
      BY <1>2, <1>4
<1>6. \A i \in 1..n : lignes[i] = <<table, s[i]>> /\ s[i] \in S
      BY <1>1, <1>2, <1>4, ElementOfSeq
<1>7. \A i \in 1..n : lignes[i][1] = table /\ lignes[i][2] = s[i]
      BY <1>6
<1>. QED BY <1>1, <1>2, <1>3, <1>5, <1>6, <1>7

PoidsTable(table) == CASE table = "commande" -> 2 [] table = "stock" -> 5 [] OTHER -> 6

(* Rows of one table, in the order. *)
LignesEnOrdre(d, table, lignes) ==
    /\ \A i \in 1..Len(lignes) :
          /\ Poids(d, lignes[i]) = PoidsTable(table)
          /\ lignes[i][1] = table /\ Cle(lignes[i]) \in Numeros
    /\ \A i, j \in 1..Len(lignes) : i < j => Avant(d, lignes[i], lignes[j])

(* A query that takes its rows from one table. *)
LEMMA TableSuivie ==
    ASSUME NEW d, NEW S \in SUBSET Numeros, IsFiniteSet(S), NEW table \in {"commande", "stock", "paiement"}
    PROVE  LignesEnOrdre(d, table, Table(table, Croissant(S)))
<1>1. S \subseteq Nat
      BY VerrousOk DEF VerrousOk, Numeros
<1>2. PICK lignes : lignes = Table(table, Croissant(S))
      OBVIOUS
<1>3. /\ \A i \in 1..Len(lignes) : lignes[i][1] = table /\ lignes[i][2] \in S
      /\ \A i, j \in 1..Len(lignes) : i < j => lignes[i][2] < lignes[j][2]
      BY <1>1, <1>2, TableTriee
<1>4. \A i \in 1..Len(lignes) :
         /\ Poids(d, lignes[i]) = PoidsTable(table)
         /\ Cle(lignes[i]) = lignes[i][2]
      BY <1>3 DEF Poids, Cle, PoidsTable
<1>5. \A i, j \in 1..Len(lignes) : i < j => Avant(d, lignes[i], lignes[j])
      BY <1>3, <1>4 DEF Avant
<1>6. LignesEnOrdre(d, table, lignes)
      BY <1>3, <1>4, <1>5 DEF LignesEnOrdre
<1>. QED BY <1>2, <1>6

LEMMA PoidsDesRangees ==
    ASSUME NEW d, NEW k
    PROVE  /\ Poids(d, <<"panier", k>>) = 0 /\ Poids(d, <<"livraison", k>>) = 1 /\ Poids(d, <<"commande", k>>) = 2
           /\ Poids(d, <<"groupe", k>>) = 3 /\ Poids(d, <<"demande", k>>) = 3 /\ Poids(d, <<"boutique", k>>) = 3
           /\ Poids(d, <<"reversement", k>>) = 7
           /\ Poids(d, <<"coupon", k>>) = (IF Achete(d, k) THEN 4 ELSE 8)
           /\ \A table \in {"panier", "livraison", "groupe", "demande", "boutique", "reversement", "coupon"} :
                 Cle(<<table, k>>) = 0
           /\ Cle(<<"commande", k>>) = k
BY DEF Poids, Cle

(* Which transactions make a query. *)
LEMMA GenresDesPhases ==
    ASSUME NEW t \in Transactions, NEW i \in 1..Len(Phases(t.genre))
    PROVE  LET phase == Phases(t.genre)[i] IN
           /\ phase \in Noms
           /\ phase \in {"livraison", "relue", "groupe", "commande"} => t.genre = "annuler"
           /\ phase = "fiche" => t.genre \in {"livrer", "contester"}
           /\ phase = "panier" => t.genre = "checkout"
           /\ phase = "coupon" => t.genre \in {"checkout", "annuler"}
           /\ phase = "paiement" => t.genre \in {"valider", "annuler", "rembourser"}
           /\ phase \in {"demande", "reversement"} => t.genre \notin {"checkout", "initier", "valider"}
           /\ phase = "commandes" => t.genre \in {"valider", "initier", "demander_retour"}
<1>1. CASE t.genre = "annuler"
      BY SMTT(30), <1>1, PhasesDesGenres DEF Noms
<1>2. CASE t.genre = "valider"
      BY SMTT(30), <1>2, PhasesDesGenres DEF Noms
<1>3. CASE t.genre = "checkout"
      BY SMTT(30), <1>3, PhasesDesGenres DEF Noms
<1>4. CASE t.genre = "initier"
      BY SMTT(30), <1>4, PhasesDesGenres DEF Noms
<1>5. CASE t.genre \in {"livrer", "contester"}
      BY SMTT(30), <1>5, PhasesDesGenres DEF Noms
<1>6. CASE t.genre = "demander_retour"
      BY SMTT(30), <1>6, PhasesDesGenres DEF Noms
<1>7. CASE t.genre = "receptionner"
      BY SMTT(30), <1>7, PhasesDesGenres DEF Noms
<1>8. CASE t.genre = "rembourser"
      BY SMTT(30), <1>8, PhasesDesGenres DEF Noms
<1>. QED BY <1>1, <1>2, <1>3, <1>4, <1>5, <1>6, <1>7, <1>8, TransactionsTypees DEF Genres

(* What a query may ask for, and with what rank. *)
Bonne(d, t, phase, l) ==
    /\ phase # "actifs"
    /\ phase = "relue" => l = <<"livraison", t.cible>> /\ Poids(d, l) = 1
    /\ phase = "fiche" => Poids(d, l) \in 1..3
    /\ phase \notin {"relue", "fiche"} => Poids(d, l) = PoidsPhase(t, phase)
    /\ l[1] = "livraison" => t.genre \in {"annuler", "livrer", "contester"} /\ l[2] = t.cible
    /\ Cle(l) \in Numeros

LEMMA LignesUniques ==
    ASSUME NEW d, NEW t \in Transactions, NEW i \in 1..Len(Phases(t.genre)),
           NEW phase \in {"panier", "livraison", "commande", "relue", "groupe", "demande", "reversement", "actifs"},
           phase = Phases(t.genre)[i]
    PROVE  /\ Len(Lignes(t, phase)) \in {0, 1}
           /\ \A l : Parmi(l, Lignes(t, phase)) => Bonne(d, t, phase, l)
<1>0. PICK c : c = t.cible
      OBVIOUS
<1>1. /\ phase \in {"livraison", "relue", "groupe", "commande"} => t.genre = "annuler"
      /\ phase \in {"livraison", "relue", "groupe", "commande", "demande", "reversement"} => c \in Commandes
      BY <1>0, GenresDesPhases, TransactionsTypees
<1>2. c \in Commandes => c \in Numeros
      BY DEF Numeros
<1>3. 0 \in Numeros
      BY DEF Numeros
<1>4. PICK l : /\ phase = "panier" => l = <<"panier", c>>
               /\ phase \in {"livraison", "relue"} => l = <<"livraison", c>>
               /\ phase = "commande" => l = <<"commande", c>>
               /\ phase = "groupe" => l = <<"groupe", GroupeDe[c]>>
               /\ phase = "demande" => l = <<"demande", c>>
               /\ phase = "reversement" => l = <<"reversement", c>>
  <2>1. CASE phase = "panier"
        BY <2>1
  <2>2. CASE phase \in {"livraison", "relue"}
        BY <2>2
  <2>3. CASE phase = "commande"
        BY <2>3
  <2>4. CASE phase = "groupe"
        BY <2>4
  <2>5. CASE phase = "demande"
        BY <2>5
  <2>6. CASE phase = "reversement"
        BY <2>6
  <2>7. CASE phase = "actifs"
        BY <2>7
  <2>. QED BY <2>1, <2>2, <2>3, <2>4, <2>5, <2>6, <2>7
<1>5. Lignes(t, phase) = <<>> \/ (phase # "actifs" /\ Lignes(t, phase) = <<l>>)
  <2>1. CASE phase = "panier"
    <3>1. l = <<"panier", c>>
          BY <1>4, <2>1
    <3>2. Lignes(t, "panier") = <<<<"panier", c>>>>
          BY <1>0, LignesDesPhases
    <3>3. Lignes(t, "panier") = <<l>>
          BY <3>1, <3>2, Zenon
    <3>. QED BY <2>1, <3>3
  <2>2. CASE phase = "commande"
    <3>1. l = <<"commande", c>>
          BY <1>4, <2>2
    <3>2. Lignes(t, "commande") = <<<<"commande", c>>>>
          BY <1>0, LignesDesPhases
    <3>3. Lignes(t, "commande") = <<l>>
          BY <3>1, <3>2, Zenon
    <3>. QED BY <2>2, <3>3
  <2>3. CASE phase = "groupe"
    <3>1. l = <<"groupe", GroupeDe[c]>>
          BY <1>4, <2>3
    <3>2. Lignes(t, "groupe") = <<<<"groupe", GroupeDe[c]>>>>
          BY <1>0, LignesDesPhases
    <3>3. Lignes(t, "groupe") = <<l>>
          BY <3>1, <3>2, Zenon
    <3>. QED BY <2>3, <3>3
  <2>4. CASE phase = "demande"
    <3>1. l = <<"demande", c>>
          BY <1>4, <2>4
    <3>2. Lignes(t, "demande") = <<<<"demande", c>>>>
          BY <1>0, LignesDesPhases
    <3>3. Lignes(t, "demande") = <<l>>
          BY <3>1, <3>2, Zenon
    <3>. QED BY <2>4, <3>3
  <2>5. CASE phase = "livraison"
    <3>1. l = <<"livraison", c>>
          BY <1>4, <2>5
    <3>2. Lignes(t, "livraison") = <<>> \/ Lignes(t, "livraison") = <<<<"livraison", c>>>>
          BY <1>0, LignesDesPhases DEF Si
    <3>3. Lignes(t, "livraison") = <<>> \/ Lignes(t, "livraison") = <<l>>
          BY <3>1, <3>2, Zenon
    <3>. QED BY <2>5, <3>3
  <2>6. CASE phase = "relue"
    <3>1. l = <<"livraison", c>>
          BY <1>4, <2>6
    <3>2. Lignes(t, "relue") = <<>> \/ Lignes(t, "relue") = <<<<"livraison", c>>>>
          BY <1>0, LignesDesPhases DEF Si
    <3>3. Lignes(t, "relue") = <<>> \/ Lignes(t, "relue") = <<l>>
          BY <3>1, <3>2, Zenon
    <3>. QED BY <2>6, <3>3
  <2>7. CASE phase = "reversement"
    <3>1. l = <<"reversement", c>>
          BY <1>4, <2>7
    <3>2. Lignes(t, "reversement") = <<>> \/ Lignes(t, "reversement") = <<<<"reversement", c>>>>
          BY <1>0, LignesDesPhases DEF Si
    <3>3. Lignes(t, "reversement") = <<>> \/ Lignes(t, "reversement") = <<l>>
          BY <3>1, <3>2, Zenon
    <3>. QED BY <2>7, <3>3
  <2>8. CASE phase = "actifs"
        BY <2>8, LignesDesPhases
  <2>. QED BY <2>1, <2>2, <2>3, <2>4, <2>5, <2>6, <2>7, <2>8
<1>6. phase # "actifs" => Bonne(d, t, phase, l)
  <2>1. CASE phase = "panier"
    <3>0. l = <<"panier", c>>
          BY <1>4, <2>1
    <3>1. l[1] = "panier" /\ Poids(d, l) = 0 /\ Cle(l) = 0
          BY <3>0, PoidsDesRangees
    <3>. QED BY <1>3, <2>1, <3>1 DEF Bonne, PoidsPhase
  <2>2. CASE phase \in {"livraison", "relue"}
    <3>0. l = <<"livraison", c>>
          BY <1>4, <2>2
    <3>1. l = <<"livraison", c>> /\ l[1] = "livraison" /\ l[2] = c /\ Poids(d, l) = 1 /\ Cle(l) = 0
          BY <3>0, PoidsDesRangees
    <3>. QED BY <1>0, <1>1, <1>3, <2>2, <3>1 DEF Bonne, PoidsPhase
  <2>3. CASE phase = "commande"
    <3>0. l = <<"commande", c>>
          BY <1>4, <2>3
    <3>1. l[1] = "commande" /\ Poids(d, l) = 2 /\ Cle(l) = c
          BY <3>0, PoidsDesRangees
    <3>. QED BY <1>0, <1>1, <1>2, <2>3, <3>1 DEF Bonne, PoidsPhase
  <2>4. CASE phase \in {"groupe", "demande"}
    <3>0. l = <<"groupe", GroupeDe[c]>> \/ l = <<"demande", c>>
          BY <1>4, <2>4
    <3>1. l[1] # "livraison" /\ Poids(d, l) = 3 /\ Cle(l) = 0
      <4>1. CASE l = <<"groupe", GroupeDe[c]>>
            BY <4>1, PoidsDesRangees
      <4>2. CASE l = <<"demande", c>>
            BY <4>2, PoidsDesRangees
      <4>. QED BY <3>0, <4>1, <4>2
    <3>. QED BY <1>3, <2>4, <3>1 DEF Bonne, PoidsPhase
  <2>5. CASE phase = "reversement"
    <3>0. l = <<"reversement", c>>
          BY <1>4, <2>5
    <3>1. l[1] = "reversement" /\ Poids(d, l) = 7 /\ Cle(l) = 0
          BY <3>0, PoidsDesRangees
    <3>. QED BY <1>3, <2>5, <3>1 DEF Bonne, PoidsPhase
  <2>. QED BY <2>1, <2>2, <2>3, <2>4, <2>5
<1>7. Len(<<>>) = 0 /\ Len(<<l>>) = 1
      OBVIOUS
<1>. QED BY <1>5, <1>6, <1>7, ParmiUne, ParmiAucune

LEMMA LignesTriees ==
    ASSUME NEW d, NEW t \in Transactions, NEW i \in 1..Len(Phases(t.genre)),
           NEW phase \in {"stocks", "commandes", "paiement"}, phase = Phases(t.genre)[i]
    PROVE  /\ \A l : Parmi(l, Lignes(t, phase)) => Bonne(d, t, phase, l)
           /\ \A j, k \in 1..Len(Lignes(t, phase)) : j < k => Avant(d, Lignes(t, phase)[j], Lignes(t, phase)[k])
<1>1. PICK S \in SUBSET Numeros, table \in {"commande", "stock", "paiement"} :
         /\ IsFiniteSet(S) /\ Lignes(t, phase) = Table(table, Croissant(S))
         /\ phase = (CASE table = "commande" -> "commandes" [] table = "stock" -> "stocks" [] OTHER -> "paiement")
  <2>1. CASE phase = "stocks"
    <3>1. PICK S : S = UNION {VariantesDe[e] : e \in CommandesDe(t)}
          OBVIOUS
    <3>2. S \subseteq Variantes
      <4>1. \A e \in CommandesDe(t) : VariantesDe[e] \subseteq Variantes
            BY Ensembles, VerrousOk DEF VerrousOk
      <4>. QED BY <3>1, <4>1
    <3>3. S \in SUBSET Numeros /\ IsFiniteSet(S)
          BY <3>1, <3>2, Ensembles DEF Numeros
    <3>4. Lignes(t, phase) = Table("stock", Croissant(S))
          BY <2>1, <3>1, LignesDesPhases
    <3>. QED BY <2>1, <3>3, <3>4
  <2>2. CASE phase = "commandes"
    <3>1. PICK S : S = CommandesDe(t)
          OBVIOUS
    <3>2. S \in SUBSET Numeros /\ IsFiniteSet(S)
          BY <3>1, Ensembles DEF Numeros
    <3>3. Lignes(t, phase) = Table("commande", Croissant(S))
          BY <2>2, <3>1, LignesDesPhases
    <3>. QED BY <2>2, <3>2, <3>3
  <2>3. CASE phase = "paiement"
    <3>1. PICK S : S = PaiementsVoulus(t)
          OBVIOUS
    <3>2. S \in SUBSET Paiements
      <4>1. t.genre \in {"valider", "annuler", "rembourser"}
            BY <2>3, GenresDesPhases
      <4>. QED BY <3>1, <4>1, TransactionsTypees DEF PaiementsVoulus, PaiementsConcernes
    <3>3. S \in SUBSET Numeros /\ IsFiniteSet(S)
          BY <3>2, Ensembles DEF Numeros
    <3>4. Lignes(t, phase) = Table("paiement", Croissant(S))
          BY <2>3, <3>1, LignesDesPhases
    <3>. QED BY <2>3, <3>3, <3>4
  <2>. QED BY <2>1, <2>2, <2>3
<1>2. PICK lignes : lignes = Lignes(t, phase)
      OBVIOUS
<1>3. /\ \A j \in 1..Len(lignes) :
            /\ Poids(d, lignes[j]) = PoidsTable(table)
            /\ lignes[j][1] = table /\ Cle(lignes[j]) \in Numeros
      /\ \A j, k \in 1..Len(lignes) : j < k => Avant(d, lignes[j], lignes[k])
  <2>1. LignesEnOrdre(d, table, Table(table, Croissant(S)))
        BY <1>1, TableSuivie
  <2>2. LignesEnOrdre(d, table, lignes)
        BY <1>1, <1>2, <2>1
  <2>. QED BY <2>2 DEF LignesEnOrdre
<1>4. PoidsPhase(t, phase) = PoidsTable(table)
      BY <1>1 DEF PoidsPhase, PoidsTable
<1>5. ASSUME NEW l, Parmi(l, lignes) PROVE Bonne(d, t, phase, l)
  <2>1. Poids(d, l) = PoidsPhase(t, phase) /\ l[1] = table /\ Cle(l) \in Numeros
        BY <1>3, <1>4, <1>5 DEF Parmi
  <2>. QED BY <1>1, <2>1 DEF Bonne
<1>. QED BY <1>2, <1>3, <1>5

LEMMA LignesDeFiche ==
    ASSUME NEW d, NEW t \in Transactions, NEW i \in 1..Len(Phases(t.genre)), Phases(t.genre)[i] = "fiche"
    PROVE  /\ \A l : Parmi(l, Lignes(t, "fiche")) => Bonne(d, t, "fiche", l)
           /\ \A j, k \in 1..Len(Lignes(t, "fiche")) :
                 j < k => Avant(d, Lignes(t, "fiche")[j], Lignes(t, "fiche")[k])
<1>1. PICK c : c = t.cible
      OBVIOUS
<1>2. PICK f : f = <<"livraison", c>>
      OBVIOUS
<1>3. PICK o : o = <<"commande", c>>
      OBVIOUS
<1>4. PICK b : b = <<"boutique", BoutiqueDe[c]>>
      OBVIOUS
<1>5. c \in Commandes /\ t.genre \in {"livrer", "contester"}
      BY <1>1, GenresDesPhases, TransactionsTypees
<1>6. Lignes(t, "fiche") = <<f, o, b>>
  <2>1. Lignes(t, "fiche") = <<<<"livraison", c>>, <<"commande", c>>, <<"boutique", BoutiqueDe[c]>>>>
        BY <1>1, LignesDesPhases
  <2>. QED BY <1>2, <1>3, <1>4, <2>1, Zenon
<1>7. Poids(d, f) = 1 /\ Cle(f) = 0 /\ f[1] = "livraison" /\ f[2] = c
      BY <1>2, PoidsDesRangees
<1>8. Poids(d, o) = 2 /\ Cle(o) = c /\ o[1] = "commande"
      BY <1>3, PoidsDesRangees
<1>9. Poids(d, b) = 3 /\ Cle(b) = 0 /\ b[1] = "boutique"
      BY <1>4, PoidsDesRangees
<1>10. Bonne(d, t, "fiche", f) /\ Bonne(d, t, "fiche", o) /\ Bonne(d, t, "fiche", b)
  <2>1. 0 \in Numeros /\ c \in Numeros
        BY <1>5 DEF Numeros
  <2>. QED BY <1>1, <1>5, <1>7, <1>8, <1>9, <2>1 DEF Bonne
<1>11. PICK L : L = <<f, o, b>>
      OBVIOUS
<1>12. Len(L) = 3 /\ L[1] = f /\ L[2] = o /\ L[3] = b
      BY <1>11
<1>13. \A j \in 1..3 : L[j] \in {f, o, b}
      BY <1>12
<1>14. \A j, k \in 1..3 : j < k => Avant(d, L[j], L[k])
      BY <1>7, <1>8, <1>9, <1>12 DEF Avant
<1>15. \A l : Parmi(l, L) => l \in {f, o, b}
      BY <1>12, <1>13 DEF Parmi
<1>. QED BY <1>6, <1>10, <1>11, <1>12, <1>14, <1>15

LEMMA LigneDeCoupon ==
    ASSUME CroisementsEvites, NEW d \in Departs, NEW t \in d.transactions, t \in Transactions,
           NEW i \in 1..Len(Phases(t.genre)), Phases(t.genre)[i] = "coupon"
    PROVE  /\ Len(Lignes(t, "coupon")) \in {0, 1}
           /\ \A l : Parmi(l, Lignes(t, "coupon")) => Bonne(d, t, "coupon", l)
<1>1. t.genre \in {"checkout", "annuler"}
      BY GenresDesPhases
<1>2. PICK g : g = IF t.genre = "checkout" THEN t.cible ELSE GroupeDe[t.cible]
      OBVIOUS
<1>3. PICK k : k = CouponDe[g]
      OBVIOUS
<1>4. PICK l : l = <<"coupon", k>>
      OBVIOUS
<1>5. Lignes(t, "coupon") = <<>> \/ (k # Aucun /\ Lignes(t, "coupon") = <<l>>)
  <2>1. PICK b \in BOOLEAN :
           b = (CouponDe[g] # Aucun
                   /\ (t.genre = "checkout" \/ \A e \in Commandes : GroupeDe[e] = g => AnnuleePour(t.cible, e)))
        OBVIOUS
  <2>2. Lignes(t, "coupon") = Si(b, <<"coupon", CouponDe[g]>>)
        BY <1>2, <2>1, LignesDesPhases
  <2>3. Lignes(t, "coupon") = Si(b, l)
        BY <1>3, <1>4, <2>2, Zenon
  <2>4. b => k # Aucun
        BY <1>3, <2>1
  <2>. QED BY <2>3, <2>4 DEF Si
<1>6. k # Aucun => Poids(d, l) = PoidsPhase(t, "coupon")
  <2>1. Poids(d, l) = (IF Achete(d, k) THEN 4 ELSE 8)
        BY <1>4, PoidsDesRangees
  <2>2. CASE t.genre = "checkout"
    <3>1. Achete(d, k)
          BY <1>2, <1>3, <2>2 DEF Achete
    <3>. QED BY <2>1, <2>2, <3>1 DEF PoidsPhase
  <2>3. CASE t.genre = "annuler" /\ k # Aucun
    <3>1. ASSUME NEW u \in d.transactions, u.genre = "checkout", CouponDe[u.cible] = k PROVE FALSE
      <4>1. u # t
            BY <2>3, <3>1
      <4>2. k = CouponDe[GroupeDe[t.cible]]
            BY <1>2, <1>3, <2>3
      <4>. QED BY <2>3, <3>1, <4>1, <4>2 DEF CroisementsEvites
    <3>2. ~ Achete(d, k)
          BY <3>1 DEF Achete
    <3>. QED BY <2>1, <2>3, <3>2 DEF PoidsPhase
  <2>. QED BY <1>1, <2>2, <2>3
<1>7. k # Aucun => Bonne(d, t, "coupon", l)
  <2>1. l[1] = "coupon" /\ Cle(l) = 0 /\ 0 \in Numeros
        BY <1>4, PoidsDesRangees DEF Numeros
  <2>. QED BY <1>6, <2>1 DEF Bonne
<1>8. Len(<<>>) = 0 /\ Len(<<l>>) = 1
      OBVIOUS
<1>. QED BY <1>5, <1>7, <1>8, ParmiUne, ParmiAucune

(* The rows of any query: their ranks, and their order. *)
LEMMA LignesSuivies ==
    ASSUME CroisementsEvites, NEW d \in Departs, NEW t \in d.transactions, t \in Transactions,
           NEW i \in 1..Len(Phases(t.genre)), NEW phase, phase = Phases(t.genre)[i]
    PROVE  /\ \A l : Parmi(l, Lignes(t, phase)) => Bonne(d, t, phase, l)
           /\ \A j, k \in 1..Len(Lignes(t, phase)) : j < k => Avant(d, Lignes(t, phase)[j], Lignes(t, phase)[k])
<1>1. phase \in Noms
      BY GenresDesPhases
<1>2. CASE phase \in {"panier", "livraison", "commande", "relue", "groupe", "demande", "reversement", "actifs"}
  <2>1. PICK lignes : lignes = Lignes(t, phase)
        OBVIOUS
  <2>2. Len(lignes) \in {0, 1} /\ \A l : Parmi(l, lignes) => Bonne(d, t, phase, l)
        BY <1>2, <2>1, LignesUniques
  <2>3. ASSUME NEW j \in 1..Len(lignes), NEW k \in 1..Len(lignes), j < k PROVE FALSE
    <3>1. CASE Len(lignes) = 0
          BY <2>3, <3>1
    <3>2. CASE Len(lignes) = 1
          BY <2>3, <3>2
    <3>. QED BY <2>2, <3>1, <3>2
  <2>. QED BY <2>1, <2>2, <2>3
<1>3. CASE phase \in {"stocks", "commandes", "paiement"}
      BY <1>3, LignesTriees, Zenon
<1>4. CASE phase = "fiche"
      BY <1>4, LignesDeFiche, Zenon
<1>5. CASE phase = "coupon"
  <2>1. PICK lignes : lignes = Lignes(t, "coupon")
        OBVIOUS
  <2>2. Len(lignes) \in {0, 1} /\ \A l : Parmi(l, lignes) => Bonne(d, t, "coupon", l)
        BY <1>5, <2>1, LigneDeCoupon
  <2>3. ASSUME NEW j \in 1..Len(lignes), NEW k \in 1..Len(lignes), j < k PROVE FALSE
    <3>1. CASE Len(lignes) = 0
          BY <2>3, <3>1
    <3>2. CASE Len(lignes) = 1
          BY <2>3, <3>2
    <3>. QED BY <2>2, <3>1, <3>2
  <2>. QED BY <1>5, <2>1, <2>2, <2>3
<1>. QED BY <1>1, <1>2, <1>3, <1>4, <1>5 DEF Noms

(* The ranks grow from a query to the next ones. *)
LEMMA PoidsCroissants ==
    ASSUME NEW t \in Transactions, NEW j \in 1..Len(Phases(t.genre)), NEW k \in 1..Len(Phases(t.genre)), j < k,
           NEW avant, NEW apres, avant = Phases(t.genre)[j], apres = Phases(t.genre)[k],
           apres \notin {"relue", "actifs"}
    PROVE  /\ avant = "relue" => 1 < PoidsPhase(t, apres)
           /\ avant = "fiche" => 3 < PoidsPhase(t, apres)
           /\ avant \notin {"relue", "fiche"} => PoidsPhase(t, avant) < PoidsPhase(t, apres)
<1>1. CASE t.genre = "annuler"
  <2>1. PICK s : s = Phases(t.genre)
        OBVIOUS
  <2>2. /\ Len(s) = 8 /\ s[1] = "livraison" /\ s[2] = "commande" /\ s[3] = "relue" /\ s[4] = "groupe"
        /\ s[5] = "stocks" /\ s[6] = "paiement" /\ s[7] = "reversement" /\ s[8] = "coupon"
        BY <1>1, <2>1, PhasesDesGenres
  <2>3. /\ PoidsPhase(t, s[1]) = 1 /\ PoidsPhase(t, s[2]) = 2 /\ PoidsPhase(t, s[4]) = 3 /\ PoidsPhase(t, s[5]) = 5
        /\ PoidsPhase(t, s[6]) = 6 /\ PoidsPhase(t, s[7]) = 7 /\ PoidsPhase(t, s[8]) = 8
        BY <1>1, <2>2 DEF PoidsPhase
  <2>4. PICK x \in 1..8, y \in 1..8 : x = j /\ y = k /\ x < y /\ avant = s[x] /\ apres = s[y]
        BY <2>1, <2>2
  <2>5. y # 3
        BY <2>2, <2>4
  <2>6. avant = "relue" => x = 3
    <3>1. \A i \in {1, 2, 4, 5, 6, 7, 8} : s[i] # "relue"
          BY <2>2
    <3>2. x \in {1, 2, 3, 4, 5, 6, 7, 8}
          BY <2>4
    <3>3. x # 3 => s[x] # "relue"
          BY <3>1, <3>2
    <3>. QED BY <2>4, <3>3
  <2>7. x = 3 => avant = "relue"
        BY <2>2, <2>4
  <2>8. avant # "fiche"
    <3>1. \A i \in {1, 2, 3, 4, 5, 6, 7, 8} : s[i] # "fiche"
          BY <2>2
    <3>. QED BY <2>4, <3>1
  <2>9. x = 3 => 1 < PoidsPhase(t, s[y])
        BY <2>3, <2>4
  <2>10. x # 3 => PoidsPhase(t, s[x]) < PoidsPhase(t, s[y])
    <3>1. CASE x = 1
          BY <2>3, <2>4, <2>5, <3>1
    <3>2. CASE x = 2
          BY <2>3, <2>4, <2>5, <3>2
    <3>3. CASE x \in {4, 5, 6, 7, 8}
          BY <2>3, <2>4, <3>3
    <3>. QED BY <2>4, <3>1, <3>2, <3>3
  <2>. QED BY <2>4, <2>6, <2>7, <2>8, <2>9, <2>10
<1>2. CASE t.genre = "valider"
      BY SMTT(30), <1>2, PhasesDesGenres DEF PoidsPhase
<1>3. CASE t.genre = "checkout"
      BY SMTT(30), <1>3, PhasesDesGenres DEF PoidsPhase
<1>4. CASE t.genre = "initier"
      BY SMTT(30), <1>4, PhasesDesGenres DEF PoidsPhase
<1>5. CASE t.genre \in {"livrer", "contester"}
      BY SMTT(30), <1>5, PhasesDesGenres DEF PoidsPhase
<1>6. CASE t.genre = "demander_retour"
      BY SMTT(30), <1>6, PhasesDesGenres DEF PoidsPhase
<1>7. CASE t.genre = "receptionner"
      BY SMTT(30), <1>7, PhasesDesGenres DEF PoidsPhase
<1>8. CASE t.genre = "rembourser"
      BY SMTT(30), <1>8, PhasesDesGenres DEF PoidsPhase
<1>. QED BY <1>1, <1>2, <1>3, <1>4, <1>5, <1>6, <1>7, <1>8, TransactionsTypees DEF Genres

LEMMA PoidsType ==
    ASSUME NEW d, NEW l
    PROVE  Poids(d, l) \in 0..8
BY DEF Poids

-----------------------------------------------------------------------------
(* The order is followed from the start. *)

LEMMA OrdreInit ==
    ASSUME Init
    PROVE  \E d \in Departs : OrdreSuivi(d)
<1>1. PICK d \in Departs :
         /\ statut = d.statut
         /\ fiche = [c \in Commandes |-> CASE statut[c] = "livree" -> "livree"
                                           [] statut[c] = "confirmee" -> "en_attente" [] OTHER -> "aucune"]
         /\ etat = [t \in Transactions |-> IF t \in d.transactions THEN "repos" ELSE "finie"]
         /\ tient = [t \in Transactions |-> {}]
      BY DEF Init
<1>2. ASSUME NEW c \in Commandes, ~ SansFiche(d, c) PROVE fiche[c] # "aucune"
  <2>1. statut[c] \in {"confirmee", "livree"}
        BY <1>1, <1>2, VerrousOk DEF VerrousOk, SansFiche
  <2>. QED BY <1>1, <2>1
<1>3. \A t \in Transactions : etat[t] # "ouverte" /\ tient[t] = {} /\ (etat[t] # "finie" => t \in d.transactions)
      BY <1>1
<1>. QED BY <1>2, <1>3 DEF OrdreSuivi, FichesGardees

(* A transaction that begins has asked for nothing. *)
LEMMA SuitCommencer ==
    ASSUME Controle, NEW d \in Departs, NEW t \in Transactions, Commencer(t)
    PROVE  Suit(d, t)'
<1>1. aPrendre'[t] = <<>> /\ tient'[t] = {} /\ reste'[t] = Phases(t.genre)
      BY DEF Commencer, Controle, Avancement
<1>2. Len(aPrendre'[t]) = 0
      BY <1>1
<1>3. \A l : ~ Demande(t, l)'
      BY <1>1, <1>2 DEF Demande
<1>4. t.genre = "annuler" => Len(reste'[t]) = 8
      BY <1>1, PhasesDesGenres
<1>5. \A i : i \notin 1..Len(aPrendre'[t])
      BY <1>2
<1>6. Apres(d, t, aPrendre'[t], tient'[t])
      BY <1>5 DEF Apres
<1>7. ASSUME t.genre = "annuler", Len(reste'[t]) <= 7 PROVE FALSE
  <2>1. PICK k \in Nat : k = Len(reste'[t]) /\ k = 8
        BY <1>4, <1>7
  <2>. QED BY <1>7, <2>1
<1>8. \A l : Demande(t, l)' => Permise(d, t, Len(reste'[t]), l)
      BY <1>3
<1>. QED BY <1>6, <1>7, <1>8 DEF Suit

(* A row that is taken was asked for. *)
LEMMA SuitPrendre ==
    ASSUME Controle, NEW d \in Departs, NEW t \in Transactions, Suit(d, t), Prendre(t)
    PROVE  Suit(d, t)'
<1>1. PICK a \in Seq(Rangees) : a = aPrendre[t]
      BY DEF Controle, TypeTransactions
<1>2. a # <<>> /\ tient'[t] = tient[t] \cup {Head(a)} /\ aPrendre'[t] = Tail(a) /\ reste'[t] = reste[t]
      BY <1>1 DEF Prendre, Controle, TypeTransactions
<1>3. PICK q : q = Tail(a)
      OBVIOUS
<1>4. /\ Head(a) = a[1] /\ Len(a) \in Nat /\ Len(q) = Len(a) - 1
      /\ \A i \in 1..Len(q) : q[i] = a[i + 1]
      BY <1>1, <1>2, <1>3, HeadTailProperties
<1>5. \A i \in 1..Len(q) : i + 1 \in 1..Len(a) /\ 1 \in 1..Len(a) /\ 1 < i + 1
      BY <1>4
<1>6. /\ \A i \in 1..Len(a) : \A l \in tient[t] : Avant(d, l, a[i]) \/ Relue(d, t, a[i])
      /\ \A i, j \in 1..Len(a) : i < j => Avant(d, a[i], a[j])
      BY <1>1 DEF Suit, Apres
<1>7. \A i \in 1..Len(q) : \A l \in tient'[t] : Avant(d, l, q[i]) \/ Relue(d, t, q[i])
  <2>. SUFFICES ASSUME NEW i \in 1..Len(q), NEW l \in tient'[t]
                PROVE  Avant(d, l, q[i]) \/ Relue(d, t, q[i])
       OBVIOUS
  <2>0. PICK m \in 1..Len(a) : m = i + 1 /\ 1 < m /\ 1 \in 1..Len(a)
        BY <1>5
  <2>1. q[i] = a[m]
        BY <1>4, <2>0
  <2>2. CASE l \in tient[t]
        BY <1>6, <2>0, <2>1, <2>2
  <2>3. CASE l = a[1]
        BY <1>6, <2>0, <2>1, <2>3
  <2>. QED BY <1>2, <1>4, <2>2, <2>3
<1>8. ASSUME NEW i \in 1..Len(q), NEW j \in 1..Len(q), i < j PROVE Avant(d, q[i], q[j])
  <2>1. PICK m \in 1..Len(a), n \in 1..Len(a) : m = i + 1 /\ n = j + 1
        BY <1>5
  <2>2. m < n
        BY <1>8, <2>1
  <2>3. q[i] = a[m] /\ q[j] = a[n]
        BY <1>4, <2>1
  <2>. QED BY <1>6, <2>2, <2>3
<1>9. \A l : Demande(t, l)' <=> Demande(t, l)
      BY ControlePrendre
<1>10. Apres(d, t, aPrendre'[t], tient'[t])
      BY <1>2, <1>3, <1>7, <1>8 DEF Apres
<1>11. \A l : Demande(t, l)' => Permise(d, t, Len(reste'[t]), l)
      BY <1>2, <1>9 DEF Suit
<1>12. t.genre = "annuler" /\ ~ SansFiche(d, t.cible) /\ Len(reste'[t]) <= 7 =>
          Demande(t, <<"livraison", t.cible>>)'
      BY <1>2, <1>9 DEF Suit
<1>. QED BY <1>10, <1>11, <1>12 DEF Suit

(* The rows of a query come after those that t holds, before those to come. *)
LEMMA SuitInterroger ==
    ASSUME CroisementsEvites, TypeDonnees, Controle, NEW d \in Departs, NEW t \in d.transactions, t \in Transactions,
           FichesGardees(d), Suit(d, t), Interroger(t)
    PROVE  Suit(d, t)'
<1>1. PICK s : s = Phases(t.genre)
      OBVIOUS
<1>2. PICK m, n, p : m = Len(s) /\ n = Len(reste[t]) /\ p = Len(s) - Len(reste[t]) + 1
      OBVIOUS
<1>r. m \in Nat /\ n \in Nat /\ p = m - n + 1 /\ n >= 1 /\ n <= m /\ p \in 1..m
  <2>1. Len(s) \in Nat
        BY <1>1, PhasesDesGenres
  <2>2. Len(reste[t]) \in 1..Len(s)
        BY <1>1, Requete
  <2>3. Len(s) - Len(reste[t]) + 1 \in 1..Len(s)
        BY <2>1, <2>2
  <2>4. Len(reste[t]) \in Nat /\ Len(reste[t]) >= 1 /\ Len(reste[t]) <= Len(s)
        BY <2>1, <2>2
  <2>. QED BY <1>2, <2>1, <2>3, <2>4
<1>3. PICK phase : phase = s[p]
      OBVIOUS
<1>p. p \in 1..Len(Phases(t.genre)) /\ phase = Phases(t.genre)[p]
      BY <1>1, <1>2, <1>3, <1>r
<1>4. PICK lignes : lignes = Lignes(t, phase)
      OBVIOUS
<1>5. /\ Len(reste'[t]) = n - 1
      /\ \A l : Demande(t, l) <=> l \in tient[t]
      /\ \A l : Demande(t, l)' <=> l \in tient[t] \/ Parmi(l, lignes)
      BY <1>1, <1>2, <1>3, <1>4, Requete DEF Tient
<1>6. aPrendre'[t] = lignes /\ tient'[t] = tient[t]
  <2>1. aPrendre' = [aPrendre EXCEPT ![t] = Lignes(t, Head(reste[t]))] /\ tient' = tient /\ reste[t] # <<>>
        BY DEF Interroger
  <2>2. Head(reste[t]) = phase
        BY <1>1, <1>2, <1>3, <2>1, Tete
  <2>. QED BY <1>4, <2>1, <2>2 DEF Controle, TypeTransactions
<1>7. /\ \A l : Parmi(l, lignes) => Bonne(d, t, phase, l)
      /\ \A j, k \in 1..Len(lignes) : j < k => Avant(d, lignes[j], lignes[k])
      BY <1>4, <1>p, LignesSuivies
<1>8. \A l \in tient[t] : Permise(d, t, n, l)
      BY <1>2, <1>5 DEF Suit
<1>9. t.genre = "annuler" =>
         /\ Len(s) = 8 /\ s[1] = "livraison" /\ s[2] = "commande" /\ s[3] = "relue" /\ s[4] = "groupe"
         /\ s[5] = "stocks" /\ s[6] = "paiement" /\ s[7] = "reversement" /\ s[8] = "coupon"
      BY <1>1, PhasesDesGenres
<1>10. phase = "relue" => t.genre = "annuler" /\ n = 6
  <2>1. phase = "relue" => t.genre = "annuler"
        BY <1>p, GenresDesPhases
  <2>2. ASSUME phase = "relue" PROVE p = 3 /\ m = 8
    <3>1. m = 8
          BY <1>2, <1>9, <2>1, <2>2
    <3>2. p \in 1..8
          BY <1>r, <3>1
    <3>3. p = 3
      <4>1. p \in {1, 2, 3, 4, 5, 6, 7, 8}
            BY <3>2
      <4>2. \A k \in {1, 2, 4, 5, 6, 7, 8} : s[k] # "relue"
            BY <1>9, <2>1, <2>2
      <4>. QED BY <1>3, <2>2, <4>1, <4>2
    <3>. QED BY <3>1, <3>3
  <2>3. ASSUME phase = "relue" PROVE n = 6
        BY <1>r, <2>2, <2>3
  <2>. QED BY <2>1, <2>3
<1>11. ASSUME NEW i \in 1..Len(lignes), NEW l \in tient[t]
       PROVE  Avant(d, l, lignes[i]) \/ Relue(d, t, lignes[i])
  <2>1. Parmi(lignes[i], lignes)
        BY DEF Parmi
  <2>2. Bonne(d, t, phase, lignes[i])
        BY <1>7, <2>1
  <2>3. CASE phase = "relue"
    <3>1. lignes[i] = <<"livraison", t.cible>>
          BY <2>2, <2>3 DEF Bonne
    <3>2. CASE SansFiche(d, t.cible)
          BY <1>10, <2>3, <3>1, <3>2 DEF Relue
    <3>3. CASE ~ SansFiche(d, t.cible)
      <4>1. Demande(t, <<"livraison", t.cible>>)
        <5>1. n <= 7 /\ t.genre = "annuler"
              BY <1>10, <2>3
        <5>. QED BY <1>2, <3>3, <5>1 DEF Suit
      <4>2. Tient(t, <<"livraison", t.cible>>)
            BY <1>5, <4>1 DEF Tient
      <4>3. lignes = Si(~ Tient(t, <<"livraison", t.cible>>) /\ fiche[t.cible] # "aucune", <<"livraison", t.cible>>)
            BY <1>4, <2>3, LignesDesPhases
      <4>4. lignes = <<>>
            BY <4>2, <4>3 DEF Si
      <4>. QED BY <2>1, <4>4, ParmiAucune
    <3>. QED BY <3>2, <3>3
  <2>4. CASE phase # "relue"
    <3>1. phase # "actifs"
          BY <2>2 DEF Bonne
    <3>2. p > Len(Phases(t.genre)) - n
      <4>1. p > m - n
            BY <1>r
      <4>. QED BY <1>1, <1>2, <4>1
    <3>3. Poids(d, l) < PoidsPhase(t, phase)
          BY <1>8, <1>p, <2>4, <3>1, <3>2 DEF Permise
    <3>4. PoidsPhase(t, phase) <= Poids(d, lignes[i])
      <4>1. CASE phase = "fiche"
        <5>1. PoidsPhase(t, phase) = 1
              BY <4>1 DEF PoidsPhase
        <5>. QED BY <2>2, <4>1, <5>1 DEF Bonne
      <4>2. CASE phase # "fiche"
        <5>1. Poids(d, lignes[i]) = PoidsPhase(t, phase)
              BY <2>2, <2>4, <4>2 DEF Bonne
        <5>. QED BY <5>1, PoidsType
      <4>. QED BY <4>1, <4>2
    <3>5. PICK x \in Int, y \in Int, z \in Int : x = Poids(d, l) /\ y = PoidsPhase(t, phase) /\ z = Poids(d, lignes[i])
      <4>1. PoidsPhase(t, phase) \in Int
            BY DEF PoidsPhase
      <4>. QED BY <4>1, PoidsType
    <3>6. x < z
          BY <3>3, <3>4, <3>5
    <3>. QED BY <3>5, <3>6 DEF Avant
  <2>. QED BY <2>3, <2>4
<1>12. Apres(d, t, aPrendre'[t], tient'[t])
      BY <1>6, <1>7, <1>11 DEF Apres
<1>13. ASSUME NEW l, Demande(t, l)' PROVE Permise(d, t, n - 1, l)
  <2>1. CASE l \in tient[t]
    <3>1. Permise(d, t, n, l)
          BY <1>8, <2>1
    <3>2. \A j \in 1..m : j > m - (n - 1) => j > m - n
          BY <1>r
    <3>. QED BY <1>1, <1>2, <3>1, <3>2 DEF Permise
  <2>2. CASE Parmi(l, lignes)
    <3>1. Bonne(d, t, phase, l)
          BY <1>7, <2>2
    <3>2. ASSUME NEW j \in 1..m, j > m - (n - 1), s[j] \notin {"relue", "actifs"}
          PROVE  Poids(d, l) < PoidsPhase(t, s[j])
      <4>1. p < j
            BY <1>r, <3>2
      <4>2. PICK apres : apres = s[j]
            OBVIOUS
      <4>3. /\ phase = "relue" => 1 < PoidsPhase(t, apres)
            /\ phase = "fiche" => 3 < PoidsPhase(t, apres)
            /\ phase \notin {"relue", "fiche"} => PoidsPhase(t, phase) < PoidsPhase(t, apres)
        <5>1. j \in 1..Len(Phases(t.genre)) /\ apres = Phases(t.genre)[j]
              BY <1>1, <1>2, <3>2, <4>2
        <5>. QED BY <1>p, <3>2, <4>1, <4>2, <5>1, PoidsCroissants
      <4>4. PICK x \in Int, y \in Int : x = Poids(d, l) /\ y = PoidsPhase(t, apres)
        <5>1. PoidsPhase(t, apres) \in Int
              BY DEF PoidsPhase
        <5>. QED BY <5>1, PoidsType
      <4>5. x < y
        <5>1. CASE phase = "relue"
              BY <3>1, <4>3, <4>4, <5>1 DEF Bonne
        <5>2. CASE phase = "fiche"
              BY <3>1, <4>3, <4>4, <5>2 DEF Bonne
        <5>3. CASE phase \notin {"relue", "fiche"}
              BY <3>1, <4>3, <4>4, <5>3 DEF Bonne
        <5>. QED BY <5>1, <5>2, <5>3
      <4>. QED BY <4>2, <4>4, <4>5
    <3>. QED BY <1>1, <1>2, <3>1, <3>2 DEF Bonne, Permise
  <2>. QED BY <1>5, <1>13, <2>1, <2>2
<1>14. \A l : Demande(t, l)' => Permise(d, t, Len(reste'[t]), l)
      BY <1>5, <1>13
<1>15. ASSUME t.genre = "annuler", ~ SansFiche(d, t.cible) PROVE Demande(t, <<"livraison", t.cible>>)'
  <2>1. CASE n <= 7
    <3>1. Demande(t, <<"livraison", t.cible>>)
          BY <1>2, <1>15, <2>1 DEF Suit
    <3>. QED BY <1>5, <3>1
  <2>2. CASE n = 8
    <3>0. m = 8
          BY <1>2, <1>9, <1>15
    <3>a. p = 1
          BY <1>r, <2>2, <3>0
    <3>1. phase = "livraison"
          BY <1>3, <1>9, <1>15, <3>a
    <3>2. t.cible \in Commandes
          BY <1>15, TransactionsTypees
    <3>3. fiche[t.cible] # "aucune"
          BY <1>15, <3>2 DEF FichesGardees
    <3>4. lignes = Si(fiche[t.cible] # "aucune", <<"livraison", t.cible>>)
          BY <1>4, <3>1, LignesDesPhases
    <3>5. Parmi(<<"livraison", t.cible>>, lignes)
          BY <3>3, <3>4, ParmiSi
    <3>. QED BY <1>5, <3>5
  <2>3. m = 8
        BY <1>2, <1>9, <1>15
  <2>. QED BY <1>r, <2>1, <2>2, <2>3
<1>. QED BY <1>12, <1>14, <1>15 DEF Suit

(* What the others do leaves t where it is. *)
LEMMA SuitInchange ==
    ASSUME NEW d, NEW t, Suit(d, t), reste'[t] = reste[t], aPrendre'[t] = aPrendre[t], tient'[t] = tient[t]
    PROVE  Suit(d, t)'
<1>1. \A l : Demande(t, l)' <=> Demande(t, l)
      BY DEF Demande
<1>2. Apres(d, t, aPrendre'[t], tient'[t])
      BY DEF Suit
<1>3. \A l : Demande(t, l)' => Permise(d, t, Len(reste'[t]), l)
      BY <1>1 DEF Suit
<1>4. t.genre = "annuler" /\ ~ SansFiche(d, t.cible) /\ Len(reste'[t]) <= 7 =>
          Demande(t, <<"livraison", t.cible>>)'
      BY <1>1 DEF Suit
<1>. QED BY <1>2, <1>3, <1>4 DEF Suit

LEMMA FichesRestent ==
    ASSUME IInv, NEW d, FichesGardees(d), NEW t \in Transactions, Commettre(t)
    PROVE  FichesGardees(d)'
<1>0. fiche \in [Commandes -> StatutsFiche] /\ FichesGardees(d)
      BY DEF IInv, TypeDonnees
<1>1. CASE t.genre = "valider"
      BY <1>0, <1>1, CommitValider DEF EffetValider, FichesGardees
<1>2. CASE t.genre = "livrer"
      BY <1>0, <1>2, CommitLivrer DEF EffetLivrer, FichesGardees
<1>3. CASE t.genre = "annuler"
      BY <1>0, <1>3, CommitAnnuler DEF EffetAnnuler, FichesGardees
<1>4. CASE t.genre = "initier"
      BY <1>0, <1>4, CommitInitier DEF EffetInitier, FichesGardees
<1>5. CASE t.genre = "checkout"
      BY <1>0, <1>5, CommitCheckout DEF EffetCheckout, FichesGardees
<1>6. CASE t.genre \notin {"valider", "initier", "livrer", "checkout", "annuler"}
      BY <1>0, <1>6, CommitAutre DEF donnees, FichesGardees
<1>. QED BY <1>1, <1>2, <1>3, <1>4, <1>5, <1>6

(* What one transaction does to the order of all. *)
LEMMA OrdrePourTous ==
    ASSUME NEW d, NEW t \in Transactions, OrdreSuivi(d), FichesGardees(d)', etat[t] # "finie",
           \A u \in Transactions : u # t =>
              etat'[u] = etat[u] /\ reste'[u] = reste[u] /\ aPrendre'[u] = aPrendre[u] /\ tient'[u] = tient[u],
           etat'[t] = "ouverte" => Suit(d, t)',
           etat'[t] # "ouverte" => tient'[t] = {}
    PROVE  OrdreSuivi(d)'
<1>1. ASSUME NEW u \in Transactions
      PROVE  /\ etat'[u] = "ouverte" => Suit(d, u)'
             /\ etat'[u] # "ouverte" => tient'[u] = {}
             /\ etat'[u] # "finie" => u \in d.transactions
  <2>1. CASE u = t
        BY <2>1 DEF OrdreSuivi
  <2>2. CASE u # t
    <3>1. etat'[u] = etat[u] /\ reste'[u] = reste[u] /\ aPrendre'[u] = aPrendre[u] /\ tient'[u] = tient[u]
          BY <2>2
    <3>. QED BY <3>1, SuitInchange DEF OrdreSuivi
  <2>. QED BY <2>1, <2>2
<1>. QED BY <1>1 DEF OrdreSuivi

LEMMA OrdreNext ==
    ASSUME CroisementsEvites, IInv, NEW d \in Departs, OrdreSuivi(d), [Next]_vars
    PROVE  OrdreSuivi(d)'
<1>0. TypeDonnees /\ Controle /\ TypeTransactions /\ FichesGardees(d)
      BY DEF IInv, Controle, OrdreSuivi
<1>1. ASSUME NEW t \in Transactions, Commencer(t) PROVE OrdreSuivi(d)'
  <2>1. etat[t] = "repos" /\ etat' = [etat EXCEPT ![t] = "ouverte"] /\ UNCHANGED <<donnees, reste, aPrendre, tient, lu>>
        BY <1>1 DEF Commencer
  <2>2. FichesGardees(d)'
        BY <1>0, <2>1 DEF FichesGardees, donnees
  <2>3. Suit(d, t)'
        BY <1>0, <1>1, SuitCommencer
  <2>4. etat'[t] = "ouverte" /\ \A u \in Transactions : u # t => etat'[u] = etat[u]
        BY <1>0, <2>1 DEF TypeTransactions
  <2>. QED BY <2>1, <2>2, <2>3, <2>4, OrdrePourTous
<1>2. ASSUME NEW t \in Transactions, Interroger(t) PROVE OrdreSuivi(d)'
  <2>1. /\ UNCHANGED <<donnees, etat, tient>> /\ etat[t] = "ouverte"
        /\ aPrendre' = [aPrendre EXCEPT ![t] = Lignes(t, Head(reste[t]))]
        /\ reste' = [reste EXCEPT ![t] = Tail(reste[t])]
        BY <1>0, <1>2 DEF Interroger, PretePourLaSuite, TypeTransactions
  <2>2. FichesGardees(d)'
        BY <1>0, <2>1 DEF FichesGardees, donnees
  <2>3. Suit(d, t) /\ t \in d.transactions
        BY <2>1 DEF OrdreSuivi
  <2>4. Suit(d, t)'
        BY <1>0, <1>2, <2>3, SuitInterroger
  <2>5. \A u \in Transactions : u # t =>
           etat'[u] = etat[u] /\ reste'[u] = reste[u] /\ aPrendre'[u] = aPrendre[u] /\ tient'[u] = tient[u]
        BY <1>0, <2>1 DEF TypeTransactions
  <2>. QED BY <2>1, <2>2, <2>4, <2>5, OrdrePourTous
<1>3. ASSUME NEW t \in Transactions, Prendre(t) PROVE OrdreSuivi(d)'
  <2>1. /\ UNCHANGED <<donnees, etat, reste>> /\ etat[t] = "ouverte"
        /\ \A u \in Transactions : u # t => tient'[u] = tient[u] /\ aPrendre'[u] = aPrendre[u]
        BY <1>0, <1>3, ControlePrendre DEF Prendre
  <2>2. FichesGardees(d)'
        BY <1>0, <2>1 DEF FichesGardees, donnees
  <2>3. Suit(d, t)
        BY <2>1 DEF OrdreSuivi
  <2>4. Suit(d, t)'
        BY <1>0, <1>3, <2>3, SuitPrendre
  <2>. QED BY <2>1, <2>2, <2>4, OrdrePourTous
<1>4. ASSUME NEW t \in Transactions, etat[t] = "ouverte", Terminer(t), FichesGardees(d)' PROVE OrdreSuivi(d)'
  <2>1. etat' = [etat EXCEPT ![t] = "finie"] /\ tient' = [tient EXCEPT ![t] = {}] /\ UNCHANGED <<reste, aPrendre, lu>>
        BY <1>4 DEF Terminer
  <2>2. etat'[t] = "finie" /\ tient'[t] = {}
        BY <1>0, <2>1 DEF TypeTransactions
  <2>3. \A u \in Transactions : u # t =>
           etat'[u] = etat[u] /\ reste'[u] = reste[u] /\ aPrendre'[u] = aPrendre[u] /\ tient'[u] = tient[u]
        BY <1>0, <2>1 DEF TypeTransactions
  <2>. QED BY <1>4, <2>2, <2>3, OrdrePourTous
<1>5. ASSUME NEW t \in Transactions, Refuser(t) PROVE OrdreSuivi(d)'
  <2>1. etat[t] = "ouverte" /\ Terminer(t) /\ UNCHANGED donnees
        BY <1>5 DEF Refuser, PretePourLaSuite
  <2>2. FichesGardees(d)'
        BY <1>0, <2>1 DEF FichesGardees, donnees
  <2>. QED BY <1>4, <2>1, <2>2
<1>6. ASSUME NEW t \in Transactions, Commettre(t) PROVE OrdreSuivi(d)'
  <2>1. etat[t] = "ouverte" /\ Terminer(t)
        BY <1>6, AuCommit
  <2>2. FichesGardees(d)'
        BY <1>0, <1>6, FichesRestent
  <2>. QED BY <1>4, <2>1, <2>2
<1>7. CASE UNCHANGED vars
  <2>1. UNCHANGED <<donnees, etat, reste, aPrendre, tient>>
        BY <1>7 DEF vars
  <2>2. FichesGardees(d)'
        BY <1>0, <2>1 DEF FichesGardees, donnees
  <2>3. \A u \in Transactions : Suit(d, u) => Suit(d, u)'
        BY <2>1, SuitInchange
  <2>. QED BY <2>1, <2>2, <2>3 DEF OrdreSuivi
<1>. QED BY <1>1, <1>2, <1>3, <1>5, <1>6, <1>7 DEF Next

-----------------------------------------------------------------------------
(* Nobody waits in a circle: the rows that are waited for would grow. *)

LEMMA PlusGrand ==
    ASSUME NEW S, S \subseteq Nat, S # {}, NEW borne \in Nat, \A x \in S : x <= borne
    PROVE  \E m \in S : \A x \in S : x <= m
<1>. DEFINE T == {borne - x : x \in S}
<1>1. T \subseteq Nat /\ T # {}
  <2>1. \A x \in S : borne - x \in Nat
    <3>. TAKE x \in S
    <3>1. x \in Nat /\ x <= borne
          OBVIOUS
    <3>. QED BY <3>1
  <2>. QED BY <2>1
<1>2. PICK k \in T : \A y \in T : k <= y
      BY <1>1, PlusPetit
<1>3. PICK m \in S : k = borne - m
      OBVIOUS
<1>4. ASSUME NEW x \in S PROVE x <= m
  <2>1. k <= borne - x
        BY <1>2
  <2>2. x \in Nat /\ m \in Nat
        OBVIOUS
  <2>. QED BY <1>3, <2>1, <2>2
<1>. QED BY <1>4

(* The row that a blocked transaction waits for comes before the one that its holder waits for. *)
LEMMA AttenteCroissante ==
    ASSUME CroisementsEvites, Controle, NEW d \in Departs, OrdreSuivi(d),
           NEW t \in Transactions, NEW u \in Transactions, NEW v \in Transactions, Attend(t, u), Attend(u, v)
    PROVE  /\ Avant(d, Head(aPrendre[t]), Head(aPrendre[u]))
           /\ Cle(Head(aPrendre[t])) \in Numeros /\ Cle(Head(aPrendre[u])) \in Numeros
<1>1. /\ u # v /\ etat[t] = "ouverte" /\ etat[u] = "ouverte" /\ aPrendre[t] # <<>> /\ aPrendre[u] # <<>>
      /\ Head(aPrendre[t]) \in tient[u] /\ Head(aPrendre[u]) \in tient[v]
      BY DEF Attend, Tient
<1>2. tient[v] # {}
      BY <1>1
<1>3. etat[v] = "ouverte" /\ Suit(d, t) /\ Suit(d, u) /\ Suit(d, v) /\ u \in d.transactions /\ v \in d.transactions
      BY <1>1, <1>2 DEF OrdreSuivi
<1>4. PICK a \in Seq(Rangees), b \in Seq(Rangees) : a = aPrendre[t] /\ b = aPrendre[u]
      BY DEF Controle, TypeTransactions
<1>5. /\ Head(a) = a[1] /\ 1 \in 1..Len(a)
      /\ Head(b) = b[1] /\ 1 \in 1..Len(b)
  <2>1. \A q \in Seq(Rangees) : q # <<>> => Head(q) = q[1] /\ 1 \in 1..Len(q)
    <3>. TAKE q \in Seq(Rangees)
    <3>. HAVE q # <<>>
    <3>1. Len(q) \in Nat /\ Len(q) # 0 /\ Head(q) = q[1]
          BY HeadTailProperties
    <3>. QED BY <3>1
  <2>. QED BY <1>1, <1>4, <2>1
<1>6. Demande(t, a[1]) /\ Demande(u, b[1])
      BY <1>4, <1>5 DEF Demande
<1>7. Cle(a[1]) \in Numeros /\ Cle(b[1]) \in Numeros
      BY <1>3, <1>6 DEF Suit, Permise
<1>8. Avant(d, a[1], b[1]) \/ Relue(d, u, b[1])
      BY <1>1, <1>3, <1>4, <1>5 DEF Suit, Apres
<1>9. ASSUME Relue(d, u, b[1]) PROVE FALSE
  <2>1. u.genre = "annuler" /\ SansFiche(d, u.cible) /\ b[1] = <<"livraison", u.cible>>
        BY <1>9 DEF Relue
  <2>2. Demande(v, b[1])
        BY <1>1, <1>4, <1>5 DEF Demande
  <2>3. Permise(d, v, Len(reste[v]), b[1])
        BY <1>3, <2>2 DEF Suit
  <2>4. b[1][1] = "livraison" /\ b[1][2] = u.cible
        BY <2>1
  <2>5. v.genre \in {"annuler", "livrer", "contester"} /\ v.cible = u.cible
        BY <2>3, <2>4 DEF Permise
  <2>. QED BY <1>1, <1>3, <2>1, <2>5 DEF CroisementsEvites
<1>. QED BY <1>4, <1>5, <1>7, <1>8, <1>9

LEMMA AttenteSansCercle ==
    ASSUME CroisementsEvites, Controle, NEW d \in Departs, OrdreSuivi(d)
    PROVE  SansInterblocage
<1>. SUFFICES ASSUME NEW D \in (SUBSET {t \in Transactions : \E u \in Transactions : Attend(t, u)}) \ {{}},
                     \A t \in D : \E u \in D : Attend(t, u)
              PROVE  FALSE
     BY DEF SansInterblocage
<1>. DEFINE tete(t) == Head(aPrendre[t])
<1>1. D \subseteq Transactions /\ D # {}
      OBVIOUS
<1>2. ASSUME NEW t \in D
      PROVE  /\ Poids(d, tete(t)) \in 0..8 /\ Cle(tete(t)) \in Numeros
             /\ \E u \in D : Avant(d, tete(t), tete(u))
  <2>1. PICK u \in D : Attend(t, u)
        OBVIOUS
  <2>2. PICK v \in D : Attend(u, v)
        OBVIOUS
  <2>3. Avant(d, tete(t), tete(u)) /\ Cle(tete(t)) \in Numeros
        BY <1>1, <2>1, <2>2, AttenteCroissante
  <2>. QED BY <2>3, PoidsType
<1>3. PICK borne \in Nat : \A x \in Numeros : x \in Nat /\ x <= borne
  <2>1. Numeros \subseteq Nat /\ IsFiniteSet(Numeros)
    <3>1. IsFiniteSet(Commandes) /\ IsFiniteSet(Variantes) /\ IsFiniteSet(Paiements) /\ IsFiniteSet({0})
          BY VerrousOk, FS_Singleton DEF VerrousOk
    <3>2. IsFiniteSet(Commandes \cup Variantes)
          BY <3>1, FS_Union
    <3>3. IsFiniteSet((Commandes \cup Variantes) \cup Paiements)
          BY <3>1, <3>2, FS_Union
    <3>4. IsFiniteSet(((Commandes \cup Variantes) \cup Paiements) \cup {0})
          BY <3>1, <3>3, FS_Union
    <3>. QED BY <3>4, VerrousOk DEF VerrousOk, Numeros
  <2>2. PICK n \in Nat : \A x \in Numeros : x < n
        BY <2>1, Bornes
  <2>3. ASSUME NEW x \in Numeros PROVE x \in Nat /\ x <= n
    <3>1. x \in Nat /\ x < n
          BY <2>1, <2>2
    <3>. QED BY <3>1
  <2>. QED BY <2>3
<1>4. PICK t0 \in D : \A u \in D : Poids(d, tete(u)) <= Poids(d, tete(t0))
  <2>. DEFINE S == {Poids(d, tete(t)) : t \in D}
  <2>0. ASSUME NEW t \in D PROVE Poids(d, tete(t)) \in Nat /\ Poids(d, tete(t)) <= 8
    <3>1. Poids(d, tete(t)) \in 0..8
          BY <1>2
    <3>. QED BY <3>1
  <2>1. S \subseteq Nat /\ S # {} /\ \A x \in S : x <= 8
        BY <1>1, <2>0
  <2>2. PICK m \in S : \A x \in S : x <= m
    <3>. HIDE DEF S
    <3>. QED BY <2>1, PlusGrand
  <2>. QED BY <2>2
<1>5. PICK p \in 0..8 : p = Poids(d, tete(t0))
      BY <1>2
<1>. DEFINE E == {t \in D : Poids(d, tete(t)) = p}
<1>6. PICK t1 \in E : \A u \in E : Cle(tete(u)) <= Cle(tete(t1))
  <2>. DEFINE S == {Cle(tete(t)) : t \in E}
  <2>1. S \subseteq Nat /\ S # {} /\ \A x \in S : x <= borne
        BY <1>2, <1>3, <1>5
  <2>2. PICK m \in S : \A x \in S : x <= m
    <3>. HIDE DEF S
    <3>. QED BY <2>1, PlusGrand
  <2>. QED BY <2>2
<1>7. PICK u \in D : Avant(d, tete(t1), tete(u))
      BY <1>2
<1>8. PICK q \in 0..8, k \in Nat, l \in Nat : q = Poids(d, tete(u)) /\ k = Cle(tete(t1)) /\ l = Cle(tete(u))
      BY <1>2, <1>3
<1>9. q <= p
      BY <1>4, <1>5, <1>8
<1>10. p < q \/ (p = q /\ k < l)
      BY <1>7, <1>8 DEF Avant
<1>11. q = p => l <= k
      BY <1>6, <1>8
<1>. QED BY <1>9, <1>10, <1>11

(***************************************************************************)
(* No set of transactions waits for itself, whatever their number and the  *)
(* tables, as long as no start runs one of the two crossings that the code *)
(* leaves: the cancellation of an order without a sheet together with      *)
(* another cancellation, a shipment or a contestation of it, and a         *)
(* cancellation together with a checkout that uses the same coupon.        *)
(***************************************************************************)
THEOREM Sans_Interblocage == CroisementsEvites => (Spec => []SansInterblocage)
<1>. SUFFICES ASSUME CroisementsEvites PROVE Spec => []SansInterblocage
     OBVIOUS
<1>. DEFINE Ordre == \E d \in Departs : OrdreSuivi(d)
<1>1. Init => Ordre
      BY OrdreInit
<1>2. Ordre /\ IInv /\ [Next]_vars => Ordre'
      BY OrdreNext
<1>3. Ordre /\ IInv => SansInterblocage
      BY AttenteSansCercle DEF IInv
<1>. QED BY <1>1, <1>2, <1>3, Invariance, PTL DEF Spec
=============================================================================
