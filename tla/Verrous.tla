------------------------------- MODULE Verrous -------------------------------
(***************************************************************************)
(* Row locks of the transactions of the back end, under PostgreSQL's READ  *)
(* COMMITTED: a transaction takes the rows of its SELECT ... FOR UPDATE    *)
(* one by one, waits for a row that another one holds, sees what the       *)
(* others committed, and publishes its writes and releases its rows at its *)
(* commit. Commandes takes each transaction as one step; this module shows *)
(* what makes that true (the re-reading of the sheet, the lock of the      *)
(* checkout, orders before payments) and who may wait for whom.            *)
(*                                                                         *)
(* Left out: the locks of foreign keys at commit, the accounts joined to a *)
(* sheet or a payout (always the last rows of their query), adjustments.   *)
(***************************************************************************)
EXTENDS Integers, Sequences, FiniteSets

CONSTANTS
    Commandes, Variantes, Paiements,  \* sets of numbers: primary keys
    Groupes, Boutiques, Coupons,
    Aucun,            \* no coupon
    GroupeDe,         \* the checkout of an order
    BoutiqueDe,       \* the shop of an order
    VariantesDe,      \* the variants of an order
    CouponDe,         \* the coupon of a checkout, or Aucun (usable many times)
    Couvre,           \* Paiement.commandes
    Departs           \* bound: the starts considered, with the transactions
                      \* [genre, cible, n] that run from there, each at most once

(* What a transaction of each kind is about. *)
Cibles(genre) ==
    CASE genre = "checkout"               -> Groupes
      [] genre \in {"initier", "valider"} -> Paiements
      [] OTHER                            -> Commandes

Genres == {"annuler", "valider", "checkout", "initier", "livrer", "contester", "demander_retour",
           "receptionner", "rembourser"}

(* Which payments may collect the same order. *)
SeRecouvrent(p, q) == p # q /\ Couvre[p] \cap Couvre[q] # {}

ASSUME VerrousOk ==
    /\ Commandes \subseteq Nat /\ Variantes \subseteq Nat /\ Paiements \subseteq Nat
    /\ IsFiniteSet(Commandes) /\ IsFiniteSet(Variantes) /\ IsFiniteSet(Paiements)
    /\ GroupeDe \in [Commandes -> Groupes]
    /\ \A g \in Groupes : \E c \in Commandes : GroupeDe[c] = g
    /\ BoutiqueDe \in [Commandes -> Boutiques]
    /\ VariantesDe \in [Commandes -> SUBSET Variantes]
    /\ CouponDe \in [Groupes -> Coupons \cup {Aucun}]
    /\ Aucun \notin Coupons
    \* _cible: a payment covers an order, or orders of one checkout
    /\ Couvre \in [Paiements -> (SUBSET Commandes) \ {{}}]
    /\ \A p \in Paiements : \A c, d \in Couvre[p] : GroupeDe[c] = GroupeDe[d]
    /\ \A d \in Departs :
          /\ d.statut \in [Commandes -> {"absente", "creee", "confirmee", "livree"}]
          /\ d.paiement \in [Paiements -> {"aucun", "en_attente", "valide"}]
          /\ \A p, q \in Paiements : SeRecouvrent(p, q) /\ d.paiement[p] # "aucun" => d.paiement[q] = "aucun"
          /\ \A t \in d.transactions : t.genre \in Genres /\ t.cible \in Cibles(t.genre)

Transactions == UNION {d.transactions : d \in Departs}

VARIABLES
    statut,           \* Commande.status, as committed
    fiche,            \* Livraison.status, as committed; the payout row is created with it
    paiement,         \* Paiement.statut, as committed
    utilise,          \* the checkouts with an UtilisationCoupon row
    rembourse,        \* the (payment, order) with a Remboursement
    etat,             \* "repos", "ouverte", "finie"
    reste,            \* the queries that a transaction has still to make
    aPrendre,         \* the rows its current query has still to lock
    tient,            \* the rows it holds
    lu                \* the payments as its query on them saw them

donnees == <<statut, fiche, paiement, utilise, rembourse>>
vars == <<donnees, etat, reste, aPrendre, tient, lu>>

-----------------------------------------------------------------------------
(* The queries of each kind of transaction, in the order of the code. *)

PhasesAnnulerSansGroupe == <<"livraison", "commande", "relue", "stocks", "paiement", "reversement", "coupon">>

PhasesAnnuler == <<"livraison", "commande", "relue", "groupe", "stocks", "paiement", "reversement", "coupon">>

PhasesValiderPaiementDAbord == <<"paiement", "commandes">>

PhasesValiderSansCommandes == <<"paiement">>

PhasesValider == <<"commandes", "paiement">>

PhasesInitierSansVerrou == <<"actifs">>

PhasesInitier == <<"commandes", "actifs">>

Phases(genre) ==
    CASE genre = "annuler"          -> PhasesAnnuler
      [] genre = "valider"          -> PhasesValider
      [] genre = "checkout"         -> <<"panier", "coupon", "stocks">>
      [] genre = "initier"          -> PhasesInitier
      [] genre = "livrer"           -> <<"fiche", "reversement">>
      [] genre = "contester"        -> <<"fiche", "reversement">>
      [] genre = "demander_retour"  -> <<"commandes", "reversement">>
      [] genre = "receptionner"     -> <<"demande", "stocks">>
      [] genre = "rembourser"       -> <<"demande", "paiement", "reversement">>

(* What a transaction is about: an order, or the orders of a checkout or of a payment. *)
CommandesDe(t) ==
    CASE t.genre = "checkout"            -> {c \in Commandes : GroupeDe[c] = t.cible}
      [] t.genre \in {"initier", "valider"} -> Couvre[t.cible]
      [] OTHER                           -> {t.cible}

Tient(t, ligne) == ligne \in tient[t]

(* An order read by the cancellation of c: its own row is already cancelled. *)
AnnuleePour(c, d) == d = c \/ statut[d] = "annulee"

PaiementsConcernes(c) ==
    {p \in Paiements : /\ c \in Couvre[p]
                       /\ \/ paiement[p] = "valide"
                          \/ paiement[p] = "en_attente" /\ \A d \in Couvre[p] : AnnuleePour(c, d)}

Croissant(S) == CHOOSE s \in [1..Cardinality(S) -> S] : \A i, j \in 1..Cardinality(S) : i < j => s[i] < s[j]
Table(table, cles) == [i \in DOMAIN cles |-> <<table, cles[i]>>]
Si(condition, ligne) == IF condition THEN <<ligne>> ELSE <<>>

(***************************************************************************)
(* The rows of a query, in the order in which it locks them. A sheet is    *)
(* read with select_related and without of=: the joined order and shop are *)
(* locked with it.                                                         *)
(***************************************************************************)
Lignes(t, phase) ==
    LET c == t.cible
        Fiche == <<"livraison", c>>
        Commande == <<"commande", c>>
    IN
    CASE phase = "panier"      -> <<<<"panier", t.cible>>>>
      [] phase = "stocks"      -> Table("stock", Croissant(UNION {VariantesDe[d] : d \in CommandesDe(t)}))
      [] phase = "commandes"   -> Table("commande", Croissant(CommandesDe(t)))
      [] phase = "livraison"   -> Si(fiche[c] # "aucune", Fiche)
      [] phase = "commande"    -> <<Commande>>
      [] phase = "actifs"      -> <<>>
      [] phase = "relue"       -> Si(~ Tient(t, Fiche) /\ fiche[c] # "aucune", Fiche)
      [] phase = "groupe"      -> <<<<"groupe", GroupeDe[c]>>>>
      [] phase = "fiche"       -> <<Fiche, Commande, <<"boutique", BoutiqueDe[c]>>>>
      [] phase = "demande"     -> <<<<"demande", c>>>>
      [] phase = "reversement" -> Si(fiche[c] # "aucune" /\ (t.genre = "livrer" => fiche[c] = "partie"),
                                     <<"reversement", c>>)
      [] phase = "paiement"    ->
            Table("paiement", Croissant(
                CASE t.genre = "valider"    -> {t.cible}
                  [] t.genre = "annuler"    -> PaiementsConcernes(c)
                  [] t.genre = "rembourser" -> {p \in Paiements : c \in Couvre[p] /\ paiement[p] = "valide"}))
      [] phase = "coupon"      ->
            LET g == IF t.genre = "checkout" THEN t.cible ELSE GroupeDe[c]
                libere == \A d \in Commandes : GroupeDe[d] = g => AnnuleePour(c, d)
            IN Si(CouponDe[g] # Aucun /\ (t.genre = "checkout" \/ libere), <<"coupon", CouponDe[g]>>)

-----------------------------------------------------------------------------
(* Early returns: what a transaction refuses once it holds the rows it checks. *)

Refusee(t) ==
    LET c == t.cible
        Verifie(table) == Tient(t, <<table, c>>)
    IN
    CASE t.genre = "checkout" -> Verifie("panier") /\ \E d \in CommandesDe(t) : statut[d] # "absente"
      [] t.genre = "initier"  ->
            \/ \E d \in Couvre[c] : Tient(t, <<"commande", d>>) /\ statut[d] # "creee"
            \/ /\ reste[t] = <<>>
               /\ \E p \in Paiements : lu[t][p] \in {"en_attente", "valide"} /\ Couvre[p] \cap Couvre[c] # {}
      [] t.genre = "valider"  -> Verifie("paiement") /\ paiement[c] \notin {"en_attente", "annule"}
      [] t.genre = "annuler"  ->
            \/ Verifie("livraison") /\ fiche[c] \in {"partie", "livree"}
            \/ Verifie("commande") /\ statut[c] \notin {"creee", "confirmee"}
      [] t.genre = "livrer"   ->
            /\ Verifie("livraison")
            /\ ~ \/ fiche[c] = "en_attente" /\ statut[c] = "confirmee"
                 \/ fiche[c] = "partie" /\ statut[c] = "expediee"
      [] t.genre = "contester"       -> Verifie("livraison") /\ fiche[c] # "livree"
      [] t.genre = "demander_retour" -> Verifie("commande") /\ statut[c] # "livree"
      [] OTHER -> FALSE

(* What is read before the transaction: the object it is about exists. *)
Visible(t) ==
    CASE t.genre = "checkout" -> TRUE
      [] t.genre = "initier"  -> \A d \in Couvre[t.cible] : statut[d] # "absente"
      [] t.genre = "valider"  -> paiement[t.cible] # "aucun"
      [] t.genre = "annuler"  -> statut[t.cible] # "absente"
      [] t.genre \in {"livrer", "contester"} -> fiche[t.cible] # "aucune"
      [] OTHER -> statut[t.cible] = "livree"

-----------------------------------------------------------------------------
(* Writes, published at the commit. *)

EffetValider(t) ==
    LET p == t.cible
        payees == {c \in Couvre[p] : statut[c] = "creee"}
    IN
    /\ paiement' = [paiement EXCEPT ![p] = "valide"]
    /\ statut' = [c \in Commandes |-> IF c \in payees THEN "confirmee" ELSE statut[c]]
    /\ fiche' = [c \in Commandes |-> IF c \in payees THEN "en_attente" ELSE fiche[c]]
    /\ rembourse' = rembourse \cup {<<p, c>> : c \in Couvre[p] \ payees}
    /\ UNCHANGED utilise

EffetAnnuler(t) ==
    LET c == t.cible
        tenus == {p \in Paiements : Tient(t, <<"paiement", p>>)}
    IN
    /\ statut' = [statut EXCEPT ![c] = "annulee"]
    /\ fiche' = IF Tient(t, <<"livraison", c>>) THEN [fiche EXCEPT ![c] = "annulee"] ELSE fiche
    /\ paiement' = [p \in Paiements |->
          IF p \in tenus /\ lu[t][p] = "en_attente" /\ paiement[p] = "en_attente" THEN "annule" ELSE paiement[p]]
    /\ rembourse' = rembourse \cup {<<p, c>> : p \in {q \in tenus : lu[t][q] = "valide"}}
    /\ utilise' = IF Tient(t, <<"coupon", CouponDe[GroupeDe[c]]>>) THEN utilise \ {GroupeDe[c]} ELSE utilise

EffetLivrer(t) ==
    LET c == t.cible
        expedie == fiche[c] = "en_attente"
    IN
    /\ fiche' = [fiche EXCEPT ![c] = IF expedie THEN "partie" ELSE "livree"]
    /\ statut' = [statut EXCEPT ![c] = IF expedie THEN "expediee" ELSE "livree"]
    /\ UNCHANGED <<paiement, utilise, rembourse>>

EffetCheckout(t) ==
    /\ statut' = [c \in Commandes |-> IF c \in CommandesDe(t) THEN "creee" ELSE statut[c]]
    /\ utilise' = IF CouponDe[t.cible] = Aucun THEN utilise ELSE utilise \cup {t.cible}
    /\ UNCHANGED <<fiche, paiement, rembourse>>

EffetInitier(t) ==
    /\ paiement' = [paiement EXCEPT ![t.cible] = "en_attente"]
    /\ UNCHANGED <<statut, fiche, utilise, rembourse>>

Effet(t) ==
    CASE t.genre = "valider"  -> EffetValider(t)
      [] t.genre = "annuler"  -> EffetAnnuler(t)
      [] t.genre = "livrer"   -> EffetLivrer(t)
      [] t.genre = "checkout" -> EffetCheckout(t)
      [] t.genre = "initier"  -> EffetInitier(t)
      [] OTHER -> UNCHANGED donnees

-----------------------------------------------------------------------------
Init == \E d \in Departs :
    /\ statut = d.statut
    /\ fiche = [c \in Commandes |->
          CASE statut[c] = "livree" -> "livree" [] statut[c] = "confirmee" -> "en_attente" [] OTHER -> "aucune"]
    /\ paiement = d.paiement
    /\ utilise = {g \in Groupes : CouponDe[g] # Aucun /\ \E c \in Commandes : GroupeDe[c] = g /\ statut[c] # "absente"}
    /\ rembourse = {}
    /\ etat = [t \in Transactions |-> IF t \in d.transactions THEN "repos" ELSE "finie"]
    /\ reste = [t \in Transactions |-> Phases(t.genre)]
    /\ aPrendre = [t \in Transactions |-> <<>>]
    /\ tient = [t \in Transactions |-> {}]
    /\ lu = [t \in Transactions |-> d.paiement]

(* transaction.atomic() is entered. *)
Commencer(t) ==
    /\ etat[t] = "repos" /\ Visible(t)
    /\ etat' = [etat EXCEPT ![t] = "ouverte"]
    /\ UNCHANGED <<donnees, reste, aPrendre, tient, lu>>

PretePourLaSuite(t) == etat[t] = "ouverte" /\ aPrendre[t] = <<>>

(* The next query reads committed data and finds the rows it must lock. *)
Interroger(t) ==
    /\ PretePourLaSuite(t) /\ ~ Refusee(t) /\ reste[t] # <<>>
    /\ aPrendre' = [aPrendre EXCEPT ![t] = Lignes(t, Head(reste[t]))]
    /\ reste' = [reste EXCEPT ![t] = Tail(@)]
    /\ lu' = [lu EXCEPT ![t] = IF Head(reste[t]) \in {"paiement", "actifs"} THEN paiement ELSE @]
    /\ UNCHANGED <<donnees, etat, tient>>

(* The next row, as soon as nobody else holds it. *)
Prendre(t) ==
    /\ etat[t] = "ouverte" /\ aPrendre[t] # <<>>
    /\ \A u \in Transactions \ {t} : ~ Tient(u, Head(aPrendre[t]))
    /\ tient' = [tient EXCEPT ![t] = @ \cup {Head(aPrendre[t])}]
    /\ aPrendre' = [aPrendre EXCEPT ![t] = Tail(@)]
    /\ UNCHANGED <<donnees, etat, reste, lu>>

Terminer(t) ==
    /\ etat' = [etat EXCEPT ![t] = "finie"]
    /\ tient' = [tient EXCEPT ![t] = {}]
    /\ UNCHANGED <<reste, aPrendre, lu>>

(* An exception or an early return: nothing was published. *)
Refuser(t) ==
    /\ PretePourLaSuite(t) /\ Refusee(t)
    /\ Terminer(t)
    /\ UNCHANGED donnees

Commettre(t) ==
    /\ PretePourLaSuite(t) /\ ~ Refusee(t) /\ reste[t] = <<>>
    /\ Effet(t)
    /\ Terminer(t)

Next == \E t \in Transactions :
    Commencer(t) \/ Interroger(t) \/ Prendre(t) \/ Refuser(t) \/ Commettre(t)

Spec == Init /\ [][Next]_vars

-----------------------------------------------------------------------------
(* The type of every variable; a row is held by one transaction. *)
TypeOK ==
    /\ statut \in [Commandes -> {"absente", "creee", "confirmee", "expediee", "livree", "annulee"}]
    /\ fiche \in [Commandes -> {"aucune", "en_attente", "partie", "livree", "annulee"}]
    /\ paiement \in [Paiements -> {"aucun", "en_attente", "valide", "annule"}]
    /\ utilise \subseteq Groupes
    /\ rembourse \subseteq Paiements \X Commandes
    /\ etat \in [Transactions -> {"repos", "ouverte", "finie"}]
    /\ \A t, u \in Transactions : t # u => tient[t] \cap tient[u] = {}

(* t waits for a row that u holds. *)
Attend(t, u) ==
    /\ t # u /\ etat[t] = "ouverte" /\ aPrendre[t] # <<>>
    /\ Tient(u, Head(aPrendre[t]))

(***************************************************************************)
(* No set of transactions waits for itself: PostgreSQL would fail one of   *)
(* them (a 500, or a webhook answered 500 while the order expires). What   *)
(* docs/MODULE_PAIEMENTS.md promises of "Commandes then Paiement", and the *)
(* sorted stock queries of checkout, cancellation and return.              *)
(***************************************************************************)
SansInterblocage ==
    LET bloquees == {t \in Transactions : \E u \in Transactions : Attend(t, u)}
    IN \A D \in (SUBSET bloquees) \ {{}} : \E t \in D : \A u \in D : ~ Attend(t, u)

(***************************************************************************)
(* The two crossings that the code leaves: the cancellation reads the      *)
(* sheet again after the order, when there was none (annuler_commande);    *)
(* and it takes the coupon after the stocks, a checkout before them.       *)
(***************************************************************************)
SansFiche(d, c) == d.statut[c] \in {"absente", "creee"}

CroisementsEvites ==
    \A d \in Departs : \A t, u \in d.transactions : t # u /\ t.genre = "annuler" =>
        /\ SansFiche(d, t.cible) => ~ (u.genre \in {"annuler", "livrer", "contester"} /\ u.cible = t.cible)
        /\ u.genre = "checkout" /\ CouponDe[u.cible] # Aucun => CouponDe[u.cible] # CouponDe[GroupeDe[t.cible]]

(***************************************************************************)
(* A payment and the cancellation of its order wait for each other: the    *)
(* one that comes second reads again.  A cancelled order has no active     *)
(* sheet, even one the payment created while the cancellation waited (the  *)
(* second reading of annuler_commande), and its refund if a collected      *)
(* payment covers it (the orders valider_paiement locks and reads again).  *)
(***************************************************************************)
AnnuleeSansFiche == \A c \in Commandes : statut[c] = "annulee" => fiche[c] \in {"aucune", "annulee"}

AnnuleeRemboursee ==
    \A p \in Paiements : \A c \in Couvre[p] :
        paiement[p] = "valide" /\ statut[c] = "annulee" => <<p, c>> \in rembourse

AnnulationRelue == AnnuleeSansFiche /\ AnnuleeRemboursee

(***************************************************************************)
(* Sister orders cancelled by simultaneous requests: the last one sees the *)
(* others cancelled, closes the pending payment and gives the coupon back  *)
(* (the lock of the checkout in annuler_commande).                         *)
(***************************************************************************)
DerniereAnnulationFinalise ==
    /\ \A p \in Paiements : (\A c \in Couvre[p] : statut[c] = "annulee") => paiement[p] # "en_attente"
    /\ \A g \in utilise : \E c \in Commandes : GroupeDe[c] = g /\ statut[c] # "annulee"

(***************************************************************************)
(* Two simultaneous openings, or an order paid alone and through its       *)
(* checkout, never leave two payments that may collect the same order (the *)
(* lock of the orders in initier_paiement).                                *)
(***************************************************************************)
UnSeulActif ==
    \A p, q \in Paiements :
        /\ SeRecouvrent(p, q)
        /\ paiement[p] \in {"en_attente", "valide"}
        => paiement[q] \notin {"en_attente", "valide"}
=============================================================================
