----------------------------- MODULE Conseiller -----------------------------
(***************************************************************************)
(* The shopping adviser of FastAPI, with what guards its routes: the token *)
(* checked by Django and kept in Redis for a while, the fixed windows of   *)
(* the rate limit, the daily budget of a paid provider and the rules that  *)
(* answer in its place.  A request awaits between two of its steps; the    *)
(* provider may answer anything, late or never.                            *)
(***************************************************************************)
EXTENDS Integers, Sequences, FiniteSets, Functions

CONSTANTS
  Demandeurs,      \* accounts with a token
  Conseils,        \* requests that may be under way at once
  Conseillables,   \* products of the catalogue
  Invente,         \* an identifier no product has
  Debit,           \* RATE_LIMITS of the scope, in requests per window
  AI_DAILY_CALL_LIMIT,
  AUTH_CACHE_TTL,
  PRODUITS_MAX,    \* MAX_PRODUITS_CONSEIL
  JourDe,          \* the day of an instant; a window of the rate limit lasts one instant
  InstantFinal     \* bound: the last instant

ASSUME ConseillerOk ==
  /\ Invente \notin Conseillables
  /\ Debit \in Nat /\ AI_DAILY_CALL_LIMIT \in Nat /\ AUTH_CACHE_TTL \in Nat /\ PRODUITS_MAX \in Nat \ {0}
  /\ InstantFinal \in Nat /\ JourDe \in [0..InstantFinal -> Nat]

VARIABLES
  temps,          \* the clock
  revocation,     \* when Django revoked the token, or Jamais
  jetonsEnCache,  \* fastapi:auth: the last instant at which the entry may be read, or Jamais
  debits,         \* fastapi:rl: requests counted in this window
  appelsComptes,  \* fastapi:ia:appels: calls counted this day
  appelsPayes,    \* history: paid calls made this day
  conseils        \* the requests

conseillerVars == <<temps, revocation, jetonsEnCache, debits, appelsComptes, appelsPayes, conseils>>

Jamais == -1
SansConseil == [etape |-> "libre"]

\* Bound: a counter above its limit stays just above it.
PlusUn(n, limite) == IF n > limite THEN n ELSE n + 1

ConseillerInit ==
  /\ temps = 0
  /\ revocation = [u \in Demandeurs |-> Jamais]
  /\ jetonsEnCache = [u \in Demandeurs |-> Jamais]
  /\ debits = [u \in Demandeurs |-> 0]
  /\ appelsComptes = 0
  /\ appelsPayes = 0
  /\ conseils = [r \in Conseils |-> SansConseil]

SuiteDe(r, suite) == conseils' = [conseils EXCEPT ![r] = suite]
\* Every refusal: 401, 429, 503.
FinirConseil(r) == SuiteDe(r, SansConseil)
EstA(r, e) == conseils[r].etape = e
AllerA(r, e) == SuiteDe(r, [conseils[r] EXCEPT !.etape = e])
Demandeur(r) == conseils[r].qui

-----------------------------------------------------------------------------
(* authenticate_token.                                                      *)

RecevoirDemande(r, u) ==
  /\ conseils[r] = SansConseil
  /\ SuiteDe(r, [etape |-> "recue", qui |-> u])
  /\ UNCHANGED <<temps, revocation, jetonsEnCache, debits, appelsComptes, appelsPayes>>

JetonEnCache(u) == jetonsEnCache[u] # Jamais /\ temps <= jetonsEnCache[u]

\* _cache_get
LireJetonEnCache(r) ==
  /\ EstA(r, "recue") /\ JetonEnCache(Demandeur(r))
  /\ SuiteDe(r, [etape |-> "admise", qui |-> Demandeur(r), a |-> temps])
  /\ UNCHANGED <<temps, revocation, jetonsEnCache, debits, appelsComptes, appelsPayes>>

\* _verify_with_django, also when Redis does not answer: 401 once revoked, 503 or 429 at any time.
VerifierJeton(r) ==
  /\ EstA(r, "recue")
  /\ \/ revocation[Demandeur(r)] = Jamais /\ AllerA(r, "verifiee")
     \/ FinirConseil(r)
  /\ UNCHANGED <<temps, revocation, jetonsEnCache, debits, appelsComptes, appelsPayes>>

\* _cache_set, which may fail without a word
MettreJetonEnCache(r) ==
  /\ EstA(r, "verifiee")
  /\ \/ AUTH_CACHE_TTL # 0 /\ jetonsEnCache' = [jetonsEnCache EXCEPT ![Demandeur(r)] = temps + AUTH_CACHE_TTL]
     \/ UNCHANGED jetonsEnCache
  /\ SuiteDe(r, [etape |-> "admise", qui |-> Demandeur(r), a |-> temps])
  /\ UNCHANGED <<temps, revocation, debits, appelsComptes, appelsPayes>>

-----------------------------------------------------------------------------
(* consume.                                                                 *)

\* The transaction increments the counter of the window; its answer may be lost (503).
Consommer(r) ==
  /\ EstA(r, "admise")
  /\ LET u == Demandeur(r) IN
       /\ debits' = [debits EXCEPT ![u] = PlusUn(@, Debit)]
       /\ \/ debits'[u] <= Debit /\ SuiteDe(r, [etape |-> "comptee"])
          \/ FinirConseil(r)
  /\ UNCHANGED <<temps, revocation, jetonsEnCache, appelsComptes, appelsPayes>>

RedisInjoignable(r) ==
  /\ EstA(r, "admise")
  /\ FinirConseil(r)
  /\ UNCHANGED <<temps, revocation, jetonsEnCache, debits, appelsComptes, appelsPayes>>

-----------------------------------------------------------------------------
(* conseiller and recommander.                                              *)

\* candidats.rechercher: the public products, in stock and within the budget, that
\* the search finds, whatever the catalogue has become; 503 without PostgreSQL.
LireCandidats(r) ==
  /\ EstA(r, "comptee")
  /\ \/ \E lus \in SUBSET Conseillables : SuiteDe(r, [etape |-> "candidats", lus |-> lus])
     \/ FinirConseil(r)
  /\ UNCHANGED <<temps, revocation, jetonsEnCache, debits, appelsComptes, appelsPayes>>

\* Mutant: the count is compared before this call is added to it.
NombreAvant == appelsComptes
NombreApres == appelsComptes + 1

\* reserver_appel, then the call; never a paid call without its counter.
ReserverAppel(r) ==
  /\ EstA(r, "candidats") /\ AI_DAILY_CALL_LIMIT # 0
  /\ appelsComptes' = PlusUn(appelsComptes, AI_DAILY_CALL_LIMIT)
  /\ \/ /\ NombreApres <= AI_DAILY_CALL_LIMIT
        /\ appelsPayes' = appelsPayes + 1
        /\ AllerA(r, "appel")
     \/ UNCHANGED appelsPayes /\ AllerA(r, "repli")
  /\ UNCHANGED <<temps, revocation, jetonsEnCache, debits>>

CompteurInjoignable(r) ==
  /\ EstA(r, "candidats")
  /\ AllerA(r, "repli")
  /\ UNCHANGED <<temps, revocation, jetonsEnCache, debits, appelsComptes, appelsPayes>>

\* valider_sortie: unknown identifiers are left out, so are those met twice, and
\* the examination stops once PRODUITS_MAX products are kept.
Retenu(p, retenus, lus) == p \in lus /\ p \notin Range(retenus) /\ Len(retenus) < PRODUITS_MAX
ValiderSortie(produits, lus) ==
  LET gardes[n \in 0..Len(produits)] ==
        IF n = 0 THEN <<>>
        ELSE IF Retenu(produits[n], gardes[n - 1], lus) THEN Append(gardes[n - 1], produits[n])
        ELSE gardes[n - 1]
  IN  gardes[Len(produits)]

ServirConseil(r, produits) ==
  SuiteDe(r, [etape |-> "servie", lus |-> conseils[r].lus, produits |-> ValiderSortie(produits, conseils[r].lus)])

\* What the provider may answer: known or invented identifiers, in any order, twice the same.
Sorties == UNION {[1..n -> Conseillables \cup {Invente}] : n \in 0..2}

\* _appeler: a valid form, or an error, a delay or an invalid form (the rules answer).
RecevoirSortie(r) ==
  /\ EstA(r, "appel")
  /\ \/ \E produits \in Sorties : ServirConseil(r, produits)
     \/ AllerA(r, "repli")
  /\ UNCHANGED <<temps, revocation, jetonsEnCache, debits, appelsComptes, appelsPayes>>

\* FournisseurSimule: some of the candidates, each once, through the same validation.
Replier(r) ==
  /\ EstA(r, "repli")
  /\ \E produits \in Sorties :
       /\ IsInjective(produits) /\ Range(produits) \subseteq conseils[r].lus /\ Len(produits) <= PRODUITS_MAX
       /\ conseils[r].lus # {} => produits # <<>>
       /\ ServirConseil(r, produits)
  /\ UNCHANGED <<temps, revocation, jetonsEnCache, debits, appelsComptes, appelsPayes>>

RendreLaReponse(r) ==
  /\ EstA(r, "servie")
  /\ FinirConseil(r)
  /\ UNCHANGED <<temps, revocation, jetonsEnCache, debits, appelsComptes, appelsPayes>>

-----------------------------------------------------------------------------
(* The world.                                                               *)

RevoquerJeton(u) ==
  /\ revocation[u] = Jamais
  /\ revocation' = [revocation EXCEPT ![u] = temps]
  /\ UNCHANGED <<temps, jetonsEnCache, debits, appelsComptes, appelsPayes, conseils>>

\* The keys of the next window and of the next day are new ones.  An answer of
\* Django is cached within the instant.
PasserAuSuivant ==
  /\ temps < InstantFinal
  /\ \A r \in Conseils : ~EstA(r, "verifiee")
  /\ temps' = temps + 1
  /\ debits' = [u \in Demandeurs |-> 0]
  /\ IF JourDe[temps + 1] = JourDe[temps] THEN UNCHANGED <<appelsComptes, appelsPayes>>
     ELSE appelsComptes' = 0 /\ appelsPayes' = 0
  /\ UNCHANGED <<revocation, jetonsEnCache, conseils>>

ConseillerNext ==
  \/ PasserAuSuivant
  \/ \E u \in Demandeurs : RevoquerJeton(u)
  \/ \E r \in Conseils :
       \/ \E u \in Demandeurs : RecevoirDemande(r, u)
       \/ LireJetonEnCache(r) \/ VerifierJeton(r) \/ MettreJetonEnCache(r)
       \/ Consommer(r) \/ RedisInjoignable(r) \/ LireCandidats(r)
       \/ ReserverAppel(r) \/ CompteurInjoignable(r) \/ RecevoirSortie(r) \/ Replier(r) \/ RendreLaReponse(r)

ConseillerSpec == ConseillerInit /\ [][ConseillerNext]_conseillerVars

-----------------------------------------------------------------------------
ConseillerTypes ==
  /\ temps \in 0..InstantFinal
  /\ revocation \in [Demandeurs -> {Jamais} \cup 0..temps]
  /\ appelsComptes \in 0..(AI_DAILY_CALL_LIMIT + 1)
  /\ debits \in [Demandeurs -> 0..(Debit + 1)]

\* Whatever requests overlap: a revoked token opens nothing past the life of
\* its entry in the cache, however often it is read; the paid calls of a day
\* never exceed the budget, lost answers of Redis included; and an answer shows
\* only products read from the catalogue for it, each once and PRODUITS_MAX at most.
ConseilTenu ==
  /\ \A r \in Conseils : EstA(r, "admise") /\ revocation[Demandeur(r)] # Jamais =>
       conseils[r].a <= revocation[Demandeur(r)] + AUTH_CACHE_TTL
  /\ appelsPayes <= AI_DAILY_CALL_LIMIT
  /\ \A r \in Conseils : EstA(r, "servie") =>
       /\ Range(conseils[r].produits) \subseteq conseils[r].lus
       /\ Len(conseils[r].produits) = Cardinality(Range(conseils[r].produits))
       /\ Len(conseils[r].produits) <= PRODUITS_MAX
=============================================================================
