------------------------------ MODULE Recherche ------------------------------
(***************************************************************************)
(* The public search (FastAPI): a visitor reads a list page by page.  The  *)
(* pages come from the views of the catalogue, never cached; the total and *)
(* the facets from Redis, where the total is taken over from the facets.   *)
(* Another visitor, or the catalogue, moves between any two steps.         *)
(***************************************************************************)
EXTENDS Integers, FiniteSets, Sequences, SequencesExt, FiniteSetsExt

CONSTANTS
  Articles,       \* the products of the catalogue
  Decrit,         \* Decrit[f]: a row of catalogue_produit_public
  Recherches,     \* the filters a visitor may ask for
  TailleDePage,   \* PAGE_SIZE
  DernierePage,   \* MAX_PAGE
  PRICE_BOUNDS,   \* the thresholds of the price facet, increasing, the first is 0
  TTL,            \* search_cache_ttl, in steps of the clock
  Visiteurs

ASSUME RechercheOk ==
  /\ TailleDePage \in Nat \ {0} /\ DernierePage \in Nat \ {0} /\ TTL \in Nat /\ IsFiniteSet(Articles)
  /\ Decrit \in [Articles -> [id : Nat, prix : Nat, date : Nat, palier : Nat, proximite : Nat, categorie : Nat, parent : Nat]]
  /\ \A f, g \in Articles : f # g => Decrit[f].id # Decrit[g].id
  /\ PRICE_BOUNDS \in Seq(Nat) \ {<<>>} /\ PRICE_BOUNDS[1] = 0
  /\ \A i \in 2..Len(PRICE_BOUNDS) : PRICE_BOUNDS[i - 1] < PRICE_BOUNDS[i]

VARIABLES
  filtre,      \* the search the visitors make: its filters and its sort
  publics,     \* the products Django shows
  resume,      \* recherche:facettes in Redis: the products it was computed on, its age
  decompte,    \* recherche:total: the same, and how long it has been there
  visites      \* each visitor

rechercheVars == <<filtre, publics, resume, decompte, visites>>

SORTS == {"pertinence", "prix_asc", "prix_desc", "date_desc", "date_asc"}
SansResume == [lot |-> {}, age |-> -1]
SansDecompte == [n |-> 0, age |-> -1, la |-> 0]
Ailleurs == [etape |-> "libre", page |-> 0, compte |-> SansDecompte, vus |-> <<>>, intacte |-> TRUE, suite |-> FALSE]

-----------------------------------------------------------------------------
\* The query

\* search_filters: a price range the wrong way round is refused.
Recevable(r) == r.min <= r.max

\* _where: text, category or its parent, bounds included.
Correspond(r, f) ==
  /\ r.texte => Decrit[f].palier > 0
  /\ r.categorie # 0 => r.categorie \in {Decrit[f].categorie, Decrit[f].parent}
  /\ r.min <= Decrit[f].prix /\ Decrit[f].prix <= r.max

Selection == {f \in publics : Correspond(filtre, f)}

\* ORDER BY, the smaller first; DESC is written with a minus.  The id comes last.
ClesSansId(tri, f) ==
  LET p == Decrit[f] IN
  CASE tri = "pertinence" /\ filtre.texte -> <<p.palier, -p.proximite, -p.date>>
    [] tri = "prix_asc" -> <<p.prix, -p.date>>
    [] tri = "prix_desc" -> <<-p.prix, -p.date>>
    [] tri = "date_asc" -> <<p.date>>
    [] OTHER -> <<-p.date>>

Cles(tri, f) ==
  Append(ClesSansId(tri, f), IF tri = "date_asc" THEN Decrit[f].id ELSE -Decrit[f].id)

Precede(a, b) == \E i \in DOMAIN a : a[i] < b[i] /\ \A j \in 1..(i - 1) : a[j] = b[j]

\* What PostgreSQL may answer: any order the keys allow.
Ordres(S) ==
  {o \in SetToSeqs(S) :
     \A i, j \in DOMAIN o : i < j => ~Precede(Cles(filtre.tri, o[j]), Cles(filtre.tri, o[i]))}

Jusqua(ordre, n) == SubSeq(ordre, 1, Min({n * TailleDePage, Len(ordre)}))
Page(ordre, n) == SubSeq(Jusqua(ordre, n), (n - 1) * TailleDePage + 1, Len(Jusqua(ordre, n)))

\* width_bucket: the thresholds reached, the first one left out
Tranche(prix) == Cardinality({i \in 2..Len(PRICE_BOUNDS) : PRICE_BOUNDS[i] <= prix})

\* _price_ranges: the ranges that are not empty
_price_ranges(lot) ==
  {[min |-> PRICE_BOUNDS[t + 1], fin |-> t + 2, nombre |-> Cardinality({f \in lot : Tranche(Decrit[f].prix) = t})] :
      t \in {Tranche(Decrit[f].prix) : f \in lot}}

NombreDePages(compte) == IF compte.n = 0 THEN 1 ELSE (compte.n + TailleDePage - 1) \div TailleDePage

-----------------------------------------------------------------------------
RechercheInit ==
  /\ filtre \in {r \in Recherches : Recevable(r)}
  /\ publics = Articles
  /\ resume = SansResume /\ decompte = SansDecompte
  /\ visites = [v \in Visiteurs |-> Ailleurs]

Aller(v, etape) == visites' = [visites EXCEPT ![v].etape = etape]

\* A visit starts at page 1, or follows next, whose last page is DernierePage.
DemanderPage(v) ==
  /\ visites[v].etape = "libre"
  /\ \/ visites' = [visites EXCEPT ![v] = [Ailleurs EXCEPT !.page = 1, !.etape = "resume"]]
     \/ /\ visites[v].suite
        /\ IF visites[v].page < DernierePage
           THEN visites' = [visites EXCEPT ![v].page = @ + 1, ![v].etape = "decompte"]
           ELSE visites' = [visites EXCEPT ![v].suite = FALSE]
  /\ UNCHANGED <<filtre, publics, resume, decompte>>

\* The count the answer shows, and whether the page exists by it
Compter(v, compte) ==
  IF visites[v].page > NombreDePages(compte)
  THEN visites' = [visites EXCEPT ![v] = Ailleurs]
  ELSE visites' = [visites EXCEPT ![v].compte = compte, ![v].etape = "page",
                                  ![v].intacte = @ /\ compte.n = Cardinality(Selection)]

\* The number of the cached facets.  TTL = 0 never reads the cache.
CompteDuResume ==
  IF TTL > 0 /\ resume # SansResume THEN {[n |-> Cardinality(resume.lot), age |-> resume.age, la |-> 0]} ELSE {}

CompteFrais == [n |-> Cardinality(Selection), age |-> 0, la |-> 0]

\* cached: a hit
LireCache(v) ==
  /\ \/ visites[v].etape = "resume" /\ \E compte \in CompteDuResume : Compter(v, compte)
     \/ visites[v].etape = "decompte" /\ TTL > 0 /\ decompte # SansDecompte /\ Compter(v, decompte)
  /\ UNCHANGED <<filtre, publics, resume, decompte>>

\* cached: a miss, or Redis cannot be read
ManquerCache(v) ==
  /\ visites[v].etape \in {"resume", "decompte"}
  /\ Aller(v, IF visites[v].etape = "resume" THEN "calcul_resume" ELSE "calcul_decompte")
  /\ UNCHANGED <<filtre, publics, resume, decompte>>

\* _compute_summary, then cache_set, which Redis may refuse
CalculerResume(v) ==
  /\ visites[v].etape = "calcul_resume"
  /\ Compter(v, CompteFrais)
  /\ resume' \in {resume} \cup (IF TTL > 0 THEN {[lot |-> Selection, age |-> 0]} ELSE {})
  /\ UNCHANGED <<filtre, publics, decompte>>

\* fetch_count: the total is that of the cached facets, whatever their age,
\* unless Redis could not be read
CalculerDecompte(v) ==
  /\ visites[v].etape = "calcul_decompte"
  /\ \E compte \in CompteDuResume \cup {CompteFrais} :
       /\ Compter(v, compte)
       /\ decompte' \in {decompte} \cup (IF TTL > 0 THEN {compte} ELSE {})
  /\ UNCHANGED <<filtre, publics, resume>>

\* fetch_page, never cached
LirePageTrouvee(v) ==
  /\ visites[v].etape = "page"
  /\ \E o \in Ordres(Selection) :
       visites' = [visites EXCEPT ![v].etape = "libre",
                                  ![v].vus = IF visites[v].intacte THEN @ \o Page(o, visites[v].page) ELSE <<>>,
                                  ![v].suite = visites[v].page < NombreDePages(visites[v].compte)]
  /\ UNCHANGED <<filtre, publics, resume, decompte>>

\* _run: PostgreSQL does not answer in time, 503
Echouer503(v) ==
  /\ visites[v].etape \in {"calcul_resume", "calcul_decompte", "page"}
  /\ visites' = [visites EXCEPT ![v] = Ailleurs]
  /\ UNCHANGED <<filtre, publics, resume, decompte>>

\* Django shows or hides a product; the visits under way are no longer of one catalogue.
ChangerCatalogue(f) ==
  /\ publics' = IF f \in publics THEN publics \ {f} ELSE publics \cup {f}
  /\ visites' = [v \in Visiteurs |-> [visites[v] EXCEPT !.intacte = FALSE, !.vus = <<>>]]
  /\ UNCHANGED <<filtre, resume, decompte>>

\* An entry lives TTL steps; a request is shorter than one (statement_timeout).
Vieillir ==
  /\ resume' = IF resume.age \in {-1, TTL} THEN SansResume ELSE [resume EXCEPT !.age = @ + 1]
  /\ decompte' = IF decompte.age = -1 \/ decompte.la = TTL THEN SansDecompte
                 ELSE [decompte EXCEPT !.age = @ + 1, !.la = @ + 1]

PasserDuTemps ==
  /\ \A v \in Visiteurs : visites[v].etape = "libre"
  /\ Vieillir
  /\ UNCHANGED <<filtre, publics, visites>>

RechercheNext ==
  \/ PasserDuTemps \/ \E f \in Articles : ChangerCatalogue(f)
  \/ \E v \in Visiteurs :
       \/ DemanderPage(v) \/ ManquerCache(v) \/ CalculerResume(v) \/ CalculerDecompte(v)
       \/ LireCache(v) \/ LirePageTrouvee(v) \/ Echouer503(v)

RechercheSpec == RechercheInit /\ [][RechercheNext]_rechercheVars

-----------------------------------------------------------------------------
Decomptes == [n : 0..Cardinality(Articles), age : -1..(2 * TTL), la : 0..TTL]

RechercheTypes ==
  /\ filtre \in Recherches /\ filtre.tri \in SORTS /\ publics \subseteq Articles
  /\ resume \in [lot : SUBSET Articles, age : -1..TTL]
  /\ decompte \in Decomptes
  /\ \A v \in Visiteurs : visites[v].compte \in Decomptes /\ visites[v].page \in 0..DernierePage

\* Following next through a catalogue that does not move shows each product
\* found once, in the order asked for, up to the last page allowed: the pages
\* are queries of their own, which only the total order puts together.
VisiteComplete ==
  \A v \in Visiteurs :
    visites[v].etape = "libre" /\ visites[v].intacte /\ visites[v].page > 0 =>
      /\ \E o \in Ordres(Selection) : visites[v].vus = Jusqua(o, visites[v].page)
      /\ ~visites[v].suite => Len(visites[v].vus) = Min({Cardinality(Selection), DernierePage * TailleDePage})

\* What the documentation promises: total and facets may be 60 s late
\* (docs/MODULE_RECHERCHE.md:77, routeurs/recherche.py:145), one lifetime of the
\* cache.  The code does not keep it for a total: one taken over from facets about
\* to leave the cache stays a lifetime more under its own key.
DecompteUneVie == \A v \in Visiteurs : visites[v].compte.age <= TTL

\* What the code keeps: one lifetime for the facets and the count shown with them
\* on page 1, two for the total of the following pages.
DecompteBorne ==
  \A v \in Visiteurs : visites[v].compte.age <= (IF visites[v].page = 1 THEN TTL ELSE 2 * TTL)

\* The price ranges share out the products counted: each in the range that holds its price.
FacettesJustes ==
  \A t \in _price_ranges(resume.lot) :
    t.nombre = Cardinality({f \in resume.lot :
      t.min <= Decrit[f].prix /\ (t.fin <= Len(PRICE_BOUNDS) => Decrit[f].prix < PRICE_BOUNDS[t.fin])})

\* What the search keeps of docs/MODULE_RECHERCHE.md, sections 3, 5 and 6: the pages
\* and the facets as they are described there, and an age of the total twice the one
\* promised (DecompteUneVie does not hold).
RechercheTenue == VisiteComplete /\ DecompteBorne /\ FacettesJustes
=============================================================================
