# Formal models of ANITCHE

ANITCHE is a marketplace: a Django back end (`src/backend-django`), a FastAPI service for search and
live tracking (`src/backend-fastapi`), four portals (`src/frontend`) and their infrastructure. This
directory holds TLA+ models of its core, the TLC runs that check them and the TLAPS proofs about them.
Definitions keep the French names of the source: *commande* order, *paiement* payment, *remboursement*
refund, *fiche* delivery sheet, *reversement* payout to the seller, *panier* cart, *boutique* shop.

## 1. Inventory

| Component | State | Operations | Talks to | Hard part | Module |
|---|---|---|---|---|---|
| Orders, `apps/commandes` | `Commande.status`, cancellation motive, history | checkout, confirm, prepare, cancel (5 motives), expiration task | payments, delivery, stock, coupon, payouts: direct calls inside one transaction | expiration works outside transactions, then cancels | `Commandes` |
| Amounts of a checkout | `TarifLivraison`, `Coupon` | tariff of a commune, discount, its shares, offered delivery | orders | shares in whole francs that must add up | `Checkout` |
| Cart, `apps/panier` | lines of a cart | add, change, remove, validate | stock, orders | double click, additions judged on a stale row | `Panier` |
| Client payments, `apps/paiements/services.py` | `Paiement`, `Remboursement` | open, validate, fail, give up, notify, reconcile, refund | the provider by HTTP, outside transactions | lost, late, repeated, contradictory answers | `Commandes`, `Argent` |
| Provider, `paiements/fournisseurs/geniuspay` | `JournalWebhook` | signed event, journal, verification, reconciliation | the provider, payments | a crash between the journal and the effect | `Geniuspay` |
| Seller payouts, `paiements/reversements.py` | `Reversement`, `Transfert`, `AjustementReversement` | create, withdrawal period, suspend, cancel, transfer, notify, reconcile, resolve by hand | the provider, returns, delivery | a transfer whose outcome is unknown must not be sent twice | `Reversements` |
| Fees, `paiements/frais.py` | `BaremeFrais`, fees frozen in a line | plan, change, close, delete, freeze | checkout, returns | validated at one instant, saved at another | `Baremes` |
| Delivery, `apps/livraison` | `Livraison.statut`, courier, code and its tries, attempts | assign, change status, abandon, contest, resolve | orders, payouts, accounts | several actors on one row; bounded tries | `Livraison` |
| Returns, `apps/retours` | `DemandeRetour.statut`, deadlines, lines | request, seller/moderator/administration decisions, deadlines task, refund | payments, payouts, stock, loyalty (signal after commit) | deadlines racing answers; refused refund | `Retours`, `TableRetours` |
| Loyalty, `apps/fidelite` | points, waiting gains; coupons and uses | gain, credit, take back, exchange | delivery, returns | points adjusted after the commit | `Fidelite` |
| Notifications, `apps/notifications` | `Notification` rows, e-mails | written with an order, or by the signal of a return | orders, returns | before or after the commit | `Avertissements` |
| Catalogue and shops, `apps/catalogue`, `apps/vendeurs` | shop, products, variants, stock, gallery | activate, block, suspend, edit | every purchase | two parties write the same rows | `Boutiques` |
| Passports, `apps/passeport_qr` | active or revoked, by whom; scans | create, correct, revoke, restore, scan | catalogue, FastAPI scan | conditional updates on stale rows | `Passeport` |
| Reviews, `apps/avis` | `Avis.statut`, aggregates, reports | publish, edit, remove, report, hide, restore | catalogue | order of the row locks, aggregates | `Avis` |
| Support, `apps/support` | ticket, messages, attachments | reply, assign, close, rate, reclassify | accounts | who owns a ticket | `Support` |
| Accounts, `apps/utilisateurs` | roles, KYC file, address book | upload, decide, nominate, edit | delivery, shops | storage and row change apart | `Comptes`, `Carnet` |
| Access, `apps/utilisateurs` | one-time codes, refresh tokens, password | send, verify, change, reset, rotate | e-mail | several requests per code | `Acces` |
| Session refresh, `frontend/packages/auth` | refresh token in storage, access token in memory | refresh, adopt, log out, across tabs | the accounts API | a single-use token shared by tabs | `Onglets` |
| Live tracking, FastAPI | Redis keys and channels, one shared subscription per process, bounded queues | publish, listen, revalidate | Redis, PostgreSQL (read) | lost subscription, stale rights | `Suivi` |
| Search, FastAPI | cached total and facets | filter, sort, page, facets | the views of the catalogue | caches of different ages | `Recherche` |
| Adviser and guards, FastAPI | token cache, counters in Redis | authenticate, limit, call, check the answer | Django, Redis, a provider | checks and calls far apart | `Conseiller` |
| Statistics, portals, infrastructure | none of their own | | | | |

The order, the payment, the delivery and the payout are separate rows moved by one transaction
that calls the four services one after the other; every transaction takes row locks
(`SELECT ... FOR UPDATE`) and reads again what its guard needs. Calls to the payment provider never
happen inside a transaction. Celery beat (`config/settings/base.py:395`) starts the expiration task
every 5 minutes, the reconciliations every 10, the payouts and loyalty tasks every hour. A Django REST
`PATCH`, on the contrary, reads its row when the request is authorised and saves it later, most often
whole and without a lock: many of the modules below look at what such a write crosses.

What makes each component correct, and where it could go wrong, is listed at its source line under
`hazards` in `PROJECT.json`.

## 2. Plan

The plan is carried out: the money of an order (`Commandes`, `Argent`, `Reversements`, `Retours`), its locks
(`Verrous`), then the eighteen services around it, composed by `MCServices`; proofs about all of them. `Livraison` extends `Comptes`, whose nominations decide who may carry a parcel; `Avis` and
`Passeport` extend `Boutiques`, whose rows they lock and read; `Retours` and `Avertissements` share
`TableRetours`.

What a continuation would add: in `Verrous`, the locks of transfers and of the resolution of a contestation;
in `Acces`, the change of the phone number and the connection with Google; in `Recherche`, suggestions; an abstract
specification of the money of the shops that `Reversements` would implement as `Commandes` implements
`Argent`.

## 3. What is modelled

### Commandes

Source: `commandes/services.py`, `commandes/views.py` (checkout), `paiements/services.py` and the
functions they call in `livraison`, `fidelite`, `catalogue` and `reversements`.

| Variable | Code |
|---|---|
| `statut`, `age` | `Commande.status`; `created_at` against `COMMANDE_DELAI_PAIEMENT_MINUTES` and the grace delay |
| `fiche` | `Livraison.status` (`aucune`: no row yet) |
| `reversement` | `Reversement.statut`, only up to the withdrawal period |
| `stock` | `Stock.quantite_disponible` |
| `couponsDe`, `coupon` | `Commande.coupon_code`; `CouponReduction` and its `UtilisationCoupon` rows |
| `paiement`, `couvre`, `rang`, `horloge` | `Paiement.statut`, `Paiement.commandes`, and the order of `date_validation` |
| `session`, `fournisseur`, `reponses` | the call that opens the transaction; the transaction at the provider (external); answers read and not yet applied |
| `fenetre` | the payment was created less than `PAIEMENT_RECONCILIATION_FENETRE_HEURES` ago |
| `expiration` | where the expiration task is with an order of its list |
| `remboursement` | `Remboursement.statut` by (payment, order) |

One action is one transaction, with every call it makes: for instance `AnnulerCommande` is
`annuler_commande`, i.e. the order, its sheet, its stock, its pending payment, its refunds, its payout and
the coupon of its checkout. The code works outside transactions in two places, and the model splits there:

* a call to the provider. The answer is read (`RecevoirNotification`, `Reconcilier`), kept in `reponses`
  and applied later (`AppliquerReponse`), after any other step, by the webhook or by the reconciliation.
  A crash between the two is an answer that is never applied, or applied after a new reading. A crash
  between `InitierPaiement` and `EnregistrerSession` leaves `session` at `appel`.
* the expiration task. `ListerExpirables` freezes the list and the age; then, for each order, the pending
  payment is checked (`RienAVerifier`, `VerifierAvantExpiration`, `EtatIncertain`) and the order cancelled
  (`ExpirerCommande`), with anything in between.

Abstractions. An order has one line (a variant and a quantity); amounts, addresses, fees and the texts are
left out. The control of the amount and currency, which turns an answer into an alert, is in
`Geniuspay`. A return (refund of some lines) is in `Retours`. Who may act on a sheet, the code
and the number of attempts only refuse more transitions and belong to `Livraison`. The provider may change
its mind once: a failed attempt followed by a successful one on the same page. A transaction at the
provider succeeds at most once.

### Argent

What the clients are promised, with two variables: what became of each order, and of the money of each
payment for each order. Four facts: a collected payment pays the orders that can be paid, all of its other
orders are owed back, a cancellation makes the money of a paid order owed back, and a debt is settled once.
`Commandes` implements it under the mapping `EtatDesCommandes`, `SortDeLArgent` (an order is
"paid" in four of its statuses; money "pays" while a validated payment has no refund).

### Verrous

The row locks, for nine kinds of transactions: `valider_paiement`, `initier_paiement`,
`annuler_commande`, the checkout, `changer_statut` (`livrer`), `contester_livraison`, and the opening,
receipt and refund of a return. `Phases` gives the queries of each kind in the
order of the code, `Lignes` the rows of a query in the order in which PostgreSQL locks them, including the
rows joined by a `select_related` without `of=`. A transaction takes its rows one by one (`Prendre`), waits
for those another one holds, may give up when what it reads under the lock refuses it (`Refuser`), and
publishes its writes and releases its rows at its commit (`Commettre`). READ COMMITTED is modelled by what
each query sees: the committed state when it starts (`Interroger`), and the committed row once it is
locked. `lu` keeps the payments that the query of `initier_paiement` saw.

`Commandes` takes each transaction as one step; `Verrous` checks what makes that legitimate: the second
reading of the sheet by a cancellation, the lock of the checkout taken by cancellations, orders locked
before payments, and the reading of active payments under the lock of the orders.

Left out: `resoudre_contestation`, `abandonner_livraison` and the transfers of payouts (section 6), the share locks PostgreSQL takes on foreign
keys, the user rows joined to a sheet or payout (always last in their query), reviews. A cancellation that
reads again a sheet created in the same instant takes it after its order, where a delivery takes it before;
the comment of the code (`livraison/services.py:356-364`) says why nobody can hold that sheet yet, and
the run `verrous` starts with the sheets in place.

### Reversements

Source: `paiements/reversements.py`, and what returns and contested deliveries ask of it.

| Variable | Code |
|---|---|
| `statut`, `echu` | `Reversement.statut`; `date_disponibilite` is over |
| `retour`, `contestation` | `DemandeRetour.statut` and `ContestationLivraison.statut`, as far as payouts look at them |
| `retires`, `ajustements`, `aVerser` | `montant_retours`; the `AjustementVendeur` rows in their order; `montant_a_verser` |
| `fournisseur`, `reference` | the two columns of that name; a reference is the number of the transfer it names |
| `transferts`, `tentative` | the transfers at the provider (external), the number of the last one started |
| `appels`, `reponses` | calls to `transferer` that have not returned; states read and not yet applied |
| `alerte`, `signale`, `doubles` | `date_derniere_alerte`; what the administration was told of the current transfer, and of double payments |
| `manuel` | the administration sent the money itself |

A transfer is `Transferer` (the transaction that freezes the amount, charges the debts and moves to
`en_cours`), then the call: `Creer` and `Executer` are the provider, which may fail, succeed, send another
amount or never answer; `AppelRefuse`, `AppelIncertain` and `AppelAbouti` are the three ways the call
returns, and a server that stops during the call is an `AppelIncertain` or a call that never returns. The
states read by a notification, by the reconciliation or in the answer of the call go to `reponses` and are
applied later by `AppliquerEtat`, after any other step.

Abstractions. One shop (debts never cross shops). The provider's success is for the right amount or not
(`non_conforme`). The checks of the KYC and of the number to credit, which only refuse a transfer, the token
of the provider, and the repetition of an alert after 24 hours are left out; the lot and age of the
reconciliation are fairness. An administrator who resolves a transfer by hand is assumed to have read its
final state on the provider's dashboard (`Constate`): the code cannot check it and asks for it. The same
holds for `ResoudreNonParti` of a request that was lost (`perdu`).

Three constants say what a run allows. `Tentatives` bounds the transfers of a payout.
`RetourApresDelai` is the case `RETOUR_DELAI_JOURS > REVERSEMENT_DELAI_RETRACTATION_JOURS` (both are 7 in
`config/settings/base.py`). `ReponsesTardives` lets an answer about a transfer be applied after the next one
began; the code does not exclude it, see section 6, and the other runs exclude it to check the rest.

### Retours

Source: `retours/services.py`, the validation of a request in `retours/serializers.py`, the refunds of
`paiements/services.py` and the contestation of `livraison/services.py`, for one delivered order.

| Variable | Code |
|---|---|
| `statut`, `lot`, `frais` | `DemandeRetour.statut`, its `RetourItem` rows, `frais_livraison_rembourses` |
| `approbation` | the source of its last approval in `RetourHistorique` |
| `echues`, `delais` | `date_limite_vendeur` or `date_limite_contestation` is over; the delays to ask for a return and to contest the delivery are over |
| `listes`, `figees` | of each pass of `appliquer_echeances`: what is left of its frozen list, and the returns whose present deadline was over at its frozen instant |
| `remis` | the units `_reintegrer_stock` put back |
| `remboursement`, `nonRecu`, `contestation` | the `Remboursement` of each return and of the lost parcel; `ContestationLivraison.statut` |

`TRANSITIONS` is the table of the code, rule by rule, with its actors and its control. `Traiter` is
`traiter` by a person and `AppliquerEcheance` the same path taken by the task; both end in `Appliquer`,
which restocks, or creates the refund and is undone as a whole when `creer_remboursement` refuses. Amounts are numbers:
the share of the coupon, its rounding down, the delivery fees returned once, the ceiling of the order.
A pass of the task that starts while another one still treats its list is not excluded by Celery, and
`Passages` holds two.

Abstractions. Asking for a return needs a delivered order, which is where the module starts. Texts, photos,
reminders (`relancer`) and notices are left out. Payouts and points react to the same steps and
are in `Reversements` and `Fidelite`. The history before `RetourHistorique` existed is ignored.

### The services around an order

Each of the following modules is a specification of its own, with its `...Init`, `...Next` and `...Spec`.
Their names do not clash, so that `MCServices` can extend them all. A Django `PATCH` is two steps in all of them: the
row is read when the request is authorised, and saved later, as the serializer saves it (the whole row, or
the fields that were sent, or a conditional `UPDATE`).

**Comptes** (`utilisateurs/models.py`, `views.py`, `services.py`, `vendeurs/services.py`). An account's role,
verification and activation, the KYC file its row names, the files in the storage and the deletions that
wait for a commit. An upload writes the file, then the row; a rollback or a crash leaves the file, a commit
leaves the old one until its deletion runs. Decisions and nominations take the lock of the account;
`EnregistrerProfil` writes back the row it read (`ecrase` remembers the accounts it changed that way).
`Telechargement` is what the two download views answer.

**Carnet** (`AdresseClient`). Creation and modification take the lock of the account, a deletion does not; a
modification saves the row it read before the lock. `Ecrit` is what a request writes, `RefuserLieu` the
partial unique constraint of the base.

**Acces** (`CodeOTP`, `views.py`, `services.py`, `auth_jwt.py`). A verification chooses the last unused code,
locks and judges it, and writes its effect in another transaction; a reset then revokes the refresh tokens.
A login compares the password and issues tokens later; a rotation reads its token and blacklists it later.
`connu` is the password the chain of a token began with; `CHECK_REVOKE_TOKEN` compares the other one.

**Onglets** (`packages/auth`). A tab's refresh is `file` (waiting for the browser's lock), `appel`, then
`reponse`, `refus` or `panne`; `perime` is the module's `generation`. Messages of the `BroadcastChannel` arrive
later. `Partage` is FALSE for `sessionStorage`, where tabs share nothing but a duplicated token.

**Livraison** (`livraison/services.py`). One action per transition; the courier of a request was
read when it was authenticated, the one to assign before the lock. The code of an attempt is represented by
the number of that attempt, since each attempt draws a new one; `donne` is what the client told the courier.

**Checkout** and **Baremes**. Amounts are integers: tariff of a commune, discount of a coupon and its
shares, offered delivery; fees of a line rounded half up, and the share given back by a return. Schedules
are judged at one instant and saved at another, whole. Each `timezone.now()` is an instant of its own.

**Panier**. An addition judges what the serializer read; the checkout holds the lock of the
cart from `CalculerMontants` to `CreerCommandes` and competes with sales made elsewhere (`VendreAilleurs`).

**Boutiques** (`catalogue`, `vendeurs`). `pages`, `fiches` and `inventaire` are the requests in flight; the three
rules of what is public are `VisiblesPubliquement` (Django), `VueProduitPublic` (the SQL view of
FastAPI) and `EstAchetable` (the cart).

**Passeport** extends it: `dossierLot` is the row each party's request validated; `Revoque` and `Retablissable` are
the two conditional updates; `Decoder` is what FastAPI makes of a scanned content.

**Avis** extends it too: `Ordre` lists the locks of each kind of transaction, `ecriture` what a transaction computed and has
not committed. A report is two steps: `LirePourSignaler` reads the review without a lock, `SignalerAvis` inserts the row, and a
moderation may commit in between (`signalant`); `derniere` is the last decision to hide or to restore. `Boutiques` keeps the counters of the shop; a `PATCH` of the seller may write old ones
(`perimee`).

**Support**. Every action of a ticket is under its lock but the reclassification, two steps (`LireTicket`,
`Reclasser`).

**Fidelite**. `RecalculerGain` and `ReprendrePoints` are the two halves of the signal of a refunded return; the task
lists (`releve`) and credits line by line; an exchange reads the balance and debits it under the lock.

**Suivi** (`hub.py`, `positions.py`, `routeurs/livraison.py`). Every `await` is a boundary. `pubsub` is the connection of
the process, `perdue` its loss until `_run` notices it, `ecouteurs` and `verrou_hub` the hub, `ws` each socket with its
bounded queue and the last position its client saw. Django is the environment. Redis is taken to know a subscription when
`await pubsub.subscribe` returns, and to forget it with the connection: redis-py, external, only sends the command and
reads the confirmation later, and its recent versions may subscribe again by themselves after a loss.

**Recherche**. `publics` is what the views show now, `resume` and `decompte` the two Redis entries with their age; a
visit goes from page to page while both move. `Ordres` is every answer the `ORDER BY` allows. `TTL` is the lifetime of both
entries (`search_cache_ttl`, 60 s), `compte.age` how old the total shown is.

**Conseiller**. A request walks from the token to the answer, one step per `await`; Redis may be unreachable and
its answer lost at each. The provider's output is any sequence of products, `Invente` included.

**Geniuspay**. A delivery is `ouvert` once the journal row is committed, `verifie` once the state was asked, `applique`
once the payment was settled, and then journalled; the server may stop between any two, and two requests may
deliver one event. `Geniuspay` (the action) is the provider, external.

**Avertissements**. `ecritureAvis` is the open transaction of an order with its notifications; `CommettreSansCourriel` is a
crash before `on_commit`. For a return, `FranchirEtape` follows `TableRetours` and leaves a signal that is treated
later, in any order, and may fail.

### MCServices

One run explores the eighteen services: the variable `service` is chosen at the start and never changes, only
its actions run, and the others' variables keep their initial values. The state graph is the disjoint union of
eighteen graphs; nothing is a product. `ServicesInit` keeps one initial state of the services that have several, when
another one runs. `ServicesTypes` gathers their type invariants, which hold on the same instance.

`Bornes` is the state constraint; a state that violates it is checked, and followed no further:

| Conjunct | Stops at |
|---|---|
| `SansEcrasement` | an account or a ticket that a stale write replaced (section 6 says what it shows) |
| `UnSeulCompte` | a second account that moves, while accounts are what is looked at |
| `ComptesSuivis` | an account deactivated during the live tracking |
| `EssaiSeul` | a test event of the provider sent with another one |
| `GalerieSeule` | a gallery filled while other rows of the shop are being written |
| `AvertissementsEtales` | more than two signals or e-mails waiting, and a return opened before those of its order are settled |
| `CodesEtales` | a code that expires after a session was opened |
| `CoupureEnCours` | a Redis connection lost outside a delivery, or during a `POST` |
| `UneReponse` | two answers of the adviser past the reading of the catalogue |
| `SignalementSansPage` | a `PATCH` of the shop in flight once a review was reported (a report touches neither the shop nor the counts) |
| `UnSeulMasque` | two products hidden at once |

## 4. Runs

| Run | Instance | Question |
|---|---|---|
| `argent_stock` | (a) 1 checkout of 2 orders, 2 payments; (b) 2 checkouts (2 orders and 1), 1 payment, 2 units of each variant, the third order wants 2; 1 use of a coupon | (a) is money ever kept without an order, lost, or refunded for an order that is delivered? (b) are units and uses conserved? |
| `vie` | 1 order, 2 payments, every refund decision, closed window | does `Commandes` implement `Argent`; do order, sheet and payout agree; is a debit always treated and an order always settled? |
| `expiration_repoussee` | 1 order, 2 payments | expected violation, section 6 |
| `verrous` | three starts: (1) a validation, cancellations of the two sister orders, two requests for another cart; (2) an order paid alone and with its checkout, two validations, a cancellation; (3) two moves of a sheet, a contestation, a cancellation, three steps of a return | can they wait for each other for ever; can two payments collect one order; is a cancelled order left with a sheet or the client's money; does the last sister cancelled close the payment and give the coupon back? |
| `verrous_coupon` | two sister cancellations and a checkout with the same coupon | expected violation, section 6 |
| `versements` | 1 payout, 2 returns, 1 contestation, 2 transfers; and, from other initial states, 1 return and 2 passes of its task | is a payout paid twice, paid without money, or let go during a dispute; is a settled transfer always found and a blocked one reported; does every unanswered return and every refusal move on? |
| `versements_dettes` | 2 payouts, an offered delivery above its sale, 2 returns of the first, 1 transfer each | is each payment the net minus the debts charged to it; is each refunded return borne once? |
| `versement_double` | 1 payout, 2 transfers, late answers | expected violation, section 6 |
| `retours` | 1 order of two lines (2 units and 1), a discount that does not divide, 2 returns (one unit, or everything), 2 passes | is a unit returned twice, the ceiling exceeded, a received parcel left without its refund, an appeal undone? |
| `services` | eighteen instances, below | what each service promises |
| `suspension_perdue` | 1 shop | expected violation, section 6 |
| `total_perime` | 1 visitor of the search, 1 lifetime of the caches | expected violation, section 6 |

Properties of `services`:

| Property | Module | What could break it |
|---|---|---|
| `ComptesTenus` | `Comptes` | a decision on a file that is being replaced; a file deleted by the upload that replaces it, or by a rollback |
| `CarnetTenu` | `Carnet` | two creations at the limit; two default addresses; a deletion between the reading and the saving of a row |
| `AccesTenu` | `Acces` | a code tried by several requests, used twice, or sent elsewhere than what it proves; a token rotated while the password is reset |
| `RefreshUnique` | `Onglets` | two tabs that refresh with the same single-use token, a message that arrives late |
| `LivraisonTenue` | `Livraison` | a delivery without the code of its attempt, tries that are not counted, an order cancelled under its courier |
| `CheckoutJuste` | `Checkout` | shares that do not add up to the discount, a tariff that the public grid does not show |
| `BaremesTenus` | `Baremes` | a schedule changed after it served, requests that cross; the two halves of a line returned for more than the line |
| `PanierCommandeUneFois` | `Panier` | a double click that orders twice, units sold beyond the stock because it was judged on a stale reading |
| `CatalogueTenu` | `Boutiques` | the seller activating what the administration blocked; a threshold that overwrites a sale; three rules of what is public that disagree |
| `AvisExacts`, `AttentesSansCercle` | `Avis` | aggregates computed before another commit, a report that a hiding leaves open, an accepted one whose review its author brought back; locks taken in two orders |
| `CertificatsTenus` | `Passeport` | a revocation of the administration lifted by a request in flight, two passports of one lot |
| `TicketTenu` | `Support` | a message or a new status after the closing, two agents on one ticket |
| `PointsExacts` | `Fidelite` | points kept for a returned article, given or spent twice; a balance that its movements do not explain |
| `ChacunPrevenu` | `Avertissements` | a notification of what was rolled back; a return that waits for someone who was told nothing |
| `SuiviAJour` | `Suivi` | a socket that listens to a channel its process has left; a position older than one shown |
| `RechercheTenue` | `Recherche` | a product missed or shown twice from page to page; totals older than two lives of the cache, or facets older than one; ranges that miss a price |
| `ConseilTenu` | `Conseiller` | a revoked token kept alive by its readings; more paid calls than the budget; a product nobody read |
| `EvenementTraite` | `Geniuspay` | an event journalled as treated before its effect; a payment validated on what another transaction collected |

Bounds and why they are enough. In `Commandes`, two payments are needed for a double payment, and two
orders of one checkout for a payment that covers several orders and for cancellations one by one; a third
order, in another checkout, competes for the stock and the coupon. The code treats orders of a payment
independently but for "is there another order left" and "is there another validated payment", so that a
third of either only repeats the same cases; the theorems do not depend on these bounds. `Preparees`,
`Fermables` and `Decisions` say which orders may be prepared, which payments may outlive the reconciliation
window and which decisions exist: each run opens those its question needs. `horloge` counts validations and
is bounded by the number of payments. The two payments are symmetric in `argent_stock`; `vie`
checks liveness and uses no symmetry. The constraint `ArgentOuStock` keeps the two questions of `argent_stock` apart: the first
checkout alone without a coupon, with both payments, a preparation and a grace delay that ends for one of its orders (a); or both checkouts, with one
payment, no preparation and no grace delay that ends (b). All five properties are checked in both. `vie` checks the refinement on one order; the theorem `Raffinement`
holds for any number.

In `Verrous` a start of `Departs` is a state of the orders and payments with the transactions that run from
it. Each transaction runs at most once, which is enough for a cycle: a cycle of waits has each transaction
once, and the instances hold two of each kind that can wait for its own kind. In `Reversements`, two transfers
are the least for a second payment, two returns for two disputes that close in either order, two payouts for
a debt charged to another order; the amounts are chosen so that a debt fits one payout and not the other.

In `Retours`, two returns are the least that compete for one line, one ceiling and one delivery fee, and two
passes the least for a list that is older than a refusal; one request for a unit and one for everything give
a partial and a complete refund. Returns and passes are symmetric in `retours`; `versements` checks
liveness, uses no symmetry, and needs one return because the task treats each on its own.

In `services`, two requests (`x1`, `x2`) are the least for a race between a reading and a saving, and the third
party of a race is the administration, the task or the provider, an action of its own. Limits are as small as
they can be met and exceeded: one wrong code allowed and two attempts, two addresses, two units in stock, a queue of one
position, a page of one product and two pages, one paid call a day over two days. Three lots and discounts of 50 % and 95 %
reach each rounding; 100 500 and 52 000 F with returns of 60 600 and 39 900 F leave a part of a thousand on each side; articles at
4 999 and 5 000 F are on both sides of a threshold of the facet. The parties `x1`, `x2` of a request and the couriers `l1`, `l2` are
symmetric; the run checks safety only.

TLC does not check deadlock: the modelled system stops when every order is delivered or cancelled, every
payout paid and no answer is left to read, and in `Verrous` when each transaction has run. A cycle of waits
is what `SansInterblocage` and `AttentesSansCercle` look for.

## 5. Fairness

Safety needs none, and the services are checked for safety only. Liveness of the orders (`DebitTraite`,
`CommandeTranchee`) assumes: time passes for an order that
waits for its payment; the expiration and reconciliation tasks are started again and again by Celery beat
and treat each order and payment of their list; an answer read by one of them is applied. Nothing is
assumed from clients, shops, couriers, the administration, the provider, or from the delivery of
notifications. For payouts (`VersementSuivi`): the reconciliation asks for each transfer
in progress, the alert task looks at each of them, and a state that was read is applied; nothing from the
provider or the administration. Weak fairness is enough: the selection of a task stays true until it acts.
For returns (`SansBlocage`): deadlines pass, passes are started and finish their list, and a request does
not hold the row of a return at every pass (strong fairness of `AppliquerEcheance`, which skips a locked
row); nothing from the client, the seller, the moderators or the administration.

## 6. What the checks found

Expected violations, one run each:

* `expiration_repoussee`. The docstring of `expirer_commandes_impayees` says that an order with a pending
  payment only expires after its state was asked to the provider and that an uncertain state postpones the
  expiration. The task looks for pending payments outside any lock, and the cancellation does not look
  again: a client who opens a payment in between sees it closed and the order cancelled, inside the grace
  delay. If he pays on the provider's page all the same he is refunded (`ArgentClient`, `DebitTraite`), so
  no money is lost.
* `verrous_coupon`. `annuler_commande` takes the stock rows in a fixed order so that there is "pas
  d'interblocage avec un checkout"; but the checkout locks the coupon and then the stock, and the
  cancellation the stock and then the coupon, to give it back. PostgreSQL breaks the deadlock by failing
  one of the two requests.
* `versement_double`. A failure is applied to the transfer in progress whichever transfer it is about. One
  read before the administration starts a second transfer, and applied after, makes the payout available
  while the second transfer may succeed; a payment by hand then pays twice.
* `suspension_perdue`. The seller cannot lift a suspension himself ("le vendeur ne peut pas la lever lui-même",
  `vendeurs/models.py:82`), but a `PATCH` of the shop saves the row it read before the suspension.
* `total_perime`. The total and the facets "peuvent avoir 60 s de retard" (`docs/MODULE_RECHERCHE.md:77`, and the docstring
  at `routeurs/recherche.py:145`), one lifetime of the cache (`DecompteUneVie`). From page 2 on, `fetch_count` takes the total over from
  the cached facets and stores it for a lifetime of its own: one taken from facets about to leave the cache is shown until it is almost
  120 s old. What the code does keep, one lifetime on page 1 and two afterwards, is `DecompteBorne`, part of `RechercheTenue`.

What the modelling showed and no run states, because the properties name it as their exception:

* The stale row of a `PATCH` again: on the profile it writes back e-mail, password and role
  (`config/settings/base.py:374` and `docs/MODULE_VENDEURS.md:109` assume it does not; exception `ecrase` of `ComptesTenus`,
  `remplace` of `AccesTenu`); on the shop, the counters of its reviews (`perimee`); on a ticket, a reclassification
  reopens one that was closed (`support/views.py:138` against `support/services.py:5`; `rouvert`); on a fee schedule, one that has begun is
  changed or reopened (`paiements/models.py:242`; sales made while such a request is under way are left aside by
  `BaremesTenus`); on an address, a deleted row comes back and the book exceeds its limit
  (`utilisateurs/models.py:470` against `services.py:270`; `revenus`), or a default address is refused with a 500.
* `versement_reste`: a founded contestation erases the rest of an offered delivery unless a payout holds it
  (`paiements/reversements.py:165`); held by a transfer that then fails, it comes back as a debt although it was never deducted
  (`docs/MODULE_PAIEMENTS.md:163`).
* A report of a review that is hidden between its reading and its insertion stays open on a hidden review
  (`avis/services.py:275` and `:282`; `depasse`, the exception of `AvisExacts`).
* A moderator who hides a review and another who rejects its report lock the two rows in opposite orders
  (`avis/services.py:105` says that no order is reversed; the exception of `AttentesSansCercle`).
* Two returns of one order committed before either signal is treated: the first signal lowers the waiting gain for
  both, the task credits it, and the second signal takes the points of its return back once more
  (`fidelite/services.py:107`, "une seule fois par retour"). They come off the whole balance, so that the client loses points of other
  orders; the warning of `services.py:137` speaks of points already spent. `PointsExacts` is therefore stated on the balance; a signal lost in a crash takes none back (`signaux_perdus`); a dispute
  opened between the list of the task and the credit does not hold it back.
* The shares of a discount may exceed the articles of a small shop by a franc (`commandes/services.py:232`,
  `docs/MODULE_FIDELITE.md:51`).
* GeniusPay: a concurrent delivery may write ERREUR over TRAITE in the journal; when the provider's API is late on its own event,
  the event is acknowledged and only the reconciliation recovers the payment.
* A crash between a commit and `on_commit` loses an e-mail, a failed signal of a return is only
  journalled (`tus`, the exception of `ChacunPrevenu`).
* Live tracking: a position whose access was checked before the delivery is published after it
  (`docs/MODULE_SUIVI_GPS.md:109` says that it is never read), and that of the former courier after a
  reassignment (`modeles/suivi_temps_reel.py:53`).
* Search: the `next` of page 50 links to page 51, which is refused.
  The upper bound of a price range is excluded from its facet and included by its filter (documented).
* Adviser: a product invented after the last one kept does not replace the answer by the template, since the
  control stops there (`services/conseiller/service.py:122`). A revoked token lives for the TTL of the cache plus a
  verification in flight (`auth.py:11`).
* Tabs: a tab duplicated under `sessionStorage` keeps a token that the other one may have used
  (`rafraichissement.ts:36`); a refresh answered after a logout in another tab is adopted again until the next message (`:53`).

Limit of the settings, not a finding: with `RETOUR_DELAI_JOURS` above the withdrawal period, a return may be
opened while a transfer is in progress; when that transfer fails the payout becomes available with the
return still open. `LitigeSuspend` is checked and proved for the settings of the repository.

Read in the code, not run: `appliquer_etat_transfert` and `resoudre_transfert_incertain` join the order of
the payout without `of=` and lock it after the payout, where an opening of a return locks the order first
(`docs/MODULE_PAIEMENTS.md:45` says that payout transactions never lock an order). The reference of a
failed transfer stays on the payout (`reversements.py:470`), so that a repeated success of the second one may be
reported as a possible double payment.

Documented limit, not a finding: a return whose share of the price is zero (a coupon that covers the
articles) may be received, and its refund is then refused (`docs/MODULE_RETOURS.md:112`); nothing closes it
afterwards, since a received parcel cannot be rejected. The instance of `retours` has no such line.

Documented limit, not a finding: a client who gives a payment up and pays it after the reconciliation
window, with every notification lost, is not detected by the code (`docs/MODULE_PAIEMENTS.md` describes the
window); `DebitTraite` says exactly that.

## 7. Proofs

Eight modules hold the proofs. Each theorem holds for every value of the constants its module's assumptions
allow; the services that share a proof module have nothing else in common.

**`Sommes`** holds the lemmas that need an induction over data. The sums of the models are folds, and a fold is, unfolded,
a function chosen to satisfy a recursive equation. The induction is not done by the library's induction theorems (they
take an operator as parameter) but by a smallest counterexample: `WFMin` on the order of the naturals
(`PlusPetit`), applied to the set of the sizes at which the wanted fact fails. This gives that the recursive
equation has a solution over the subsets of a finite set, hence what a sum is worth on the empty set, on one element more or
less, on two functions that differ at a point or are ordered, and the same for cardinalities.

**`CommandesProofs`**, for any constants that satisfy `ConstantesOk`:

* `Typage`: the type invariant; the one interesting conjunct is that stocks stay natural numbers.
* `Invariance`: the inductive invariant `Inductif`. `ArgentClient` alone is not inductive: a validation
  must know that its rank is above every other (`RangsBornes`), that the orders it covers exist
  (`CommandesCouvertesCreees`), and that a `creee` order has no validated payment (`CommandePayee`), so that
  the orders it confirms are exactly those that were `creee`. `FicheEtReversementAlignes` needs
  `PasDeReversementAvantPaiement`, and the refinement needs that an opened payment covers an order
  (`PaiementsCouvrants`).
* Its consequences `Argent_Client`, `Commande_Payee`, `Paiements_En_Attente`, `Fiche_Et_Reversement`, and the
  action properties `Encaissement_Definitif` and `Expiration_Epargne`.
* `Raffinement`: `Commandes` implements `Argent`.
* `Stock_Conserve`: four kinds of steps (`EtapeStock`): a checkout subtracts the sums of the lines it adds to those held, a
  cancellation adds back one line, and everything else leaves both sides alone.
* `Coupon_Conserve`: the coupon of a checkout is used by it as long as one of its orders is left, so a cancellation must
  know that the orders of a checkout that carries a coupon exist (`CouponsApresAchat`); otherwise the last cancelled could be the first created.

The argument reduces the actions of the model to eight kinds of steps (lemma `Etapes`): cancel, validate,
close a pending payment, open, check out, prepare, move the sheet, decide a refund; anything else is
neutral. Each kind has one lemma for the invariant; the refinement and the action properties reuse the
same split. Five of the kinds touch no collected money (`SansEncaissement`) and stutter in `Argent`.

**`VerrousProofs`**, for any orders, checkouts, payments and transactions; `VerrousOk` says what the
starts `Departs` may be, and that a payment covers orders of one checkout:

* `Invariance`: the inductive invariant `IInv` has four parts: types; `Controle` (a row has one holder, what remains of a
  transaction is the end of its list of queries); `DonneesJustes` (what the committed rows say of each other); and `Sait`, what
  a transaction knows from what it read and locked. The last one carries the proof. `Sait` is stated
  query by query: after the fifth query before the end, a cancellation holds its order; with two left it has read every
  payment of the order as it still is, since nobody else can change one without a row it holds (`PaiementsLus`). So each kind of commit has one lemma that uses what
  its transaction knows, and one lemma of interference (`Ecritures`) shows that a commit cannot falsify what another one
  knows: it writes only what it holds.
* `Annulation_Relue`, `Derniere_Annulation_Finalise`, `Un_Seul_Actif`: its consequences.
* `Sans_Interblocage`, for starts that satisfy `CroisementsEvites`. `SansInterblocage` is not true of every start: the
  cancellation reads a sheet again after the order when there was none, a deadlock that `annuler_commande` accepts
  (`commandes/services.py:360`), and takes the coupon after the stocks, a checkout before (`verrous_coupon`). The hypothesis
  names these two crossings and nothing else; `DepartsChoisis` has TLC check that the starts of `verrous` avoid them and that the start of
  `verrous_coupon` does not. The proof ranks the rows by table, then by key in the queries that take several
  (`Avant`). The invariant is `OrdreSuivi`: what a transaction holds comes before what its query has still to take, and
  both before what its next queries may ask for, the second reading of a sheet apart (`Relue`). The row that a transaction waits
  for then comes before the row its holder waits for (`AttenteCroissante`), and in a circle there would be no last one.

**`ReversementsProofs`**, for any constants that satisfy `ConstantesOk`:

* `Typage`, `Colonnes`: the types of every column.
* `Invariance`, for `~ReponsesTardives`: the inductive invariant `Inductif`. `VersementUnique` speaks of the
  transfers at the provider and is not inductive. `Chronologie` adds that every transfer before the last
  is over and sent nothing, and that none exists after it; `Engagement` ties the status of a payout to its
  last transfer (available only if it sent nothing, in progress only if it was started, paid only if it
  paid or the administration did by hand); `EchangesActuels` says that calls and answers are about the
  last transfer and tell its state. The last one is what a late answer breaks.
* `Versement_Unique` and `Verse_Est_Parti`, its consequences.
* `Litige_Suspend` and `Suspendu_Pour_Litige`, for `~RetourApresDelai`, from `Suspensions`: a dispute can
  only be opened before the end of the withdrawal period, hence before the payout becomes available.
* `Dettes_Tenues`, with late answers too. The invariant `Tenues` says that what a payout holds is what its debts sum up to
  (`Exacts`) and that each refunded return is in one of two places, taken off its payout or a debt (`Repartition`, where the
  pair of a debt's nature and origin is unique). `_imputer_ajustements` is a recursion on the rows of debts: what it
  leaves is the net less the debts it charged, by induction on the rows (`ImputerFaits`), and `LibererFaits` is its inverse. A
  refund must find a payout that is not cancelled, or a contestation that was founded: this is `Dossiers`.

**`RetoursProofs`**, for any numbers of returns, lines and passes:

* `Invariance`: the inductive invariant `IInv`. `RecoursGagne` is inductive with the types; the argument is
  a reading of the table once for all (`RegleApresApprobation`: from a status that follows an approval, a rule
  leads to such a status or is the seller's withdrawal of his own approval). `InstantPasse` says that what
  a pass holds to be over is over.
* `Recours_Gagne`, and `Rejet_Motive` from `InstantPasse` and `RegleRejet`: every step that rejects applies one
  of two rules, and the one of the task needs the deadline of the refusal in force.
* `Article_Rendu_Une_Fois`: what was put back in stock is at most the sum of the lots of the returns that are received
  (`RemisRecus`), which are among those that count.
* `Argent_Des_Retours`: the share of a return is rounded down, so that the shares of disjoint lots never exceed the share of
  their union (`RetoursPayes`); the delivery is given back once (`FraisUneFois`). Its hypothesis `Remise <= Brut` says that the
  discount of the order is at most its articles. The checkout keeps it for a single shop; with several, the last
  order absorbs the roundings of the others, up to a franc each, and three shops of 1 000 F with a coupon of 2 999 F leave
  an order whose discount exceeds its articles: `retours/services.py:190` ("ne dépasse jamais ce qu'elle a payé") then fails by that franc.

**`ComptesProofs`**, accounts and what they do:

* `Invariance_Comptes`, `Comptes_Tenus`: a step concerns one account (`Seul`), so that it is enough to look at that one (lemma
  `UnSeul`). `PieceLisible` needs that the file in force is not among those that await their deletion, which every
  interleaving of uploads, commits, rollbacks and deletions keeps.
* `Invariance_Livraison`, `Livraison_Tenue`: the code of an attempt bears its number, and wrong codes are counted by attempt
  (`faux + CodeEssaisMax <= CodeEssaisMax * tentatives + essais`), from which the bound on all of them
  follows by the lemma `EssaisBornes`; a delivery handed over names an attempt whose code was given.
* `Invariance_Acces`, `Acces_Tenu`: a code goes to the address it will write and its row counts exactly what was compared
  with it (`CodeTenu`), a request that waits to apply a code was accepted with it (`DemandeJuste`), and a token keeps the password of its chain
  (`JetonsJustes`).
* `Invariance_Onglets`, `Refresh_Unique`, for tabs that share their storage and its lock: the holder of the lock is alone on the
  network; the token in the store was rotated by nobody, or by a request whose answer is lost or still to be stored
  (`MagasinJuste`); a tab whose session ended has already left the token it presents (`AppelJuste`); and a
  message never brings back a token that the store has left (`AnnoncesJustes`).
* `Ticket_Tenu`: besides the property, a reclassification in flight read a ticket that was free or its author's (`LectureJuste`).
* `Invariance_Suivi`, `Suivi_A_Jour`: positions come in the order they were published (`FluxJuste`); Redis stays subscribed while
  someone listens, because whoever unsubscribes holds the lock of the hub with nobody left (`HubJuste`); a listener's queue is older than what
  the channel still holds (`SocketJuste`); and the last position is seen, in the queue, or in the channel (`Couverte`). The last one is inductive:
  a full queue drops its oldest position, never the newest.
* `Carnet_Tenu`: a creation that counted the addresses has its place as long as it holds the lock (`PlaceComptee`), since only
  deletions, which take none, may come in between.
* `Chacun_Prevenu`: notices in the table are those of the statuses crossed (`AvisInv`; who is told of a status depends on the payment for a
  cancellation only, so that a payment changes none already written). For a return, a reading of the table: whoever the
  signal of a step tells, with its author, can take the return further (`PasPermis`, `Avertis`).

**`CatalogueProofs`**, what is sold and shown:

* `Invariance_Passeports`, `Certificats_Tenus`: one passport moves at a time (lemma `UnPasseport`), and its new row must agree with the
  decisions taken on it (`Juste`). `CertificatsTenus` says nothing of a request that was validated on an older row: `EnVol`
  adds that what it will write was permitted to its author, and that a creation starts from a fresh row. Of
  `Connus` it needs that a lot is free when it is given (`LotDisponible`), under the unique index. It rests on the
  assumption `PasseportOk`: QR scans that are refused are not passports.
* `Invariance_Boutiques`, `Catalogue_Tenu`: who turned a product off is written with it (`Attribue`), whichever stale row is
  saved, because the update is conditional; an image is principal only if it is in the gallery (`Vitrine`).
* `Invariance_Avis`, `Avis_Exacts`: two transactions that hold all their locks hold that of the shop, so that only one writes (`Exclusifs`);
  what it computed before its commit is still what the reviews give (`EcritureJuste`). For the reports, a second invariant
  (`ModerationJuste`): an author writes a review that was not hidden when it got the locks and, being the only writer, still is not
  at its commit (`Plume`), so that a decision to hide holds until a moderator restores; and a hiding marks the request that has only read the
  review (`Moderation`).
* `Attentes_Sans_Cercle`: the transaction of a circle that holds the most locks waits for one that holds more, a
  contradiction, except where the two orders differ: a masking and the rejection of a report on one review.
* `Conseil_Tenu`: the entry of a revoked token ends within the life of the cache (`EntreeJuste`); a call is counted before it is paid
  (`BudgetTenu`); the validation of the answer is a recursion on the products, valid at each of its steps (`Valide`), by induction on them.
* `Invariance_Recherche`, `Recherche_Tenue`: each page is a query of its own, which PostgreSQL may answer in any order its keys
  allow. The rows of keys have one length and end with the identifier, so that they are ordered totally (`PrecedeTotal`, `ClesForme`) and
  only one order is left (`OrdreUnique`); a page then continues what the pages before it showed (`PageSuivante`, in `ListeSuivie`). The
  age of a total is that of the facets it was taken from and the time it was kept, one lifetime each (`CachesJustes`). A price is in
  the range of the thresholds it reaches (`TrancheFaits`), which is where `RechercheOk` needs them increasing from 0.

**`AchatsProofs`**, what a purchase costs and brings:

* `Invariance_Panier`, `Panier_Commande_Une_Fois`: a validation in flight holds the lock of the cart alone, and nobody emptied the cart since
  it read the lines (`SeuleAValider`), so that `doublons` stays 0; what is left and what is sold add up to the initial stock, and what
  is left never goes below 0 because `StockSuffit` judges it again, under the lock of the row, before the units are taken.
* `Invariance`, `Evenement_Traite` (GeniusPay): `EvenementTraite` relates the journal to the provider's state of now,
  while a request wrote what it had read before. The strengthening says that what was read of a final
  transaction is still true (a completed one stays completed or is refunded), that a request past `applique`, and a
  journal row that says so, come after the effect, and that a validated payment was collected for its amount.
* `Invariance_Baremes`, `Baremes_Tenus`: the row of a request, however stale, shows each past sale the same schedule as the
  table (`Vue`, `RequeteFidele`), so saving it changes none; the shares of a line are nested roundings, a franc apart.
* `Checkout_Juste`: each share but the last is its prorata rounded down; the last is what is left, hence its prorata and less than a
  franc per other shop (`PartsJustes`). It rests on `CheckoutAssumption`: no article is free (`variante_prix_strictement_positif`).
* `Points_Exacts`: a waiting gain never exceeds what the order, less the returns already treated, is worth (`AttentesJustes`); the balance is its
  movements (`Compte`), and stays below what the credited orders are worth (`Borne`). The property is about the balance and
  not about each order, because the code may take a refund back twice, section 6.

Two hypotheses are common to several: the sets summed or counted are finite, and the constants are of their type
(the named assumptions of the modules, all of which TLC evaluates on the runs).

Only model-checked: liveness (`DebitTraite`, `CommandeTranchee`, `VersementSuivi`, `SansBlocage`: neither `ENABLED` nor fairness is
within reach of the provers).

## 8. Not modelled

Statistics are reads. The portals, the generated API client and the infrastructure are presentation, generated code and
configuration. Within modelled components: the change of a phone number and the connection with Google (the same
`CodeOTP` rules as the others, and an external identity), the journal of connections, suggestions and the full-text ranking of the
search, the estimate of the arrival time, marking a notification as read, alerts of stock and of support, the bytes of
files and images, the texts of reviews and messages, HTTP and signatures of the provider. `Suivi` explores no
deactivated account; the only provider of the adviser that the code registers is `simule`, and a paid one is modelled from the contract of
`fournisseurs/base.py`.
