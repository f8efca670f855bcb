------------------------------- MODULE Suivi --------------------------------
(***************************************************************************)
(* Live tracking of one delivery (FastAPI).  The assigned courier posts    *)
(* positions; Redis keeps the last one (SET) and broadcasts it (PUBLISH)   *)
(* in one transaction; one pub/sub connection per process feeds the        *)
(* bounded queue of each WebSocket.  Rights are read from Django's tables, *)
(* tokens are checked with Django and cached.                              *)
(*                                                                         *)
(* Every await of the source is a boundary between two actions here.       *)
(***************************************************************************)
EXTENDS Naturals, Sequences, FiniteSets

CONSTANTS Livreurs,      \* couriers
          Sockets,       \* WebSockets of one process
          Ecoutant,      \* Ecoutant[w]: "client", "admin" or a courier
          PositionsMax,  \* bound: positions published
          FileMax        \* WS_QUEUE_SIZE

AucunSocket == "aucun"

ASSUME SuiviAssumption ==
    /\ PositionsMax \in Nat /\ FileMax \in Nat \ {0} /\ AucunSocket \notin Sockets
    /\ Ecoutant \in [Sockets -> Livreurs \cup {"client", "admin"}]

VARIABLES course,        \* the delivery in Django: status and courier
          comptes_actifs,\* users whose account is active, with their role
          cle,           \* last position in Redis (n = 0: no key)
          publiees,      \* number of positions published
          envoi,         \* couriers whose POST passed its access check
          pubsub,         \* messages on their way on the pub/sub connection
          souscrit,      \* Redis knows the subscription of the process
          perdue,        \* the pub/sub connection broke, not yet noticed
          ecouteurs,     \* hub._subscribers
          verrou_hub,    \* holder of hub._lock
          ws             \* each WebSocket

suiviVars == <<course, comptes_actifs, cle, publiees, envoi, pubsub, souscrit, perdue,
               ecouteurs, verrou_hub, ws>>

Auditeurs == {Ecoutant[w] : w \in Sockets}
CLOSED == 0
PositionStockee == [n : 0..PositionsMax, livreur : Livreurs]
EtapesSocket == {"ferme", "ouvert", "abonnement", "abonne", "servi", "sortie", "desabonnement"}
Connection == [etape : EtapesSocket, access : Livreurs, queue : Seq(0..PositionsMax), vu : 0..PositionsMax]

SuiviInit ==
    /\ \E l \in Livreurs :
        /\ course = [statut |-> "en_cours", livreur |-> l]
        /\ cle = [n |-> 0, livreur |-> l]
        /\ ws = [w \in Sockets |-> [etape |-> "ferme", access |-> l, queue |-> <<>>, vu |-> 0]]
    /\ comptes_actifs = Livreurs \cup Auditeurs
    /\ publiees = 0 /\ envoi = {} /\ pubsub = <<>> /\ souscrit = FALSE /\ perdue = FALSE
    /\ ecouteurs = {} /\ verrou_hub = AucunSocket

redis == <<cle, publiees, pubsub>>
hub == <<souscrit, perdue, ecouteurs, verrou_hub>>
droits == <<course, comptes_actifs>>

-----------------------------------------------------------------------------
(* Django, external to this service: status changes, reassignments,          *)
(* deactivated accounts.                                                     *)

Django ==
    /\ \/ /\ course.statut = "en_cours" /\ UNCHANGED comptes_actifs
          /\ \/ \E s \in {"livree", "echouee"} : course' = [course EXCEPT !.statut = s]
             \/ \E l \in Livreurs : course' = [course EXCEPT !.livreur = l]
       \/ /\ course.statut = "echouee" /\ UNCHANGED comptes_actifs
          /\ course' = [course EXCEPT !.statut = "en_cours"]
       \/ \E u \in comptes_actifs : comptes_actifs' = comptes_actifs \ {u} /\ UNCHANGED course
    /\ UNCHANGED <<redis, envoi, hub, ws>>

-----------------------------------------------------------------------------
(* delivery_access.py: the rules read on one row of PostgreSQL *)

can_publish(l) ==
    l \in comptes_actifs /\ course.livreur = l /\ course.statut = "en_cours"

visible(u) == u \in comptes_actifs /\ (u \in Livreurs => course.livreur = u)
can_listen(u) == visible(u) /\ course.statut = "en_cours"

-----------------------------------------------------------------------------
(* POST /livraison/position: the access check, then SET and PUBLISH *)

publier_position(l) ==
    /\ l \notin envoi /\ can_publish(l) /\ envoi' = envoi \cup {l}
    /\ UNCHANGED <<redis, hub, droits, ws>>

publish_position(l) ==
    /\ l \in envoi /\ envoi' = envoi \ {l} /\ publiees < PositionsMax
    /\ publiees' = publiees + 1
    /\ cle' = [n |-> publiees', livreur |-> l]
    /\ pubsub' = IF souscrit THEN Append(pubsub, publiees') ELSE pubsub
    /\ UNCHANGED <<hub, droits, ws>>

\* The service stops between the two, or Redis refuses.
EchouerEnvoi(l) ==
    /\ l \in envoi /\ envoi' = envoi \ {l}
    /\ UNCHANGED <<redis, hub, droits, ws>>

discard_position == [cle EXCEPT !.n = 0]

ExpirerPosition ==
    /\ cle.n # 0 /\ cle' = discard_position
    /\ UNCHANGED <<publiees, pubsub, envoi, hub, droits, ws>>

\* What a reader whose access names courier l is shown, and the key it leaves.
Montree(l) == IF cle.livreur = l THEN cle.n ELSE 0
current_position(l) == IF cle.livreur = l THEN cle ELSE discard_position

\* GET /livraison/position.  Only the key changes: a read with an access that
\* is no longer true is a read that discards the key.
obtenir_position(u) ==
    /\ visible(u)
    /\ cle' = IF can_listen(u) THEN current_position(course.livreur) ELSE discard_position
    /\ UNCHANGED <<publiees, pubsub, envoi, hub, droits, ws>>

-----------------------------------------------------------------------------
(* A WebSocket: first message, limit of connections, rights *)

Passer(w, e) == ws' = [ws EXCEPT ![w].etape = e]

\* A refused token, too many connections or missing rights close the socket.
open(w) ==
    /\ ws[w].etape = "ferme" /\ can_listen(Ecoutant[w])
    /\ ws' = [ws EXCEPT ![w] = [etape |-> "ouvert", access |-> course.livreur,
                                queue |-> <<>>, vu |-> 0]]
    /\ UNCHANGED <<redis, envoi, hub, droits>>

SansVerrouHub(w) == TRUE
VerrouHub(w) == verrou_hub = AucunSocket

\* hub.subscribe: only the first listener of the channel asks Redis.
subscribe(w) ==
    /\ ws[w].etape = "ouvert" /\ VerrouHub(w)
    /\ IF ecouteurs = {} /\ perdue
       THEN Passer(w, "ferme") /\ UNCHANGED hub
       ELSE /\ verrou_hub' = w /\ souscrit' = (souscrit \/ ecouteurs = {})
            /\ Passer(w, "abonnement") /\ UNCHANGED <<perdue, ecouteurs>>
    /\ UNCHANGED <<redis, envoi, droits>>

Abonner(w) ==
    /\ ws[w].etape = "abonnement"
    /\ ecouteurs' = ecouteurs \cup {w} /\ verrou_hub' = AucunSocket
    /\ Passer(w, "abonne")
    /\ UNCHANGED <<redis, envoi, souscrit, perdue, droits>>

Recente(w, n) == IF n > ws[w].vu THEN n ELSE ws[w].vu

\* The last position is read once subscribed, then the three loops start.
EnvoyerDerniere(w) ==
    /\ ws[w].etape = "abonne"
    /\ cle' = current_position(ws[w].access)
    /\ ws' = [ws EXCEPT ![w].etape = "servi", ![w].vu = Recente(w, Montree(ws[w].access))]
    /\ UNCHANGED <<publiees, pubsub, envoi, hub, droits>>

\* _forward_loop: the client keeps the most recent position.
forward(w) ==
    LET file == ws[w].queue IN
    /\ ws[w].etape = "servi" /\ file # <<>>
    /\ IF Head(file) = CLOSED THEN Passer(w, "sortie")
       ELSE ws' = [ws EXCEPT ![w].queue = Tail(file), ![w].vu = Recente(w, Head(file))]
    /\ UNCHANGED <<redis, envoi, hub, droits>>

\* _revalidate_loop, and the renewal of the token by the client.
check_access(w) ==
    LET u == Ecoutant[w] IN
    IF can_listen(u)
    THEN ws' = [ws EXCEPT ![w].access = course.livreur] /\ UNCHANGED cle
    ELSE /\ Passer(w, "sortie")
         /\ cle' = IF visible(u) THEN discard_position ELSE cle

revalidate(w) ==
    /\ ws[w].etape = "servi" /\ check_access(w)
    /\ UNCHANGED <<publiees, pubsub, envoi, hub, droits>>

\* The client leaves, or its token is no longer accepted.
DeconnecterSocket(w) ==
    /\ ws[w].etape \in {"abonne", "servi"} /\ Passer(w, "sortie")
    /\ UNCHANGED <<redis, envoi, hub, droits>>

\* hub.unsubscribe: the last listener of the channel tells Redis.
unsubscribe(w) ==
    /\ ws[w].etape = "sortie" /\ VerrouHub(w)
    /\ ecouteurs' = ecouteurs \ {w}
    /\ IF w \in ecouteurs /\ ecouteurs' = {}
       THEN verrou_hub' = w /\ Passer(w, "desabonnement")
       ELSE UNCHANGED verrou_hub /\ Passer(w, "ferme")
    /\ UNCHANGED <<redis, envoi, souscrit, perdue, droits>>

Desabonner(w) ==
    /\ ws[w].etape = "desabonnement" /\ Passer(w, "ferme")
    /\ souscrit' = FALSE /\ verrou_hub' = AucunSocket
    /\ UNCHANGED <<redis, envoi, perdue, ecouteurs, droits>>

-----------------------------------------------------------------------------
(* The hub: one task reads the pub/sub connection *)

\* Subscription.push: a slow client loses the oldest position.
push(queue, n) == Append(IF Len(queue) = FileMax THEN Tail(queue) ELSE queue, n)

dispatch ==
    /\ pubsub # <<>> /\ ~perdue /\ pubsub' = Tail(pubsub)
    /\ ws' = [w \in Sockets |-> IF w \in ecouteurs
                                THEN [ws[w] EXCEPT !.queue = push(@, Head(pubsub))] ELSE ws[w]]
    /\ UNCHANGED <<cle, publiees, envoi, hub, droits>>

PerdreConnexion ==
    /\ ~perdue /\ perdue' = TRUE /\ souscrit' = FALSE /\ pubsub' = <<>>
    /\ UNCHANGED <<cle, publiees, envoi, ecouteurs, verrou_hub, droits, ws>>

\* _run notices the loss: every socket of the process is closed.
Repartir ==
    /\ perdue /\ verrou_hub = AucunSocket /\ perdue' = FALSE
    /\ ws' = [w \in Sockets |-> IF w \in ecouteurs THEN [ws[w] EXCEPT !.queue = <<CLOSED>>] ELSE ws[w]]
    /\ ecouteurs' = {}
    /\ UNCHANGED <<redis, envoi, souscrit, verrou_hub, droits>>

SuiviNext ==
    \/ Django \/ ExpirerPosition
    \/ dispatch \/ PerdreConnexion \/ Repartir
    \/ \E l \in Livreurs : publier_position(l) \/ publish_position(l) \/ EchouerEnvoi(l)
    \/ \E u \in Auditeurs : obtenir_position(u)
    \/ \E w \in Sockets :
        \/ open(w) \/ subscribe(w) \/ Abonner(w)
        \/ EnvoyerDerniere(w) \/ forward(w) \/ revalidate(w)
        \/ DeconnecterSocket(w) \/ unsubscribe(w) \/ Desabonner(w)

SuiviSpec == SuiviInit /\ [][SuiviNext]_suiviVars
-----------------------------------------------------------------------------
SuiviTypes ==
    /\ course \in [statut : {"en_cours", "livree", "echouee"}, livreur : Livreurs]
    /\ comptes_actifs \subseteq Livreurs \cup Auditeurs /\ envoi \subseteq Livreurs
    /\ cle \in PositionStockee /\ publiees \in 0..PositionsMax
    /\ pubsub \in Seq(1..PositionsMax) /\ souscrit \in BOOLEAN /\ perdue \in BOOLEAN
    /\ ecouteurs \subseteq Sockets /\ verrou_hub \in Sockets \cup {AucunSocket}
    /\ ws \in [Sockets -> Connection] /\ \A w \in Sockets : Len(ws[w].queue) <= FileMax

\* A socket that listens has been shown the last position, or is about to
\* be: when nothing is on its way to it, what its client sees is not older
\* than the position Redis keeps for the assigned courier.  A socket that
\* would listen to a channel the process has left would break it.
SuiviAJour ==
    \A w \in Sockets :
        (ws[w].etape = "servi" /\ ws[w].queue = <<>> /\ pubsub = <<>> /\ ~perdue
            /\ ws[w].access = cle.livreur /\ course.livreur = cle.livreur)
        => ws[w].vu >= cle.n
=============================================================================
