------------------------------ MODULE Onglets ------------------------------
(***************************************************************************)
(* The tabs of one portal share a session (packages/auth).  The refresh    *)
(* token is used once: a tab refreshes it under a lock of the browser,     *)
(* stores the new one and broadcasts it.  Messages between tabs are        *)
(* delivered later, and requests may be answered after the session ended.  *)
(***************************************************************************)
EXTENDS Naturals, FiniteSets, Sequences

CONSTANTS
  OngletsOuverts,   \* the tabs of the portal
  Partage,          \* localStorage (one store for the tabs), or sessionStorage
  RefreshMax,       \* bound: refresh tokens issued
  MessagesMax       \* bound: messages waiting in a tab

AucunOnglet == "aucun"

ASSUME OngletsOk ==
  Partage \in BOOLEAN /\ RefreshMax \in Nat \ {0} /\ AucunOnglet \notin OngletsOuverts

VARIABLES
  serveurJetons,  \* the refresh tokens the server issued
  stocke,         \* stockage: the refresh token each tab reads
  accesCourant,   \* the access token in the memory of each tab, by its refresh
  etatSession,    \* the session store of each tab
  travail,        \* the refresh each tab has under way
  verrouOnglets,  \* navigator.locks: the tab that holds the lock
  canal,          \* BroadcastChannel: the messages a tab has not received
  sorties,        \* deconnexion/ requests on their way
  perdus,         \* history: tokens rotated by a request whose answer was lost
  refuses         \* history: tokens refused because a refresh had used them

ongletsVars == <<serveurJetons, stocke, accesCourant, etatSession, travail, verrouOnglets,
                 canal, sorties, perdus, refuses>>

Aucun == 0
Repos == [etape |-> "repos"]
Messages == [type: {"jetons"}, refresh: 1..RefreshMax, precedent: 0..RefreshMax]
            \cup [type: {"deconnexion"}]
Travail == {Repos} \cup [etape: {"file", "appel", "refus", "panne", "reponse"}, jeton: 0..RefreshMax,
                         neuf: 0..RefreshMax, perime: BOOLEAN, adopte: BOOLEAN]

OngletsTypes ==
  /\ serveurJetons \in [1..RefreshMax -> {"absent", "actif", "tourne", "revoque"}]
  /\ stocke \in [OngletsOuverts -> 0..RefreshMax]
  /\ accesCourant \in [OngletsOuverts -> 0..RefreshMax]
  /\ etatSession \in [OngletsOuverts -> {"inconnue", "invite", "connecte"}]
  /\ travail \in [OngletsOuverts -> Travail]
  /\ verrouOnglets \in OngletsOuverts \cup {AucunOnglet}
  /\ canal \in [OngletsOuverts -> Seq(Messages)]
  /\ sorties \cup perdus \cup refuses \subseteq 1..RefreshMax

\* The portal is opened again with the refresh token of an earlier visit.
OngletsInit ==
  /\ serveurJetons = [n \in 1..RefreshMax |-> IF n = 1 THEN "actif" ELSE "absent"]
  /\ stocke = [o \in OngletsOuverts |-> 1]
  /\ accesCourant = [o \in OngletsOuverts |-> Aucun]
  /\ etatSession = [o \in OngletsOuverts |-> "inconnue"]
  /\ travail = [o \in OngletsOuverts |-> Repos]
  /\ verrouOnglets = AucunOnglet
  /\ canal = [o \in OngletsOuverts |-> <<>>]
  /\ sorties = {} /\ perdus = {} /\ refuses = {}

Neuf == CHOOSE n \in 1..RefreshMax : serveurJetons[n] = "absent"
PeutEmettre == \E n \in 1..RefreshMax : serveurJetons[n] = "absent"

\* ecrireRefresh and effacer
Stocker(o, n) == stocke' = IF Partage THEN [p \in OngletsOuverts |-> n] ELSE [stocke EXCEPT ![o] = n]

\* envoyer: a tab never receives its own messages.
Diffuser(o, m) == canal' = [p \in OngletsOuverts |-> IF p = o THEN canal[p] ELSE Append(canal[p], m)]
Ouverture(n, precedent) == [type |-> "jetons", refresh |-> n, precedent |-> precedent]
Fermeture == [type |-> "deconnexion"]

\* generation += 1: the refresh under way must not write any more.
Perimer(o) == [travail EXCEPT ![o] = IF @ = Repos THEN @ ELSE [@ EXCEPT !.perime = TRUE]]

\* oublier and finDeSession
Oublier(o) ==
  /\ Stocker(o, Aucun)
  /\ accesCourant' = [accesCourant EXCEPT ![o] = Aucun]
  /\ etatSession' = [etatSession EXCEPT ![o] = "invite"]

Liberer(o) == verrouOnglets' = IF verrouOnglets = o THEN AucunOnglet ELSE verrouOnglets
Finir(o) == travail' = [travail EXCEPT ![o] = Repos] /\ Liberer(o)

-----------------------------------------------------------------------------
(* rafraichir: one promise a tab, one lock for all of them.                 *)

RafraichirOnglet(o) ==
  /\ travail[o] = Repos
  /\ stocke[o] # Aucun
  /\ travail' = [travail EXCEPT ![o] =
       [etape |-> "file", jeton |-> stocke[o], neuf |-> Aucun, perime |-> FALSE, adopte |-> FALSE]]
  /\ UNCHANGED <<serveurJetons, stocke, accesCourant, etatSession, verrouOnglets, canal, sorties, perdus, refuses>>

RefreshDuDebut(o) == travail[o].jeton
\* The store is read again once the lock is held.
RefreshALire(o) == stocke[o]

Attendu(o) == travail[o].etape = "file" /\ verrouOnglets = AucunOnglet

\* The session ended, or another tab sent its access token meanwhile: no call.
RenoncerAuReseau(o) ==
  /\ Attendu(o)
  /\ \/ travail[o].perime \/ RefreshALire(o) = Aucun
     \/ travail[o].adopte /\ accesCourant[o] # Aucun
  /\ travail' = [travail EXCEPT ![o] = Repos]
  /\ UNCHANGED <<serveurJetons, stocke, accesCourant, etatSession, verrouOnglets, canal, sorties, perdus, refuses>>

AppelerRafraichir(o) ==
  /\ Attendu(o)
  /\ ~travail[o].perime /\ RefreshALire(o) # Aucun
  /\ ~(travail[o].adopte /\ accesCourant[o] # Aucun)
  /\ verrouOnglets' = o
  /\ travail' = [travail EXCEPT ![o].etape = "appel", ![o].jeton = RefreshALire(o)]
  /\ UNCHANGED <<serveurJetons, stocke, accesCourant, etatSession, canal, sorties, perdus, refuses>>

\* The server rotates an active token and refuses any other (400, 401).
ServeurRafraichit(o) ==
  LET j == travail[o].jeton IN
  /\ travail[o].etape = "appel"
  /\ IF serveurJetons[j] = "actif"
     THEN /\ PeutEmettre
          /\ serveurJetons' = [serveurJetons EXCEPT ![j] = "tourne", ![Neuf] = "actif"]
          /\ \/ /\ travail' = [travail EXCEPT ![o].etape = "reponse", ![o].neuf = Neuf]
                /\ UNCHANGED perdus
             \/ /\ travail' = [travail EXCEPT ![o].etape = "panne"]
                /\ perdus' = perdus \cup {j}
          /\ UNCHANGED refuses
     ELSE /\ travail' = [travail EXCEPT ![o].etape = "refus"]
          /\ refuses' = IF serveurJetons[j] = "tourne" THEN refuses \cup {j} ELSE refuses
          /\ UNCHANGED <<serveurJetons, perdus>>
  /\ UNCHANGED <<stocke, accesCourant, etatSession, verrouOnglets, canal, sorties>>

\* Network, 5xx or 429 before the server did anything.
ReseauEnPanne(o) ==
  /\ travail[o].etape = "appel"
  /\ travail' = [travail EXCEPT ![o].etape = "panne"]
  /\ UNCHANGED <<serveurJetons, stocke, accesCourant, etatSession, verrouOnglets, canal, sorties, perdus, refuses>>

\* An answer that comes after the end of the session, or a failure, writes nothing.
IgnorerReponse(o) ==
  /\ \/ travail[o].etape = "panne"
     \/ travail[o].etape \in {"reponse", "refus"} /\ travail[o].perime
  /\ Finir(o)
  /\ UNCHANGED <<serveurJetons, stocke, accesCourant, etatSession, canal, sorties, perdus, refuses>>

RecevoirReponse(o) ==
  LET t == travail[o] IN
  /\ t.etape = "reponse" /\ ~t.perime
  /\ Stocker(o, t.neuf)
  /\ accesCourant' = [accesCourant EXCEPT ![o] = t.neuf]
  /\ Diffuser(o, Ouverture(t.neuf, t.jeton))
  /\ Finir(o)
  /\ UNCHANGED <<serveurJetons, etatSession, sorties, perdus, refuses>>

RecevoirRefus(o) ==
  /\ travail[o].etape = "refus" /\ ~travail[o].perime
  /\ Oublier(o)
  /\ Diffuser(o, Fermeture)
  /\ Finir(o)
  /\ UNCHANGED <<serveurJetons, sorties, perdus, refuses>>

-----------------------------------------------------------------------------
(* The messages of the other tabs.                                          *)

MemeSession(o, m) == stocke[o] = m.refresh \/ (m.precedent # Aucun /\ stocke[o] = m.precedent)

\* recevoir
RecevoirMessage(o) ==
  LET m == Head(canal[o]) IN
  /\ canal[o] # <<>>
  /\ canal' = [canal EXCEPT ![o] = Tail(@)]
  /\ \/ /\ m.type = "deconnexion"
        /\ Oublier(o)
        /\ travail' = Perimer(o)
     \/ /\ m.type = "jetons" /\ MemeSession(o, m)
        /\ Stocker(o, m.refresh)
        /\ accesCourant' = [accesCourant EXCEPT ![o] = m.refresh]
        /\ travail' = [travail EXCEPT ![o] = IF @ = Repos THEN @ ELSE [@ EXCEPT !.adopte = TRUE]]
        /\ UNCHANGED etatSession
     \/ /\ m.type = "jetons" /\ ~MemeSession(o, m)
        /\ UNCHANGED <<stocke, accesCourant, etatSession, travail>>
  /\ UNCHANGED <<serveurJetons, verrouOnglets, sorties, perdus, refuses>>

-----------------------------------------------------------------------------
(* Login and logout.                                                        *)

ConnecterOnglet(o) ==
  /\ etatSession[o] # "connecte" /\ PeutEmettre
  /\ serveurJetons' = [serveurJetons EXCEPT ![Neuf] = "actif"]
  /\ Stocker(o, Neuf)
  /\ accesCourant' = [accesCourant EXCEPT ![o] = Neuf]
  /\ Diffuser(o, Ouverture(Neuf, Aucun))
  /\ travail' = Perimer(o)
  /\ UNCHANGED <<etatSession, verrouOnglets, sorties, perdus, refuses>>

\* chargerProfil, after a login, a start or the tokens of another tab.
ChargerProfil(o) ==
  /\ accesCourant[o] # Aucun /\ etatSession[o] # "connecte"
  /\ etatSession' = [etatSession EXCEPT ![o] = "connecte"]
  /\ UNCHANGED <<serveurJetons, stocke, accesCourant, travail, verrouOnglets, canal, sorties, perdus, refuses>>

\* The tab forgets the session before it tells the server.
DeconnecterOnglet(o) ==
  /\ etatSession[o] = "connecte"
  /\ sorties' = IF stocke[o] = Aucun THEN sorties ELSE sorties \cup {stocke[o]}
  /\ Oublier(o)
  /\ Diffuser(o, Fermeture)
  /\ travail' = Perimer(o)
  /\ UNCHANGED <<serveurJetons, verrouOnglets, perdus, refuses>>

\* The server blacklists the token, or never hears of it.
ServeurDeconnecte(n) ==
  /\ n \in sorties
  /\ sorties' = sorties \ {n}
  /\ \/ serveurJetons' = [serveurJetons EXCEPT ![n] = IF @ = "actif" THEN "revoque" ELSE @]
     \/ UNCHANGED serveurJetons
  /\ UNCHANGED <<stocke, accesCourant, etatSession, travail, verrouOnglets, canal, perdus, refuses>>

OngletsNext ==
  \/ \E o \in OngletsOuverts :
       /\ \A p \in OngletsOuverts : Len(canal[p]) < MessagesMax
       /\ \/ RafraichirOnglet(o)
          \/ ConnecterOnglet(o)
          \/ DeconnecterOnglet(o)
          \/ RecevoirReponse(o)
          \/ RecevoirRefus(o)
  \/ \E o \in OngletsOuverts :
       \/ ChargerProfil(o)
       \/ RenoncerAuReseau(o)
       \/ AppelerRafraichir(o)
       \/ ServeurRafraichit(o)
       \/ ReseauEnPanne(o)
       \/ IgnorerReponse(o)
       \/ RecevoirMessage(o)
  \/ \E n \in sorties : ServeurDeconnecte(n)

OngletsSpec == OngletsInit /\ [][OngletsNext]_ongletsVars

-----------------------------------------------------------------------------
(* Tabs that share the store never present a refresh token one of them has
   already used, unless the answer to that use was lost
   (packages/auth/src/rafraichissement.ts:38). *)
RefreshUnique == Partage => refuses \subseteq perdus
=============================================================================
