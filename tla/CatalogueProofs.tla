-------------------------- MODULE CatalogueProofs ---------------------------
(***************************************************************************)
(* What the catalogue promises of its products and of their certificates,  *)
(* for any number of them and of requests in flight.                       *)
(***************************************************************************)
EXTENDS Recherche, Conseiller, Passeport, Avis, Sommes, SequenceTheorems

\* Passports: what a verification shows follows the decisions taken on it.

Ligne == [lot: Lots \cup {SansLot}, statut: StatutCertification, actif: BOOLEAN,
          par: Parties \cup {"personne"}, nbScans: Nat]

TypesPasseport ==
  /\ passeport \in [Passeports -> Ligne \cup {Inconnu}]
  /\ scans \in [Passeports -> Nat]
  /\ dossierLot \in [Parties -> [passeport: Passeports, ligne: Ligne] \cup {RienLu}]
  /\ revoques \subseteq Connus /\ attribues \subseteq Passeports

\* The row c of passport x, scanned n times, under the decisions R and A.
Juste(x, c, n, R, A) ==
  /\ x \in R => c.par = "administration"
  /\ c.actif <=> c.par = "personne"
  /\ c.statut = "certifie_authentique" => x \in A
  /\ c.nbScans = n

\* A request in flight was judged on what its author may write.
EnVol(q, d, K, A) ==
  d # RienLu =>
    /\ d.ligne.statut = "certifie_authentique" => q = "administration" \/ d.passeport \in A
    /\ d.passeport \notin K => d.ligne.actif /\ d.ligne.par = "personne" /\ d.ligne.nbScans = 0

LotsUniques ==
  \A x, y \in Connus : passeport[x].lot = passeport[y].lot /\ passeport[x].lot # SansLot => x = y

PasseportInv ==
  /\ TypesPasseport
  /\ \A x \in Connus : Juste(x, passeport[x], scans[x], revoques, attribues)
  /\ \A x \in Passeports \ Connus : scans[x] = 0
  /\ LotsUniques
  /\ \A q \in Parties : EnVol(q, dossierLot[q], Connus, attribues)

-----------------------------------------------------------------------------
\* One passport moves

LEMMA LigneConnue == ASSUME NEW c \in Ligne PROVE c # Inconnu
  BY DEF Ligne, Inconnu

\* The new row of passport x is right under the decisions of now.
LEMMA UnPasseport ==
  ASSUME PasseportInv, NEW x \in Passeports, NEW c \in Ligne, NEW n \in Nat,
         passeport' = [passeport EXCEPT ![x] = c], scans' = [scans EXCEPT ![x] = n],
         revoques' \subseteq revoques \cup {x}, attribues \subseteq attribues',
         attribues' \subseteq Passeports,
         \A q \in Parties : dossierLot'[q] \in {dossierLot[q], RienLu},
         dossierLot' \in [Parties -> [passeport: Passeports, ligne: Ligne] \cup {RienLu}],
         Juste(x, c, n, revoques', attribues'),
         LotDisponible(x, c.lot) \/ (x \in Connus /\ c.lot = passeport[x].lot)
  PROVE  PasseportInv'
<1>1. /\ passeport' \in [Passeports -> Ligne \cup {Inconnu}] /\ scans' \in [Passeports -> Nat]
      /\ passeport'[x] = c /\ scans'[x] = n
      /\ \A y \in Passeports \ {x} : passeport'[y] = passeport[y] /\ scans'[y] = scans[y]
  BY DEF PasseportInv, TypesPasseport
<1>2. Connus' = Connus \cup {x}
  BY <1>1, LigneConnue DEF Connus
<1>3. TypesPasseport'
  BY <1>1, <1>2 DEF PasseportInv, TypesPasseport
<1>4. ASSUME NEW y \in Connus' PROVE Juste(y, passeport'[y], scans'[y], revoques', attribues')
  <2>1. CASE y = x
    BY <1>1, <2>1
  <2>2. CASE y # x
    <3>1. y \in Connus /\ passeport'[y] = passeport[y] /\ scans'[y] = scans[y]
      BY <1>1, <1>2, <2>2 DEF Connus
    <3> QED
      BY <2>2, <3>1 DEF PasseportInv, Juste
  <2> QED
    BY <2>1, <2>2
<1>5. \A y \in Passeports \ Connus' : scans'[y] = 0
  BY <1>1, <1>2 DEF PasseportInv
<1>6. LotsUniques'
  <2> SUFFICES ASSUME NEW y \in Connus', NEW z \in Connus',
                      passeport'[y].lot = passeport'[z].lot, passeport'[y].lot # SansLot, y # z
               PROVE  FALSE
    BY DEF LotsUniques
  <2>1. y \in Passeports /\ z \in Passeports /\ y \in Connus \cup {x} /\ z \in Connus \cup {x}
    BY <1>2 DEF Connus
  <2>2. ASSUME NEW w \in Connus, w # x, passeport[w].lot = c.lot, c.lot # SansLot PROVE FALSE
    BY <2>2 DEF LotDisponible, PasseportInv, LotsUniques
  <2>3. CASE y = x
    BY <1>1, <2>1, <2>2, <2>3
  <2>4. CASE z = x
    BY <1>1, <2>1, <2>2, <2>4
  <2>5. CASE y # x /\ z # x
    BY <1>1, <2>1, <2>5 DEF PasseportInv, LotsUniques
  <2> QED
    BY <2>3, <2>4, <2>5
<1>7. \A q \in Parties : EnVol(q, dossierLot'[q], Connus', attribues')
  BY <1>2 DEF PasseportInv, EnVol
<1> QED
  BY <1>3, <1>4, <1>5, <1>6, <1>7 DEF PasseportInv

-----------------------------------------------------------------------------
\* The requests

\* Nothing but the request in flight moves.
LEMMA DemandeConserve ==
  ASSUME PasseportInv, NEW q \in Parties, NEW x \in Passeports, NEW lot \in Lots, NEW s \in StatutCertification,
         DemanderPasseport(q, x, lot, s) \/ DemanderCorrection(q, x, lot, s)
  PROVE  PasseportInv'
<1>1. PICK c \in Ligne :
        /\ dossierLot' = [dossierLot EXCEPT ![q] = [passeport |-> x, ligne |-> c]]
        /\ c.statut = "certifie_authentique" => q = "administration" \/ x \in attribues
        /\ x \notin Connus => c.actif /\ c.par = "personne" /\ c.nbScans = 0
  <2>1. CASE DemanderPasseport(q, x, lot, s)
    <3>1. CertificatNeuf(lot, s) \in Ligne
      BY DEF CertificatNeuf, Ligne
    <3> QED
      BY <2>1, <3>1 DEF DemanderPasseport, Garder, CertificatNeuf, StatutPermis
  <2>2. CASE DemanderCorrection(q, x, lot, s)
    <3>1. PICK l \in Ligne : l = passeport[x]
      BY <2>2 DEF DemanderCorrection, Connus, PasseportInv, TypesPasseport
    <3> DEFINE m == [l EXCEPT !.lot = lot]
    <3>2. m \in Ligne /\ m.statut = l.statut
      BY DEF Ligne
    <3> DEFINE c == [m EXCEPT !.statut = s]
    <3>3. c = [passeport[x] EXCEPT !.lot = lot, !.statut = s]
      BY <3>1 DEF Ligne
    <3> HIDE DEF m
    <3>4. c \in Ligne /\ c.statut = s
      BY <3>2 DEF Ligne
    <3>5. s = "certifie_authentique" => q = "administration" \/ x \in attribues
      BY <2>2, <3>1 DEF DemanderCorrection, StatutPermis, PasseportInv, Juste
    <3> HIDE DEF c
    <3> QED
      BY <2>2, <3>3, <3>4, <3>5 DEF DemanderCorrection, Garder
  <2> QED
    BY <2>1, <2>2
<1>2. UNCHANGED <<passeport, scans, revoques, attribues>>
  BY DEF DemanderPasseport, DemanderCorrection, Garder
<1>3. dossierLot' \in [Parties -> [passeport: Passeports, ligne: Ligne] \cup {RienLu}]
  BY <1>1 DEF PasseportInv, TypesPasseport
<1>4. ASSUME NEW r \in Parties PROVE EnVol(r, dossierLot'[r], Connus, attribues)
  <2>1. CASE r = q
    BY <1>1, <2>1 DEF EnVol, PasseportInv, TypesPasseport
  <2>2. CASE r # q
    BY <1>1, <2>2 DEF PasseportInv, TypesPasseport
  <2> QED
    BY <2>1, <2>2
<1> QED
  BY <1>2, <1>3, <1>4 DEF PasseportInv, TypesPasseport, LotsUniques, Connus

\* A request is given back.
LEMMA RenduConserve ==
  ASSUME PasseportInv, NEW q \in Parties, RefuserDemande(q)
  PROVE  PasseportInv'
<1>1. dossierLot' = [dossierLot EXCEPT ![q] = RienLu] /\ UNCHANGED <<passeport, scans, revoques, attribues>>
  BY DEF RefuserDemande, Rendre
<1>2. dossierLot' \in [Parties -> [passeport: Passeports, ligne: Ligne] \cup {RienLu}]
  BY <1>1 DEF PasseportInv, TypesPasseport
<1>3. \A r \in Parties : EnVol(r, dossierLot'[r], Connus, attribues)
  BY <1>1 DEF PasseportInv, TypesPasseport, EnVol
<1> QED
  BY <1>1, <1>2, <1>3 DEF PasseportInv, TypesPasseport, LotsUniques, Connus

-----------------------------------------------------------------------------
\* The decisions

\* The conditional updates: a row stays of the table, and a revocation by the
\* administration resists those of the seller.
LEMMA Revocation ==
  ASSUME NEW l \in Ligne, NEW q \in Parties, l.actif <=> l.par = "personne"
  PROVE  /\ Revoque(l, q) \in Ligne
         /\ Revoque(l, q).actif <=> Revoque(l, q).par = "personne"
         /\ q = "administration" \/ l.par = "administration" => Revoque(l, q).par = "administration"
         /\ Revoque(l, q).statut = l.statut /\ Revoque(l, q).nbScans = l.nbScans
         /\ Revoque(l, q).lot = l.lot
<1> DEFINE m == [l EXCEPT !.actif = FALSE]
<1>1. /\ m \in Ligne /\ m.actif = FALSE /\ m.statut = l.statut /\ m.nbScans = l.nbScans /\ m.lot = l.lot
  BY DEF Ligne
<1> DEFINE k == [m EXCEPT !.par = q]
<1>2. k = [l EXCEPT !.actif = FALSE, !.par = q]
  BY DEF Ligne
<1> HIDE DEF m
<1>3. /\ k \in Ligne /\ k.actif = FALSE /\ k.par = q /\ k.statut = l.statut /\ k.nbScans = l.nbScans
      /\ k.lot = l.lot
  BY <1>1 DEF Ligne
<1> HIDE DEF k
<1>4. Revoque(l, q) = IF q = "administration" \/ l.actif THEN k ELSE l
  BY <1>2 DEF Revoque
<1> QED
  BY <1>3, <1>4 DEF Parties

LEMMA Retablissement ==
  ASSUME NEW l \in Ligne
  PROVE  /\ Retabli(l) \in Ligne /\ Retabli(l).actif /\ Retabli(l).par = "personne"
         /\ Retabli(l).statut = l.statut /\ Retabli(l).nbScans = l.nbScans /\ Retabli(l).lot = l.lot
<1> DEFINE m == [l EXCEPT !.actif = TRUE]
<1>1. /\ m \in Ligne /\ m.actif = TRUE /\ m.statut = l.statut /\ m.nbScans = l.nbScans /\ m.lot = l.lot
  BY DEF Ligne
<1> DEFINE k == [m EXCEPT !.par = "personne"]
<1>2. k = Retabli(l)
  BY DEF Ligne, Retabli
<1> HIDE DEF m
<1>3. /\ k \in Ligne /\ k.actif = TRUE /\ k.par = "personne" /\ k.statut = l.statut
      /\ k.nbScans = l.nbScans /\ k.lot = l.lot
  BY <1>1 DEF Ligne
<1> HIDE DEF k
<1> QED
  BY <1>2, <1>3

LEMMA CreationConserve ==
  ASSUME PasseportInv, NEW q \in Parties, CreerPasseport(q)
  PROVE  PasseportInv'
<1>1. PICK x \in Passeports, c \in Ligne :
        /\ dossierLot[q] = [passeport |-> x, ligne |-> c] /\ dossierLot[q] # RienLu
        /\ x \notin Connus /\ LotDisponible(x, c.lot)
        /\ passeport' = [passeport EXCEPT ![x] = c]
        /\ c.statut = "certifie_authentique" => x \in attribues'
        /\ attribues' \in {attribues, attribues \cup {x}}
  <2>1. PICK d \in [passeport: Passeports, ligne: Ligne] : d = dossierLot[q]
    BY DEF CreerPasseport, PasseportInv, TypesPasseport
  <2>2. /\ d.passeport \notin Connus /\ LotDisponible(d.passeport, d.ligne.lot)
        /\ passeport' = [passeport EXCEPT ![d.passeport] = d.ligne] /\ dossierLot[q] # RienLu
    BY <2>1 DEF CreerPasseport, UniqueParLot
  <2>3. /\ d.ligne.statut = "certifie_authentique" => d.passeport \in attribues'
        /\ attribues' \in {attribues, attribues \cup {d.passeport}}
    BY <2>1, <2>2 DEF CreerPasseport, Attribuer, PasseportInv, EnVol
  <2> QED
    BY <2>1, <2>2, <2>3
<1>2. c.actif /\ c.par = "personne" /\ c.nbScans = 0 /\ scans[x] = 0 /\ x \notin revoques
  BY <1>1 DEF PasseportInv, EnVol, TypesPasseport
<1>3. /\ dossierLot' = [dossierLot EXCEPT ![q] = RienLu] /\ UNCHANGED <<scans, revoques>>
      /\ scans' = [scans EXCEPT ![x] = 0]
  BY <1>2 DEF CreerPasseport, Rendre, PasseportInv, TypesPasseport
<1>4. /\ dossierLot' \in [Parties -> [passeport: Passeports, ligne: Ligne] \cup {RienLu}]
      /\ \A r \in Parties : dossierLot'[r] \in {dossierLot[r], RienLu}
  BY <1>3 DEF PasseportInv, TypesPasseport
<1>5. Juste(x, c, 0, revoques', attribues')
  BY <1>1, <1>2, <1>3 DEF Juste
<1>6. attribues \subseteq attribues' /\ attribues' \subseteq Passeports /\ revoques' \subseteq revoques \cup {x}
  BY <1>1, <1>3 DEF PasseportInv, TypesPasseport
<1> QED
  BY <1>1, <1>3, <1>4, <1>5, <1>6, UnPasseport

\* PATCH: the fields sent, then the decision, all or nothing.
LEMMA CorrectionConserve ==
  ASSUME PasseportInv, NEW q \in Parties, NEW actif \in {"inchange", "oui", "non"}, CorrigerPasseport(q, actif)
  PROVE  PasseportInv'
<1>1. PICK d \in [passeport: Passeports, ligne: Ligne] : d = dossierLot[q] /\ dossierLot[q] # RienLu
  BY DEF CorrigerPasseport, PasseportInv, TypesPasseport
<1>2. PICK x \in Passeports, lot \in Lots \cup {SansLot}, statut \in StatutCertification :
        x = d.passeport /\ lot = d.ligne.lot /\ statut = d.ligne.statut
  BY DEF Ligne
<1>3. x \in Connus
  BY <1>1, <1>2 DEF CorrigerPasseport
<1>4. PICK r \in Ligne : r = passeport[x] /\ Juste(x, r, scans[x], revoques, attribues)
  BY <1>3 DEF Connus, PasseportInv, TypesPasseport
<1> DEFINE m == [r EXCEPT !.lot = lot]
<1>5. m \in Ligne /\ m.lot = lot /\ m.actif = r.actif /\ m.par = r.par /\ m.nbScans = r.nbScans
  BY DEF Ligne
<1> DEFINE l == [m EXCEPT !.statut = statut]
<1>6. ChampsEnvoyes(x, d.ligne) = l
  BY <1>2, <1>4 DEF ChampsEnvoyes, Ligne
<1> HIDE DEF m
<1>7. /\ l \in Ligne /\ l.lot = lot /\ l.actif = r.actif /\ l.par = r.par /\ l.nbScans = r.nbScans
      /\ l.statut = statut
  BY <1>5 DEF Ligne
<1> HIDE DEF l
<1>8. /\ LotDisponible(x, lot)
      /\ actif = "oui" => Retablissable(l, q)
      /\ passeport' = [passeport EXCEPT ![x] = CASE actif = "inchange" -> l
                                                 [] actif = "non" -> Revoque(l, q)
                                                 [] actif = "oui" -> Retabli(l)]
      /\ Attribuer(q, x, statut) /\ Decider(q, x, actif) /\ Rendre(q) /\ UNCHANGED scans
  BY <1>1, <1>2, <1>6, <1>7 DEF CorrigerPasseport, UniqueParLot
<1>9. /\ l.actif <=> l.par = "personne"
      /\ x \in revoques => l.par = "administration"
      /\ l.nbScans = scans[x]
  BY <1>4, <1>7 DEF Juste
<1>10. PICK c \in Ligne :
         /\ passeport' = [passeport EXCEPT ![x] = c]
         /\ c.actif <=> c.par = "personne"
         /\ x \in revoques' => c.par = "administration"
         /\ c.nbScans = scans[x] /\ c.statut = statut /\ c.lot = lot
  <2>1. CASE actif = "inchange"
    BY <1>7, <1>8, <1>9, <2>1 DEF Decider
  <2>2. CASE actif = "non"
    <3>1. PICK c \in Ligne : c = Revoque(l, q)
      BY <1>7, <1>9, Revocation
    <3>2. /\ c.actif <=> c.par = "personne"
          /\ q = "administration" \/ l.par = "administration" => c.par = "administration"
          /\ c.statut = statut /\ c.nbScans = l.nbScans /\ c.lot = lot
      BY <1>7, <1>9, <3>1, Revocation
    <3>3. passeport' = [passeport EXCEPT ![x] = c]
      BY <1>8, <2>2, <3>1
    <3>4. x \in revoques' => c.par = "administration"
      BY <1>8, <1>9, <2>2, <3>2 DEF Decider
    <3> QED
      BY <1>9, <3>2, <3>3, <3>4
  <2>3. CASE actif = "oui"
    <3>1. x \notin revoques'
      BY <1>8, <1>9, <2>3 DEF Decider, Retablissable, Parties
    <3> QED
      BY <1>7, <1>8, <1>9, <2>3, <3>1, Retablissement
  <2> QED
    BY <2>1, <2>2, <2>3
<1>11. /\ revoques' \subseteq revoques \cup {x}
       /\ attribues \subseteq attribues' /\ attribues' \subseteq Passeports
       /\ statut = "certifie_authentique" => x \in attribues'
  BY <1>1, <1>2, <1>8 DEF Decider, Attribuer, PasseportInv, TypesPasseport, EnVol
<1>12. /\ dossierLot' \in [Parties -> [passeport: Passeports, ligne: Ligne] \cup {RienLu}]
       /\ \A p \in Parties : dossierLot'[p] \in {dossierLot[p], RienLu}
       /\ scans' = [scans EXCEPT ![x] = scans[x]] /\ scans[x] \in Nat
  BY <1>8 DEF Rendre, PasseportInv, TypesPasseport
<1>13. Juste(x, c, scans[x], revoques', attribues')
  BY <1>10, <1>11 DEF Juste
<1> QED
  BY <1>8, <1>10, <1>11, <1>12, <1>13, UnPasseport

\* DELETE, and the scans.
LEMMA LigneConserve ==
  ASSUME PasseportInv, NEW x \in Passeports,
         \/ \E q \in Parties : RevoquerPasseport(q, x)
         \/ \E k \in Contenus : k.code = x /\ Scanner(k)
  PROVE  PasseportInv'
<1>1. CASE \E q \in Parties : RevoquerPasseport(q, x)
  <2>1. PICK q \in Parties : RevoquerPasseport(q, x)
    BY <1>1
  <2>2. PICK r \in Ligne : r = passeport[x] /\ Juste(x, r, scans[x], revoques, attribues) /\ x \in Connus
    BY <2>1 DEF RevoquerPasseport, Connus, PasseportInv, TypesPasseport
  <2> DEFINE c == Revoque(r, q)
  <2>3. /\ passeport' = [passeport EXCEPT ![x] = c] /\ UNCHANGED <<scans, dossierLot, attribues>>
        /\ Decider(q, x, "non")
    BY <2>1, <2>2 DEF RevoquerPasseport, PasseportInv, TypesPasseport
  <2>4. /\ c \in Ligne /\ c.lot = r.lot
        /\ Juste(x, c, scans[x], revoques', attribues')
    BY <2>2, <2>3, Revocation DEF Juste, Decider
  <2> HIDE DEF c
  <2>5. /\ revoques' \subseteq revoques \cup {x} /\ attribues' \subseteq Passeports
        /\ attribues \subseteq attribues' /\ scans' = [scans EXCEPT ![x] = scans[x]] /\ scans[x] \in Nat
        /\ dossierLot' \in [Parties -> [passeport: Passeports, ligne: Ligne] \cup {RienLu}]
    BY <2>3 DEF Decider, PasseportInv, TypesPasseport
  <2> QED
    BY <2>2, <2>3, <2>4, <2>5, UnPasseport
<1>2. CASE \E k \in Contenus : k.code = x /\ Scanner(k)
  <2>1. PICK n \in Nat : n = scans[x]
    BY DEF PasseportInv, TypesPasseport
  <2>2. /\ passeport' = [passeport EXCEPT ![x].nbScans = @ + 1]
        /\ scans' = [scans EXCEPT ![x] = n + 1] /\ UNCHANGED <<dossierLot, revoques, attribues>>
        /\ x \in Connus
    <3>1. PICK k \in Contenus : k.code = x /\ Scanner(k)
      BY <1>2
    <3>2. x \in Connus
      <4>1. Decoder(k) \in {x} \cup QrRefusal
        BY <3>1 DEF Decoder, QrRefusal
      <4>2. Decoder(k) \in Passeports /\ Decoder(k) \in Connus
        BY <3>1 DEF Scanner, Connus
      <4> QED
        BY <4>1, <4>2, PasseportOk
    <3> QED
      BY <2>1, <3>1, <3>2 DEF Scanner
  <2>3. PICK r \in Ligne : r = passeport[x] /\ Juste(x, r, n, revoques, attribues)
    BY <2>1, <2>2 DEF Connus, PasseportInv, TypesPasseport
  <2> DEFINE c == [r EXCEPT !.nbScans = n + 1]
  <2>4. passeport' = [passeport EXCEPT ![x] = c]
    BY <2>1, <2>2, <2>3 DEF PasseportInv, TypesPasseport, Juste
  <2>5. /\ c \in Ligne /\ c.lot = r.lot /\ c.statut = r.statut /\ c.actif = r.actif /\ c.par = r.par
        /\ c.nbScans = n + 1
    BY DEF Ligne
  <2> HIDE DEF c
  <2>6. Juste(x, c, n + 1, revoques', attribues') /\ n + 1 \in Nat
    BY <2>2, <2>3, <2>5 DEF Juste
  <2>7. /\ revoques' \subseteq revoques \cup {x} /\ attribues' \subseteq Passeports /\ attribues \subseteq attribues'
        /\ dossierLot' \in [Parties -> [passeport: Passeports, ligne: Ligne] \cup {RienLu}]
    BY <2>2 DEF PasseportInv, TypesPasseport
  <2> QED
    BY <2>2, <2>3, <2>4, <2>5, <2>6, <2>7, UnPasseport
<1> QED
  BY <1>1, <1>2

-----------------------------------------------------------------------------
\* Theorems

\* Rows, scans, lots, decisions and requests in flight hold together.
THEOREM Invariance_Passeports == PasseportSpec => []PasseportInv
<1>1. PasseportInit => PasseportInv
  <2> SUFFICES ASSUME PasseportInit PROVE PasseportInv
    OBVIOUS
  <2>1. Connus = {}
    BY DEF PasseportInit, Connus
  <2> QED
    BY <2>1 DEF PasseportInit, PasseportInv, TypesPasseport, LotsUniques, EnVol
<1>2. PasseportInv /\ [PasseportNext]_certificatsVars => PasseportInv'
  <2> SUFFICES ASSUME PasseportInv, [PasseportNext]_certificatsVars PROVE PasseportInv'
    OBVIOUS
  <2>1. CASE UNCHANGED passeportVars
    BY <2>1 DEF passeportVars, PasseportInv, TypesPasseport, LotsUniques, Connus
  <2>2. ASSUME NEW k \in Contenus, Scanner(k) PROVE PasseportInv'
    <3>1. k.code \in Passeports
      BY DEF Contenus
    <3> QED
      BY <2>2, <3>1, LigneConserve
  <2>3. CASE PasseportNext
    BY <2>1, <2>2, <2>3, DemandeConserve, RenduConserve, CreationConserve, CorrectionConserve, LigneConserve
    DEF PasseportNext, CatalogueBouge
  <2> QED
    BY <2>1, <2>3 DEF certificatsVars
<1> QED
  BY <1>1, <1>2, PTL DEF PasseportSpec

\* A revocation of the administration and the certificates follow its
\* decisions, a lot has one passport and each scan is counted: creation,
\* PATCH, DELETE and scans of apps/passeport_qr in any order.
THEOREM Certificats_Tenus == PasseportSpec => []CertificatsTenus
<1>1. PasseportInv => CertificatsTenus
  <2> SUFFICES ASSUME PasseportInv PROVE CertificatsTenus
    OBVIOUS
  <2>1. ASSUME NEW x \in Connus
        PROVE  LET v == Verification(x) IN
               /\ x \in revoques => v.statut = "revoque"
               /\ v.statut = "valide" /\ v.certifie = "certifie_authentique" => x \in attribues
    <3>1. Juste(x, passeport[x], scans[x], revoques, attribues)
      BY DEF PasseportInv
    <3>2. CASE passeport[x].actif
      BY <3>1, <3>2 DEF Juste, Verification
    <3>3. CASE ~passeport[x].actif
      BY <3>1, <3>3 DEF Juste, Verification
    <3> QED
      BY <3>2, <3>3
  <2> QED
    BY <2>1 DEF PasseportInv, Juste, LotsUniques, CertificatsTenus
<1> QED
  BY <1>1, Invariance_Passeports, PTL

-----------------------------------------------------------------------------
\* Shops: what the seller and the administration write on the same rows.

\* A product the administration disabled is marked as such, a product is off when
\* somebody turned it off, and no image is principal without being there.
Attribue(p) ==
  /\ produit[p].actif <=> produit[p].par = "personne"
  /\ p \in bloques => produit[p].par = "administration"

Vitrine(g) == g.principales <= 1 /\ g.principales <= g.images

BoutiquesInv ==
  /\ BoutiquesTypes
  /\ stock = ventes
  /\ \A p \in Produits : Attribue(p) /\ Vitrine(galerie[p])

\* The two columns of an activation are written together.
LEMMA DecisionEcrite ==
  ASSUME BoutiquesTypes, NEW p \in Produits, NEW oui \in BOOLEAN, NEW q \in Parties \cup {"personne"},
         produit' = [produit EXCEPT ![p].actif = oui, ![p].par = q]
  PROVE  /\ produit' \in [Produits -> LigneProduit]
         /\ produit'[p].actif = oui /\ produit'[p].par = q
         /\ \A k \in Produits \ {p} : produit'[k] = produit[k]
<1>1. PICK l \in LigneProduit : l = produit[p]
  BY DEF BoutiquesTypes
<1>2. PICK n : n = [l EXCEPT !.actif = oui, !.par = q]
  OBVIOUS
<1>3. n \in LigneProduit /\ n.actif = oui /\ n.par = q
  BY <1>2 DEF LigneProduit
<1>4. produit \in [Produits -> LigneProduit]
  BY DEF BoutiquesTypes
<1>5. produit' = [produit EXCEPT ![p] = n]
  BY <1>1, <1>2, <1>4
<1> QED
  BY <1>3, <1>4, <1>5

\* The others keep who decided them.
LEMMA DecisionTenue ==
  ASSUME BoutiquesInv, NEW p \in Produits, NEW oui \in BOOLEAN, NEW q \in Parties \cup {"personne"},
         produit' = [produit EXCEPT ![p].actif = oui, ![p].par = q],
         oui <=> q = "personne",
         bloques' \subseteq bloques \cup {p}, p \in bloques' => q = "administration"
  PROVE  /\ produit' \in [Produits -> LigneProduit] /\ bloques' \subseteq Produits
         /\ \A k \in Produits : Attribue(k)'
<1>1. /\ produit' \in [Produits -> LigneProduit]
      /\ produit'[p].actif = oui /\ produit'[p].par = q
      /\ \A k \in Produits \ {p} : produit'[k] = produit[k]
  BY DecisionEcrite DEF BoutiquesInv
<1>2. Attribue(p)'
  BY <1>1 DEF Attribue
<1>3. ASSUME NEW k \in Produits, k # p PROVE Attribue(k)'
  BY <1>1, <1>3 DEF Attribue, BoutiquesInv
<1> QED
  BY <1>1, <1>2, <1>3 DEF BoutiquesInv, BoutiquesTypes

LEMMA FicheConserve ==
  ASSUME BoutiquesInv, NEW p \in Produits, NEW actif \in BOOLEAN, EnregistrerFiche(p, actif)
  PROVE  BoutiquesInv'
<1>1. /\ UNCHANGED <<titulaire, boutique, pages, variante, stock, inventaire, galerie, suspension, bloques, ventes>>
      /\ fiches' \subseteq Produits
  BY DEF EnregistrerFiche, BoutiquesInv, BoutiquesTypes
<1>2. \/ produit' = produit
      \/ produit' = [produit EXCEPT ![p].actif = FALSE, ![p].par = "vendeur"] /\ produit[p].actif
      \/ produit' = [produit EXCEPT ![p].actif = TRUE, ![p].par = "personne"] /\ produit[p].par = "vendeur"
  BY DEF EnregistrerFiche, Desactiver, Reactiver, Reactivable
<1>3. produit' \in [Produits -> LigneProduit] /\ \A k \in Produits : Attribue(k)'
  <2>1. CASE produit' = produit
    <3>1. produit' \in [Produits -> LigneProduit]
      BY <2>1 DEF BoutiquesInv, BoutiquesTypes
    <3>2. ASSUME NEW k \in Produits PROVE Attribue(k)'
      BY <1>1, <2>1 DEF BoutiquesInv, Attribue
    <3> QED
      BY <3>1, <3>2
  <2>2. p \in bloques => produit[p].par = "administration" /\ ~produit[p].actif
    BY DEF BoutiquesInv, BoutiquesTypes, Attribue
  <2>3. CASE produit' = [produit EXCEPT ![p].actif = FALSE, ![p].par = "vendeur"] /\ produit[p].actif
    <3>1. PICK oui \in BOOLEAN, q \in Parties \cup {"personne"} : oui = FALSE /\ q = "vendeur"
      BY DEF Parties
    <3>2. bloques' \subseteq bloques \cup {p} /\ (p \in bloques' => q = "administration")
      BY <1>1, <2>2, <2>3
    <3>3. produit' = [produit EXCEPT ![p].actif = oui, ![p].par = q] /\ (oui <=> q = "personne")
      BY <2>3, <3>1
    <3> QED
      BY <3>2, <3>3, DecisionTenue
  <2>4. CASE produit' = [produit EXCEPT ![p].actif = TRUE, ![p].par = "personne"] /\ produit[p].par = "vendeur"
    BY <1>1, <2>2, <2>4, DecisionTenue DEF Parties
  <2> QED
    BY <1>2, <2>1, <2>3, <2>4, Zenon
<1> QED
  BY <1>1, <1>3 DEF BoutiquesInv, BoutiquesTypes

LEMMA ModererConserve ==
  ASSUME BoutiquesInv, NEW p \in Produits, NEW actif \in BOOLEAN, ModererProduit(p, actif)
  PROVE  BoutiquesInv'
<1>1. /\ UNCHANGED <<titulaire, boutique, pages, variante, stock, inventaire, galerie, suspension, fiches, ventes>>
      /\ bloques' = IF actif THEN bloques \ {p} ELSE bloques \cup {p}
  BY DEF ModererProduit
<1>2. \/ ~actif /\ produit' = [produit EXCEPT ![p].actif = FALSE, ![p].par = "administration"]
      \/ actif /\ produit' = [produit EXCEPT ![p].actif = TRUE, ![p].par = "personne"]
      \/ actif /\ produit' = produit
  BY DEF ModererProduit, Desactiver, Reactiver, Reactivable
<1>3. produit' \in [Produits -> LigneProduit] /\ bloques' \subseteq Produits /\ \A k \in Produits : Attribue(k)'
  <2>1. CASE actif /\ produit' = produit
    BY <1>1, <2>1 DEF BoutiquesInv, BoutiquesTypes, Attribue
  <2>2. CASE ~actif /\ produit' = [produit EXCEPT ![p].actif = FALSE, ![p].par = "administration"]
    BY ZenonT(40), <1>1, <2>2, DecisionTenue DEF Parties
  <2>3. CASE actif /\ produit' = [produit EXCEPT ![p].actif = TRUE, ![p].par = "personne"]
    BY <1>1, <2>3, DecisionTenue DEF Parties
  <2> QED
    BY <1>2, <2>1, <2>2, <2>3
<1> QED
  BY <1>1, <1>3 DEF BoutiquesInv, BoutiquesTypes

\* The stock follows what was declared and what was sold.
LEMMA InventaireConserve ==
  ASSUME BoutiquesInv, NEW p \in Produits,
         \/ LireInventaire(p) \/ EnregistrerSeuil(p) \/ Decrementer(p)
         \/ \E n \in 0..StockMax : EnregistrerQuantite(p, n)
  PROVE  BoutiquesInv'
<1>1. UNCHANGED <<titulaire, boutique, pages, produit, fiches, variante, galerie, suspension, bloques>>
  BY DEF LireInventaire, EnregistrerSeuil, Decrementer, EnregistrerQuantite
<1>2. /\ stock' = ventes' /\ stock' \in [Produits -> 0..StockMax]
      /\ inventaire' \in [Produits -> 0..InventaireLibre]
  BY BoutiquesOk DEF LireInventaire, EnregistrerSeuil, EcrireSeuil, Decrementer, EnregistrerQuantite, InventaireLibre,
     BoutiquesInv, BoutiquesTypes
<1> QED
  BY <1>1, <1>2 DEF BoutiquesInv, BoutiquesTypes, Attribue

LEMMA GalerieConserve ==
  ASSUME BoutiquesInv, NEW p \in Produits, NEW principale \in BOOLEAN,
         AjouterImage(p, principale) \/ SupprimerImage(p, principale)
  PROVE  BoutiquesInv'
<1>1. UNCHANGED <<titulaire, boutique, pages, produit, fiches, variante, stock, inventaire, suspension, bloques, ventes>>
  BY DEF AjouterImage, SupprimerImage
<1>2. galerie \in [Produits -> LigneGalerie] /\ galerie[p] \in LigneGalerie /\ Vitrine(galerie[p])
  BY DEF BoutiquesInv, BoutiquesTypes
<1>3. PICK g \in LigneGalerie : Vitrine(g) /\ galerie' = [galerie EXCEPT ![p] = g]
  <2>1. CASE AjouterImage(p, principale)
    <3>1. CASE galerie[p].images >= ImagesMax
      BY <1>2, <2>1, <3>1 DEF AjouterImage
    <3>2. CASE ~(galerie[p].images >= ImagesMax)
      <4>1. galerie' = [galerie EXCEPT ![p] = Ajoutee(galerie[p], principale)]
        BY <2>1, <3>2 DEF AjouterImage
      <4>2. Ajoutee(galerie[p], principale) \in LigneGalerie /\ Vitrine(Ajoutee(galerie[p], principale))
        BY <1>2, <3>2, BoutiquesOk DEF Ajoutee, LigneGalerie, Vitrine
      <4> QED
        BY <4>1, <4>2
    <3> QED
      BY <3>1, <3>2
  <2>2. CASE SupprimerImage(p, principale)
    <3>1. PICK i, n \in Nat : i = galerie[p].images /\ n = galerie[p].principales
      BY <1>2 DEF LigneGalerie
    <3>2. PICK h \in LigneGalerie : h = galerie[p]
      BY <1>2
    <3>3. PICK g : g = [h EXCEPT !.images = i - 1, !.principales = IF principale THEN n - 1 ELSE n]
      OBVIOUS
    <3>4. IF principale THEN i > 0 /\ n > 0 ELSE i > n
      BY <2>2, <3>1 DEF SupprimerImage
    <3>5. i \in 0..ImagesMax /\ n \in 0..ImagesMax /\ n <= i /\ n <= 1
      BY <1>2, <3>1 DEF LigneGalerie, Vitrine
    <3>6. i - 1 \in 0..ImagesMax /\ (IF principale THEN n - 1 ELSE n) \in 0..ImagesMax
      BY <3>4, <3>5, BoutiquesOk
    <3>7. g \in LigneGalerie /\ g.images = i - 1 /\ g.principales = IF principale THEN n - 1 ELSE n
      BY <3>3, <3>6 DEF LigneGalerie
    <3>8. Vitrine(g)
      BY <3>4, <3>5, <3>7, BoutiquesOk DEF Vitrine
    <3>9. galerie' = [galerie EXCEPT ![p] = g]
      BY <1>2, <2>2, <3>1, <3>2, <3>3 DEF SupprimerImage
    <3> QED
      BY <3>7, <3>8, <3>9
  <2> QED
    BY <2>1, <2>2
<1>4. galerie' \in [Produits -> LigneGalerie] /\ \A k \in Produits : Vitrine(galerie'[k])
  BY <1>2, <1>3 DEF BoutiquesInv
<1> QED
  BY <1>1, <1>4 DEF BoutiquesInv, BoutiquesTypes, Attribue

LEMMA PagesConserve ==
  ASSUME BoutiquesInv, PagesNext
  PROVE  BoutiquesInv'
<1>1. UNCHANGED horsBoutique
  BY DEF PagesNext, LirePage, EnregistrerBoutique, SuspendreBoutique
<1>2. boutique' \in LigneBoutique /\ pages' \in [Parties -> LigneBoutique] /\ suspension' \in BOOLEAN
  <2>1. /\ boutique \in LigneBoutique /\ pages \in [Parties -> LigneBoutique] /\ suspension \in BOOLEAN
        /\ PageLibre \in LigneBoutique /\ {"vendeur", "administration"} = Parties
    BY DEF BoutiquesInv, BoutiquesTypes, LigneBoutique, Parties, PageLibre
  <2>2. \A l \in LigneBoutique, oui \in BOOLEAN :
          [l EXCEPT !.active = oui] \in LigneBoutique /\ [l EXCEPT !.suspendue = oui] \in LigneBoutique
    BY DEF LigneBoutique
  <2>3. ASSUME NEW q \in Parties, LirePage(q)
        PROVE  boutique' \in LigneBoutique /\ pages' \in [Parties -> LigneBoutique] /\ suspension' \in BOOLEAN
    BY <2>1, <2>3 DEF LirePage
  <2>4. ASSUME NEW oui \in BOOLEAN, EnregistrerBoutique(oui) \/ SuspendreBoutique(oui)
        PROVE  boutique' \in LigneBoutique /\ pages' \in [Parties -> LigneBoutique] /\ suspension' \in BOOLEAN
    <3>1. CASE EnregistrerBoutique(oui)
      <4>1. pages["vendeur"] \in LigneBoutique
        BY <2>1
      <4> QED
        BY <2>1, <2>2, <3>1, <4>1 DEF EnregistrerBoutique
    <3>2. CASE SuspendreBoutique(oui)
      <4>1. pages["administration"] \in LigneBoutique
        BY <2>1
      <4> QED
        BY <2>1, <2>2, <3>2, <4>1 DEF SuspendreBoutique
    <3> QED
      BY <2>4, <3>1, <3>2
  <2> QED
    BY <2>3, <2>4 DEF PagesNext
<1> QED
  BY <1>1, <1>2 DEF BoutiquesInv, BoutiquesTypes, Attribue, horsBoutique

\* What the shop, its products and their galleries say agrees at every moment: for
\* Boutique, Produit, VarianteProduit, Stock and ImageProduit, any number of rows.
THEOREM Invariance_Boutiques == BoutiquesSpec => []BoutiquesInv
<1>1. BoutiquesInit => BoutiquesInv
  <2> SUFFICES ASSUME BoutiquesInit PROVE BoutiquesInv
    OBVIOUS
  <2>1. /\ [valide |-> TRUE, actif |-> TRUE] \in [valide: BOOLEAN, actif: BOOLEAN]
        /\ [active |-> TRUE, suspendue |-> FALSE, nombre |-> 0, positifs |-> 0] \in LigneBoutique
        /\ PageLibre \in LigneBoutique
        /\ [actif |-> TRUE, par |-> "personne", nombre |-> 0, somme |-> 0] \in LigneProduit
        /\ [images |-> 0, principales |-> 0] \in LigneGalerie
    BY BoutiquesOk DEF LigneBoutique, LigneProduit, LigneGalerie, PageLibre
  <2>2. StockMax \in 0..StockMax /\ InventaireLibre \in 0..InventaireLibre
    BY BoutiquesOk DEF InventaireLibre
  <2>3. BoutiquesTypes
    BY <2>1, <2>2 DEF BoutiquesInit, BoutiquesTypes
  <2> QED
    BY <2>3 DEF BoutiquesInit, BoutiquesInv, Attribue, Vitrine
<1>2. BoutiquesInv /\ [BoutiquesNext]_boutiquesVars => BoutiquesInv'
  <2> SUFFICES ASSUME BoutiquesInv, [BoutiquesNext]_boutiquesVars PROVE BoutiquesInv'
    OBVIOUS
  <2>1. CASE UNCHANGED boutiquesVars
    BY <2>1 DEF boutiquesVars, BoutiquesInv, BoutiquesTypes, Attribue
  <2>2. CASE \E t \in [valide: BOOLEAN, actif: BOOLEAN] : DeciderTitulaire(t)
    BY <2>2 DEF DeciderTitulaire, BoutiquesInv, BoutiquesTypes, Attribue
  <2>3. CASE PagesNext
    BY <2>3, PagesConserve
  <2>4. ASSUME NEW p \in Produits, NEW oui \in BOOLEAN, LireFiche(p) \/ EnregistrerVariante(p, oui)
        PROVE  BoutiquesInv'
    BY <2>4 DEF LireFiche, EnregistrerVariante, BoutiquesInv, BoutiquesTypes, Attribue
  <2>5. CASE ProduitsNext
    BY <2>4, <2>5, FicheConserve, ModererConserve, InventaireConserve, GalerieConserve DEF ProduitsNext
  <2> QED
    BY <2>1, <2>2, <2>3, <2>5 DEF BoutiquesNext
<1> QED
  BY <1>1, <1>2, PTL DEF BoutiquesSpec

\* What the administration disabled is not sold, a threshold loses no sale, one
\* image is principal, and the three rules of what is public agree: the activation
\* of Produit, PATCH on a stock, ImageProduit.save, and the view FastAPI reads.
THEOREM Catalogue_Tenu == BoutiquesSpec => []CatalogueTenu
<1>1. BoutiquesInv => CatalogueTenu
  <2> SUFFICES ASSUME BoutiquesInv PROVE CatalogueTenu
    OBVIOUS
  <2>1. \A p \in bloques : ~produit[p].actif /\ ~EstAchetable(p)
    BY DEF BoutiquesInv, BoutiquesTypes, Attribue, EstAchetable
  <2>2. VisiblesPubliquement = VueProduitPublic
    BY DEF VisiblesPubliquement, VueProduitPublic, Publies
  <2>3. VueProduitPublic = {p \in Produits : EstAchetable(p) /\ variante[p]}
    BY DEF VueProduitPublic, EstAchetable, EstPubliable
  <2> QED
    BY <2>1, <2>2, <2>3 DEF CatalogueTenu, BoutiquesInv, Attribue, Vitrine
<1> QED
  BY <1>1, Invariance_Boutiques, PTL

-----------------------------------------------------------------------------
\* Reviews: the locks of a transaction, in order.

LEMMA Quatre == ASSUME NEW a, NEW b, NEW c, NEW d PROVE <<a, b, c>> \o <<d>> = <<a, b, c, d>>
<1> DEFINE S == {a, b, c, d}
<1>1. <<a, b, c>> \in Seq(S) /\ <<d>> \in Seq(S) /\ <<a, b, c, d>> \in Seq(S)
  OBVIOUS
<1>2. PICK s \in Seq(S), q \in Seq(S), u \in Seq(S) : s = <<a, b, c>> /\ q = <<d>> /\ u = <<a, b, c, d>>
  BY <1>1
<1>3. /\ Len(s) = 3 /\ s[1] = a /\ s[2] = b /\ s[3] = c /\ Len(q) = 1 /\ q[1] = d
      /\ Len(u) = 4 /\ u[1] = a /\ u[2] = b /\ u[3] = c /\ u[4] = d
  BY <1>2
<1> HIDE DEF S
<1>4. /\ s \o q \in Seq(S) /\ Len(s \o q) = 4
      /\ \A i \in 1..4 : (s \o q)[i] = IF i <= 3 THEN s[i] ELSE q[i - 3]
  <2>1. /\ s \o q \in Seq(S)
        /\ Len(s \o q) = Len(s) + Len(q)
        /\ \A i \in 1..Len(s) + Len(q) : (s \o q)[i] = IF i <= Len(s) THEN s[i] ELSE q[i - Len(s)]
    BY ConcatProperties
  <2>2. Len(s) = 3 /\ Len(q) = 1 /\ Len(s) + Len(q) = 4
    BY <1>3
  <2> QED
    BY <2>1, <2>2
<1>5. \A i \in 1..4 : (s \o q)[i] = u[i]
  BY <1>3, <1>4
<1>6. s \o q = u
  BY <1>3, <1>4, <1>5, SeqEqual
<1> QED
  BY <1>2, <1>6

LEMMA OrdresDesVerrous ==
  ASSUME NEW t \in Transactions
  PROVE  /\ t[2] \in {"auteur", "moderation", "rejet"} /\ t[1] \in Auteurs
         /\ t[2] # "auteur" => t[1] \in Signales
         /\ t = <<t[1], t[2]>>
         /\ t[2] = "rejet" => Ordre(t) = << <<"signalement", t[1]>>, <<"avis", t[1]>> >>
         /\ t[2] = "auteur" =>
              Ordre(t) = << <<"produit", ProduitDe[t[1]]>>, <<"boutique">>, <<"avis", t[1]>> >>
         /\ t[2] = "moderation" =>
              Ordre(t) = << <<"produit", ProduitDe[t[1]]>>, <<"boutique">>, <<"avis", t[1]>>,
                            <<"signalement", t[1]>> >>
<1>1. /\ t[2] \in {"auteur", "moderation", "rejet"} /\ t[1] \in Auteurs
      /\ t[2] # "auteur" => t[1] \in Signales
      /\ t = <<t[1], t[2]>>
  BY AvisOk DEF Transactions
<1>2. t[2] = "rejet" => Ordre(t) = << <<"signalement", t[1]>>, <<"avis", t[1]>> >>
  BY DEF Ordre
<1>3. t[2] = "auteur" =>
              Ordre(t) = << <<"produit", ProduitDe[t[1]]>>, <<"boutique">>, <<"avis", t[1]>> >>
  BY DEF Ordre
<1>4. t[2] = "moderation" =>
              Ordre(t) = << <<"produit", ProduitDe[t[1]]>>, <<"boutique">>, <<"avis", t[1]>>,
                            <<"signalement", t[1]>> >>
  BY Quatre DEF Ordre
<1> QED
  BY <1>1, <1>2, <1>3, <1>4

\* What a transaction holds: the locks of its order up to its rank.
Rangs == rang \in [Transactions -> Nat] /\ \A t \in Transactions : rang[t] <= Len(Ordre(t))

LEMMA Tenus ==
  ASSUME Rangs, NEW t \in Transactions, NEW v, TientVerrou(t, v)
  PROVE  /\ t[2] = "rejet" =>
              v = <<"signalement", t[1]>> \/ (v = <<"avis", t[1]>> /\ rang[t] = 2)
         /\ t[2] # "rejet" =>
              \/ v = <<"produit", ProduitDe[t[1]]>> /\ rang[t] >= 1
              \/ v = <<"boutique">> /\ rang[t] >= 2
              \/ v = <<"avis", t[1]>> /\ rang[t] >= 3
              \/ v = <<"signalement", t[1]>> /\ rang[t] >= 4 /\ t[2] = "moderation"
<1>1. PICK i \in 1..rang[t] : Ordre(t)[i] = v
  BY DEF TientVerrou
<1>2. i \in 1..Len(Ordre(t)) /\ rang[t] \in Nat /\ rang[t] <= Len(Ordre(t))
  BY <1>1 DEF Rangs
<1>3. CASE t[2] = "rejet"
  <2>1. /\ Len(Ordre(t)) = 2
        /\ Ordre(t)[1] = <<"signalement", t[1]>> /\ Ordre(t)[2] = <<"avis", t[1]>>
    BY <1>3, OrdresDesVerrous
  <2>2. i = 1 \/ (i = 2 /\ rang[t] = 2)
    BY <1>2, <2>1
  <2> QED
    BY <1>1, <1>3, <2>1, <2>2
<1>4. CASE t[2] = "auteur"
  <2>1. /\ Len(Ordre(t)) = 3
        /\ Ordre(t)[1] = <<"produit", ProduitDe[t[1]]>> /\ Ordre(t)[2] = <<"boutique">>
        /\ Ordre(t)[3] = <<"avis", t[1]>>
    BY <1>4, OrdresDesVerrous
  <2>2. i \in {1, 2, 3} /\ i <= rang[t]
    BY <1>1, <1>2, <2>1
  <2> QED
    BY <1>1, <1>2, <1>4, <2>1, <2>2
<1>5. CASE t[2] = "moderation"
  <2>1. /\ Len(Ordre(t)) = 4
        /\ Ordre(t)[1] = <<"produit", ProduitDe[t[1]]>> /\ Ordre(t)[2] = <<"boutique">>
        /\ Ordre(t)[3] = <<"avis", t[1]>> /\ Ordre(t)[4] = <<"signalement", t[1]>>
    BY <1>5, OrdresDesVerrous
  <2>2. i \in {1, 2, 3, 4} /\ i <= rang[t]
    BY <1>1, <1>2, <2>1
  <2> QED
    BY <1>1, <1>2, <1>5, <2>1, <2>2
<1> QED
  BY <1>3, <1>4, <1>5, OrdresDesVerrous

\* Two transactions that write hold the lock of the shop: only one of them is complete.
Exclusifs ==
  \A t, u \in Transactions : t # u => ~(\E v : TientVerrou(t, v) /\ TientVerrou(u, v))

\* An order whose rank never passes its length, and the absence of a circle.
LEMMA RangsConserve ==
  ASSUME Rangs, AvisNext
  PROVE  Rangs'
<1>1. \A t \in Transactions : Ordre(t)' = Ordre(t) /\ Len(Ordre(t)) \in {2, 3, 4}
  BY OrdresDesVerrous DEF Ordre
<1>2. \/ rang' = rang
      \/ \E t \in Transactions : rang' = [rang EXCEPT ![t] = 0]
      \/ \E t \in Transactions : ~Complet(t) /\ rang' = [rang EXCEPT ![t] = @ + 1]
  BY DEF AvisNext, PrendreVerrouAvis, AbandonnerTransaction, Valider, CreerAvis, ModifierAvis, SupprimerAvis,
     MasquerAvis, RetablirAvis, RejeterSignalement, LirePourSignaler, SignalerAvis, PageVendeur, LirePage, Ecrire,
     Transactions, feuillets
<1>3. CASE rang' = rang
  BY <1>1, <1>3 DEF Rangs
<1>4. ASSUME NEW t \in Transactions, rang' = [rang EXCEPT ![t] = 0] PROVE Rangs'
  BY <1>1, <1>4 DEF Rangs
<1>5. ASSUME NEW t \in Transactions, ~Complet(t), rang' = [rang EXCEPT ![t] = @ + 1] PROVE Rangs'
  BY <1>1, <1>5 DEF Rangs, Complet
<1> QED
  BY <1>2, <1>3, <1>4, <1>5

\* A masking that holds the review waits for the report only, which the rejection
\* of the same report alone may hold; every other wait goes up the order of the locks.
LEMMA SansCercle ==
  ASSUME Rangs
  PROVE  AttentesSansCercle
<1> SUFFICES ASSUME NEW S \in SUBSET {t \in Transactions : rang[t] > 0}, S # {},
                    \A t \in S : \E u \in S : Attend(t, u),
                    \A a \in Signales : ~({<<a, "rejet">>, <<a, "moderation">>} \subseteq S)
             PROVE  FALSE
  BY DEF AttentesSansCercle
<1>1. ASSUME NEW t \in S
      PROVE  /\ t \in Transactions /\ rang[t] \in {1, 2, 3}
             /\ t[2] = "rejet" => rang[t] = 1
             /\ t[2] = "auteur" => rang[t] \in {1, 2}
  <2>1. t \in Transactions /\ rang[t] \in 1..(Len(Ordre(t)) - 1)
    BY DEF Attend
  <2>2. /\ Len(Ordre(t)) \in {2, 3, 4}
        /\ t[2] = "rejet" => Len(Ordre(t)) = 2
        /\ t[2] = "auteur" => Len(Ordre(t)) = 3
    BY <2>1, OrdresDesVerrous
  <2>3. PICK n \in {2, 3, 4} : n = Len(Ordre(t))
    BY <2>2
  <2>4. PICK k : k = rang[t]
    OBVIOUS
  <2>5. k \in 1..(n - 1)
    BY <2>1, <2>3, <2>4
  <2>6. k \in {1, 2, 3} /\ (n = 2 => k = 1) /\ (n = 3 => k \in {1, 2})
    BY <2>5
  <2> QED
    BY <2>1, <2>2, <2>3, <2>4, <2>6
<1>2. ASSUME NEW u \in S, NEW v, TientVerrou(u, v), u[2] = "rejet" PROVE v = <<"signalement", u[1]>>
  <2>1. u \in Transactions /\ rang[u] = 1
    BY <1>1, <1>2
  <2> QED
    BY <1>2, <2>1, Tenus
<1>3. \E t \in S : t[2] # "rejet"
  <2> SUFFICES ASSUME \A t \in S : t[2] = "rejet" PROVE FALSE
    OBVIOUS
  <2>1. PICK t \in S, u \in S : Attend(t, u)
    OBVIOUS
  <2>2. Ordre(t) = << <<"signalement", t[1]>>, <<"avis", t[1]>> >>
    BY <1>1, OrdresDesVerrous
  <2>3. rang[t] = 1
    BY <1>1
  <2>4. Suivant(t) = <<"avis", t[1]>>
    BY <2>2, <2>3 DEF Suivant
  <2>5. TientVerrou(u, Suivant(t))
    BY <2>1 DEF Attend
  <2>6. <<"avis", t[1]>> = <<"signalement", u[1]>>
    BY <1>2, <2>4, <2>5
  <2> QED
    BY <2>6
\* The transaction that holds the most locks waits for one that holds more.
<1>4. PICK t \in S : t[2] # "rejet" /\ \A u \in S : u[2] # "rejet" => rang[u] <= rang[t]
  <2> DEFINE P(n) == \E u \in S : u[2] # "rejet" /\ rang[u] = n
  <2>1. \A u \in S : rang[u] \in {1, 2, 3}
    BY <1>1
  <2>2. PICK n \in {1, 2, 3} : P(n) /\ \A m \in {1, 2, 3} : P(m) => m <= n
    <3>1. P(1) \/ P(2) \/ P(3)
      BY <1>3, <2>1
    <3> HIDE DEF P
    <3> QED
      BY <3>1
  <2> QED
    BY <2>1, <2>2
<1>5. PICK u \in S : Attend(t, u)
  OBVIOUS
<1>6. TientVerrou(u, Suivant(t)) /\ u \in Transactions /\ t \in Transactions
  BY <1>1, <1>5 DEF Attend
<1>7. \/ rang[t] = 1 /\ Suivant(t) = <<"boutique">>
      \/ rang[t] = 2 /\ Suivant(t) = <<"avis", t[1]>>
      \/ rang[t] = 3 /\ Suivant(t) = <<"signalement", t[1]>> /\ t[2] = "moderation"
  <2>1. CASE t[2] = "auteur"
    <3>1. Ordre(t) = << <<"produit", ProduitDe[t[1]]>>, <<"boutique">>, <<"avis", t[1]>> >>
      BY <1>6, <2>1, OrdresDesVerrous
    <3>2. rang[t] \in {1, 2}
      BY <1>1, <2>1
    <3> QED
      BY <3>1, <3>2 DEF Suivant
  <2>2. CASE t[2] = "moderation"
    <3>1. Ordre(t) = << <<"produit", ProduitDe[t[1]]>>, <<"boutique">>, <<"avis", t[1]>>,
                        <<"signalement", t[1]>> >>
      BY <1>6, <2>2, OrdresDesVerrous
    <3>2. rang[t] \in {1, 2, 3}
      BY <1>1
    <3> QED
      BY <2>2, <3>1, <3>2 DEF Suivant
  <2> QED
    BY <1>4, <1>6, <2>1, <2>2, OrdresDesVerrous
<1>8. CASE u[2] = "rejet"
  <2>1. Suivant(t) = <<"signalement", u[1]>>
    BY <1>2, <1>6, <1>8
  <2>2. <<"boutique">> # <<"signalement", u[1]>> /\ <<"avis", t[1]>> # <<"signalement", u[1]>>
    OBVIOUS
  <2>3. <<"signalement", t[1]>> = <<"signalement", u[1]>> /\ t[2] = "moderation"
    BY <1>7, <2>1, <2>2
  <2>4. t[1] = u[1]
    BY <2>3
  <2>5. t = <<t[1], "moderation">> /\ u = <<t[1], "rejet">> /\ t[1] \in Signales
    BY <1>6, <1>8, <2>3, <2>4, OrdresDesVerrous
  <2> QED
    BY <2>5
<1>9. CASE u[2] # "rejet"
  <2>1. rang[u] <= rang[t] /\ rang[u] \in Nat /\ rang[t] \in Nat
    BY <1>1, <1>4, <1>9
  <2>2. \/ Suivant(t) = <<"produit", ProduitDe[u[1]]>> /\ rang[u] >= 1
        \/ Suivant(t) = <<"boutique">> /\ rang[u] >= 2
        \/ Suivant(t) = <<"avis", u[1]>> /\ rang[u] >= 3
        \/ Suivant(t) = <<"signalement", u[1]>> /\ rang[u] >= 4 /\ u[2] = "moderation"
    BY <1>6, <1>9, Tenus
  <2>3. \A a, b : /\ <<"boutique">> # <<"produit", a>> /\ <<"boutique">> # <<"avis", a>>
                  /\ <<"boutique">> # <<"signalement", a>> /\ <<"avis", b>> # <<"produit", a>>
                  /\ <<"avis", b>> # <<"boutique">> /\ <<"avis", b>> # <<"signalement", a>>
                  /\ <<"signalement", b>> # <<"produit", a>> /\ <<"signalement", b>> # <<"boutique">>
                  /\ <<"signalement", b>> # <<"avis", a>>
    OBVIOUS
  <2>4. \/ Suivant(t) = <<"boutique">> /\ rang[t] = 1 /\ rang[u] >= 2
        \/ Suivant(t) = <<"avis", t[1]>> /\ rang[t] = 2 /\ rang[u] >= 3
        \/ rang[t] = 3 /\ rang[u] >= 4
    BY <1>7, <2>2, <2>3
  <2> QED
    BY <2>1, <2>4
<1> QED
  BY <1>8, <1>9

\* Whatever their number, the transactions of apps/avis/services.py do not wait for
\* one another in a circle, a masking and the rejection of its report excepted.
THEOREM Attentes_Sans_Cercle == AvisSpec => []AttentesSansCercle
<1>1. BoutiquesInit /\ AvisInit => Rangs
  BY OrdresDesVerrous DEF AvisInit, Rangs
<1>2. Rangs /\ [AvisNext]_avisVars => Rangs'
  <2>1. Rangs /\ UNCHANGED avisVars => Rangs'
    BY DEF Rangs, avisVars, feuillets, Ordre
  <2> QED
    BY <2>1, RangsConserve
<1> QED
  BY <1>1, <1>2, SansCercle, PTL DEF AvisSpec

\* The aggregates of a list of reviews, and that another product's do not move with
\* a review.
AgregatsJustes(lignes) ==
  /\ \A p \in Produits : /\ produit[p].nombre = Cardinality(Publiees(lignes, p))
                         /\ produit[p].somme = SommeDesNotes(lignes, p)
  /\ ~perimee => /\ boutique.nombre = Cardinality(PublieesBoutique(lignes))
                 /\ boutique.positifs
                      = Cardinality({a \in PublieesBoutique(lignes) : lignes[a].note >= NOTE_POSITIVE_MIN})

LEMMA AgregatsNaturels ==
  ASSUME NEW lignes, NEW p
  PROVE  /\ Agregats(lignes, p).nombre \in Nat /\ Agregats(lignes, p).somme \in Nat
         /\ Agregats(lignes, p).boutique \in Nat /\ Agregats(lignes, p).positifs \in Nat
         /\ Agregats(lignes, p).positifs <= Agregats(lignes, p).boutique
<1> DEFINE L(n) == {a \in Publiees(lignes, p) : lignes[a].note = n}
           B == PublieesBoutique(lignes)
           Q == {a \in B : lignes[a].note >= NOTE_POSITIVE_MIN}
<1>1. Publiees(lignes, p) \subseteq Auteurs /\ B \subseteq Auteurs /\ Q \subseteq B
  BY DEF Publiees, PublieesBoutique
<1>2. IsFiniteSet(Publiees(lignes, p)) /\ IsFiniteSet(B) /\ IsFiniteSet(Q)
  BY <1>1, AvisOk, FS_Subset
<1>3. /\ Cardinality(Publiees(lignes, p)) \in Nat /\ Cardinality(B) \in Nat /\ Cardinality(Q) \in Nat
      /\ Cardinality(Q) <= Cardinality(B)
  BY <1>1, <1>2, FS_CardinalityType, FS_Subset
<1>4. ASSUME NEW n PROVE NombreDe(lignes, p, n) \in Nat
  <2>1. L(n) \subseteq Publiees(lignes, p)
    OBVIOUS
  <2>2. IsFiniteSet(L(n))
    BY <1>2, <2>1, FS_Subset
  <2>3. Cardinality(L(n)) \in Nat
    BY <2>2, FS_CardinalityType
  <2> QED
    BY <2>3 DEF NombreDe
<1>5. SommeDesNotes(lignes, p) \in Nat
  BY <1>4 DEF SommeDesNotes
<1> HIDE DEF B, Q
<1>6. /\ Agregats(lignes, p).nombre = Cardinality(Publiees(lignes, p))
      /\ Agregats(lignes, p).somme = SommeDesNotes(lignes, p)
      /\ Agregats(lignes, p).boutique = Cardinality(B)
      /\ Agregats(lignes, p).positifs = Cardinality(Q)
  BY DEF Agregats, B, Q
<1> QED
  BY <1>3, <1>5, <1>6

LEMMA AutreProduit ==
  ASSUME NEW f, NEW g, NEW a \in Auteurs, NEW p, p # ProduitDe[a],
         \A b \in Auteurs \ {a} : f[b] = g[b]
  PROVE  Publiees(f, p) = Publiees(g, p) /\ SommeDesNotes(f, p) = SommeDesNotes(g, p)
<1>1. Publiees(f, p) = Publiees(g, p)
  BY DEF Publiees
<1>2. ASSUME NEW n PROVE NombreDe(f, p, n) = NombreDe(g, p, n)
  <2>1. {b \in Publiees(f, p) : f[b].note = n} = {b \in Publiees(g, p) : g[b].note = n}
    BY DEF Publiees
  <2> QED
    BY <2>1 DEF NombreDe
<1> QED
  BY <1>1, <1>2 DEF SommeDesNotes

-----------------------------------------------------------------------------
\* What a transaction wrote before its commit is what its review will be, with the
\* aggregates that go with it: nobody else writes a review meanwhile.
Ecrite(t, l) ==
  [avis |-> l, agregats |-> Agregats([avis EXCEPT ![t[1]] = l], ProduitDe[t[1]])]
EcritureJuste(t) ==
  ecriture[t] # RienEcrit => /\ Complet(t) /\ t[2] # "rejet"
                             /\ \E l \in LigneAvis : ecriture[t] = Ecrite(t, l)

TypesAvis ==
  /\ avis \in [Auteurs -> LigneAvis]
  /\ ecriture = [t \in Transactions |-> ecriture[t]]
  /\ produit \in [Produits -> LigneProduit] /\ boutique \in LigneBoutique
  /\ pages \in [Parties -> LigneBoutique]

AvisInv ==
  /\ TypesAvis /\ Rangs /\ Exclusifs
  /\ \A t \in Transactions : EcritureJuste(t)
  /\ AgregatsJustes(avis)

\* Two complete transactions that write hold the lock of the shop: they are one.
LEMMA Seule ==
  ASSUME Rangs, Exclusifs, NEW t \in Transactions, NEW u \in Transactions,
         Complet(t), Complet(u), t[2] # "rejet", u[2] # "rejet"
  PROVE  t = u
<1>1. ASSUME NEW w \in Transactions, Complet(w), w[2] # "rejet" PROVE TientVerrou(w, <<"boutique">>)
  <2>1. 2 \in 1..rang[w]
    BY <1>1, OrdresDesVerrous DEF Complet, Rangs
  <2>2. Ordre(w)[2] = <<"boutique">>
    BY <1>1, OrdresDesVerrous
  <2> QED
    BY <2>1, <2>2 DEF TientVerrou
<1> QED
  BY <1>1 DEF Exclusifs

LEMMA ExclusifsConserve ==
  ASSUME Rangs, Exclusifs, AvisNext
  PROVE  Exclusifs'
<1>1. /\ \A t \in Transactions : Ordre(t)' = Ordre(t)
      /\ \A t \in Transactions : rang[t] \in Nat
  BY DEF Ordre, Rangs
<1>2. ASSUME NEW t \in Transactions, NEW v, NEW u \in Transactions, rang'[u] = rang[u] \/ rang'[u] = 0,
             t = u, TientVerrou(t, v)'
      PROVE  TientVerrou(t, v)
  BY <1>1, <1>2 DEF TientVerrou
<1>3. \/ rang' = rang
      \/ \E t \in Transactions : rang' = [rang EXCEPT ![t] = 0]
      \/ \E t \in Transactions : VerrouLibre(Suivant(t)) /\ rang' = [rang EXCEPT ![t] = @ + 1]
  BY DEF AvisNext, PrendreVerrouAvis, AbandonnerTransaction, Valider, CreerAvis, ModifierAvis, SupprimerAvis,
     MasquerAvis, RetablirAvis, RejeterSignalement, LirePourSignaler, SignalerAvis, PageVendeur, LirePage, Ecrire,
     Transactions, feuillets
<1>4. CASE rang' = rang
  BY <1>2, <1>4 DEF Exclusifs
<1>5. ASSUME NEW t \in Transactions, rang' = [rang EXCEPT ![t] = 0] PROVE Exclusifs'
  <2>1. \A u \in Transactions : rang'[u] = rang[u] \/ rang'[u] = 0
    BY <1>5 DEF Rangs
  <2> QED
    BY <1>2, <2>1 DEF Exclusifs
<1>6. ASSUME NEW t \in Transactions, VerrouLibre(Suivant(t)), rang' = [rang EXCEPT ![t] = @ + 1] PROVE Exclusifs'
  <2>1. rang'[t] = rang[t] + 1 /\ rang[t] \in Nat /\ \A u \in Transactions \ {t} : rang'[u] = rang[u]
    BY <1>1, <1>6 DEF Rangs
  <2>2. ASSUME NEW v, TientVerrou(t, v)' PROVE TientVerrou(t, v) \/ v = Suivant(t)
    <3>1. PICK i \in 1..(rang[t] + 1) : Ordre(t)[i] = v
      BY <1>1, <2>1, <2>2 DEF TientVerrou
    <3>2. i \in 1..rang[t] \/ i = rang[t] + 1
      BY <2>1, <3>1
    <3> QED
      BY <3>1, <3>2 DEF TientVerrou, Suivant
  <2>3. ASSUME NEW u \in Transactions, u # t, NEW v, TientVerrou(u, v)' PROVE TientVerrou(u, v)
    BY <1>2, <2>1, <2>3
  <2>4. ASSUME NEW u \in Transactions, u # t, NEW v PROVE ~(TientVerrou(t, v)' /\ TientVerrou(u, v)')
    BY <1>6, <2>2, <2>3, <2>4 DEF Exclusifs, VerrouLibre
  <2>5. ASSUME NEW u \in Transactions, NEW w \in Transactions, u # w, u # t, w # t, NEW v
        PROVE  ~(TientVerrou(w, v)' /\ TientVerrou(u, v)')
    BY <2>3, <2>5 DEF Exclusifs
  <2> QED
    BY <2>4, <2>5 DEF Exclusifs
<1> QED
  BY <1>3, <1>4, <1>5, <1>6

\* What does not commit leaves the reviews and their aggregates.
LEMMA SansValidation ==
  ASSUME AvisInv, Rangs', Exclusifs', UNCHANGED <<avis, produit, boutique, pages, perimee>>,
         NEW t \in Transactions,
         ecriture' = ecriture \/ \E x : ecriture' = [ecriture EXCEPT ![t] = x],
         \A u \in Transactions \ {t} : rang'[u] = rang[u],
         EcritureJuste(t)'
  PROVE  AvisInv'
<1>1. TypesAvis'
  BY DEF AvisInv, TypesAvis
<1>2. AgregatsJustes(avis)'
  BY ZenonT(40) DEF AvisInv, AgregatsJustes, Publiees, PublieesBoutique, SommeDesNotes, NombreDe
<1>3. ASSUME NEW u \in Transactions, u # t PROVE EcritureJuste(u)'
  <2>1. ecriture'[u] = ecriture[u] /\ rang'[u] = rang[u]
    BY <1>3 DEF AvisInv, TypesAvis
  <2>2. \A l : Ecrite(u, l)' = Ecrite(u, l)
    BY DEF Ecrite, Agregats, Publiees, PublieesBoutique, SommeDesNotes, NombreDe
  <2>3. Complet(u) => Complet(u)'
    BY <2>1 DEF Complet, Ordre
  <2> QED
    BY <2>1, <2>2, <2>3 DEF AvisInv, EcritureJuste
<1> QED
  BY <1>1, <1>2, <1>3 DEF AvisInv

LEMMA EcrireConserve ==
  ASSUME AvisInv, Rangs', Exclusifs', NEW t \in Transactions, t[2] # "rejet", NEW l \in LigneAvis, Ecrire(t, l)
  PROVE  AvisInv'
<1>1. /\ UNCHANGED <<avis, produit, boutique, pages, perimee, rang>>
      /\ ecriture' = [ecriture EXCEPT ![t] = Ecrite(t, l)] /\ Complet(t)
  BY DEF Ecrire, Ecrite, boutiquesVars
<1>2. ecriture'[t] = Ecrite(t, l)
  BY <1>1 DEF AvisInv, TypesAvis
<1>3. Ecrite(t, l)' = Ecrite(t, l)
  BY <1>1 DEF Ecrite, Agregats, Publiees, PublieesBoutique, SommeDesNotes, NombreDe
<1>4. Complet(t)'
  BY <1>1 DEF Complet, Ordre
<1>5. EcritureJuste(t)'
  BY <1>2, <1>3, <1>4 DEF EcritureJuste
<1> QED
  BY <1>1, <1>5, SansValidation

LEMMA PlumesConservent ==
  ASSUME AvisInv, Rangs', Exclusifs', NEW a \in Auteurs,
         \/ CreerAvis(a) \/ ModifierAvis(a) \/ SupprimerAvis(a) \/ MasquerAvis(a) \/ RetablirAvis(a)
  PROVE  AvisInv'
<1>1. avis[a] \in LigneAvis
  BY DEF AvisInv, TypesAvis
<1>2. /\ \A n \in Notes : /\ [statut |-> "publie", note |-> n] \in LigneAvis
                          /\ [avis[a] EXCEPT !.note = n] \in LigneAvis
      /\ \A s \in StatutsAvis : [avis[a] EXCEPT !.statut = s] \in LigneAvis
      /\ {"supprime", "masque", "publie"} \subseteq StatutsAvis
  BY <1>1 DEF LigneAvis, StatutsAvis
<1>3. <<a, "auteur">> \in Transactions /\ (a \in Signales => <<a, "moderation">> \in Transactions)
  BY DEF Transactions
<1>4. PICK t \in Transactions, l \in LigneAvis : t[2] # "rejet" /\ Ecrire(t, l)
  <2>1. CASE CreerAvis(a)
    BY <1>2, <1>3, <2>1 DEF CreerAvis
  <2>2. CASE ModifierAvis(a)
    BY <1>2, <1>3, <2>2 DEF ModifierAvis
  <2>3. CASE SupprimerAvis(a)
    BY <1>2, <1>3, <2>3 DEF SupprimerAvis
  <2>4. CASE MasquerAvis(a)
    BY <1>2, <1>3, <2>4 DEF MasquerAvis
  <2>5. CASE RetablirAvis(a)
    BY <1>2, <1>3, <2>5 DEF RetablirAvis
  <2> QED
    BY <2>1, <2>2, <2>3, <2>4, <2>5
<1> QED
  BY <1>4, EcrireConserve

LEMMA ValiderConserve ==
  ASSUME AvisInv, Rangs', Exclusifs', NEW t \in Transactions, Valider(t)
  PROVE  AvisInv'
<1>1. PICK a \in Auteurs, p \in Produits : a = t[1] /\ p = ProduitDe[a]
  BY OrdresDesVerrous, AvisOk
<1>2. PICK l \in LigneAvis : ecriture[t] = Ecrite(t, l) /\ Complet(t) /\ t[2] # "rejet"
  BY DEF Valider, AvisInv, EcritureJuste
<1>3. PICK f : f = [avis EXCEPT ![a] = l]
  OBVIOUS
<1>4. PICK g : g = Agregats(f, p)
  OBVIOUS
<1>5. ecriture[t].avis = l /\ ecriture[t].agregats = g
  BY <1>1, <1>2, <1>3, <1>4 DEF Ecrite
<1>6. /\ avis' = f /\ perimee' = FALSE
      /\ produit' = [produit EXCEPT ![p].nombre = g.nombre, ![p].somme = g.somme]
      /\ boutique' = [boutique EXCEPT !.nombre = g.boutique, !.positifs = g.positifs]
      /\ ecriture' = [ecriture EXCEPT ![t] = RienEcrit] /\ rang' = [rang EXCEPT ![t] = 0]
  BY <1>1, <1>3, <1>5 DEF Valider
<1>7. g.nombre \in Nat /\ g.somme \in Nat /\ g.boutique \in Nat /\ g.positifs \in Nat
  BY <1>4, AgregatsNaturels
<1>8. /\ g.nombre = Cardinality(Publiees(f, p)) /\ g.somme = SommeDesNotes(f, p)
      /\ g.boutique = Cardinality(PublieesBoutique(f))
      /\ g.positifs = Cardinality({b \in PublieesBoutique(f) : f[b].note >= NOTE_POSITIVE_MIN})
  BY <1>4 DEF Agregats
<1>9. /\ produit' \in [Produits -> LigneProduit]
      /\ produit'[p].nombre = g.nombre /\ produit'[p].somme = g.somme
      /\ \A k \in Produits \ {p} : produit'[k] = produit[k]
  <2>1. PICK r \in LigneProduit : r = produit[p]
    BY DEF AvisInv, TypesAvis
  <2>2. PICK n : n = [r EXCEPT !.nombre = g.nombre, !.somme = g.somme]
    OBVIOUS
  <2>3. n \in LigneProduit /\ n.nombre = g.nombre /\ n.somme = g.somme
    BY <1>7, <2>2 DEF LigneProduit
  <2>4. produit \in [Produits -> LigneProduit]
    BY DEF AvisInv, TypesAvis
  <2>5. produit' = [produit EXCEPT ![p] = n]
    BY <1>6, <2>1, <2>2, <2>4
  <2> QED
    BY <2>3, <2>4, <2>5
<1>10. avis \in [Auteurs -> LigneAvis] /\ f \in [Auteurs -> LigneAvis] /\ \A b \in Auteurs \ {a} : f[b] = avis[b]
  BY <1>3 DEF AvisInv, TypesAvis
<1>11. TypesAvis'
  <2>1. boutique' \in LigneBoutique
    BY <1>6, <1>7 DEF AvisInv, TypesAvis, LigneBoutique
  <2>2. pages' = pages
    BY DEF Valider
  <2> QED
    BY <1>6, <1>9, <1>10, <2>1, <2>2 DEF AvisInv, TypesAvis
<1>12. AgregatsJustes(avis)'
  <2>1. ASSUME NEW k \in Produits, k # p
        PROVE  produit'[k].nombre = Cardinality(Publiees(f, k)) /\ produit'[k].somme = SommeDesNotes(f, k)
    <3>1. k # ProduitDe[a]
      BY <1>1, <2>1
    <3>2. Publiees(f, k) = Publiees(avis, k) /\ SommeDesNotes(f, k) = SommeDesNotes(avis, k)
      BY <1>10, <3>1, AutreProduit
    <3> QED
      BY <1>9, <2>1, <3>2 DEF AvisInv, AgregatsJustes
  <2>2. boutique'.nombre = g.boutique /\ boutique'.positifs = g.positifs
    <3>1. boutique \in LigneBoutique
      BY DEF AvisInv, TypesAvis
    <3> QED
      BY <1>6, <3>1 DEF LigneBoutique
  <2>3. \A k \in Produits : /\ produit'[k].nombre = Cardinality(Publiees(f, k))
                            /\ produit'[k].somme = SommeDesNotes(f, k)
    BY <1>8, <1>9, <2>1
  <2>4. /\ boutique'.nombre = Cardinality(PublieesBoutique(f))
        /\ boutique'.positifs = Cardinality({b \in PublieesBoutique(f) : f[b].note >= NOTE_POSITIVE_MIN})
    BY <1>8, <2>2
  <2> HIDE DEF NOTE_POSITIVE_MIN
  <2> QED
    BY <1>6, <2>3, <2>4 DEF AgregatsJustes, Publiees, PublieesBoutique, SommeDesNotes, NombreDe
<1>13. ASSUME NEW u \in Transactions PROVE EcritureJuste(u)'
  <2>1. CASE u = t
    BY <1>6, <2>1 DEF EcritureJuste, AvisInv, TypesAvis
  <2>2. CASE u # t
    <3>1. ecriture'[u] = ecriture[u]
      BY <1>6, <2>2 DEF AvisInv, TypesAvis
    <3>2. ecriture[u] = RienEcrit
      BY <1>2, <2>2, Seule DEF AvisInv, EcritureJuste
    <3> QED
      BY <3>1, <3>2 DEF EcritureJuste
  <2> QED
    BY <2>1, <2>2
<1> QED
  BY <1>11, <1>12, <1>13 DEF AvisInv

\* The seller writes back the counters it read: unless they are those of the row,
\* they are no longer exact.
LEMMA PageConserve ==
  ASSUME AvisInv, Rangs', Exclusifs', PageVendeur
  PROVE  AvisInv'
<1>1. UNCHANGED <<avis, produit, rang, ecriture>>
  BY DEF PageVendeur, LirePage, EnregistrerBoutique, horsBoutique, feuillets
<1>2. boutique \in LigneBoutique /\ pages \in [Parties -> LigneBoutique] /\ "vendeur" \in Parties
  BY DEF AvisInv, TypesAvis, Parties
<1>3. PageLibre \in LigneBoutique
  BY DEF PageLibre, LigneBoutique
<1>4. /\ boutique' \in LigneBoutique /\ pages' \in [Parties -> LigneBoutique]
      /\ ~perimee' => ~perimee /\ boutique'.nombre = boutique.nombre /\ boutique'.positifs = boutique.positifs
  <2>1. CASE LirePage("vendeur") /\ UNCHANGED feuillets
    BY <1>2, <2>1 DEF LirePage, feuillets
  <2>2. CASE EnregistrerBoutique(TRUE)
    <3>1. PICK l \in LigneBoutique : l = pages["vendeur"]
      BY <1>2
    <3>2. boutique' = [l EXCEPT !.active = TRUE] /\ pages' = [pages EXCEPT !["vendeur"] = PageLibre]
      BY <2>2, <3>1 DEF EnregistrerBoutique
    <3>3. boutique' \in LigneBoutique /\ pages' \in [Parties -> LigneBoutique]
      <4>1. boutique' \in LigneBoutique
        BY <3>2 DEF LigneBoutique
      <4> QED
        BY <1>2, <1>3, <3>2, <4>1
    <3>4. ~perimee' => ~perimee /\ boutique'.nombre = boutique.nombre /\ boutique'.positifs = boutique.positifs
      <4>1. CASE PageVendeur /\ perimee' = (boutique'.nombre # boutique.nombre \/ boutique'.positifs # boutique.positifs \/ perimee)
        BY <4>1
      <4>2. CASE LirePage("vendeur") /\ UNCHANGED feuillets
        BY <4>2 DEF LirePage, feuillets
      <4> QED
        BY <4>1, <4>2 DEF PageVendeur
    <3> QED
      BY <3>3, <3>4
  <2> QED
    BY <2>1, <2>2 DEF PageVendeur
<1>5. TypesAvis'
  BY <1>1, <1>4 DEF AvisInv, TypesAvis
<1>6. AgregatsJustes(avis)'
  BY <1>1, <1>4 DEF AvisInv, AgregatsJustes, Publiees, PublieesBoutique, SommeDesNotes, NombreDe
<1>7. ASSUME NEW u \in Transactions PROVE EcritureJuste(u)'
  <2>1. \A l : Ecrite(u, l)' = Ecrite(u, l)
    BY <1>1 DEF Ecrite, Agregats, Publiees, PublieesBoutique, SommeDesNotes, NombreDe
  <2> QED
    BY <1>1, <2>1 DEF AvisInv, EcritureJuste, Complet, Ordre
<1> QED
  BY <1>5, <1>6, <1>7 DEF AvisInv

\* The aggregates of Produit and Boutique are those of the published reviews: for
\* any number of clients, products, moderations and transactions at once.
THEOREM Invariance_Avis == AvisSpec => []AvisInv
<1>1. BoutiquesInit /\ AvisInit => AvisInv
  <2> SUFFICES ASSUME BoutiquesInit, AvisInit PROVE AvisInv
    OBVIOUS
  <2>1. /\ PasDAvis \in LigneAvis /\ PageLibre \in LigneBoutique
        /\ [active |-> TRUE, suspendue |-> FALSE, nombre |-> 0, positifs |-> 0] \in LigneBoutique
        /\ [actif |-> TRUE, par |-> "personne", nombre |-> 0, somme |-> 0] \in LigneProduit
    BY DEF PasDAvis, LigneAvis, StatutsAvis, PageLibre, LigneBoutique, LigneProduit
  <2>2. TypesAvis
    BY <2>1 DEF BoutiquesInit, AvisInit, TypesAvis
  <2>3. Rangs
    BY OrdresDesVerrous DEF AvisInit, Rangs
  <2>4. Exclusifs
    BY DEF AvisInit, Exclusifs, TientVerrou
  <2>5. \A p : Publiees(avis, p) = {} /\ PublieesBoutique(avis) = {}
    BY DEF AvisInit, Publiees, PublieesBoutique, PasDAvis
  <2>6. ASSUME NEW p, NEW n PROVE NombreDe(avis, p, n) = 0
    <3>1. {a \in Publiees(avis, p) : avis[a].note = n} = {}
      BY <2>5
    <3> QED
      BY <3>1, FS_EmptySet DEF NombreDe
  <2>7. \A p : SommeDesNotes(avis, p) = 0
    BY <2>6 DEF SommeDesNotes
  <2>8. {a \in PublieesBoutique(avis) : avis[a].note >= NOTE_POSITIVE_MIN} = {}
    BY <2>5
  <2>9. AgregatsJustes(avis)
    BY <2>5, <2>7, <2>8, FS_EmptySet DEF BoutiquesInit, AvisInit, AgregatsJustes
  <2> QED
    BY <2>2, <2>3, <2>4, <2>9 DEF AvisInv, AvisInit, EcritureJuste
<1>2. AvisInv /\ [AvisNext]_avisVars => AvisInv'
  <2> SUFFICES ASSUME AvisInv, [AvisNext]_avisVars PROVE AvisInv'
    OBVIOUS
  <2>1. CASE UNCHANGED avisVars
    <3>1. /\ UNCHANGED <<avis, produit, boutique, pages, perimee, ecriture, rang>>
      BY <2>1 DEF avisVars, boutiquesVars, feuillets
    <3>2. Rangs' /\ Exclusifs' /\ TypesAvis'
      BY ZenonT(40), <3>1 DEF AvisInv, Rangs, Exclusifs, TientVerrou, TypesAvis, Ordre
    <3>3. AgregatsJustes(avis)'
      BY <3>1 DEF AvisInv, AgregatsJustes, Publiees, PublieesBoutique, SommeDesNotes, NombreDe
    <3>4. ASSUME NEW u \in Transactions PROVE EcritureJuste(u)'
      <4>1. \A l : Ecrite(u, l)' = Ecrite(u, l)
        BY <3>1 DEF Ecrite, Agregats, Publiees, PublieesBoutique, SommeDesNotes, NombreDe
      <4> QED
        BY <3>1, <4>1 DEF AvisInv, EcritureJuste, Complet, Ordre
    <3> QED
      BY <3>2, <3>3, <3>4 DEF AvisInv
  <2> SUFFICES ASSUME AvisNext PROVE AvisInv'
    BY <2>1
  <2>2. Rangs' /\ Exclusifs'
    BY RangsConserve, ExclusifsConserve DEF AvisInv
  <2>3. ASSUME NEW t \in Transactions, PrendreVerrouAvis(t) PROVE AvisInv'
    <3>1. /\ UNCHANGED <<avis, produit, boutique, pages, perimee>> /\ ecriture' = ecriture
          /\ \A u \in Transactions \ {t} : rang'[u] = rang[u]
      BY <2>3 DEF PrendreVerrouAvis, boutiquesVars, AvisInv, Rangs
    <3>2. EcritureJuste(t)'
      BY <2>3, <3>1 DEF AvisInv, EcritureJuste, PrendreVerrouAvis
    <3> QED
      BY <2>2, <3>1, <3>2, SansValidation
  <2>4. ASSUME NEW t \in Transactions, AbandonnerTransaction(t) PROVE AvisInv'
    <3>1. /\ UNCHANGED <<avis, produit, boutique, pages, perimee>> /\ ecriture' = [ecriture EXCEPT ![t] = RienEcrit]
          /\ \A u \in Transactions \ {t} : rang'[u] = rang[u]
      BY <2>4 DEF AbandonnerTransaction, boutiquesVars, AvisInv, Rangs
    <3>2. EcritureJuste(t)'
      BY <3>1 DEF AvisInv, TypesAvis, EcritureJuste
    <3> QED
      BY <2>2, <3>1, <3>2, SansValidation
  <2>5. ASSUME NEW t \in Transactions, Valider(t) PROVE AvisInv'
    BY <2>2, <2>5, ValiderConserve
  <2>6. ASSUME NEW a \in Auteurs,
               CreerAvis(a) \/ ModifierAvis(a) \/ SupprimerAvis(a) \/ MasquerAvis(a) \/ RetablirAvis(a)
        PROVE  AvisInv'
    BY <2>2, <2>6, PlumesConservent
  <2>7. ASSUME NEW a \in Auteurs, RejeterSignalement(a) PROVE AvisInv'
    <3>1. PICK t \in Transactions : t = <<a, "rejet">> /\ t[2] = "rejet"
      BY <2>7 DEF RejeterSignalement, Transactions
    <3>2. /\ UNCHANGED <<avis, produit, boutique, pages, perimee>> /\ ecriture' = ecriture
          /\ \A u \in Transactions \ {t} : rang'[u] = rang[u]
      BY <2>7, <3>1 DEF RejeterSignalement, boutiquesVars, AvisInv, Rangs
    <3>3. EcritureJuste(t)'
      BY <3>1, <3>2 DEF AvisInv, EcritureJuste
    <3> QED
      BY <2>2, <3>2, <3>3, SansValidation
  <2>8. ASSUME NEW a \in Auteurs, LirePourSignaler(a) \/ SignalerAvis(a) PROVE AvisInv'
    <3>1. PICK t \in Transactions : t = <<a, "auteur">>
      BY DEF Transactions
    <3>2. /\ UNCHANGED <<avis, produit, boutique, pages, perimee>> /\ ecriture' = ecriture /\ rang' = rang
      BY <2>8 DEF LirePourSignaler, SignalerAvis, boutiquesVars
    <3>3. \A l : Ecrite(t, l)' = Ecrite(t, l)
      BY <3>2 DEF Ecrite, Agregats, Publiees, PublieesBoutique, SommeDesNotes, NombreDe
    <3>4. EcritureJuste(t)'
      BY <3>2, <3>3 DEF AvisInv, EcritureJuste, Complet, Ordre
    <3> QED
      BY <2>2, <3>2, <3>4, SansValidation
  <2>9. CASE PageVendeur
    BY <2>2, <2>9, PageConserve
  <2> QED
    BY <2>3, <2>4, <2>5, <2>6, <2>7, <2>8, <2>9 DEF AvisNext
<1> QED
  BY <1>1, <1>2, PTL DEF AvisSpec

\* What a moderation leaves.  A decision to hide holds until the next one: an author
\* writes a review that it found published, under the locks.  A report is accepted by
\* a decision to hide, and the hiding passed the request that has only read the review.
Moderation(a) ==
  /\ derniere[a] = "masquer" => avis[a].statut = "masque"
  /\ signalement[a] = "accepte" => derniere[a] # "aucune"
  /\ (signalement[a] = "ouvert" /\ avis[a].statut = "masque") => signalant[a] = "depasse"
  /\ avis[a].statut = "masque" => signalant[a] # "lu"
Plume(t) ==
  ecriture[t] # RienEcrit =>
    /\ t[2] = "auteur" => avis[t[1]].statut # "masque" /\ ecriture[t].avis.statut # "masque"
    /\ t[2] = "moderation" => ecriture[t].avis.statut \in {"masque", "publie"}
TypesModeration ==
  /\ signalement \in [Auteurs -> StatutsSignalement]
  /\ signalant \in [Auteurs -> EtapesSignalant]
  /\ derniere \in [Auteurs -> DecisionsAvis]
ModerationJuste ==
  /\ TypesModeration
  /\ \A a \in Auteurs : Moderation(a)
  /\ \A t \in Transactions : Plume(t)

\* What only prepares a write.
LEMMA PlumeTenue ==
  ASSUME AvisInv, ModerationJuste, UNCHANGED <<avis, signalements>>, NEW t \in Transactions,
         ecriture' = ecriture \/ \E x : ecriture' = [ecriture EXCEPT ![t] = x],
         Plume(t)'
  PROVE  ModerationJuste'
<1>1. TypesModeration' /\ \A a \in Auteurs : Moderation(a)'
  BY DEF ModerationJuste, TypesModeration, Moderation, signalements
<1>2. ASSUME NEW u \in Transactions, u # t PROVE Plume(u)'
  <2>1. ecriture'[u] = ecriture[u]
    BY <1>2 DEF AvisInv, TypesAvis
  <2> QED
    BY <2>1 DEF ModerationJuste, Plume
<1> QED
  BY <1>1, <1>2 DEF ModerationJuste

LEMMA PlumeEcrite ==
  ASSUME AvisInv, ModerationJuste, NEW t \in Transactions, NEW l \in LigneAvis, Ecrire(t, l),
         t[2] = "auteur" => avis[t[1]].statut # "masque" /\ l.statut # "masque",
         t[2] = "moderation" => l.statut \in {"masque", "publie"}
  PROVE  ModerationJuste'
<1>1. UNCHANGED <<avis, signalements>> /\ ecriture' = [ecriture EXCEPT ![t] = Ecrite(t, l)]
  BY DEF Ecrire, Ecrite
<1>2. ecriture'[t] = Ecrite(t, l)
  BY <1>1 DEF AvisInv, TypesAvis
<1>3. ecriture'[t].avis = l
  BY <1>2 DEF Ecrite
<1>4. Plume(t)'
  BY <1>1, <1>3 DEF Plume
<1> QED
  BY <1>1, <1>4, PlumeTenue

LEMMA PlumesDesActions ==
  ASSUME AvisInv, ModerationJuste, NEW a \in Auteurs,
         \/ CreerAvis(a) \/ ModifierAvis(a) \/ SupprimerAvis(a) \/ MasquerAvis(a) \/ RetablirAvis(a)
  PROVE  ModerationJuste'
<1>1. avis[a] \in LigneAvis
  BY DEF AvisInv, TypesAvis
<1>2. ASSUME NEW s \in {"publie", "masque", "supprime"}
      PROVE  [avis[a] EXCEPT !.statut = s] \in LigneAvis /\ [avis[a] EXCEPT !.statut = s].statut = s
  BY <1>1 DEF LigneAvis, StatutsAvis
<1>3. ASSUME NEW n \in Notes
      PROVE  /\ [statut |-> "publie", note |-> n] \in LigneAvis
             /\ [avis[a] EXCEPT !.note = n] \in LigneAvis
             /\ [avis[a] EXCEPT !.note = n].statut = avis[a].statut
  BY <1>1 DEF LigneAvis, StatutsAvis
<1>4. <<a, "auteur">> \in Transactions /\ (a \in Signales => <<a, "moderation">> \in Transactions)
  BY DEF Transactions
<1>5. PICK t \in Transactions, l \in LigneAvis :
        /\ Ecrire(t, l) /\ t[1] = a
        /\ \/ t[2] = "auteur" /\ avis[a].statut # "masque" /\ l.statut # "masque"
           \/ t[2] = "moderation" /\ l.statut \in {"masque", "publie"}
  <2>1. CASE CreerAvis(a)
    <3>1. PICK n \in Notes : Ecrire(<<a, "auteur">>, [statut |-> "publie", note |-> n])
      BY <2>1 DEF CreerAvis
    <3>2. avis[a].statut # "masque"
      BY <2>1 DEF CreerAvis, PeutNoter
    <3> QED
      BY <1>3, <1>4, <3>1, <3>2
  <2>2. CASE ModifierAvis(a)
    <3>1. PICK n \in Notes : Ecrire(<<a, "auteur">>, [avis[a] EXCEPT !.note = n])
      BY <2>2 DEF ModifierAvis
    <3>2. avis[a].statut # "masque"
      BY <2>2 DEF ModifierAvis, ModifiableParAuteur
    <3> QED
      BY <1>3, <1>4, <3>1, <3>2
  <2>3. CASE SupprimerAvis(a)
    BY <1>2, <1>4, <2>3 DEF SupprimerAvis, ModifiableParAuteur
  <2>4. CASE MasquerAvis(a)
    BY <1>2, <1>4, <2>4 DEF MasquerAvis
  <2>5. CASE RetablirAvis(a)
    BY <1>2, <1>4, <2>5 DEF RetablirAvis
  <2> QED
    BY <2>1, <2>2, <2>3, <2>4, <2>5
<1> QED
  BY <1>5, PlumeEcrite

\* The commit: nobody else has written, so that what the author found still holds.
LEMMA ModerationValidee ==
  ASSUME AvisInv, ModerationJuste, NEW t \in Transactions, Valider(t)
  PROVE  ModerationJuste'
<1>1. PICK a \in Auteurs : a = t[1]
  BY OrdresDesVerrous
<1>2. PICK l \in LigneAvis : ecriture[t] = Ecrite(t, l) /\ Complet(t) /\ t[2] # "rejet"
  BY DEF Valider, AvisInv, EcritureJuste
<1>3. ecriture[t].avis = l /\ ecriture[t] # RienEcrit
  BY <1>2 DEF Ecrite, Valider
<1>4. /\ avis' = [avis EXCEPT ![a] = l] /\ ecriture' = [ecriture EXCEPT ![t] = RienEcrit]
      /\ IF t[2] = "moderation" THEN TenirDecision(a, l) ELSE UNCHANGED signalements
  BY <1>1, <1>3 DEF Valider
<1>5. ASSUME NEW u \in Transactions PROVE Plume(u)'
  <2>1. CASE u = t
    BY <1>4, <2>1 DEF Plume, AvisInv, TypesAvis
  <2>2. CASE u # t
    <3>1. ecriture'[u] = ecriture[u]
      BY <1>4, <2>2 DEF AvisInv, TypesAvis
    <3>2. ecriture[u] = RienEcrit
      BY <1>2, <2>2, Seule DEF AvisInv, EcritureJuste
    <3> QED
      BY <3>1, <3>2 DEF Plume
  <2> QED
    BY <2>1, <2>2
<1>6. avis \in [Auteurs -> LigneAvis] /\ avis'[a] = l /\ \A b \in Auteurs \ {a} : avis'[b] = avis[b]
  BY <1>4 DEF AvisInv, TypesAvis
<1>7. TypesModeration /\ Plume(t) /\ \A b \in Auteurs : Moderation(b)
  BY DEF ModerationJuste
<1>8. CASE t[2] = "auteur"
  <2>1. UNCHANGED <<signalement, signalant, derniere>>
    BY <1>4, <1>8 DEF signalements
  <2>2. avis[a].statut # "masque" /\ l.statut # "masque"
    BY <1>1, <1>3, <1>7, <1>8 DEF Plume
  <2>3. \A b \in Auteurs : Moderation(b)'
    BY <1>6, <1>7, <2>1, <2>2 DEF Moderation
  <2> QED
    BY <1>5, <1>7, <2>1, <2>3 DEF ModerationJuste, TypesModeration
<1>9. CASE t[2] = "moderation"
  <2>1. l.statut \in {"masque", "publie"} /\ TenirDecision(a, l)
    BY <1>3, <1>4, <1>7, <1>9 DEF Plume
  <2>2. /\ TypesModeration'
        /\ \A b \in Auteurs \ {a} : /\ derniere'[b] = derniere[b] /\ signalement'[b] = signalement[b]
                                    /\ signalant'[b] = signalant[b]
        /\ derniere'[a] = IF l.statut = "masque" THEN "masquer" ELSE "retablir"
        /\ l.statut = "masque" => signalement'[a] # "ouvert" /\ signalant'[a] # "lu"
    BY <1>7, <2>1 DEF TypesModeration, TenirDecision, DecisionsAvis, StatutsSignalement, EtapesSignalant
  <2>3. Moderation(a)'
    BY <1>6, <2>1, <2>2 DEF Moderation
  <2>4. \A b \in Auteurs \ {a} : Moderation(b)'
    BY <1>6, <1>7, <2>2 DEF Moderation
  <2> QED
    BY <1>5, <2>2, <2>3, <2>4 DEF ModerationJuste
<1> QED
  BY <1>2, <1>8, <1>9, OrdresDesVerrous

\* A report: read, inserted, rejected.
LEMMA SignalementConserve ==
  ASSUME AvisInv, ModerationJuste, NEW a \in Auteurs,
         LirePourSignaler(a) \/ SignalerAvis(a) \/ RejeterSignalement(a)
  PROVE  ModerationJuste'
<1>1. UNCHANGED <<avis, derniere, ecriture>>
  BY DEF LirePourSignaler, SignalerAvis, RejeterSignalement
<1>2. TypesModeration /\ \A b \in Auteurs : Moderation(b)
  BY DEF ModerationJuste
<1>3. \A u \in Transactions : Plume(u)'
  BY <1>1 DEF ModerationJuste, Plume
<1>4. TypesModeration'
  BY <1>1, <1>2 DEF TypesModeration, LirePourSignaler, SignalerAvis, RejeterSignalement, StatutsSignalement,
     EtapesSignalant
<1>5. \A b \in Auteurs : Moderation(b)'
  <2>1. CASE LirePourSignaler(a)
    BY <1>1, <1>2, <2>1 DEF LirePourSignaler, Moderation, TypesModeration
  <2>2. CASE SignalerAvis(a)
    BY <1>1, <1>2, <2>2 DEF SignalerAvis, Moderation, TypesModeration, EtapesSignalant
  <2>3. CASE RejeterSignalement(a)
    BY <1>1, <1>2, <2>3 DEF RejeterSignalement, Moderation, TypesModeration
  <2> QED
    BY <2>1, <2>2, <2>3
<1> QED
  BY <1>3, <1>4, <1>5 DEF ModerationJuste

LEMMA ModerationConserve ==
  ASSUME AvisInv, ModerationJuste, [AvisNext]_avisVars
  PROVE  ModerationJuste'
<1>1. CASE UNCHANGED <<avis, signalements, ecriture>>
  BY <1>1 DEF ModerationJuste, TypesModeration, Moderation, Plume, signalements
<1>2. CASE UNCHANGED avisVars
  BY <1>1, <1>2 DEF avisVars, feuillets
<1>3. CASE AvisNext
  <2>1. ASSUME NEW t \in Transactions, PrendreVerrouAvis(t) PROVE ModerationJuste'
    BY <1>1, <2>1 DEF PrendreVerrouAvis
  <2>2. ASSUME NEW t \in Transactions, AbandonnerTransaction(t) PROVE ModerationJuste'
    <3>1. UNCHANGED <<avis, signalements>> /\ ecriture' = [ecriture EXCEPT ![t] = RienEcrit]
      BY <2>2 DEF AbandonnerTransaction
    <3>2. Plume(t)'
      BY <3>1 DEF Plume, AvisInv, TypesAvis
    <3> QED
      BY <3>1, <3>2, PlumeTenue
  <2>3. CASE PageVendeur
    BY <1>1, <2>3 DEF PageVendeur, feuillets
  <2> QED
    BY <1>3, <2>1, <2>2, <2>3, ModerationValidee, PlumesDesActions, SignalementConserve DEF AvisNext
<1> QED
  BY <1>2, <1>3

\* The figures that the public, the seller and the client read of the reviews are
\* those of the reviews each of them sees (recalculer_agregats, under its locks); an
\* accepted report hid its review until a moderator restores it, and hiding leaves open
\* only the report that was read before it and inserted after (signaler_avis).
THEOREM Avis_Exacts == AvisSpec => []AvisExacts
<1>1. BoutiquesInit /\ AvisInit => ModerationJuste
  BY DEF AvisInit, ModerationJuste, TypesModeration, Moderation, Plume, StatutsSignalement, EtapesSignalant,
     DecisionsAvis
<1>2. AvisInv /\ ModerationJuste /\ [AvisNext]_avisVars => ModerationJuste'
  BY ModerationConserve
<1>3. AvisInv /\ ModerationJuste => AvisExacts
  <2> SUFFICES ASSUME AvisInv, ModerationJuste PROVE AvisExacts
    OBVIOUS
  <2>1. ASSUME NEW p \in Produits
        PROVE  /\ produit[p].nombre = Cardinality(Publiees(avis, p))
               /\ produit[p].somme = SommeDesNotes(avis, p)
               /\ p \in VisiblesPubliquement => produit[p].nombre = Cardinality(AvisPublics(p))
    BY DEF AvisInv, AgregatsJustes, AvisPublics
  <2>2. ~perimee => boutique.nombre = Cardinality(AvisRecus) /\ boutique.positifs <= boutique.nombre
    <3>1. /\ Agregats(avis, 0).boutique = Cardinality(PublieesBoutique(avis))
          /\ Agregats(avis, 0).positifs
               = Cardinality({a \in PublieesBoutique(avis) : avis[a].note >= NOTE_POSITIVE_MIN})
      BY DEF Agregats
    <3>2. Agregats(avis, 0).positifs <= Agregats(avis, 0).boutique
      BY AgregatsNaturels
    <3> HIDE DEF NOTE_POSITIVE_MIN
    <3> QED
      BY <3>1, <3>2 DEF AvisInv, AgregatsJustes, AvisRecus
  <2>3. ASSUME NEW a \in Auteurs
        PROVE  /\ signalement[a] = "accepte" => avis[a].statut = "masque" \/ derniere[a] = "retablir"
               /\ signalement[a] = "ouvert" /\ avis[a].statut = "masque" => signalant[a] = "depasse"
    BY DEF ModerationJuste, Moderation, TypesModeration, DecisionsAvis
  <2> QED
    BY <2>1, <2>2, <2>3 DEF AvisExacts
<1> QED
  BY <1>1, <1>2, <1>3, Invariance_Avis, PTL DEF AvisSpec

-----------------------------------------------------------------------------
\* The adviser: a revoked token lives as long as its cached entry, a paid call is counted
\* before it is made, and an answer shows what was read for it.

ElementsDe(s) == {s[i] : i \in 1..Len(s)}

\* What the validation lets through.
Valide(s, lus) ==
  /\ s \in Seq(lus) /\ Len(s) <= PRODUITS_MAX
  /\ IsFiniteSet(ElementsDe(s)) /\ Len(s) = Cardinality(ElementsDe(s))

LEMMA Elements ==
  ASSUME NEW S, NEW s \in Seq(S)
  PROVE  Range(s) = ElementsDe(s) /\ ElementsDe(s) \subseteq S /\ Len(s) \in Nat
BY DEF Range, ElementsDe

LEMMA ValideVide == ASSUME NEW lus PROVE Valide(<<>>, lus)
<1>1. <<>> \in Seq(lus) /\ Len(<<>>) = 0 /\ ElementsDe(<<>>) = {}
  BY DEF ElementsDe
<1>2. 0 <= PRODUITS_MAX
  BY ConseillerOk
<1> QED
  BY <1>1, <1>2, FS_EmptySet DEF Valide

\* A product that is retained is one of those read, and a new one.
LEMMA ValideDePlus ==
  ASSUME NEW lus, NEW s, Valide(s, lus), NEW p, Retenu(p, s, lus)
  PROVE  Valide(Append(s, p), lus)
<1>1. s \in Seq(lus) /\ p \in lus /\ p \notin ElementsDe(s) /\ Len(s) < PRODUITS_MAX /\ Len(s) \in Nat
  BY Elements DEF Valide, Retenu
<1>2. /\ Append(s, p) \in Seq(lus) /\ Len(Append(s, p)) = Len(s) + 1
      /\ \A i \in 1..Len(s) : Append(s, p)[i] = s[i]
      /\ Append(s, p)[Len(s) + 1] = p
  BY <1>1
<1>3. ElementsDe(Append(s, p)) = ElementsDe(s) \cup {p}
  <2>1. PICK t : t = Append(s, p)
    OBVIOUS
  <2>2. PICK k \in Nat : k = Len(s) /\ Len(t) = k + 1
    BY <1>1, <1>2, <2>1
  <2>3. \A i \in 1..(k + 1) : i \in 1..k \/ i = k + 1
    OBVIOUS
  <2>4. k + 1 \in 1..(k + 1) /\ \A i \in 1..k : i \in 1..(k + 1)
    OBVIOUS
  <2>5. \A x \in ElementsDe(t) : x \in ElementsDe(s) \cup {p}
    BY <1>2, <2>1, <2>2, <2>3 DEF ElementsDe
  <2>6. \A x \in ElementsDe(s) \cup {p} : x \in ElementsDe(t)
    BY <1>2, <2>1, <2>2, <2>4 DEF ElementsDe
  <2> QED
    BY <2>1, <2>5, <2>6
<1>4. /\ IsFiniteSet(ElementsDe(s) \cup {p})
      /\ Cardinality(ElementsDe(s) \cup {p}) = Cardinality(ElementsDe(s)) + 1
  BY <1>1, FS_AddElement DEF Valide
<1> QED
  BY <1>1, <1>2, <1>3, <1>4, ConseillerOk DEF Valide

\* The products are examined one after the other: the recursive function of the
\* validation exists, and is valid at every one of its steps.
Examen(g, n, produits, lus) ==
  IF n = 0 THEN <<>>
  ELSE IF Retenu(produits[n], g[n - 1], lus) THEN Append(g[n - 1], produits[n]) ELSE g[n - 1]

Examine(g, n, produits, lus) == g = [k \in 0..n |-> Examen(g, k, produits, lus)]

LEMMA ExamenExiste ==
  ASSUME NEW produits, NEW lus
  PROVE  \A n \in Nat : \E g : Examine(g, n, produits, lus)
<1> DEFINE T == {n \in Nat : \E g : Examine(g, n, produits, lus)}
<1>1. 0 \in T
  <2> DEFINE g == [k \in 0..0 |-> <<>>]
  <2>1. \A k \in 0..0 : Examen(g, k, produits, lus) = <<>>
    BY DEF Examen
  <2>2. g = [k \in 0..0 |-> Examen(g, k, produits, lus)]
    BY <2>1
  <2> QED
    BY <2>2 DEF Examine
<1>2. ASSUME NEW n \in Nat, n \in T PROVE n + 1 \in T
  <2>1. PICK g : Examine(g, n, produits, lus)
    BY <1>2
  <2>2. PICK h : h = [k \in 0..(n + 1) |-> Examen(g, k, produits, lus)]
    OBVIOUS
  <2>3. \A k \in 0..n : h[k] = g[k] /\ k \in 0..(n + 1)
    BY <2>1, <2>2 DEF Examine
  <2>4. ASSUME NEW k \in 0..(n + 1) PROVE Examen(g, k, produits, lus) = Examen(h, k, produits, lus)
    <3>1. CASE k = 0
      BY <3>1 DEF Examen
    <3>2. CASE k # 0
      <4>1. k - 1 \in 0..n
        BY <3>2
      <4>2. h[k - 1] = g[k - 1]
        BY <2>3, <4>1
      <4> QED
        BY <3>2, <4>2 DEF Examen
    <3> QED
      BY <3>1, <3>2
  <2>5. Examine(h, n + 1, produits, lus)
    BY <2>2, <2>4 DEF Examine
  <2> QED
    BY <2>5
<1> HIDE DEF T
<1>3. Nat \subseteq T
  BY <1>1, <1>2, Recurrence
<1> QED
  BY <1>3 DEF T

LEMMA SortieValide ==
  ASSUME NEW produits, NEW lus, Len(produits) \in Nat
  PROVE  Valide(ValiderSortie(produits, lus), lus)
<1>1. PICK m \in Nat : m = Len(produits)
  OBVIOUS
<1>2. PICK g : g = CHOOSE f : f = [k \in 0..m |-> Examen(f, k, produits, lus)]
  OBVIOUS
<1>3. ValiderSortie(produits, lus) = g[m]
  BY <1>1, <1>2, Zenon DEF ValiderSortie, Examen
<1>4. g = [k \in 0..m |-> Examen(g, k, produits, lus)]
  <2>1. \E f : f = [k \in 0..m |-> Examen(f, k, produits, lus)]
    BY ExamenExiste DEF Examine
  <2> QED
    BY <1>2, <2>1, Zenon
<1> DEFINE T == {n \in Nat : n <= m => Valide(g[n], lus)}
<1>5. 0 \in T
  <2>1. g[0] = <<>>
    BY <1>4 DEF Examen
  <2> QED
    BY <2>1, ValideVide
<1>6. ASSUME NEW n \in Nat, n \in T PROVE n + 1 \in T
  <2>1. SUFFICES ASSUME n + 1 <= m PROVE Valide(g[n + 1], lus)
    OBVIOUS
  <2>2. Valide(g[n], lus)
    BY <1>6, <2>1
  <2>3. g[n + 1] = Examen(g, n + 1, produits, lus)
    BY <1>4, <2>1
  <2>4. g[n + 1] = IF Retenu(produits[n + 1], g[n], lus) THEN Append(g[n], produits[n + 1]) ELSE g[n]
    BY <2>3 DEF Examen
  <2> QED
    BY <2>2, <2>4, ValideDePlus
<1> HIDE DEF T
<1>7. Nat \subseteq T
  BY <1>5, <1>6, Recurrence
<1> QED
  BY <1>3, <1>7 DEF T

-----------------------------------------------------------------------------
\* The requests

Conseil ==
  {SansConseil}
  \cup [etape : {"recue", "verifiee"}, qui : Demandeurs]
  \cup [etape : {"admise"}, qui : Demandeurs, a : Nat]
  \cup [etape : {"comptee"}]
  \cup [etape : {"candidats", "appel", "repli"}, lus : SUBSET Conseillables]
  \cup [etape : {"servie"}, lus : SUBSET Conseillables, produits : Seq(Conseillables)]

\* An answer of Django is kept within the instant; an access is as old as the token it read.
ConseilJuste(n) ==
  /\ n.etape = "verifiee" /\ revocation[n.qui] # Jamais => revocation[n.qui] = temps
  /\ n.etape = "admise" =>
       n.a <= temps /\ (revocation[n.qui] # Jamais => n.a <= revocation[n.qui] + AUTH_CACHE_TTL)
  /\ n.etape = "servie" => Valide(n.produits, n.lus)

EntreeJuste(u) ==
  jetonsEnCache[u] # Jamais =>
    /\ jetonsEnCache[u] <= temps + AUTH_CACHE_TTL
    /\ revocation[u] # Jamais => jetonsEnCache[u] <= revocation[u] + AUTH_CACHE_TTL

BudgetTenu == appelsPayes \in Nat /\ appelsPayes <= appelsComptes /\ appelsPayes <= AI_DAILY_CALL_LIMIT

ConseillerInv ==
  /\ ConseillerTypes /\ BudgetTenu
  /\ jetonsEnCache \in [Demandeurs -> {Jamais} \cup Nat]
  /\ \A u \in Demandeurs : EntreeJuste(u)
  /\ conseils \in [Conseils -> Conseil]
  /\ \A r \in Conseils : ConseilJuste(conseils[r])

LEMMA Dates ==
  ASSUME ConseillerInv, NEW u \in Demandeurs
  PROVE  /\ temps \in Nat /\ revocation[u] \in Nat \cup {Jamais} /\ jetonsEnCache[u] \in Nat \cup {Jamais}
         /\ revocation[u] # Jamais => revocation[u] <= temps
         /\ AUTH_CACHE_TTL \in Nat
<1>1. temps \in Nat /\ AUTH_CACHE_TTL \in Nat
  BY ConseillerOk DEF ConseillerInv, ConseillerTypes
<1>2. revocation[u] \in {Jamais} \cup 0..temps
  BY DEF ConseillerInv, ConseillerTypes
<1> QED
  BY <1>1, <1>2 DEF ConseillerInv

\* One request moves.
LEMMA SuiteConserve ==
  ASSUME ConseillerInv, NEW r \in Conseils, NEW n \in Conseil, SuiteDe(r, n), ConseilJuste(n),
         UNCHANGED <<temps, revocation, jetonsEnCache>>,
         debits' \in [Demandeurs -> 0..(Debit + 1)],
         appelsComptes' \in 0..(AI_DAILY_CALL_LIMIT + 1), BudgetTenu'
  PROVE  ConseillerInv'
<1>1. ConseillerTypes'
  BY DEF ConseillerInv, ConseillerTypes
<1>2. conseils' \in [Conseils -> Conseil] /\ \A d \in Conseils : conseils'[d] = IF d = r THEN n ELSE conseils[d]
  BY DEF ConseillerInv, SuiteDe
<1>3. \A d \in Conseils : ConseilJuste(conseils'[d])
  BY <1>2 DEF ConseillerInv
<1>4. \A d \in Conseils : ConseilJuste(conseils[d])'
  BY <1>3 DEF ConseilJuste
<1>5. \A u \in Demandeurs : EntreeJuste(u)'
  BY DEF ConseillerInv, EntreeJuste
<1> QED
  BY <1>1, <1>2, <1>4, <1>5 DEF ConseillerInv

\* The same without any counter.
LEMMA SuiteSeule ==
  ASSUME ConseillerInv, NEW r \in Conseils, NEW n \in Conseil, SuiteDe(r, n), ConseilJuste(n),
         UNCHANGED <<temps, revocation, jetonsEnCache, debits, appelsComptes, appelsPayes>>
  PROVE  ConseillerInv'
BY SuiteConserve DEF ConseillerInv, ConseillerTypes, BudgetTenu

LEMMA SansConseilJuste == SansConseil \in Conseil /\ ConseilJuste(SansConseil)
BY DEF Conseil, ConseilJuste, SansConseil

LEMMA ConseilLu ==
  ASSUME ConseillerInv, NEW r \in Conseils
  PROVE  /\ conseils[r] \in Conseil /\ ConseilJuste(conseils[r])
         /\ EstA(r, "recue") \/ EstA(r, "verifiee") \/ EstA(r, "admise") => Demandeur(r) \in Demandeurs
         /\ EstA(r, "candidats") \/ EstA(r, "appel") \/ EstA(r, "repli") => conseils[r].lus \in SUBSET Conseillables
         /\ EstA(r, "admise") => conseils[r].a \in Nat
<1>1. conseils[r] \in Conseil /\ ConseilJuste(conseils[r])
  BY DEF ConseillerInv
<1> QED
  BY <1>1 DEF Conseil, EstA, Demandeur, SansConseil

\* The candidates go with the request to the provider, or to the rules.
LEMMA AllerAvecLesLus ==
  ASSUME ConseillerInv, NEW r \in Conseils, NEW e \in {"appel", "repli"}, AllerA(r, e),
         EstA(r, "candidats") \/ EstA(r, "appel")
  PROVE  \E n \in Conseil : SuiteDe(r, n) /\ ConseilJuste(n)
<1>1. PICK c \in [etape : {"candidats", "appel", "repli"}, lus : SUBSET Conseillables] : c = conseils[r]
  BY ConseilLu DEF Conseil, EstA, SansConseil
<1>2. PICK n : n = [c EXCEPT !.etape = e]
  OBVIOUS
<1>3. n \in [etape : {"candidats", "appel", "repli"}, lus : SUBSET Conseillables] /\ n.etape = e
  BY <1>2
<1>4. n \in Conseil /\ ConseilJuste(n)
  BY <1>3 DEF Conseil, ConseilJuste
<1>5. SuiteDe(r, n)
  BY <1>1, <1>2 DEF AllerA
<1> QED
  BY <1>4, <1>5

LEMMA JetonConserve ==
  ASSUME ConseillerInv, NEW r \in Conseils,
         \/ \E u \in Demandeurs : RecevoirDemande(r, u)
         \/ LireJetonEnCache(r) \/ VerifierJeton(r)
  PROVE  ConseillerInv'
<1>1. UNCHANGED <<temps, revocation, jetonsEnCache, debits, appelsComptes, appelsPayes>>
  BY DEF RecevoirDemande, LireJetonEnCache, VerifierJeton
<1>2. CASE \E u \in Demandeurs : RecevoirDemande(r, u)
  <2>1. PICK u \in Demandeurs : SuiteDe(r, [etape |-> "recue", qui |-> u])
    BY <1>2 DEF RecevoirDemande
  <2>2. PICK n : n = [etape |-> "recue", qui |-> u]
    OBVIOUS
  <2>3. n \in Conseil /\ ConseilJuste(n)
    BY <2>2 DEF Conseil, ConseilJuste
  <2> QED
    BY <1>1, <2>1, <2>2, <2>3, SuiteSeule
<1>3. CASE LireJetonEnCache(r)
  <2>1. PICK u \in Demandeurs : u = Demandeur(r)
    BY <1>3, ConseilLu DEF LireJetonEnCache
  <2>2. SuiteDe(r, [etape |-> "admise", qui |-> u, a |-> temps]) /\ JetonEnCache(u)
    BY <1>3, <2>1 DEF LireJetonEnCache
  <2>3. PICK n : n = [etape |-> "admise", qui |-> u, a |-> temps]
    OBVIOUS
  <2>4. n \in Conseil /\ n.etape = "admise" /\ n.qui = u /\ n.a = temps
    BY <2>3, Dates DEF Conseil
  <2>5. revocation[u] # Jamais => temps <= revocation[u] + AUTH_CACHE_TTL
    BY <2>2, Dates DEF JetonEnCache, ConseillerInv, EntreeJuste, Jamais
  <2>6. ConseilJuste(n)
    BY <2>4, <2>5, Dates DEF ConseilJuste
  <2> QED
    BY <1>1, <2>2, <2>3, <2>4, <2>6, SuiteSeule
<1>4. CASE VerifierJeton(r)
  <2>1. CASE FinirConseil(r)
    BY <1>1, <2>1, SansConseilJuste, SuiteSeule DEF FinirConseil
  <2>2. CASE revocation[Demandeur(r)] = Jamais /\ AllerA(r, "verifiee")
    <3>1. PICK c \in [etape : {"recue", "verifiee"}, qui : Demandeurs] : c = conseils[r]
      BY <1>4, ConseilLu DEF VerifierJeton, Conseil, EstA, SansConseil
    <3>2. PICK n : n = [c EXCEPT !.etape = "verifiee"]
      OBVIOUS
    <3>3. n \in [etape : {"recue", "verifiee"}, qui : Demandeurs] /\ n.etape = "verifiee" /\ n.qui = c.qui
      BY <3>2
    <3>4. n \in Conseil /\ ConseilJuste(n)
      BY <2>2, <3>1, <3>3 DEF Conseil, ConseilJuste, Demandeur
    <3> QED
      BY <1>1, <2>2, <3>1, <3>2, <3>4, SuiteSeule DEF AllerA
  <2> QED
    BY <1>4, <2>1, <2>2 DEF VerifierJeton
<1> QED
  BY <1>2, <1>3, <1>4

\* The entry written is that of the instant at which Django answered.
LEMMA MiseEnCacheConserve ==
  ASSUME ConseillerInv, NEW r \in Conseils, MettreJetonEnCache(r)
  PROVE  ConseillerInv'
<1>1. PICK u \in Demandeurs : u = Demandeur(r)
  BY ConseilLu DEF MettreJetonEnCache
<1>2. /\ EstA(r, "verifiee") /\ SuiteDe(r, [etape |-> "admise", qui |-> u, a |-> temps])
      /\ UNCHANGED <<temps, revocation, debits, appelsComptes, appelsPayes>>
      /\ \/ jetonsEnCache' = [jetonsEnCache EXCEPT ![u] = temps + AUTH_CACHE_TTL]
         \/ UNCHANGED jetonsEnCache
  BY <1>1 DEF MettreJetonEnCache
<1>3. revocation[u] # Jamais => revocation[u] = temps
  BY <1>1, <1>2, ConseilLu DEF ConseilJuste, EstA, Demandeur
<1>4. PICK n : n = [etape |-> "admise", qui |-> u, a |-> temps]
  OBVIOUS
<1>5. n \in Conseil /\ n.etape = "admise" /\ n.qui = u /\ n.a = temps
  BY <1>4, Dates DEF Conseil
<1>6. ConseilJuste(n)
  BY <1>3, <1>5, Dates DEF ConseilJuste
<1>7. conseils' \in [Conseils -> Conseil] /\ \A d \in Conseils : ConseilJuste(conseils'[d])
  BY <1>2, <1>4, <1>5, <1>6 DEF ConseillerInv, SuiteDe
<1>8. \A d \in Conseils : ConseilJuste(conseils[d])'
  BY <1>2, <1>7 DEF ConseilJuste
<1>9. jetonsEnCache' \in [Demandeurs -> {Jamais} \cup Nat]
  BY <1>2, Dates DEF ConseillerInv
<1>10. ASSUME NEW v \in Demandeurs PROVE EntreeJuste(v)'
  <2>1. jetonsEnCache'[v] = jetonsEnCache[v] \/ (v = u /\ jetonsEnCache'[v] = temps + AUTH_CACHE_TTL)
    BY <1>2 DEF ConseillerInv
  <2>2. CASE jetonsEnCache'[v] = jetonsEnCache[v]
    BY <1>2, <2>2 DEF ConseillerInv, EntreeJuste
  <2>3. CASE v = u /\ jetonsEnCache'[v] = temps + AUTH_CACHE_TTL
    BY <1>2, <1>3, <2>3, Dates DEF EntreeJuste
  <2> QED
    BY <2>1, <2>2, <2>3
<1>11. ConseillerTypes' /\ BudgetTenu'
  BY <1>2 DEF ConseillerInv, ConseillerTypes, BudgetTenu
<1> QED
  BY <1>7, <1>8, <1>9, <1>10, <1>11 DEF ConseillerInv

LEMMA CompteurBorne ==
  ASSUME NEW limite \in Nat, NEW n \in 0..(limite + 1)
  PROVE  PlusUn(n, limite) \in 0..(limite + 1) /\ n <= PlusUn(n, limite) /\ (n < limite => PlusUn(n, limite) = n + 1)
BY DEF PlusUn

LEMMA DebitConserve ==
  ASSUME ConseillerInv, NEW r \in Conseils, Consommer(r) \/ RedisInjoignable(r) \/ LireCandidats(r) \/ RendreLaReponse(r)
  PROVE  ConseillerInv'
<1>1. UNCHANGED <<temps, revocation, jetonsEnCache, appelsComptes, appelsPayes>>
  BY DEF Consommer, RedisInjoignable, LireCandidats, RendreLaReponse
<1>2. debits' \in [Demandeurs -> 0..(Debit + 1)]
  <2>1. CASE UNCHANGED debits
    BY <2>1 DEF ConseillerInv, ConseillerTypes
  <2>2. CASE Consommer(r)
    <3>1. PICK u \in Demandeurs : u = Demandeur(r)
      BY <2>2, ConseilLu DEF Consommer
    <3>2. debits' = [debits EXCEPT ![u] = PlusUn(debits[u], Debit)]
      BY <2>2, <3>1 DEF Consommer
    <3>3. debits[u] \in 0..(Debit + 1)
      BY DEF ConseillerInv, ConseillerTypes
    <3> QED
      BY <3>2, <3>3, CompteurBorne, ConseillerOk DEF ConseillerInv, ConseillerTypes
  <2> QED
    BY <2>1, <2>2 DEF RedisInjoignable, LireCandidats, RendreLaReponse
<1>3. PICK n \in Conseil : SuiteDe(r, n) /\ ConseilJuste(n)
  <2>1. [etape |-> "comptee"] \in Conseil /\ ConseilJuste([etape |-> "comptee"])
    BY DEF Conseil, ConseilJuste
  <2>2. ASSUME NEW lus \in SUBSET Conseillables
        PROVE  [etape |-> "candidats", lus |-> lus] \in Conseil /\ ConseilJuste([etape |-> "candidats", lus |-> lus])
    BY DEF Conseil, ConseilJuste
  <2> QED
    BY <2>1, <2>2, SansConseilJuste DEF Consommer, RedisInjoignable, LireCandidats, RendreLaReponse, FinirConseil
<1>4. appelsComptes' \in 0..(AI_DAILY_CALL_LIMIT + 1) /\ BudgetTenu'
  BY <1>1 DEF ConseillerInv, ConseillerTypes, BudgetTenu
<1> QED
  BY <1>1, <1>2, <1>3, <1>4, SuiteConserve

\* A call is counted before it is paid.
LEMMA AppelConserve ==
  ASSUME ConseillerInv, NEW r \in Conseils, ReserverAppel(r) \/ CompteurInjoignable(r)
  PROVE  ConseillerInv'
<1>1. /\ UNCHANGED <<temps, revocation, jetonsEnCache, debits>> /\ EstA(r, "candidats")
      /\ AllerA(r, "appel") \/ AllerA(r, "repli")
  BY DEF ReserverAppel, CompteurInjoignable
<1>2. PICK n \in Conseil : SuiteDe(r, n) /\ ConseilJuste(n)
  BY <1>1, AllerAvecLesLus
<1>3. appelsComptes' \in 0..(AI_DAILY_CALL_LIMIT + 1) /\ BudgetTenu'
  <2>1. PICK l \in Nat : l = AI_DAILY_CALL_LIMIT
    BY ConseillerOk
  <2>2. PICK k \in 0..(l + 1) : k = appelsComptes
    BY <2>1 DEF ConseillerInv, ConseillerTypes
  <2>3. appelsPayes \in Nat /\ appelsPayes <= k /\ appelsPayes <= l
    BY <2>1, <2>2 DEF ConseillerInv, BudgetTenu
  <2>4. CASE ReserverAppel(r)
    <3>1. /\ appelsComptes' = PlusUn(k, l)
          /\ \/ k + 1 <= l /\ appelsPayes' = appelsPayes + 1
             \/ appelsPayes' = appelsPayes
      BY <2>1, <2>2, <2>4 DEF ReserverAppel, NombreApres
    <3>2. PlusUn(k, l) \in 0..(l + 1) /\ k <= PlusUn(k, l) /\ (k < l => PlusUn(k, l) = k + 1)
      BY CompteurBorne
    <3> QED
      BY <2>1, <2>3, <3>1, <3>2 DEF BudgetTenu
  <2>5. CASE CompteurInjoignable(r)
    BY <2>1, <2>2, <2>3, <2>5 DEF CompteurInjoignable, BudgetTenu
  <2> QED
    BY <2>4, <2>5
<1>4. debits' \in [Demandeurs -> 0..(Debit + 1)]
  BY <1>1 DEF ConseillerInv, ConseillerTypes
<1> QED
  BY <1>1, <1>2, <1>3, <1>4, SuiteConserve

LEMMA ServiceJuste ==
  ASSUME ConseillerInv, NEW r \in Conseils, EstA(r, "appel") \/ EstA(r, "repli"), NEW produits \in Sorties,
         ServirConseil(r, produits)
  PROVE  \E n \in Conseil : SuiteDe(r, n) /\ ConseilJuste(n)
<1>1. Len(produits) \in Nat
  BY DEF Sorties
<1>2. PICK lus \in SUBSET Conseillables : lus = conseils[r].lus
  BY ConseilLu
<1>3. PICK s : s = ValiderSortie(produits, lus)
  OBVIOUS
<1>4. Valide(s, lus)
  BY <1>1, <1>3, SortieValide
<1>5. s \in Seq(Conseillables)
  <2>1. s \in Seq(lus)
    BY <1>4 DEF Valide
  <2> QED
    BY <2>1
<1>6. PICK n : n = [etape |-> "servie", lus |-> lus, produits |-> s]
  OBVIOUS
<1>7. n \in Conseil /\ ConseilJuste(n)
  BY <1>4, <1>5, <1>6 DEF Conseil, ConseilJuste
<1> QED
  BY <1>2, <1>3, <1>6, <1>7 DEF ServirConseil

LEMMA ReponseConserve ==
  ASSUME ConseillerInv, NEW r \in Conseils, RecevoirSortie(r) \/ Replier(r)
  PROVE  ConseillerInv'
<1>1. /\ UNCHANGED <<temps, revocation, jetonsEnCache, debits, appelsComptes, appelsPayes>>
      /\ EstA(r, "appel") \/ EstA(r, "repli")
      /\ (\E produits \in Sorties : ServirConseil(r, produits)) \/ (EstA(r, "appel") /\ AllerA(r, "repli"))
  BY DEF RecevoirSortie, Replier
<1>2. PICK n \in Conseil : SuiteDe(r, n) /\ ConseilJuste(n)
  BY <1>1, ServiceJuste, AllerAvecLesLus
<1> QED
  BY <1>1, <1>2, SuiteSeule

LEMMA MondeConserve ==
  ASSUME ConseillerInv, PasserAuSuivant \/ \E u \in Demandeurs : RevoquerJeton(u)
  PROVE  ConseillerInv'
<1>1. CASE PasserAuSuivant
  <2>1. /\ temps' = temps + 1 /\ temps < InstantFinal /\ debits' = [u \in Demandeurs |-> 0]
        /\ UNCHANGED <<revocation, jetonsEnCache, conseils>> /\ \A r \in Conseils : ~EstA(r, "verifiee")
        /\ \/ UNCHANGED <<appelsComptes, appelsPayes>>
           \/ appelsComptes' = 0 /\ appelsPayes' = 0
    BY <1>1 DEF PasserAuSuivant
  <2>2. temps \in Nat /\ temps' \in 0..InstantFinal
    BY <2>1, ConseillerOk DEF ConseillerInv, ConseillerTypes
  <2>3. BudgetTenu' /\ appelsComptes' \in 0..(AI_DAILY_CALL_LIMIT + 1)
    BY <2>1, ConseillerOk DEF ConseillerInv, ConseillerTypes, BudgetTenu
  <2>4. ConseillerTypes'
    <3>1. revocation' \in [Demandeurs -> {Jamais} \cup 0..temps']
      BY <2>1, <2>2 DEF ConseillerInv, ConseillerTypes
    <3>2. debits' \in [Demandeurs -> 0..(Debit + 1)]
      BY <2>1, ConseillerOk
    <3> QED
      BY <2>2, <2>3, <3>1, <3>2 DEF ConseillerTypes
  <2>5. ASSUME NEW u \in Demandeurs PROVE EntreeJuste(u)'
    BY <2>1, Dates DEF ConseillerInv, EntreeJuste, Jamais
  <2>6. ASSUME NEW r \in Conseils PROVE ConseilJuste(conseils[r])'
    <3>1. ConseilJuste(conseils[r]) /\ conseils'[r] = conseils[r] /\ conseils[r].etape # "verifiee"
      BY <2>1, ConseilLu DEF EstA
    <3>2. conseils[r].etape = "admise" => conseils[r].a \in Nat
      BY ConseilLu DEF EstA
    <3> QED
      BY <2>1, <2>2, <3>1, <3>2 DEF ConseilJuste
  <2> QED
    BY <2>1, <2>3, <2>4, <2>5, <2>6 DEF ConseillerInv
<1>2. ASSUME NEW u \in Demandeurs, RevoquerJeton(u) PROVE ConseillerInv'
  <2>1. /\ revocation[u] = Jamais /\ revocation' = [revocation EXCEPT ![u] = temps]
        /\ UNCHANGED <<temps, jetonsEnCache, debits, appelsComptes, appelsPayes, conseils>>
    BY <1>2 DEF RevoquerJeton
  <2>2. \A v \in Demandeurs : revocation'[v] = IF v = u THEN temps ELSE revocation[v]
    BY <2>1 DEF ConseillerInv, ConseillerTypes
  <2>3. ConseillerTypes'
    <3>1. temps \in 0..temps
      BY Dates
    <3> QED
      BY <2>1, <3>1 DEF ConseillerInv, ConseillerTypes
  <2>4. BudgetTenu'
    BY <2>1 DEF ConseillerInv, BudgetTenu
  <2>5. ASSUME NEW v \in Demandeurs PROVE EntreeJuste(v)'
    BY <2>1, <2>2, Dates DEF ConseillerInv, EntreeJuste
  <2>6. ASSUME NEW r \in Conseils PROVE ConseilJuste(conseils[r])'
    <3>1. PICK n \in Conseil : n = conseils[r] /\ n = conseils'[r]
      BY <2>1, ConseilLu
    <3>2. ConseilJuste(n)
      BY <3>1, ConseilLu
    <3>3. n.etape \in {"verifiee", "admise"} => n.qui \in Demandeurs
      BY <3>1, ConseilLu DEF EstA, Demandeur
    <3>4. n.etape = "admise" => n.a \in Nat
      BY <3>1, ConseilLu DEF EstA
    <3>5. temps \in Nat /\ AUTH_CACHE_TTL \in Nat
      BY Dates
    <3> QED
      BY <2>1, <2>2, <3>1, <3>2, <3>3, <3>4, <3>5 DEF ConseilJuste
  <2> QED
    BY <2>1, <2>3, <2>4, <2>5, <2>6 DEF ConseillerInv
<1> QED
  BY <1>1, <1>2

\* Whatever requests overlap, however late Django revokes a token or Redis loses an answer:
\* a revoked token opens nothing past the life of its entry, the paid calls stay within the
\* budget, and an answer shows only what was read for it, each product once.
THEOREM Conseil_Tenu == ConseillerSpec => []ConseilTenu
<1>1. ConseillerInit => ConseillerInv
  <2> SUFFICES ASSUME ConseillerInit PROVE ConseillerInv
    OBVIOUS
  <2>1. ConseillerTypes /\ BudgetTenu
    BY ConseillerOk DEF ConseillerInit, ConseillerTypes, BudgetTenu
  <2>2. /\ jetonsEnCache \in [Demandeurs -> {Jamais} \cup Nat]
        /\ \A u \in Demandeurs : EntreeJuste(u)
    BY DEF ConseillerInit, EntreeJuste
  <2>3. conseils \in [Conseils -> Conseil] /\ \A r \in Conseils : ConseilJuste(conseils[r])
    BY SansConseilJuste DEF ConseillerInit
  <2> QED
    BY <2>1, <2>2, <2>3 DEF ConseillerInv
<1>2. ConseillerInv /\ [ConseillerNext]_conseillerVars => ConseillerInv'
  <2> SUFFICES ASSUME ConseillerInv, [ConseillerNext]_conseillerVars PROVE ConseillerInv'
    OBVIOUS
  <2>1. CASE UNCHANGED conseillerVars
    BY <2>1 DEF ConseillerInv, conseillerVars, ConseillerTypes, BudgetTenu, EntreeJuste, ConseilJuste
  <2>2. CASE ConseillerNext
    BY <2>2, JetonConserve, MiseEnCacheConserve, DebitConserve, AppelConserve, ReponseConserve, MondeConserve
       DEF ConseillerNext
  <2> QED
    BY <2>1, <2>2
<1>3. ConseillerInv => ConseilTenu
  <2> SUFFICES ASSUME ConseillerInv PROVE ConseilTenu
    OBVIOUS
  <2>1. ASSUME NEW r \in Conseils, EstA(r, "admise"), revocation[Demandeur(r)] # Jamais
        PROVE  conseils[r].a <= revocation[Demandeur(r)] + AUTH_CACHE_TTL
    BY <2>1, ConseilLu DEF ConseilJuste, EstA, Demandeur
  <2>2. appelsPayes <= AI_DAILY_CALL_LIMIT
    BY DEF ConseillerInv, BudgetTenu
  <2>3. ASSUME NEW r \in Conseils, EstA(r, "servie")
        PROVE  /\ Range(conseils[r].produits) \subseteq conseils[r].lus
               /\ Len(conseils[r].produits) = Cardinality(Range(conseils[r].produits))
               /\ Len(conseils[r].produits) <= PRODUITS_MAX
    <3>1. PICK s, lus : s = conseils[r].produits /\ lus = conseils[r].lus
      OBVIOUS
    <3>2. Valide(s, lus)
      BY <2>3, <3>1, ConseilLu DEF ConseilJuste, EstA
    <3> QED
      BY <3>1, <3>2, Elements DEF Valide
  <2> QED
    BY <2>1, <2>2, <2>3 DEF ConseilTenu
<1> QED
  BY <1>1, <1>2, <1>3, PTL DEF ConseillerSpec

-----------------------------------------------------------------------------
\* The order of the products: the keys end with the identifier, so that two products always compare

\* Two rows of keys that differ compare, one way only.
LEMMA PrecedeTotal ==
  ASSUME NEW n \in Nat, NEW a \in [1..n -> Int], NEW b \in [1..n -> Int], a # b
  PROVE  (Precede(a, b) \/ Precede(b, a)) /\ ~(Precede(a, b) /\ Precede(b, a))
<1>1. PICK i \in 1..n : a[i] # b[i] /\ \A j \in 1..(i - 1) : a[j] = b[j]
  <2> DEFINE D == {i \in 1..n : a[i] # b[i]}
  <2>1. D # {} /\ D \subseteq Nat
    <3>1. \E i \in 1..n : a[i] # b[i]
      <4> SUFFICES ASSUME \A i \in 1..n : a[i] = b[i] PROVE a = b
        OBVIOUS
      <4>1. a = [i \in 1..n |-> a[i]] /\ b = [i \in 1..n |-> b[i]]
        OBVIOUS
      <4> QED
        BY <4>1
    <3>2. D # {}
      BY <3>1
    <3>3. D \subseteq Nat
      OBVIOUS
    <3> QED
      BY <3>2, <3>3
  <2>2. PICK i \in D : \A j \in D : i <= j
    <3> HIDE DEF D
    <3> QED
      BY <2>1, PlusPetit
  <2>3. \A j \in 1..(i - 1) : j \in 1..n /\ j \notin D
    BY <2>2
  <2> QED
    BY <2>2, <2>3
<1>2. DOMAIN a = 1..n /\ DOMAIN b = 1..n /\ a[i] \in Int /\ b[i] \in Int
  OBVIOUS
<1>3. a[i] < b[i] \/ b[i] < a[i]
  BY <1>1, <1>2
<1>4. Precede(a, b) \/ Precede(b, a)
  BY <1>1, <1>2, <1>3 DEF Precede
<1>5. ASSUME Precede(a, b), Precede(b, a) PROVE FALSE
  <2>1. PICK k \in 1..n : a[k] < b[k] /\ \A j \in 1..(k - 1) : a[j] = b[j]
    BY <1>2, <1>5 DEF Precede
  <2>2. PICK l \in 1..n : b[l] < a[l] /\ \A j \in 1..(l - 1) : b[j] = a[j]
    BY <1>2, <1>5 DEF Precede
  <2>3. a[k] \in Int /\ b[k] \in Int /\ a[l] \in Int /\ b[l] \in Int
    OBVIOUS
  <2>4. CASE k = l
    BY <2>1, <2>2, <2>3, <2>4
  <2>5. CASE k < l
    <3>1. k \in 1..(l - 1)
      BY <2>5
    <3> QED
      BY <2>1, <2>2, <2>3, <3>1
  <2>6. CASE l < k
    <3>1. l \in 1..(k - 1)
      BY <2>6
    <3> QED
      BY <2>1, <2>2, <2>3, <3>1
  <2> QED
    BY <2>4, <2>5, <2>6
<1> QED
  BY <1>4, <1>5

Fiche == [id : Nat, prix : Nat, date : Nat, palier : Nat, proximite : Nat, categorie : Nat, parent : Nat]

LEMMA FicheType == ASSUME NEW f \in Articles PROVE Decrit[f] \in Fiche
BY RechercheOk DEF Fiche

\* The rows of keys have one length, and end with the identifier of the product.
LEMMA ClesForme ==
  ASSUME NEW tri
  PROVE  \E n \in Nat : /\ \A f \in Articles : Cles(tri, f) \in [1..n -> Int]
                        /\ \A f, g \in Articles : f # g => Cles(tri, f) # Cles(tri, g)
<1>1. PICK idDe : idDe = [f \in Articles |-> IF tri = "date_asc" THEN Decrit[f].id ELSE -Decrit[f].id]
  OBVIOUS
<1>2. \A f, g \in Articles : f # g => idDe[f] # idDe[g]
  <2>1. \A f \in Articles : Decrit[f].id \in Nat
    BY FicheType DEF Fiche
  <2>2. SUFFICES ASSUME NEW f \in Articles, NEW g \in Articles, f # g PROVE idDe[f] # idDe[g]
    OBVIOUS
  <2>3. PICK x \in Nat : x = Decrit[f].id
    BY <2>1
  <2>4. PICK y \in Nat : y = Decrit[g].id
    BY <2>1
  <2>5. x # y
    BY <2>2, <2>3, <2>4, RechercheOk
  <2>6. idDe[f] = (IF tri = "date_asc" THEN x ELSE -x) /\ idDe[g] = (IF tri = "date_asc" THEN y ELSE -y)
    BY <1>1, <2>3, <2>4
  <2> QED
    BY <2>5, <2>6
<1>3. \A f \in Articles : idDe[f] \in Int
  BY <1>1, FicheType DEF Fiche
<1>4. PICK n \in Nat : \A f \in Articles : ClesSansId(tri, f) \in [1..n -> Int]
  <2>1. CASE tri = "pertinence" /\ filtre.texte
    <3>1. ASSUME NEW f \in Articles PROVE ClesSansId(tri, f) \in [1..3 -> Int]
      <4>1. PICK p \in Fiche : p = Decrit[f]
        BY FicheType
      <4>2. p.palier \in Int /\ -p.proximite \in Int /\ -p.date \in Int
        BY DEF Fiche
      <4>3. ClesSansId(tri, f) = <<p.palier, -p.proximite, -p.date>>
        BY <2>1, <4>1 DEF ClesSansId
      <4> QED
        BY <4>2, <4>3
    <3> QED
      BY <3>1
  <2>2. CASE tri \in {"prix_asc", "prix_desc"}
    <3>1. ASSUME NEW f \in Articles PROVE ClesSansId(tri, f) \in [1..2 -> Int]
      <4>1. PICK p \in Fiche : p = Decrit[f]
        BY FicheType
      <4>2. p.prix \in Int /\ -p.prix \in Int /\ -p.date \in Int
        BY DEF Fiche
      <4>3. ClesSansId(tri, f) = <<p.prix, -p.date>> \/ ClesSansId(tri, f) = <<-p.prix, -p.date>>
        BY <2>2, <4>1 DEF ClesSansId
      <4> QED
        BY <4>2, <4>3
    <3> QED
      BY <3>1
  <2>3. CASE ~(tri = "pertinence" /\ filtre.texte) /\ tri \notin {"prix_asc", "prix_desc"}
    <3>1. ASSUME NEW f \in Articles PROVE ClesSansId(tri, f) \in [1..1 -> Int]
      <4>1. PICK p \in Fiche : p = Decrit[f]
        BY FicheType
      <4>2. p.date \in Int /\ -p.date \in Int
        BY DEF Fiche
      <4>3. ClesSansId(tri, f) = <<p.date>> \/ ClesSansId(tri, f) = <<-p.date>>
        BY <2>3, <4>1 DEF ClesSansId
      <4> QED
        BY <4>2, <4>3
    <3> QED
      BY <3>1
  <2> QED
    BY <2>1, <2>2, <2>3
<1>5. ASSUME NEW f \in Articles
      PROVE  Cles(tri, f) \in [1..(n + 1) -> Int] /\ Cles(tri, f)[n + 1] = idDe[f]
  <2>1. PICK s : s = ClesSansId(tri, f)
    OBVIOUS
  <2>2. s \in Seq(Int) /\ Len(s) = n
    BY <1>4, <2>1
  <2>3. Cles(tri, f) = Append(s, idDe[f])
    BY <1>1, <2>1 DEF Cles
  <2>4. Append(s, idDe[f]) \in Seq(Int) /\ Len(Append(s, idDe[f])) = n + 1 /\ Append(s, idDe[f])[n + 1] = idDe[f]
    BY <1>3, <2>2, AppendProperties
  <2>5. PICK c \in Seq(Int) : c = Cles(tri, f)
    BY <2>3, <2>4
  <2>6. c \in [1..Len(c) -> Int]
    BY <2>5
  <2> QED
    BY <2>3, <2>4, <2>5, <2>6
<1>6. \A f, g \in Articles : f # g => Cles(tri, f) # Cles(tri, g)
  BY <1>2, <1>5
<1> QED
  BY <1>5, <1>6

\* The orders of S list each of its products once.
LEMMA OrdreListe ==
  ASSUME NEW S, S \subseteq Articles, NEW o \in Ordres(S)
  PROVE  /\ Cardinality(S) \in Nat /\ o \in Seq(S) /\ Len(o) = Cardinality(S)
         /\ o \in [1..Cardinality(S) -> S]
         /\ \A i, j \in 1..Len(o) : i # j => o[i] # o[j]
         /\ \A f \in S : \E i \in 1..Len(o) : o[i] = f
         /\ \A i, j \in 1..Len(o) : i < j => ~Precede(Cles(filtre.tri, o[j]), Cles(filtre.tri, o[i]))
<1>1. IsFiniteSet(S)
  BY RechercheOk, FS_Subset
<1>2. PICK n \in Nat : n = Cardinality(S)
  BY <1>1, FS_CardinalityType
<1>3. o \in [1..n -> S] /\ \A i, j \in 1..n : i # j => o[i] # o[j]
  BY <1>2 DEF Ordres, SetToSeqs
<1>4. o \in Seq(S) /\ Len(o) = n /\ DOMAIN o = 1..n
  BY <1>3
<1>5. \A i, j \in 1..n : i < j => ~Precede(Cles(filtre.tri, o[j]), Cles(filtre.tri, o[i]))
  BY <1>4 DEF Ordres
<1>6. o \in Injection(1..n, S)
  BY <1>3 DEF Injection, IsInjective
<1>7. IsFiniteSet(1..n) /\ Cardinality(1..n) = n
  BY FS_Interval
<1>8. o \in Surjection(1..n, S)
  BY <1>1, <1>2, <1>6, <1>7, FS_Injection
<1>9. \A f \in S : \E i \in 1..n : o[i] = f
  BY <1>8 DEF Surjection
<1> QED
  BY <1>2, <1>3, <1>4, <1>5, <1>9

\* The keys leave one order.
LEMMA OrdreUnique ==
  ASSUME NEW S, S \subseteq Articles, NEW a \in Ordres(S), NEW b \in Ordres(S)
  PROVE  a = b
<1>1. PICK n \in Nat : n = Cardinality(S)
  BY OrdreListe
<1>2. /\ a \in [1..n -> S] /\ b \in [1..n -> S]
      /\ \A i, j \in 1..n : i # j => a[i] # a[j] /\ b[i] # b[j]
      /\ \A f \in S : (\E i \in 1..n : a[i] = f) /\ (\E i \in 1..n : b[i] = f)
      /\ \A i, j \in 1..n : i < j => ~Precede(Cles(filtre.tri, a[j]), Cles(filtre.tri, a[i]))
      /\ \A i, j \in 1..n : i < j => ~Precede(Cles(filtre.tri, b[j]), Cles(filtre.tri, b[i]))
  <2>1. /\ a \in [1..n -> S] /\ Len(a) = n
        /\ \A i, j \in 1..Len(a) : i # j => a[i] # a[j]
        /\ \A f \in S : \E i \in 1..Len(a) : a[i] = f
        /\ \A i, j \in 1..Len(a) : i < j => ~Precede(Cles(filtre.tri, a[j]), Cles(filtre.tri, a[i]))
    BY <1>1, OrdreListe
  <2>2. /\ b \in [1..n -> S] /\ Len(b) = n
        /\ \A i, j \in 1..Len(b) : i # j => b[i] # b[j]
        /\ \A f \in S : \E i \in 1..Len(b) : b[i] = f
        /\ \A i, j \in 1..Len(b) : i < j => ~Precede(Cles(filtre.tri, b[j]), Cles(filtre.tri, b[i]))
    BY <1>1, OrdreListe
  <2> QED
    BY <2>1, <2>2
<1>3. SUFFICES ASSUME \E i \in 1..n : a[i] # b[i] PROVE FALSE
  <2> SUFFICES ASSUME \A i \in 1..n : a[i] = b[i] PROVE a = b
    BY <1>3
  <2>1. a = [i \in 1..n |-> a[i]] /\ b = [i \in 1..n |-> b[i]]
    BY <1>2
  <2> QED
    BY <2>1
<1>4. PICK i \in 1..n : a[i] # b[i] /\ \A j \in 1..(i - 1) : a[j] = b[j]
  <2> DEFINE D == {i \in 1..n : a[i] # b[i]}
  <2>1. D # {}
    BY <1>3
  <2>2. D \subseteq Nat
    OBVIOUS
  <2>3. PICK i \in D : \A j \in D : i <= j
    <3> HIDE DEF D
    <3> QED
      BY <2>1, <2>2, PlusPetit
  <2>4. \A j \in 1..(i - 1) : j \in 1..n /\ j \notin D
    BY <2>3
  <2> QED
    BY <2>3, <2>4
<1>5. a[i] \in S /\ b[i] \in S
  BY <1>2
<1>6. PICK k \in 1..n : a[k] = b[i]
  BY <1>2, <1>5
<1>7. PICK l \in 1..n : b[l] = a[i]
  BY <1>2, <1>5
<1>8. i < k
  <2>1. k # i
    BY <1>4, <1>6
  <2>2. ~(k < i)
    <3>1. SUFFICES ASSUME k < i PROVE FALSE
      OBVIOUS
    <3>2. k \in 1..(i - 1)
      BY <3>1
    <3> QED
      BY <1>2, <1>4, <1>6, <2>1, <3>2
  <2> QED
    BY <2>1, <2>2
<1>9. i < l
  <2>1. l # i
    BY <1>4, <1>7
  <2>2. ~(l < i)
    <3>1. SUFFICES ASSUME l < i PROVE FALSE
      OBVIOUS
    <3>2. l \in 1..(i - 1)
      BY <3>1
    <3> QED
      BY <1>2, <1>4, <1>7, <2>1, <3>2
  <2> QED
    BY <2>1, <2>2
<1>10. ~Precede(Cles(filtre.tri, b[i]), Cles(filtre.tri, a[i]))
  BY <1>2, <1>6, <1>8
<1>11. ~Precede(Cles(filtre.tri, a[i]), Cles(filtre.tri, b[i]))
  BY <1>2, <1>7, <1>9
<1>12. PICK m \in Nat : /\ \A f \in Articles : Cles(filtre.tri, f) \in [1..m -> Int]
                        /\ \A f, g \in Articles : f # g => Cles(filtre.tri, f) # Cles(filtre.tri, g)
  BY ClesForme
<1>13. PICK x \in [1..m -> Int], y \in [1..m -> Int] :
         x = Cles(filtre.tri, a[i]) /\ y = Cles(filtre.tri, b[i]) /\ x # y
  BY <1>4, <1>5, <1>12
<1>14. Precede(x, y) \/ Precede(y, x)
  BY <1>13, PrecedeTotal
<1> QED
  BY <1>10, <1>11, <1>13, <1>14

-----------------------------------------------------------------------------
\* The pages of an order, put one after the other

LEMMA MinDeDeux ==
  ASSUME NEW a \in Int, NEW b \in Int
  PROVE  Min({a, b}) \in {a, b} /\ Min({a, b}) <= a /\ Min({a, b}) <= b
<1>1. \E x \in {a, b} : \A y \in {a, b} : x <= y
  <2>1. CASE a <= b
    BY <2>1
  <2>2. CASE b <= a
    BY <2>2
  <2> QED
    BY <2>1, <2>2
<1>2. Min({a, b}) \in {a, b} /\ \A y \in {a, b} : Min({a, b}) <= y
  BY <1>1 DEF Min
<1> QED
  BY <1>2

LEMMA MemesElements ==
  ASSUME NEW S, NEW s \in Seq(S), NEW t \in Seq(S), Len(s) = Len(t), \A i \in 1..Len(s) : s[i] = t[i]
  PROVE  s = t
<1>1. s = [i \in 1..Len(s) |-> s[i]] /\ t = [i \in 1..Len(t) |-> t[i]]
  OBVIOUS
<1> QED
  BY <1>1

\* The first n pages are the beginning of the order.
LEMMA JusquaFaits ==
  ASSUME NEW S, NEW o \in Seq(S), NEW n \in Nat
  PROVE  /\ n * TailleDePage \in Nat
         /\ Jusqua(o, n) \in Seq(S)
         /\ Len(Jusqua(o, n)) \in {n * TailleDePage, Len(o)}
         /\ Len(Jusqua(o, n)) <= n * TailleDePage /\ Len(Jusqua(o, n)) <= Len(o)
         /\ Len(Jusqua(o, n)) = Min({n * TailleDePage, Len(o)})
         /\ \A i \in 1..Len(Jusqua(o, n)) : Jusqua(o, n)[i] = o[i]
<1>1. PICK p \in Nat : p = n * TailleDePage
  BY RechercheOk
<1>2. PICK k \in Nat : k = Min({p, Len(o)}) /\ k \in {p, Len(o)} /\ k <= p /\ k <= Len(o)
  <2>1. Len(o) \in Nat
    OBVIOUS
  <2> QED
    BY <2>1, MinDeDeux
<1>3. \A i \in 1..k : o[i] \in S
  BY <1>2
<1>4. PICK j : j = SubSeq(o, 1, k)
  OBVIOUS
<1>5. j \in Seq(S) /\ Len(j) = (IF 1 <= k THEN k - 1 + 1 ELSE 0) /\ \A i \in 1..(k - 1 + 1) : j[i] = o[1 + i - 1]
  <2>1. 1 \in Int /\ k \in Int
    OBVIOUS
  <2> HIDE <1>1, <1>2
  <2> QED
    BY <1>3, <1>4, <2>1, SubSeqProperties
<1>6. Len(j) = k
  BY <1>2, <1>5
<1>7. ASSUME NEW i \in 1..k PROVE j[i] = o[i]
  <2>1. j[i] = o[1 + i - 1] /\ 1 + i - 1 = i
    BY <1>5
  <2> QED
    BY <2>1
<1>8. Jusqua(o, n) = j
  BY <1>1, <1>2, <1>4 DEF Jusqua
<1> QED
  BY <1>1, <1>2, <1>5, <1>6, <1>7, <1>8

LEMMA JusquaZero ==
  ASSUME NEW S, NEW o \in Seq(S)
  PROVE  Jusqua(o, 0) = <<>>
<1>1. 0 * TailleDePage = 0
  BY RechercheOk
<1>2. PICK n \in Nat : n = 0
  OBVIOUS
<1>3. PICK j \in Seq(S) : j = Jusqua(o, n) /\ Len(j) <= n * TailleDePage
  BY JusquaFaits
<1>4. Len(j) = 0
  BY <1>1, <1>2, <1>3
<1> QED
  BY <1>2, <1>3, <1>4, EmptySeq

LEMMA ProduitSuivant == ASSUME NEW n \in Nat, NEW t \in Nat PROVE (n + 1) * t = n * t + t
OBVIOUS

\* A page continues the pages before it.
LEMMA PageSuivante ==
  ASSUME NEW S, NEW o \in Seq(S), NEW n \in Nat
  PROVE  Jusqua(o, n + 1) = Jusqua(o, n) \o Page(o, n + 1)
<1>0. PICK m \in Nat : m = n + 1
  OBVIOUS
<1>1. PICK j \in Seq(S) : j = Jusqua(o, n)
  BY JusquaFaits
<1>2. PICK l \in Seq(S) : l = Jusqua(o, m)
  BY JusquaFaits
<1>3. PICK t \in Nat \ {0} : t = TailleDePage
  BY RechercheOk
<1>4. PICK p \in Nat : p = n * t
  BY <1>3
<1>5. m * t = p + t
  BY <1>0, <1>3, <1>4, ProduitSuivant
<1>6. /\ Len(j) \in {p, Len(o)} /\ Len(j) <= p /\ Len(j) <= Len(o)
      /\ \A i \in 1..Len(j) : j[i] = o[i]
  BY <1>1, <1>3, <1>4, JusquaFaits
<1>7. /\ Len(l) \in {p + t, Len(o)} /\ Len(l) <= p + t /\ Len(l) <= Len(o)
      /\ \A i \in 1..Len(l) : l[i] = o[i]
  <2>1. m * TailleDePage = p + t
    BY <1>3, <1>5
  <2>2. /\ Len(Jusqua(o, m)) \in {m * TailleDePage, Len(o)}
        /\ Len(Jusqua(o, m)) <= m * TailleDePage /\ Len(Jusqua(o, m)) <= Len(o)
        /\ \A i \in 1..Len(Jusqua(o, m)) : Jusqua(o, m)[i] = o[i]
    BY JusquaFaits
  <2> QED
    BY <1>2, <2>1, <2>2
<1>8. Page(o, m) = SubSeq(l, p + 1, Len(l))
  <2>1. (m - 1) * TailleDePage = p
    <3>1. m - 1 = n
      BY <1>0
    <3> QED
      BY <1>3, <1>4, <3>1
  <2> QED
    BY <1>2, <2>1 DEF Page
<1>9. Len(j) \in Nat /\ Len(l) \in Nat /\ Len(o) \in Nat
  OBVIOUS
<1>10. PICK q : q = SubSeq(l, p + 1, Len(l))
  OBVIOUS
<1>11. /\ q \in Seq(S) /\ Len(q) = (IF p + 1 <= Len(l) THEN Len(l) - (p + 1) + 1 ELSE 0)
       /\ \A i \in 1..(Len(l) - (p + 1) + 1) : q[i] = l[p + 1 + i - 1]
  <2>1. \A i \in (p + 1)..Len(l) : l[i] \in S
    BY <1>4
  <2>2. p + 1 \in Int /\ Len(l) \in Int
    BY <1>9
  <2> QED
    BY <1>10, <2>1, <2>2, SubSeqProperties
<1>12. /\ j \o q \in Seq(S) /\ Len(j \o q) = Len(j) + Len(q)
       /\ \A i \in 1..(Len(j) + Len(q)) : (j \o q)[i] = IF i <= Len(j) THEN j[i] ELSE q[i - Len(j)]
  BY <1>11, ConcatProperties
<1>13. CASE Len(j) = p
  <2>1. p <= Len(l)
    BY <1>3, <1>6, <1>7, <1>9, <1>13
  <2>2. Len(q) = Len(l) - p
    BY <1>9, <1>11, <2>1
  <2>3. Len(j \o q) = Len(l)
    BY <1>9, <1>12, <1>13, <2>2
  <2>4. ASSUME NEW i \in 1..Len(l) PROVE (j \o q)[i] = l[i]
    <3>1. i \in 1..(Len(j) + Len(q))
      BY <1>9, <1>12, <2>3
    <3>2. CASE i <= p
      <4>1. (j \o q)[i] = j[i] /\ j[i] = o[i] /\ l[i] = o[i]
        BY <1>6, <1>7, <1>12, <1>13, <3>1, <3>2
      <4> QED
        BY <4>1
    <3>3. CASE i > p
      <4>1. PICK d \in Nat : d = i - p
        BY <1>4, <3>3
      <4>2. (j \o q)[i] = q[d]
        BY <1>12, <1>13, <3>1, <3>3, <4>1
      <4>3. d \in 1..(Len(l) - (p + 1) + 1)
        BY <1>9, <3>3, <4>1
      <4>4. PICK e : e = p + 1 + d - 1 /\ q[d] = l[e]
        BY <1>11, <4>3
      <4>5. e = i
        BY <1>4, <4>1, <4>4
      <4> QED
        BY <4>2, <4>4, <4>5
    <3>4. i <= p \/ i > p
      BY <1>4, <1>9
    <3> QED
      BY <3>2, <3>3, <3>4
  <2>5. j \o q = l
    BY <1>12, <2>3, <2>4, MemesElements
  <2> QED
    BY <1>0, <1>1, <1>2, <1>8, <1>10, <2>5
<1>14. CASE Len(j) # p
  <2>1. Len(j) = Len(o) /\ Len(o) < p
    BY <1>6, <1>9, <1>14
  <2>2. Len(l) = Len(o)
    BY <1>3, <1>7, <1>9, <2>1
  <2>3. Len(q) = 0
    BY <1>9, <1>11, <2>1, <2>2
  <2>4. q = <<>>
    BY <1>11, <2>3, EmptySeq
  <2>5. j = l
    BY <1>6, <1>7, <2>1, <2>2, MemesElements
  <2>6. j \o q = j
    BY <2>4, ConcatEmptySeq
  <2> QED
    BY <1>0, <1>1, <1>2, <1>8, <1>10, <2>5, <2>6
<1> QED
  BY <1>13, <1>14

-----------------------------------------------------------------------------
\* The ranges of prices

\* The thresholds increase.
LEMMA SeuilsCroissants ==
  ASSUME NEW i \in 1..Len(PRICE_BOUNDS), NEW j \in 1..Len(PRICE_BOUNDS), i < j
  PROVE  PRICE_BOUNDS[i] < PRICE_BOUNDS[j]
<1>1. PICK b \in Seq(Nat) : b = PRICE_BOUNDS
  BY RechercheOk
<1>2. \A k \in 2..Len(b) : b[k - 1] < b[k]
  BY <1>1, RechercheOk
<1>3. \A k \in 1..Len(b) : b[k] \in Nat
  BY <1>1
<1> DEFINE T == {n \in Nat : i + n + 1 <= Len(b) => b[i] < b[i + n + 1]}
<1>4. 0 \in T
  <2>1. SUFFICES ASSUME i + 0 + 1 <= Len(b) PROVE b[i] < b[i + 0 + 1]
    OBVIOUS
  <2>2. PICK k \in 2..Len(b) : k = i + 0 + 1
    BY <1>1, <2>1
  <2>3. k - 1 = i
    BY <1>1, <2>2
  <2> QED
    BY <1>2, <2>2, <2>3
<1>5. ASSUME NEW n \in Nat, n \in T PROVE n + 1 \in T
  <2>1. SUFFICES ASSUME i + (n + 1) + 1 <= Len(b) PROVE b[i] < b[i + (n + 1) + 1]
    OBVIOUS
  <2>2. PICK k \in 2..Len(b) : k = i + (n + 1) + 1
    BY <1>1, <2>1
  <2>3. PICK l \in 1..Len(b) : l = i + n + 1
    BY <1>1, <2>1
  <2>4. k - 1 = l
    BY <1>1, <2>2, <2>3
  <2>5. b[i] < b[l]
    BY <1>5, <2>3
  <2>6. b[l] < b[k]
    BY <1>2, <2>4
  <2>7. b[i] \in Nat /\ b[l] \in Nat /\ b[k] \in Nat
    BY <1>1, <1>3, <2>2
  <2> QED
    BY SMTT(30), <2>2, <2>5, <2>6, <2>7
<1>6. PICK n \in Nat : n = j - i - 1
  BY <1>1
<1>7. n \in T
  <2> HIDE DEF T
  <2> QED
    BY <1>4, <1>5, Recurrence
<1>8. i + n + 1 = j
  BY <1>1, <1>6
<1> QED
  BY <1>1, <1>7, <1>8

\* A price is in the range that follows the last threshold it reaches.
LEMMA TrancheFaits ==
  ASSUME NEW p \in Nat
  PROVE  \E m \in 1..Len(PRICE_BOUNDS) :
           /\ Tranche(p) = m - 1
           /\ \A i \in 1..Len(PRICE_BOUNDS) : PRICE_BOUNDS[i] <= p <=> i <= m
<1>1. PICK b \in Seq(Nat) : b = PRICE_BOUNDS /\ b # <<>> /\ b[1] = 0
  BY RechercheOk
<1>2. PICK n \in Nat \ {0} : n = Len(b)
  BY <1>1
<1>3. \A k \in 1..n : b[k] \in Nat
  BY <1>1, <1>2
<1>4. \A i, j \in 1..n : i < j => b[i] < b[j]
  BY <1>1, <1>2, SeuilsCroissants
<1> DEFINE T == {k \in 1..n : k < n => p < b[k + 1]}
<1>5. T \subseteq Nat
  OBVIOUS
<1>6. T # {}
  <2>1. n \in T
    OBVIOUS
  <2> QED
    BY <2>1
<1>7. PICK m \in T : \A k \in T : m <= k
  <2> HIDE DEF T
  <2> QED
    BY <1>5, <1>6, PlusPetit
<1>8. m \in 1..n /\ (m < n => p < b[m + 1])
  OBVIOUS
<1>9. b[m] <= p
  <2>1. CASE m = 1
    BY <1>1, <2>1
  <2>2. CASE m # 1
    <3>1. PICK k \in 1..n : k = m - 1 /\ k < n
      BY <1>8, <2>2
    <3>2. k \notin T
      BY <1>7, <1>8, <3>1
    <3>3. ~(p < b[k + 1]) /\ k + 1 = m
      BY <1>8, <3>1, <3>2
    <3> QED
      BY <1>3, <1>8, <3>3
  <2> QED
    BY <2>1, <2>2
<1>10. ASSUME NEW i \in 1..n PROVE b[i] <= p <=> i <= m
  <2>1. b[i] \in Nat /\ b[m] \in Nat
    BY <1>3, <1>8
  <2>2. CASE i <= m
    <3>1. i = m \/ b[i] < b[m]
      BY <1>4, <1>8, <2>2
    <3> QED
      BY <1>9, <2>1, <2>2, <3>1
  <2>3. CASE m < i
    <3>1. PICK k \in 1..n : k = m + 1
      BY <1>8, <2>3
    <3>2. p < b[k] /\ b[k] \in Nat
      BY <1>3, <1>8, <2>3, <3>1
    <3>3. i = k \/ b[k] < b[i]
      BY <1>4, <1>8, <2>3, <3>1
    <3> QED
      BY <1>8, <2>1, <2>3, <3>2, <3>3
  <2> QED
    BY <1>8, <2>2, <2>3
<1>11. {i \in 2..Len(PRICE_BOUNDS) : PRICE_BOUNDS[i] <= p} = 2..m
  BY <1>1, <1>2, <1>8, <1>10
<1>12. Cardinality(2..m) = m - 1
  BY <1>8, FS_Interval
<1> QED
  BY <1>1, <1>2, <1>8, <1>10, <1>11, <1>12 DEF Tranche

\* The facets of a set of products are right.
LEMMA FacettesDe ==
  ASSUME NEW lot, lot \subseteq Articles, NEW t \in _price_ranges(lot)
  PROVE  t.nombre = Cardinality({f \in lot :
           t.min <= Decrit[f].prix /\ (t.fin <= Len(PRICE_BOUNDS) => Decrit[f].prix < PRICE_BOUNDS[t.fin])})
<1>1. PICK g \in lot : t = [min |-> PRICE_BOUNDS[Tranche(Decrit[g].prix) + 1], fin |-> Tranche(Decrit[g].prix) + 2,
           nombre |-> Cardinality({f \in lot : Tranche(Decrit[f].prix) = Tranche(Decrit[g].prix)})]
  BY DEF _price_ranges
<1>2. \A f \in lot : Decrit[f].prix \in Nat
  BY FicheType DEF Fiche
<1>3. PICK n \in Nat : n = Len(PRICE_BOUNDS)
  BY RechercheOk
<1>4. PICK m \in 1..n : /\ Tranche(Decrit[g].prix) = m - 1
                        /\ \A i \in 1..n : PRICE_BOUNDS[i] <= Decrit[g].prix <=> i <= m
  BY <1>2, <1>3, TrancheFaits
<1>5. t.min = PRICE_BOUNDS[m] /\ t.fin = m + 1
      /\ t.nombre = Cardinality({f \in lot : Tranche(Decrit[f].prix) = m - 1})
  <2>1. m - 1 + 1 = m /\ m - 1 + 2 = m + 1
    OBVIOUS
  <2> QED
    BY <1>1, <1>4, <2>1
<1>6. ASSUME NEW f \in lot
      PROVE  Tranche(Decrit[f].prix) = m - 1
               <=> /\ PRICE_BOUNDS[m] <= Decrit[f].prix
                   /\ m + 1 <= n => Decrit[f].prix < PRICE_BOUNDS[m + 1]
  <2>1. PICK p \in Nat : p = Decrit[f].prix
    BY <1>2
  <2>2. PICK l \in 1..n : Tranche(p) = l - 1 /\ \A i \in 1..n : PRICE_BOUNDS[i] <= p <=> i <= l
    BY <1>3, TrancheFaits
  <2>3. PRICE_BOUNDS[m] <= p <=> m <= l
    BY <2>2
  <2>4. m + 1 <= n => (p < PRICE_BOUNDS[m + 1] <=> ~(m + 1 <= l))
    <3>1. SUFFICES ASSUME m + 1 <= n PROVE p < PRICE_BOUNDS[m + 1] <=> ~(m + 1 <= l)
      OBVIOUS
    <3>2. PICK k \in 1..n : k = m + 1
      BY <3>1
    <3>3. PRICE_BOUNDS[k] \in Nat
      <4>1. PICK b \in Seq(Nat) : b = PRICE_BOUNDS
        BY RechercheOk
      <4> QED
        BY <1>3, <4>1
    <3>4. PRICE_BOUNDS[k] <= p <=> k <= l
      BY <2>2
    <3> QED
      BY <3>2, <3>3, <3>4
  <2>5. Tranche(p) = m - 1 <=> m = l
    BY <2>2
  <2>6. m = l <=> m <= l /\ (m + 1 <= n => ~(m + 1 <= l))
    OBVIOUS
  <2> QED
    BY <2>1, <2>3, <2>4, <2>5, <2>6
<1>7. {f \in lot : Tranche(Decrit[f].prix) = m - 1}
        = {f \in lot : t.min <= Decrit[f].prix
                       /\ (t.fin <= Len(PRICE_BOUNDS) => Decrit[f].prix < PRICE_BOUNDS[t.fin])}
  BY <1>3, <1>5, <1>6
<1> QED
  BY <1>5, <1>7

-----------------------------------------------------------------------------
\* The pages counted

LEMMA ProduitOrdonne ==
  ASSUME NEW a \in Nat, NEW b \in Nat, a <= b, NEW t \in Nat
  PROVE  a * t <= b * t
<1>1. PICK d \in Nat : b = a + d
  <2>1. b - a \in Nat /\ b = a + (b - a)
    OBVIOUS
  <2> QED
    BY <2>1
<1>2. b * t = a * t + d * t
  BY <1>1
<1>3. a * t \in Nat /\ d * t \in Nat
  BY <1>1
<1> QED
  BY <1>2, <1>3

\* A visit that has no page left has seen as many as there are products.
LEMMA DerniereVue ==
  ASSUME NEW compte, compte.n \in Nat, NEW p \in Nat, p >= 1, ~(p < NombreDePages(compte))
  PROVE  compte.n <= p * TailleDePage
<1>1. PICK t \in Nat \ {0} : t = TailleDePage
  BY RechercheOk
<1>2. PICK n \in Nat : n = compte.n
  OBVIOUS
<1>3. p * t \in Nat
  OBVIOUS
<1>4. CASE n = 0
  BY <1>1, <1>2, <1>3, <1>4
<1>5. CASE n # 0
  <2>1. PICK x \in Nat : x = n + t - 1
    BY <1>5
  <2>2. PICK q : q = x \div t
    OBVIOUS
  <2>3. q \in Nat /\ x < t * q + t
    BY <2>2
  <2>4. NombreDePages(compte) = q
    BY <1>1, <1>2, <1>5, <2>1, <2>2 DEF NombreDePages
  <2>5. q <= p
    BY <2>3, <2>4
  <2>6. q * t <= p * t
    BY <2>3, <2>5, ProduitOrdonne
  <2>7. t * q = q * t /\ q * t \in Nat
    BY <2>3
  <2> QED
    BY <1>1, <1>2, <1>3, <2>1, <2>3, <2>6, <2>7
<1> QED
  BY <1>4, <1>5

-----------------------------------------------------------------------------
\* The invariant of the search

EtapesVisite == {"libre", "resume", "decompte", "calcul_resume", "calcul_decompte", "page"}

Comptage == [n : Nat, age : Int, la : Int]

Visite ==
  [etape : EtapesVisite, page : Nat, compte : Comptage, vus : Seq(Articles), intacte : BOOLEAN, suite : BOOLEAN]

\* Page by page, a visit that nothing disturbs has seen the beginning of the
\* one order there is; O are the orders of the products found, N their number.
ListeSuivie(r, O, N) ==
  r.intacte =>
    /\ r.etape = "page" => r.compte.n = N
    /\ r.etape = "libre" /\ r.page > 0 =>
         /\ \E o \in O : r.vus = Jusqua(o, r.page)
         /\ ~r.suite => N <= r.page * TailleDePage \/ r.page = DernierePage
    /\ r.etape # "libre" =>
         \/ r.page = 1 /\ r.vus = <<>>
         \/ r.page >= 2 /\ \E o \in O : r.vus = Jusqua(o, r.page - 1)

\* The first page counts on the facets, the others on the total.
PagesJustes(r) ==
  /\ r.page <= DernierePage
  /\ r.page = 0 => r.etape = "libre"
  /\ r.suite => r.page >= 1
  /\ r.etape \in {"resume", "calcul_resume"} => r.page = 1
  /\ r.etape \in {"decompte", "calcul_decompte"} => r.page >= 2
  /\ r.compte.age <= (IF r.page = 1 THEN TTL ELSE 2 * TTL)

VisiteJuste(r, O, N) == ListeSuivie(r, O, N) /\ PagesJustes(r)

\* The two entries of the cache, and how old what they say is.
CachesJustes ==
  /\ resume \in [lot : SUBSET Articles, age : Int] /\ resume.age <= TTL
  /\ decompte \in Comptage /\ decompte.la <= TTL /\ decompte.age <= decompte.la + TTL

RechercheInv ==
  /\ publics \subseteq Articles /\ CachesJustes
  /\ visites \in [Visiteurs -> Visite]
  /\ \A v \in Visiteurs : VisiteJuste(visites[v], Ordres(Selection), Cardinality(Selection))

LEMMA AilleursJuste ==
  ASSUME NEW O, NEW N
  PROVE  Ailleurs \in Visite /\ VisiteJuste(Ailleurs, O, N)
<1>1. TTL \in Nat /\ DernierePage \in Nat
  BY RechercheOk
<1>2. SansDecompte \in Comptage /\ SansDecompte.age = -1
  BY DEF SansDecompte, Comptage
<1>3. <<>> \in Seq(Articles)
  OBVIOUS
<1>4. PICK r : r = Ailleurs
  OBVIOUS
<1>5. /\ r = [etape |-> "libre", page |-> 0, compte |-> SansDecompte, vus |-> <<>>, intacte |-> TRUE, suite |-> FALSE]
  BY <1>4 DEF Ailleurs
<1>6. r \in Visite
  BY <1>2, <1>3, <1>5 DEF Visite, EtapesVisite
<1>7. /\ r.etape = "libre" /\ r.page = 0 /\ r.compte.age = -1 /\ r.suite = FALSE
  BY <1>2, <1>5
<1>8. ListeSuivie(r, O, N)
  BY <1>7 DEF ListeSuivie
<1>9. PagesJustes(r)
  BY <1>1, <1>7 DEF PagesJustes
<1> QED
  BY <1>4, <1>6, <1>8, <1>9 DEF VisiteJuste

LEMMA MemeSelection ==
  ASSUME UNCHANGED <<filtre, publics>>
  PROVE  Selection' = Selection /\ Ordres(Selection)' = Ordres(Selection)
<1>1. Selection' = Selection
  BY DEF Selection, Correspond
<1>2. ASSUME NEW S PROVE Ordres(S)' = Ordres(S)
  BY DEF Ordres, Cles, ClesSansId
<1> QED
  BY <1>1, <1>2

\* A step of one visitor.
LEMMA UneVisite ==
  ASSUME RechercheInv, UNCHANGED <<filtre, publics>>, CachesJustes', NEW v \in Visiteurs, NEW r \in Visite,
         VisiteJuste(r, Ordres(Selection), Cardinality(Selection)), visites' = [visites EXCEPT ![v] = r]
  PROVE  RechercheInv'
<1>1. visites' \in [Visiteurs -> Visite]
  BY DEF RechercheInv
<1>2. PICK O : O = Ordres(Selection) /\ O = Ordres(Selection)'
  BY MemeSelection
<1>3. PICK N : N = Cardinality(Selection) /\ N = Cardinality(Selection)'
  BY MemeSelection
<1>4. ASSUME NEW u \in Visiteurs PROVE VisiteJuste(visites'[u], O, N)
  <2>1. visites'[u] = r \/ visites'[u] = visites[u]
    BY DEF RechercheInv
  <2> QED
    BY <1>2, <1>3, <2>1 DEF RechercheInv
<1>5. publics' \subseteq Articles
  BY DEF RechercheInv
<1>6. \A u \in Visiteurs : VisiteJuste(visites[u], Ordres(Selection), Cardinality(Selection))'
  <2> SUFFICES ASSUME NEW u \in Visiteurs PROVE VisiteJuste(visites[u], Ordres(Selection), Cardinality(Selection))'
    OBVIOUS
  <2>1. VisiteJuste(visites'[u], O, N)
    BY <1>4
  <2> QED
    BY <1>2, <1>3, <2>1 DEF VisiteJuste, ListeSuivie, PagesJustes
<1> QED
  BY <1>1, <1>5, <1>6 DEF RechercheInv

LEMMA RechercheDepart == RechercheInit => RechercheInv
<1> SUFFICES ASSUME RechercheInit PROVE RechercheInv
  OBVIOUS
<1>1. TTL \in Nat
  BY RechercheOk
<1>2. CachesJustes
  BY <1>1 DEF RechercheInit, CachesJustes, SansResume, SansDecompte, Comptage
<1>3. visites \in [Visiteurs -> Visite]
  BY AilleursJuste DEF RechercheInit
<1>4. \A v \in Visiteurs : VisiteJuste(visites[v], Ordres(Selection), Cardinality(Selection))
  <2> SUFFICES ASSUME NEW v \in Visiteurs PROVE VisiteJuste(visites[v], Ordres(Selection), Cardinality(Selection))
    OBVIOUS
  <2>1. visites[v] = Ailleurs
    BY DEF RechercheInit
  <2> QED
    BY <2>1, AilleursJuste
<1> QED
  BY <1>2, <1>3, <1>4 DEF RechercheInit, RechercheInv

\* What a visit is, taken apart.
LEMMA VisiteDe ==
  ASSUME RechercheInv, NEW v \in Visiteurs
  PROVE  /\ visites[v] \in Visite /\ VisiteJuste(visites[v], Ordres(Selection), Cardinality(Selection))
         /\ TTL \in Nat /\ DernierePage \in Nat \ {0}
BY RechercheOk DEF RechercheInv

LEMMA DemanderPageJuste ==
  ASSUME RechercheInv, NEW v \in Visiteurs, DemanderPage(v)
  PROVE  RechercheInv'
<1>1. PICK O : O = Ordres(Selection)
  OBVIOUS
<1>2. PICK N : N = Cardinality(Selection)
  OBVIOUS
<1>3. PICK r \in Visite : r = visites[v] /\ VisiteJuste(r, O, N)
  BY <1>1, <1>2, VisiteDe
<1>4. TTL \in Nat /\ DernierePage \in Nat \ {0}
  BY RechercheOk
<1>5. UNCHANGED <<filtre, publics>> /\ CachesJustes'
  BY DEF DemanderPage, RechercheInv, CachesJustes
<1>6. r.etape = "libre"
  BY <1>3 DEF DemanderPage
<1>7. CASE visites' = [visites EXCEPT ![v] = [Ailleurs EXCEPT !.page = 1, !.etape = "resume"]]
  <2>1. PICK n : n = [Ailleurs EXCEPT !.page = 1, !.etape = "resume"]
    OBVIOUS
  <2>2. n = [etape |-> "resume", page |-> 1, compte |-> SansDecompte, vus |-> <<>>, intacte |-> TRUE, suite |-> FALSE]
    BY <2>1 DEF Ailleurs
  <2>3. SansDecompte \in Comptage /\ SansDecompte.age = -1
    BY DEF SansDecompte, Comptage
  <2>4. <<>> \in Seq(Articles)
    OBVIOUS
  <2>5. n \in Visite
    BY <2>2, <2>3, <2>4 DEF Visite, EtapesVisite
  <2>6. n.etape = "resume" /\ n.page = 1 /\ n.vus = <<>> /\ n.compte.age = -1 /\ n.suite = FALSE
    BY <2>2, <2>3
  <2>7. VisiteJuste(n, O, N)
    BY <1>4, <2>6 DEF VisiteJuste, ListeSuivie, PagesJustes
  <2> QED
    BY <1>1, <1>2, <1>5, <1>7, <2>1, <2>5, <2>7, UneVisite
<1>8. CASE /\ r.suite /\ r.page < DernierePage
           /\ visites' = [visites EXCEPT ![v].page = @ + 1, ![v].etape = "decompte"]
  <2>1. PICK n : n = [r EXCEPT !.page = r.page + 1, !.etape = "decompte"]
    OBVIOUS
  <2>2. visites' = [visites EXCEPT ![v] = n]
    BY <1>3, <1>8, <2>1 DEF RechercheInv
  <2>3. PICK p \in Nat : p = r.page
    BY DEF Visite
  <2>4. /\ n.etape = "decompte" /\ n.page = p + 1 /\ n.vus = r.vus /\ n.compte = r.compte
        /\ n.suite = r.suite /\ n.intacte = r.intacte
    BY <2>1, <2>3 DEF Visite
  <2>5. n \in Visite
    <3>1. p + 1 \in Nat /\ r.compte \in Comptage /\ r.vus \in Seq(Articles) /\ r.intacte \in BOOLEAN /\ r.suite \in BOOLEAN
      BY DEF Visite
    <3>2. n = [etape |-> "decompte", page |-> p + 1, compte |-> r.compte, vus |-> r.vus, intacte |-> r.intacte, suite |-> r.suite]
      BY <2>1, <2>3 DEF Visite
    <3> QED
      BY <3>1, <3>2 DEF Visite, EtapesVisite
  <2>6. p >= 1 /\ p < DernierePage
    BY <1>3, <1>8, <2>3 DEF VisiteJuste, PagesJustes
  <2>7. r.compte.age \in Int
    BY DEF Visite, Comptage
  <2>8. PagesJustes(n)
    <3>1. r.compte.age <= (IF p = 1 THEN TTL ELSE 2 * TTL)
      BY <1>3, <2>3 DEF VisiteJuste, PagesJustes
    <3>2. n.compte.age <= 2 * TTL
      BY <1>4, <2>4, <2>7, <3>1
    <3>3. n.page <= DernierePage /\ n.page >= 2 /\ n.page # 1 /\ n.page # 0
      BY <1>4, <2>4, <2>6
    <3> QED
      BY <2>4, <3>2, <3>3 DEF PagesJustes
  <2>9. ListeSuivie(n, O, N)
    <3>1. n.page - 1 = p /\ n.page >= 2
      BY <2>4, <2>6
    <3>2. r.intacte => \E o \in O : r.vus = Jusqua(o, p)
      BY <1>3, <1>6, <2>3, <2>6 DEF VisiteJuste, ListeSuivie
    <3> QED
      BY <2>4, <3>1, <3>2 DEF ListeSuivie
  <2> QED
    BY <1>1, <1>2, <1>5, <2>2, <2>5, <2>8, <2>9, UneVisite DEF VisiteJuste
<1>9. CASE r.suite /\ ~(r.page < DernierePage) /\ visites' = [visites EXCEPT ![v].suite = FALSE]
  <2>1. PICK n : n = [r EXCEPT !.suite = FALSE]
    OBVIOUS
  <2>2. visites' = [visites EXCEPT ![v] = n]
    BY <1>3, <1>9, <2>1 DEF RechercheInv
  <2>3. /\ n.etape = r.etape /\ n.page = r.page /\ n.vus = r.vus /\ n.compte = r.compte
        /\ n.suite = FALSE /\ n.intacte = r.intacte
    BY <2>1 DEF Visite
  <2>4. n \in Visite
    BY <2>1 DEF Visite
  <2>5. n.page = DernierePage
    <3>1. r.page \in Nat /\ r.page <= DernierePage
      BY <1>3 DEF Visite, VisiteJuste, PagesJustes
    <3> QED
      BY <1>4, <1>9, <2>3, <3>1
  <2>6. PagesJustes(n)
    BY <1>3, <2>3 DEF VisiteJuste, PagesJustes
  <2>7. ListeSuivie(n, O, N)
    BY <1>3, <1>6, <2>3, <2>5 DEF VisiteJuste, ListeSuivie
  <2> QED
    BY <1>1, <1>2, <1>5, <2>2, <2>4, <2>6, <2>7, UneVisite DEF VisiteJuste
<1> QED
  BY <1>3, <1>7, <1>8, <1>9 DEF DemanderPage

\* The count is known: the page exists or the visit ends.
LEMMA CompterJuste ==
  ASSUME RechercheInv, NEW v \in Visiteurs, NEW compte \in Comptage, Compter(v, compte),
         UNCHANGED <<filtre, publics>>, CachesJustes',
         visites[v].etape \notin {"libre", "page"},
         compte.age <= (IF visites[v].page = 1 THEN TTL ELSE 2 * TTL)
  PROVE  RechercheInv'
<1>1. PICK O : O = Ordres(Selection)
  OBVIOUS
<1>2. PICK N : N = Cardinality(Selection)
  OBVIOUS
<1>3. PICK r \in Visite : r = visites[v] /\ VisiteJuste(r, O, N)
  BY <1>1, <1>2, VisiteDe
<1>4. CASE r.page > NombreDePages(compte)
  <2>1. visites' = [visites EXCEPT ![v] = Ailleurs]
    BY <1>3, <1>4 DEF Compter
  <2> QED
    BY <2>1, AilleursJuste, UneVisite
<1>5. CASE ~(r.page > NombreDePages(compte))
  <2>1. PICK oui \in BOOLEAN : oui = (compte.n = N)
    OBVIOUS
  <2>2. PICK n : n = [r EXCEPT !.compte = compte, !.etape = "page", !.intacte = r.intacte /\ oui]
    OBVIOUS
  <2>3. visites' = [visites EXCEPT ![v] = n]
    <3>1. visites' = [visites EXCEPT ![v].compte = compte, ![v].etape = "page",
                                     ![v].intacte = @ /\ compte.n = Cardinality(Selection)]
      BY <1>3, <1>5 DEF Compter
    <3> QED
      BY <1>2, <1>3, <2>1, <2>2, <3>1 DEF RechercheInv
  <2>4. r.intacte \in BOOLEAN
    BY DEF Visite
  <2>5. n \in Visite
    BY <2>2, <2>4 DEF Visite, EtapesVisite
  <2>6. /\ n.etape = "page" /\ n.page = r.page /\ n.vus = r.vus /\ n.compte = compte
        /\ n.suite = r.suite /\ n.intacte = (r.intacte /\ oui)
    BY <2>2 DEF Visite
  <2>7. r.page # 0 /\ r.etape \notin {"libre", "page"}
    BY <1>3 DEF VisiteJuste, PagesJustes
  <2>8. PagesJustes(n)
    BY <1>3, <2>6, <2>7 DEF VisiteJuste, PagesJustes
  <2>9. ListeSuivie(n, O, N)
    BY <1>3, <2>1, <2>6, <2>7 DEF VisiteJuste, ListeSuivie
  <2> QED
    BY <1>1, <1>2, <2>3, <2>5, <2>8, <2>9, UneVisite DEF VisiteJuste
<1> QED
  BY <1>4, <1>5

\* What the caches and the base say of the number of products.
LEMMA CompteDuResumeJuste ==
  ASSUME RechercheInv, NEW compte \in CompteDuResume
  PROVE  compte \in Comptage /\ compte.age <= TTL /\ compte.la = 0
<1>1. PICK l \in SUBSET Articles, a \in Int : resume = [lot |-> l, age |-> a] /\ a <= TTL
  BY DEF RechercheInv, CachesJustes
<1>2. IsFiniteSet(l)
  BY RechercheOk, FS_Subset
<1>3. Cardinality(l) \in Nat
  BY <1>2, FS_CardinalityType
<1>4. compte = [n |-> Cardinality(l), age |-> a, la |-> 0]
  BY <1>1 DEF CompteDuResume
<1> QED
  BY <1>1, <1>3, <1>4 DEF Comptage

LEMMA CompteFraisJuste ==
  ASSUME RechercheInv
  PROVE  CompteFrais \in Comptage /\ CompteFrais.age <= TTL /\ CompteFrais.la = 0 /\ Selection \subseteq Articles
<1>1. Selection \subseteq Articles
  BY DEF RechercheInv, Selection
<1>2. Cardinality(Selection) \in Nat
  BY <1>1, RechercheOk, FS_Subset, FS_CardinalityType
<1>3. TTL \in Nat
  BY RechercheOk
<1> QED
  BY <1>1, <1>2, <1>3 DEF CompteFrais, Comptage

\* The step of a visitor that only changes where the visit stands.
LEMMA AllerJuste ==
  ASSUME RechercheInv, NEW v \in Visiteurs, NEW etape \in {"calcul_resume", "calcul_decompte"}, Aller(v, etape),
         UNCHANGED <<filtre, publics, resume, decompte>>,
         visites[v].etape = (IF etape = "calcul_resume" THEN "resume" ELSE "decompte")
  PROVE  RechercheInv'
<1>1. PICK O : O = Ordres(Selection)
  OBVIOUS
<1>2. PICK N : N = Cardinality(Selection)
  OBVIOUS
<1>3. PICK r \in Visite : r = visites[v] /\ VisiteJuste(r, O, N)
  BY <1>1, <1>2, VisiteDe
<1>4. CachesJustes'
  BY DEF RechercheInv, CachesJustes
<1>5. PICK n : n = [r EXCEPT !.etape = etape]
  OBVIOUS
<1>6. visites' = [visites EXCEPT ![v] = n]
  BY <1>3, <1>5 DEF RechercheInv, Aller
<1>7. /\ n.etape = etape /\ n.page = r.page /\ n.vus = r.vus /\ n.compte = r.compte
      /\ n.suite = r.suite /\ n.intacte = r.intacte
  BY <1>5 DEF Visite
<1>8. n \in Visite
  BY <1>5 DEF Visite, EtapesVisite
<1>9. PagesJustes(n)
  BY <1>3, <1>7 DEF VisiteJuste, PagesJustes
<1>10. ListeSuivie(n, O, N)
  BY <1>3, <1>7 DEF VisiteJuste, ListeSuivie
<1> QED
  BY <1>1, <1>2, <1>4, <1>6, <1>8, <1>9, <1>10, UneVisite DEF VisiteJuste

LEMMA LireCacheJuste ==
  ASSUME RechercheInv, NEW v \in Visiteurs, LireCache(v)
  PROVE  RechercheInv'
<1>1. UNCHANGED <<filtre, publics>> /\ CachesJustes'
  BY DEF LireCache, RechercheInv, CachesJustes
<1>2. TTL \in Nat
  BY RechercheOk
<1>3. CASE visites[v].etape = "resume" /\ \E compte \in CompteDuResume : Compter(v, compte)
  <2>1. PICK compte \in CompteDuResume : Compter(v, compte)
    BY <1>3
  <2>2. compte \in Comptage /\ compte.age <= TTL
    BY CompteDuResumeJuste
  <2>3. visites[v].page = 1
    BY <1>3, VisiteDe DEF VisiteJuste, PagesJustes
  <2> QED
    BY <1>1, <1>3, <2>1, <2>2, <2>3, CompterJuste
<1>4. CASE visites[v].etape = "decompte" /\ Compter(v, decompte)
  <2>1. decompte \in Comptage /\ decompte.la <= TTL /\ decompte.age <= decompte.la + TTL
    BY DEF RechercheInv, CachesJustes
  <2>2. decompte.age <= 2 * TTL
    BY <1>2, <2>1 DEF Comptage
  <2>3. visites[v].page # 1
    <3>1. visites[v].page >= 2
      BY <1>4, VisiteDe DEF VisiteJuste, PagesJustes
    <3> QED
      BY <3>1
  <2> QED
    BY <1>1, <1>4, <2>1, <2>2, <2>3, CompterJuste
<1> QED
  BY <1>3, <1>4 DEF LireCache

LEMMA ManquerCacheJuste ==
  ASSUME RechercheInv, NEW v \in Visiteurs, ManquerCache(v)
  PROVE  RechercheInv'
<1>1. UNCHANGED <<filtre, publics, resume, decompte>>
  BY DEF ManquerCache
<1>2. CASE visites[v].etape = "resume"
  BY <1>1, <1>2, AllerJuste DEF ManquerCache
<1>3. CASE visites[v].etape = "decompte"
  BY <1>1, <1>3, AllerJuste DEF ManquerCache
<1> QED
  BY <1>2, <1>3 DEF ManquerCache

LEMMA CalculerResumeJuste ==
  ASSUME RechercheInv, NEW v \in Visiteurs, CalculerResume(v)
  PROVE  RechercheInv'
<1>1. TTL \in Nat
  BY RechercheOk
<1>2. CachesJustes'
  <2>1. decompte' = decompte /\ (resume' = resume \/ resume' = [lot |-> Selection, age |-> 0])
    BY DEF CalculerResume
  <2> QED
    BY <1>1, <2>1, CompteFraisJuste DEF RechercheInv, CachesJustes
<1>3. visites[v].page = 1
  BY VisiteDe DEF VisiteJuste, PagesJustes, CalculerResume
<1> QED
  BY <1>2, <1>3, CompteFraisJuste, CompterJuste DEF CalculerResume

LEMMA CalculerDecompteJuste ==
  ASSUME RechercheInv, NEW v \in Visiteurs, CalculerDecompte(v)
  PROVE  RechercheInv'
<1>1. TTL \in Nat
  BY RechercheOk
<1>2. PICK compte \in CompteDuResume \cup {CompteFrais} :
        Compter(v, compte) /\ (decompte' = decompte \/ decompte' = compte)
  BY DEF CalculerDecompte
<1>3. compte \in Comptage /\ compte.age <= TTL /\ compte.la = 0
  BY CompteDuResumeJuste, CompteFraisJuste
<1>4. CachesJustes'
  <2>1. resume' = resume
    BY DEF CalculerDecompte
  <2>2. compte.age <= compte.la + TTL /\ compte.la <= TTL
    BY <1>1, <1>3
  <2> QED
    BY <1>2, <1>3, <2>1, <2>2 DEF RechercheInv, CachesJustes
<1>5. compte.age <= 2 * TTL
  BY <1>1, <1>3 DEF Comptage
<1> QED
  BY <1>2, <1>3, <1>4, <1>5, CompterJuste DEF CalculerDecompte

LEMMA Echouer503Juste ==
  ASSUME RechercheInv, NEW v \in Visiteurs, Echouer503(v)
  PROVE  RechercheInv'
<1>1. UNCHANGED <<filtre, publics>> /\ CachesJustes'
  BY DEF Echouer503, RechercheInv, CachesJustes
<1> QED
  BY <1>1, AilleursJuste, UneVisite DEF Echouer503

LEMMA ChangerCatalogueJuste ==
  ASSUME RechercheInv, NEW f \in Articles, ChangerCatalogue(f)
  PROVE  RechercheInv'
<1>1. publics' \subseteq Articles /\ CachesJustes'
  BY DEF ChangerCatalogue, RechercheInv, CachesJustes
<1>2. ASSUME NEW v \in Visiteurs, NEW O, NEW N
      PROVE  visites'[v] \in Visite /\ VisiteJuste(visites'[v], O, N)
  <2>1. PICK r \in Visite : r = visites[v] /\ PagesJustes(r)
    BY VisiteDe DEF VisiteJuste
  <2>2. PICK n : n = [r EXCEPT !.intacte = FALSE, !.vus = <<>>]
    OBVIOUS
  <2>3. visites'[v] = n
    BY <2>1, <2>2 DEF ChangerCatalogue
  <2>4. /\ n.etape = r.etape /\ n.page = r.page /\ n.compte = r.compte
        /\ n.suite = r.suite /\ n.intacte = FALSE
    BY <2>2 DEF Visite
  <2>5. <<>> \in Seq(Articles)
    OBVIOUS
  <2>6. n \in Visite
    BY <2>2, <2>5 DEF Visite
  <2>7. PagesJustes(n)
    BY <2>1, <2>4 DEF PagesJustes
  <2>8. ListeSuivie(n, O, N)
    BY <2>4 DEF ListeSuivie
  <2> QED
    BY <2>3, <2>6, <2>7, <2>8 DEF VisiteJuste
<1>3. visites' \in [Visiteurs -> Visite]
  <2>1. visites' = [v \in Visiteurs |-> visites'[v]]
    BY DEF ChangerCatalogue
  <2>2. \A v \in Visiteurs : visites'[v] \in Visite
    BY <1>2
  <2> QED
    BY <2>1, <2>2
<1>4. \A v \in Visiteurs : VisiteJuste(visites[v], Ordres(Selection), Cardinality(Selection))'
  <2> SUFFICES ASSUME NEW v \in Visiteurs PROVE VisiteJuste(visites[v], Ordres(Selection), Cardinality(Selection))'
    OBVIOUS
  <2>1. PICK O : O = Ordres(Selection)'
    OBVIOUS
  <2>2. PICK N : N = Cardinality(Selection)'
    OBVIOUS
  <2>3. VisiteJuste(visites'[v], O, N)
    BY <1>2
  <2> QED
    BY <2>1, <2>2, <2>3 DEF VisiteJuste, ListeSuivie, PagesJustes
<1> QED
  BY <1>1, <1>3, <1>4 DEF RechercheInv

LEMMA LirePageTrouveeJuste ==
  ASSUME RechercheInv, NEW v \in Visiteurs, LirePageTrouvee(v)
  PROVE  RechercheInv'
<1>1. PICK O : O = Ordres(Selection)
  OBVIOUS
<1>2. PICK N : N = Cardinality(Selection)
  OBVIOUS
<1>3. PICK r \in Visite : r = visites[v] /\ VisiteJuste(r, O, N) /\ r.etape = "page"
  <2>1. visites[v].etape = "page"
    BY DEF LirePageTrouvee
  <2> QED
    BY <1>1, <1>2, <2>1, VisiteDe
<1>4. UNCHANGED <<filtre, publics>> /\ CachesJustes'
  BY DEF LirePageTrouvee, RechercheInv, CachesJustes
<1>5. PICK p \in Nat : p = r.page /\ p >= 1
  <2>1. r.page \in Nat /\ r.page # 0
    BY <1>3 DEF Visite, VisiteJuste, PagesJustes
  <2> QED
    BY <2>1
<1>6. PICK suite \in BOOLEAN : suite = (p < NombreDePages(r.compte))
  <2>1. PICK t \in Nat \ {0} : t = TailleDePage
    BY RechercheOk
  <2>2. PICK c \in Nat : c = r.compte.n
    BY DEF Visite, Comptage
  <2>3. PICK q \in Int : q = (c + t - 1) \div t
    OBVIOUS
  <2>4. NombreDePages(r.compte) = 1 \/ NombreDePages(r.compte) = q
    BY <2>1, <2>2, <2>3 DEF NombreDePages
  <2>5. PICK k \in Int : k = NombreDePages(r.compte)
    BY <2>4
  <2>6. PICK oui \in BOOLEAN : oui = (p < k)
    <3>1. (p < k) \in BOOLEAN
      BY <2>5
    <3> QED
      BY <3>1
  <2>7. oui = (p < NombreDePages(r.compte))
    BY <2>5, <2>6
  <2> QED
    BY <2>7
<1>7. PICK o \in O :
        visites' = [visites EXCEPT ![v].etape = "libre",
                                   ![v].vus = IF visites[v].intacte THEN @ \o Page(o, visites[v].page) ELSE <<>>,
                                   ![v].suite = visites[v].page < NombreDePages(visites[v].compte)]
  BY <1>1 DEF LirePageTrouvee
<1>8. PICK vus : vus = IF r.intacte THEN r.vus \o Page(o, p) ELSE <<>>
  OBVIOUS
<1>9. PICK n : n = [r EXCEPT !.etape = "libre", !.vus = vus, !.suite = suite]
  OBVIOUS
<1>10. visites' = [visites EXCEPT ![v] = n]
  BY <1>3, <1>5, <1>6, <1>7, <1>8, <1>9 DEF RechercheInv
<1>11. Selection \subseteq Articles /\ N \in Nat /\ o \in Seq(Articles)
  <2>1. Selection \subseteq Articles
    BY CompteFraisJuste
  <2>2. N \in Nat /\ o \in Seq(Selection)
    BY <1>1, <1>2, <2>1, OrdreListe
  <2> QED
    BY <2>1, <2>2
<1>12. r.intacte => vus = Jusqua(o, p)
  <2>1. SUFFICES ASSUME r.intacte PROVE vus = Jusqua(o, p)
    OBVIOUS
  <2>2. PICK m \in Nat : p = m + 1
    <3>1. p - 1 \in Nat /\ p = (p - 1) + 1
      BY <1>5
    <3> QED
      BY <3>1
  <2>3. r.vus = Jusqua(o, m)
    <3>1. \/ p = 1 /\ r.vus = <<>>
          \/ \E a \in O : r.vus = Jusqua(a, p - 1)
      BY <1>3, <1>5, <2>1 DEF VisiteJuste, ListeSuivie
    <3>2. CASE p = 1 /\ r.vus = <<>>
      <4>1. m = 0
        BY <2>2, <3>2
      <4> QED
        BY <1>11, <3>2, <4>1, JusquaZero
    <3>3. CASE \E a \in O : r.vus = Jusqua(a, p - 1)
      <4>1. PICK a \in O : r.vus = Jusqua(a, p - 1)
        BY <3>3
      <4>2. p - 1 = m
        BY <2>2
      <4>3. a = o
        BY <1>1, <1>11, OrdreUnique
      <4> QED
        BY <4>1, <4>2, <4>3
    <3> QED
      BY <3>1, <3>2, <3>3
  <2>4. Jusqua(o, m + 1) = Jusqua(o, m) \o Page(o, m + 1)
    BY <1>11, PageSuivante
  <2> QED
    BY <1>8, <2>1, <2>2, <2>3, <2>4
<1>13. vus \in Seq(Articles)
  <2>1. Jusqua(o, p) \in Seq(Articles)
    BY <1>11, JusquaFaits
  <2>2. <<>> \in Seq(Articles)
    OBVIOUS
  <2> QED
    BY <1>8, <1>12, <2>1, <2>2
<1>14. /\ n.etape = "libre" /\ n.page = p /\ n.vus = vus /\ n.compte = r.compte
       /\ n.suite = suite /\ n.intacte = r.intacte
  BY <1>5, <1>9 DEF Visite
<1>15. n \in Visite
  BY <1>9, <1>13 DEF Visite, EtapesVisite
<1>16. PagesJustes(n)
  BY <1>3, <1>5, <1>14 DEF VisiteJuste, PagesJustes
<1>17. ListeSuivie(n, O, N)
  <2>1. SUFFICES ASSUME r.intacte
                 PROVE  vus = Jusqua(o, p) /\ (~suite => N <= p * TailleDePage)
    BY <1>14 DEF ListeSuivie
  <2>2. ~suite => N <= p * TailleDePage
    <3>1. r.compte.n = N /\ r.compte.n \in Nat
      BY <1>3, <1>11, <2>1 DEF VisiteJuste, ListeSuivie
    <3>2. ~(p < NombreDePages(r.compte)) => r.compte.n <= p * TailleDePage
      BY <1>5, <3>1, DerniereVue
    <3> QED
      BY <1>6, <3>1, <3>2
  <2> QED
    BY <1>12, <2>1, <2>2
<1> QED
  BY <1>1, <1>2, <1>4, <1>10, <1>15, <1>16, <1>17, UneVisite DEF VisiteJuste

LEMMA PasserDuTempsJuste ==
  ASSUME RechercheInv, PasserDuTemps
  PROVE  RechercheInv'
<1>1. UNCHANGED <<filtre, publics, visites>>
  BY DEF PasserDuTemps
<1>2. TTL \in Nat
  BY RechercheOk
<1>3. CachesJustes'
  <2>1. PICK l \in SUBSET Articles, a \in Int : resume = [lot |-> l, age |-> a] /\ a <= TTL
    BY DEF RechercheInv, CachesJustes
  <2>2. PICK n \in Nat, b \in Int, t \in Int :
          decompte = [n |-> n, age |-> b, la |-> t] /\ t <= TTL /\ b <= t + TTL
    BY DEF RechercheInv, CachesJustes, Comptage
  <2>3. resume' \in [lot : SUBSET Articles, age : Int] /\ resume'.age <= TTL
    <3>1. resume' = SansResume \/ (a # TTL /\ resume' = [lot |-> l, age |-> a + 1])
      BY <2>1 DEF PasserDuTemps, Vieillir
    <3>2. a # TTL => a + 1 \in Int /\ a + 1 <= TTL
      BY <1>2, <2>1
    <3> QED
      BY <1>2, <3>1, <3>2 DEF SansResume
  <2>4. decompte' \in Comptage /\ decompte'.la <= TTL /\ decompte'.age <= decompte'.la + TTL
    <3>1. decompte' = SansDecompte \/ (t # TTL /\ decompte' = [n |-> n, age |-> b + 1, la |-> t + 1])
      BY <2>2 DEF PasserDuTemps, Vieillir
    <3>2. t # TTL => /\ b + 1 \in Int /\ t + 1 \in Int /\ t + 1 <= TTL /\ b + 1 <= (t + 1) + TTL
      BY <1>2, <2>2
    <3>3. SansDecompte \in Comptage /\ SansDecompte.la <= TTL /\ SansDecompte.age <= SansDecompte.la + TTL
      BY <1>2 DEF SansDecompte, Comptage
    <3>4. CASE t # TTL /\ decompte' = [n |-> n, age |-> b + 1, la |-> t + 1]
      BY <3>2, <3>4 DEF Comptage
    <3> QED
      BY <3>1, <3>3, <3>4
  <2> QED
    BY <2>3, <2>4 DEF CachesJustes
<1>4. ASSUME NEW v \in Visiteurs PROVE VisiteJuste(visites[v], Ordres(Selection), Cardinality(Selection))'
  <2>1. PICK O : O = Ordres(Selection) /\ O = Ordres(Selection)'
    BY <1>1, MemeSelection
  <2>2. PICK N : N = Cardinality(Selection) /\ N = Cardinality(Selection)'
    BY <1>1, MemeSelection
  <2>3. VisiteJuste(visites'[v], O, N)
    BY <1>1, <2>1, <2>2, VisiteDe
  <2> QED
    BY <2>1, <2>2, <2>3 DEF VisiteJuste, ListeSuivie, PagesJustes
<1> QED
  BY <1>1, <1>3, <1>4 DEF RechercheInv

LEMMA RechercheImmobile ==
  ASSUME RechercheInv, UNCHANGED rechercheVars
  PROVE  RechercheInv'
<1>1. UNCHANGED <<filtre, publics, resume, decompte, visites>>
  BY DEF rechercheVars
<1>2. ASSUME NEW v \in Visiteurs PROVE VisiteJuste(visites[v], Ordres(Selection), Cardinality(Selection))'
  <2>1. PICK O : O = Ordres(Selection) /\ O = Ordres(Selection)'
    BY <1>1, MemeSelection
  <2>2. PICK N : N = Cardinality(Selection) /\ N = Cardinality(Selection)'
    BY <1>1, MemeSelection
  <2>3. VisiteJuste(visites'[v], O, N)
    BY <1>1, <2>1, <2>2, VisiteDe
  <2> QED
    BY <2>1, <2>2, <2>3 DEF VisiteJuste, ListeSuivie, PagesJustes
<1> QED
  BY <1>1, <1>2 DEF RechercheInv, CachesJustes

\* The invariant holds of every search: whatever the pages asked for, the
\* caches missed or refused and the products shown or hidden in between.
THEOREM Invariance_Recherche == RechercheSpec => []RechercheInv
<1>1. RechercheInit => RechercheInv
  BY RechercheDepart
<1>2. RechercheInv /\ [RechercheNext]_rechercheVars => RechercheInv'
  <2> SUFFICES ASSUME RechercheInv, [RechercheNext]_rechercheVars PROVE RechercheInv'
    OBVIOUS
  <2>1. CASE UNCHANGED rechercheVars
    BY <2>1, RechercheImmobile
  <2>2. CASE PasserDuTemps
    BY <2>2, PasserDuTempsJuste
  <2>3. ASSUME NEW f \in Articles, ChangerCatalogue(f) PROVE RechercheInv'
    BY <2>3, ChangerCatalogueJuste
  <2>4. ASSUME NEW v \in Visiteurs, DemanderPage(v) PROVE RechercheInv'
    BY <2>4, DemanderPageJuste
  <2>5. ASSUME NEW v \in Visiteurs, ManquerCache(v) PROVE RechercheInv'
    BY <2>5, ManquerCacheJuste
  <2>6. ASSUME NEW v \in Visiteurs, CalculerResume(v) PROVE RechercheInv'
    BY <2>6, CalculerResumeJuste
  <2>7. ASSUME NEW v \in Visiteurs, CalculerDecompte(v) PROVE RechercheInv'
    BY <2>7, CalculerDecompteJuste
  <2>8. ASSUME NEW v \in Visiteurs, LireCache(v) PROVE RechercheInv'
    BY <2>8, LireCacheJuste
  <2>9. ASSUME NEW v \in Visiteurs, LirePageTrouvee(v) PROVE RechercheInv'
    BY <2>9, LirePageTrouveeJuste
  <2>10. ASSUME NEW v \in Visiteurs, Echouer503(v) PROVE RechercheInv'
    BY <2>10, Echouer503Juste
  <2> QED
    BY <2>1, <2>2, <2>3, <2>4, <2>5, <2>6, <2>7, <2>8, <2>9, <2>10 DEF RechercheNext
<1> QED
  BY <1>1, <1>2, PTL DEF RechercheSpec

\* The list a visitor went through without a change is that of one order, to its end.
LEMMA ListeEntiere ==
  ASSUME RechercheInv
  PROVE  VisiteComplete
<1> SUFFICES ASSUME NEW v \in Visiteurs, visites[v].etape = "libre", visites[v].intacte, visites[v].page > 0
             PROVE  /\ \E o \in Ordres(Selection) : visites[v].vus = Jusqua(o, visites[v].page)
                    /\ ~visites[v].suite =>
                         Len(visites[v].vus) = Min({Cardinality(Selection), DernierePage * TailleDePage})
  BY DEF VisiteComplete
<1>1. PICK O : O = Ordres(Selection)
  OBVIOUS
<1>2. PICK N : N = Cardinality(Selection)
  OBVIOUS
<1>3. PICK r \in Visite : r = visites[v] /\ VisiteJuste(r, O, N)
  BY <1>1, <1>2, VisiteDe
<1>4. PICK p \in Nat : p = r.page /\ p <= DernierePage
  BY <1>3 DEF Visite, VisiteJuste, PagesJustes
<1>5. PICK o \in O : r.vus = Jusqua(o, p)
  BY <1>3, <1>4 DEF VisiteJuste, ListeSuivie
<1>6. ~r.suite => N <= p * TailleDePage \/ p = DernierePage
  BY <1>3, <1>4 DEF VisiteJuste, ListeSuivie
<1>7. N \in Nat /\ o \in Seq(Selection) /\ Len(o) = N
  BY <1>1, <1>2, CompteFraisJuste, OrdreListe
<1>8. ASSUME ~r.suite PROVE Len(r.vus) = Min({N, DernierePage * TailleDePage})
  <2>1. PICK t \in Nat : t = TailleDePage
    BY RechercheOk
  <2>2. PICK d \in Nat : d = DernierePage
    BY RechercheOk
  <2>3. p * t <= d * t
    BY <1>4, <2>2, ProduitOrdonne
  <2>4. PICK x \in Nat : x = p * t
    OBVIOUS
  <2>5. PICK y \in Nat : y = d * t
    OBVIOUS
  <2>6. Len(r.vus) = Min({x, N})
    BY <1>5, <1>7, <2>1, <2>4, JusquaFaits
  <2>7. x <= y
    BY <2>3, <2>4, <2>5
  <2>8. CASE N <= x
    <3>1. N \in Int /\ x \in Int /\ y \in Int
      BY <1>7
    <3>2. PICK a : a = Min({x, N}) /\ a \in {x, N} /\ a <= x /\ a <= N
      BY <3>1, MinDeDeux
    <3>3. PICK b : b = Min({N, y}) /\ b \in {N, y} /\ b <= N /\ b <= y
      BY <3>1, MinDeDeux
    <3>4. a = N /\ b = N
      BY <2>7, <2>8, <3>1, <3>2, <3>3
    <3> QED
      BY <2>1, <2>2, <2>5, <2>6, <3>2, <3>3, <3>4
  <2>9. CASE p = DernierePage
    <3>1. x = y
      BY <2>2, <2>4, <2>5, <2>9
    <3>2. {x, N} = {N, y}
      BY <3>1
    <3> QED
      BY <2>1, <2>2, <2>5, <2>6, <3>2
  <2>10. N <= x \/ p = DernierePage
    BY <1>6, <1>8, <2>1, <2>4
  <2> QED
    BY <2>8, <2>9, <2>10
<1> QED
  BY <1>1, <1>2, <1>3, <1>4, <1>5, <1>8

\* What the search promises: every list followed page by page to its end shows
\* each product once in one order, no total is older than two lifetimes of the
\* cache, and the price ranges share out the products counted.
THEOREM Recherche_Tenue == RechercheSpec => []RechercheTenue
<1>1. RechercheInv => RechercheTenue
  <2> SUFFICES ASSUME RechercheInv PROVE RechercheTenue
    OBVIOUS
  <2>1. VisiteComplete
    BY ListeEntiere
  <2>2. DecompteBorne
    BY VisiteDe DEF DecompteBorne, VisiteJuste, PagesJustes
  <2>3. FacettesJustes
    <3>1. resume.lot \subseteq Articles
      BY DEF RechercheInv, CachesJustes
    <3> QED
      BY <3>1, FacettesDe DEF FacettesJustes
  <2> QED
    BY <2>1, <2>2, <2>3 DEF RechercheTenue
<1> QED
  BY <1>1, Invariance_Recherche, PTL
=============================================================================
