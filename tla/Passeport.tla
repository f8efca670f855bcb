----------------------------- MODULE Passeport ------------------------------
(***************************************************************************)
(* The passports of a product: one certificate per lot, revoked and        *)
(* restored by the seller and by the administration.  A request is judged  *)
(* on the row it read; the constraint of the base and two conditional      *)
(* UPDATEs decide when requests cross.                                     *)
(***************************************************************************)
EXTENDS Boutiques

CONSTANTS
  Passeports,   \* the passports that may be created
  Certifie,     \* the product of the shop they are about
  Lots,         \* the lot numbers typed, SansLot (the empty one) among them or not
  SansLot,
  ScansMax      \* bound: scans of a passport

\* QrRefusal: why a content is not a passport.
QrRefusal == {"code_passeport_invalide", "qr_non_anitche", "lien_non_passeport"}

ASSUME PasseportOk == Certifie \in Produits /\ Passeports \cap QrRefusal = {}

VARIABLES
  passeport,    \* PasseportProduit, by passport; Inconnu before it is created
  scans,        \* HistoriqueScanPasseport: how many rows
  dossierLot,   \* the row each party's request validated, or RienLu
  revoques,     \* history: passports the last decision of the administration revoked
  attribues     \* history: passports the administration certified

passeportVars == <<passeport, scans, dossierLot, revoques, attribues>>
certificatsVars == <<boutiquesVars, passeportVars>>

StatutCertification == {"certifie_authentique", "standard"}
Certificat == [lot: Lots \cup {SansLot}, statut: StatutCertification, actif: BOOLEAN,
               par: Parties \cup {"personne"}, nbScans: 0..ScansMax]
Inconnu == [lot |-> SansLot]
RienLu == [passeport |-> "aucun"]

PasseportTypes ==
  /\ passeport \in [Passeports -> Certificat \cup {Inconnu}]
  /\ scans \in [Passeports -> 0..ScansMax]
  /\ dossierLot \in [Parties -> [passeport: Passeports, ligne: Certificat] \cup {RienLu}]
  /\ revoques \subseteq Passeports /\ attribues \subseteq Passeports

PasseportInit ==
  /\ passeport = [x \in Passeports |-> Inconnu]
  /\ scans = [x \in Passeports |-> 0]
  /\ dossierLot = [q \in Parties |-> RienLu]
  /\ revoques = {} /\ attribues = {}

Connus == {x \in Passeports : passeport[x] # Inconnu}

-----------------------------------------------------------------------------
(* The rules of a request, on the rows it read.                             *)

\* EstVendeurValideOuAdministrateur and BoutiqueDuVendeurNonSuspendue.
Autorise(q) == q = "administration" \/ VendeurPeutEcrire

\* valider_statut_certification
StatutPermis(q, statut, actuel) ==
  statut = "certifie_authentique" => q = "administration" \/ statut = actuel

\* valider_lot_disponible
LotDisponible(x, lot) == lot # SansLot => \A y \in Connus \ {x} : passeport[y].lot # lot

CertificatNeuf(lot, statut) ==
  [lot |-> lot, statut |-> statut, actif |-> TRUE, par |-> "personne", nbScans |-> 0]

Garder(q, x, ligne) ==
  /\ dossierLot' = [dossierLot EXCEPT ![q] = [passeport |-> x, ligne |-> ligne]]
  /\ UNCHANGED <<boutiquesVars, passeport, scans, revoques, attribues>>

\* The identifiers of passports being created: each creation draws its own.
EnCreation == {dossierLot[q].passeport : q \in {r \in Parties : dossierLot[r] # RienLu}}

\* CreerPasseportSerializer.validate
DemanderPasseport(q, x, lot, statut) ==
  /\ dossierLot[q] = RienLu /\ Autorise(q)
  /\ x \notin Connus \cup EnCreation
  /\ produit[Certifie].actif /\ variante[Certifie]
  /\ StatutPermis(q, statut, "standard") /\ LotDisponible(x, lot)
  /\ Garder(q, x, CertificatNeuf(lot, statut))

\* PasseportVendeurSerializer.validate: the row is read, the fields sent are judged on it.
DemanderCorrection(q, x, lot, statut) ==
  /\ dossierLot[q] = RienLu /\ Autorise(q)
  /\ x \in Connus
  /\ StatutPermis(q, statut, passeport[x].statut) /\ LotDisponible(x, lot)
  /\ Garder(q, x, [passeport[x] EXCEPT !.lot = lot, !.statut = statut])

-----------------------------------------------------------------------------
(* The writing.                                                             *)

\* passeport_unique_par_lot, checked by the base at the write.
UniqueParLot(x, lot) == LotDisponible(x, lot)

Rendre(q) == dossierLot' = [dossierLot EXCEPT ![q] = RienLu]

Attribuer(q, x, statut) ==
  attribues' = IF q = "administration" /\ statut = "certifie_authentique"
               THEN attribues \cup {x} ELSE attribues

CreerPasseport(q) ==
  LET d == dossierLot[q] IN
  /\ d # RienLu /\ d.passeport \notin Connus
  /\ UniqueParLot(d.passeport, d.ligne.lot)
  /\ passeport' = [passeport EXCEPT ![d.passeport] = d.ligne]
  /\ Attribuer(q, d.passeport, d.ligne.statut)
  /\ Rendre(q)
  /\ UNCHANGED <<boutiquesVars, scans, revoques>>

\* PasseportProduit.desactiver and reactiver: conditional UPDATEs.
Revoque(l, q) ==
  IF q = "administration" \/ l.actif THEN [l EXCEPT !.actif = FALSE, !.par = q] ELSE l
Retablissable(l, q) == l.actif \/ q = "administration" \/ l.par = "vendeur"
Retabli(l) == [l EXCEPT !.actif = TRUE, !.par = "personne"]

LigneEntiere(x, ligne) == ligne
\* update(): only the fields that were sent.
ChampsEnvoyes(x, ligne) == [passeport[x] EXCEPT !.lot = ligne.lot, !.statut = ligne.statut]

Decider(q, x, actif) ==
  revoques' = IF q # "administration" \/ actif = "inchange" THEN revoques
              ELSE IF actif = "non" THEN revoques \cup {x} ELSE revoques \ {x}

\* All or nothing: a refused reactivation writes no field.
CorrigerPasseport(q, actif) ==
  LET d == dossierLot[q]
      l == ChampsEnvoyes(d.passeport, d.ligne)
  IN /\ d # RienLu /\ d.passeport \in Connus
     /\ UniqueParLot(d.passeport, l.lot)
     /\ actif = "oui" => Retablissable(l, q)
     /\ passeport' = [passeport EXCEPT ![d.passeport] =
          CASE actif = "inchange" -> l
            [] actif = "non" -> Revoque(l, q)
            [] actif = "oui" -> Retabli(l)]
     /\ Attribuer(q, d.passeport, l.statut)
     /\ Decider(q, d.passeport, actif)
     /\ Rendre(q)
     /\ UNCHANGED <<boutiquesVars, scans>>

\* DELETE: a revocation, judged and written at once.
RevoquerPasseport(q, x) ==
  /\ Autorise(q) /\ x \in Connus
  /\ passeport' = [passeport EXCEPT ![x] = Revoque(@, q)]
  /\ Decider(q, x, "non")
  /\ UNCHANGED <<boutiquesVars, scans, dossierLot, attribues>>

\* Lot taken meanwhile, or a revocation of the administration to lift.
RefuserDemande(q) ==
  /\ dossierLot[q] # RienLu
  /\ Rendre(q)
  /\ UNCHANGED <<boutiquesVars, passeport, scans, revoques, attribues>>

-----------------------------------------------------------------------------
(* The public check of a scanned code.                                      *)

\* What the camera or the keyboard gives: FastAPI tells whether it is a passport, and which.
Contenus == [forme: {"code", "texte"}, code: Passeports]
            \cup [forme: {"lien"}, origine: {"anitche", "autre"}, chemin: {"verification", "autre"},
                  code: Passeports]
Decoder(c) ==
  CASE c.forme = "code" -> c.code
    [] c.forme = "texte" -> "code_passeport_invalide"
    [] c.forme = "lien" /\ c.origine = "autre" -> "qr_non_anitche"
    [] c.forme = "lien" /\ c.origine = "anitche" /\ c.chemin = "autre" -> "lien_non_passeport"
    [] OTHER -> c.code

\* est_disponible_a_la_vente
DisponibleALaVente == variante[Certifie] /\ Certifie \in VisiblesPubliquement

\* PasseportPublicVerificationView, PasseportPublicSerializer, PasseportRevoqueSerializer.
Verification(x) ==
  IF x \notin Connus THEN [statut |-> "introuvable"]
  ELSE IF passeport[x].actif
       THEN [statut |-> "valide", boutique |-> DisponibleALaVente, certifie |-> passeport[x].statut]
       ELSE [statut |-> "revoque"]

\* enregistrer_scan: counter and journal together, for a revoked passport too.
Scanner(c) ==
  /\ Decoder(c) \in Connus
  /\ \A x \in Passeports \ {c.code} : scans[x] = 0
  /\ scans[c.code] < ScansMax
  /\ passeport' = [passeport EXCEPT ![c.code].nbScans = @ + 1]
  /\ scans' = [scans EXCEPT ![c.code] = @ + 1]
  /\ UNCHANGED <<boutiquesVars, dossierLot, revoques, attribues>>

CatalogueBouge ==
  /\ \/ \E oui \in BOOLEAN : ModererProduit(Certifie, oui) \/ EnregistrerVariante(Certifie, oui)
     \/ \E oui \in BOOLEAN : DeciderTitulaire([valide |-> TRUE, actif |-> oui])
  /\ UNCHANGED passeportVars

PasseportNext ==
  \/ \E q \in Parties :
       \/ \E x \in Passeports, lot \in Lots, s \in StatutCertification :
            DemanderPasseport(q, x, lot, s) \/ DemanderCorrection(q, x, lot, s)
       \/ CreerPasseport(q)
       \/ \E actif \in {"inchange", "oui", "non"} : CorrigerPasseport(q, actif)
       \/ RefuserDemande(q)
       \/ \E x \in Passeports : RevoquerPasseport(q, x)
  \/ \E c \in Contenus : Scanner(c)
  \/ CatalogueBouge

PasseportSpec == BoutiquesInit /\ PasseportInit /\ [][PasseportNext]_certificatsVars

-----------------------------------------------------------------------------
(* A passport the administration revoked is never shown as valid again before
   it says so, nor is a certificate it never gave; a lot has one passport, and
   every scan is counted, whatever the seller and the administration write at
   once (apps/passeport_qr/models.py:192). *)
CertificatsTenus ==
  /\ \A x \in Connus :
       LET v == Verification(x) IN
       /\ x \in revoques => v.statut = "revoque"
       /\ v.statut = "valide" /\ v.certifie = "certifie_authentique" => x \in attribues
       /\ passeport[x].actif <=> passeport[x].par = "personne"
       /\ passeport[x].nbScans = scans[x]
  /\ \A x, y \in Connus :
       passeport[x].lot = passeport[y].lot /\ passeport[x].lot # SansLot => x = y
=============================================================================
