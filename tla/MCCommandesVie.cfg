SPECIFICATION Spec
CONSTANTS
  g1 = g1
  g2 = g2
  c1 = c1
  c2 = c2
  c3 = c3
  p1 = p1
  p2 = p2
  v1 = v1
  v2 = v2
  k1 = k1
  k2 = k2
  coupon1 = coupon1
  Groupes = {g1}
  Commandes = {c1}
  Paiements = {p1, p2}
  Variantes = {v1}
  Clients = {k1}
  Coupons = {}
  Preparees = {c1}
  Fermables = {p1, p2}
  Decisions = {"effectue", "refuse"}
  GroupeDe <- UnGroupe
  ClientDe <- UnClient
  VarianteDe <- VarianteCommune
  Quantite <- QuantiteUne
  StockInitial <- StockDe1
  UtilisationsMax <- UneUtilisation
CHECK_DEADLOCK FALSE
INVARIANTS FicheEtReversementAlignes
PROPERTIES ArgentClients DebitTraite CommandeTranchee
