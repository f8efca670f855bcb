SPECIFICATION Spec
CONSTANTS
  g1 = g1
  g2 = g2
  c1 = c1
  c2 = c2
  c3 = c3
  p1 = p1
  p2 = p2
  v1 = v1
  v2 = v2
  k1 = k1
  k2 = k2
  coupon1 = coupon1
  Groupes = {g1, g2}
  Commandes = {c1, c2, c3}
  Paiements = {p1, p2}
  Variantes = {v1, v2}
  Clients = {k1, k2}
  Coupons = {coupon1}
  Preparees = {c1}
  Fermables = {}
  Decisions = {}
  GroupeDe <- DeuxGroupes
  ClientDe <- DeuxClients
  VarianteDe <- VariantePartagee
  Quantite <- QuantiteDeuxPourLeTroisieme
  StockInitial <- StockDe2
  UtilisationsMax <- UneUtilisation
CHECK_DEADLOCK FALSE
CONSTRAINT ArgentOuStock
SYMMETRY SymetriePaiements
INVARIANTS ArgentClient CommandePayee StockConserve CouponConserve
PROPERTIES ExpirationEpargnePayees
