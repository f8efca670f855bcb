SPECIFICATION Spec
CONSTANTS
  g1 = g1
  g2 = g2
  b1 = b1
  b2 = b2
  coupon1 = coupon1
  Aucun = Aucun
  Commandes = {1, 2, 3}
  Variantes = {1, 2, 3}
  Paiements = {1, 2, 3}
  Groupes = {g1, g2}
  Boutiques = {b1, b2}
  Coupons = {coupon1}
  GroupeDe <- GroupesDesTrois
  BoutiqueDe <- BoutiquesDesTrois
  VariantesDe <- VariantesDesTrois
  CouponDe <- CouponDuPremier
  Couvre <- TroisPaiements
  Departs <- TousLesDeparts
CHECK_DEADLOCK FALSE
INVARIANTS SansInterblocage AnnulationRelue UnSeulActif DerniereAnnulationFinalise
