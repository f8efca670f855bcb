SPECIFICATION Spec
CONSTANTS
  d1 = d1
  d2 = d2
  a1 = a1
  a2 = a2
  p1 = p1
  p2 = p2
  Passages = {p1, p2}
  Demandes = {d1, d2}
  Articles = {a1, a2}
  Quantite <- QuantitesDe
  Prix <- PrixDesArticles
  Remise = 1
  FraisLivraison = 4
  Lots <- UneUniteOuTout
CHECK_DEADLOCK FALSE
SYMMETRY Symetrie
INVARIANTS ArticleRenduUneFois ArgentDesRetours RecoursGagne
