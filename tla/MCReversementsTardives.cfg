SPECIFICATION Spec
CONSTANTS
  r1 = r1
  r2 = r2
  t1 = t1
  t2 = t2
  Aucun = Aucun
  Reversements = {r1}
  Retours = {}
  RetourDe <- RetoursDuPremier
  Net <- Nets
  Reste <- SansReste
  Deduction <- DeductionDe1
  Frais <- SansFrais
  RetourApresDelai = FALSE
  Tentatives = 2
  ReponsesTardives = TRUE
CHECK_DEADLOCK FALSE
INVARIANTS VersementUnique
