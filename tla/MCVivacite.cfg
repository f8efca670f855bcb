SPECIFICATION VivaciteSpec
CONSTANTS
  d1 = d1
  a1 = a1
  a2 = a2
  p1 = p1
  p2 = p2
  r1 = r1
  r2 = r2
  t1 = t1
  t2 = t2
  Aucun = Aucun
  Reversements = {r1}
  Retours = {t1, t2}
  RetourDe <- RetoursDuPremier
  Net <- Nets
  Reste <- SansReste
  Deduction <- DeductionDe1
  Frais <- SansFrais
  RetourApresDelai = FALSE
  Tentatives = 2
  ReponsesTardives = FALSE
CHECK_DEADLOCK FALSE
INVARIANTS VersementUnique LitigeSuspend
PROPERTIES VersementSuivi SansBlocage
