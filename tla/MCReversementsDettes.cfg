SPECIFICATION Spec
CONSTANTS
  r1 = r1
  r2 = r2
  t1 = t1
  t2 = t2
  Aucun = Aucun
  Reversements = {r1, r2}
  Retours = {t1, t2}
  RetourDe <- RetoursDuPremier
  Net <- Nets
  Reste <- ResteDuPremier
  Deduction <- DeductionDe2
  Frais <- FraisDe1
  RetourApresDelai = TRUE
  Tentatives = 1
  ReponsesTardives = FALSE
CHECK_DEADLOCK FALSE
SYMMETRY SymetrieRetours
INVARIANTS DettesTenues
