SPECIFICATION ServicesSpec
CONSTANTS
  k1 = k1
  k2 = k2
  p1 = p1
  c1 = c1
  c2 = c2
  r1 = r1
  r2 = r2
  g1 = g1
  l1 = l1
  l2 = l2
  x1 = x1
  x2 = x2
  n1 = n1
  n2 = n2
  n3 = n3
  Services = {"recherche"}
  Comptes = {k1, k2}
  Vendeurs = {}
  DepotsMax = 2
  Colis = {p1}
  CodeEssaisMax = 1
  TentativesMax = 2
  Communes = {k1}
  Tarifs = {1, 5}
  Montants = {1, 4, 7}
  LotsMax = 3
  Pourcentages = {50, 95}
  Fixes = {3, 8}
  Variantes = {k1, k2}
  ASoi = {k2}
  Soumissions = {x1, x2}
  StockInitial = 2
  QuantiteMax = 2
  CommandesMax = 2
  Produits = {p1}
  StockMax = 1
  ImagesMax = 2
  Auteurs = {k1, k2}
  ProduitDe <- ProduitUnique
  Notes = {3, 5}
  Signales = {k1}
  Passeports = {x1, x2}
  Certifie = p1
  Lots = {p1}
  SansLot = n1
  ScansMax = 1
  Adresses = {k1, k2}
  Premiere = k1
  EssaisMax = 1
  Demandes = {x1, x2}
  CodesMax = 2
  JetonsMax = 2
  PassesMax = 2
  OngletsOuverts = {x1, x2}
  Partage = TRUE
  RefreshMax = 3
  MessagesMax = 1
  Agents = {x1, x2}
  FilMax = 1
  PiecesMax = 1
  Achats = {c1, c2}
  Paye <- MontantPaye
  Renvois = {r1, r2}
  AchatDe <- AchatRenvoye
  Part <- PartRenvoyee
  Echanges = {x1, x2}
  Option = 50
  Livreurs = {l1, l2}
  Sockets = {x1, x2}
  Ecoutant <- Clientes
  PositionsMax = 1
  FileMax = 1
  Encaissements = {g1}
  Evenements = {n1, n2, n3}
  Annonce <- PaiementAnnonce
  Genre <- GenreAnnonce
  Traitements = {x1, x2}
  ReprisesMax = 1
  Lieux = {k1, k2, p1}
  LieuxMax = 2
  Editions = {x1, x2}
  Articles = {c1, c2, g1}
  Decrit <- Rayon
  Recherches <- FiltresEssayes
  TailleDePage = 1
  DernierePage = 2
  PRICE_BOUNDS <- Seuils
  TTL = 1
  Visiteurs = {k1}
  Grilles = {c1, c2}
  Tarifications <- TarifsVoulus
  LignesVendues <- PetitsArticles
  Reglages = {x1, x2}
  InstantsMax = 4
  Demandeurs = {k1}
  Conseils = {x1, x2}
  Conseillables = {l1, l2}
  Invente = n1
  Debit = 1
  AI_DAILY_CALL_LIMIT = 1
  AUTH_CACHE_TTL = 1
  PRODUITS_MAX = 1
  JourDe <- JourDeux
  InstantFinal = 2
CHECK_DEADLOCK FALSE
INVARIANTS DecompteUneVie
