SPECIFICATION FairSpec
CONSTANTS
  Names <- MCNames
  Root = "app"
  RootCons <- MCRootCons
  BadLine = BadLine
  NoPin = NoPin
  PkgMax = 3
  ConsMax = 2
  Passes = 12
  Catalogs <- MCCatalogs
  Uploads <- NoUploads
  MaxChurn = 0
INVARIANTS
  TypeOK
  DependenciesHonoured
  HighestChosen
  BudgetSuffices
PROPERTIES
  RepicksGoDown
  Terminates
