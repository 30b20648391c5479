SPECIFICATION FairSpec
CONSTANTS
  Names <- MCNames
  Root = "app"
  RootCons <- MCRootCons
  BadLine = BadLine
  NoPin = NoPin
  PkgMax = 3
  ConsMax = 8
  Passes = 3
  Catalogs <- ChurnCatalogs
  Uploads <- MCUploads
  MaxChurn = 2
PROPERTY
  AnswersOnce
