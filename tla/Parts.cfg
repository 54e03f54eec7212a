CONSTANTS
  Width = 4
  NumLeaves = 6
  MaxOther = 2
  Data <- MCData
  Radix = 2
  CertificateLengthBytes = 2
  CertificateChainLengthBytes = 3
  ExtensionsLengthBytes = 1
  TimestampBytes = 1
  EntryTypeBytes = 2
  IssuerKeyHashBytes = 1
  Chars <- MCChars
  Lower <- MCLower
  WatchListLines <- MCWatchListLines
  Cases <- MCCases
  Certs <- MCCerts
  Subject <- MCSubject
  Issuer <- MCIssuer
  Expiration <- MCExpiration
  Logs <- MCLogs
  Interval <- MCInterval
  Inputs <- MCInputs
  MaxChain = 4
  MaxRetries = 1
  Log = {"l1", "l2"}
  MaxPosition = 2
  MaxCrashes = 2
SPECIFICATION PartSpec
INVARIANTS
  FragmentsDependOnlyOnLeaves
  CompleteMeansRootOfLog
  ReconstructedTreeIsTheDownloadedTree
  
  MatchIsExact
  
  PrecertMatchesItsTBS
  
  ExitStatusIsTrue
  
  RunsOnlyWhenPrepared
PROPERTIES
  MergeErrorMeansClash
  Terminates
  PositionNeverLost
  PreparationCompletes
