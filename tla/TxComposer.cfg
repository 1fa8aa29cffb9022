SPECIFICATION Spec
CONSTANTS
  Digits = 3
  NativeMax = 9000
  UnitDigits = 1
  MinPlaces = 2
  MaxPlaces = 4
  WholeRate = 1000
  GroupWidth = 2
  Depth = 5
  WireLimit = 4096
  Serialized <- ObjectBytes
  MaxSteps = 2
  MaxFee = 29
  CanonicalSigning = TRUE
  MaxPaths = 2
  Remotes <- MCRemotes
  MaxFields <- MCMaxFields
  FlagNumbers = {0, 9}
  Numbers = {300}
  Formats <- MCFormats
  Currencies <- MCCurrencies
  Starting <- MCStarting
  Operands <- MCOperands
  Prices <- MCPrices
  Traded <- MCTraded
  Accounts <- MCAccounts
  Issuer <- MCIssuer
  Secrets <- MCSecrets
  KnownSecrets <- MCKnownSecrets
  FeeLists <- MCFeeLists
  Options <- MCOptions
  Assignments <- MCAssignments
INVARIANTS
  Arithmetic
  TextLaws
  CodecLaws
  SignedAsAsked
CHECK_DEADLOCK FALSE
