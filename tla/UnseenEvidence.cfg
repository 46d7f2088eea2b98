\* A submission in the same reply as the call whose evidence it cites.
SPECIFICATION RecordedSpec
CONSTANTS
  Kinds <- MCKinds
  Calls <- MCCalls
  Gathers <- MCGathers
  Submissions <- MCSubmissions
  AllowedActions = {"SetMemoryLimit", "SetProbePort", "None"}
  Usages <- MCUsages
  MaxReply = 2
  MaxToolCalls = 2
  MaxTokens = 12
  MaxCost = 4
  HasTimeout = TRUE
  InPrice = 3
  OutPrice = 5
  PriceUnit = 10
  ExtraTurns = 2
  MaxHypotheses = 2
  ConfidenceCap = 70
  BrokerHeadroom = 2
  DefaultMaxCalls = 25
  MaxRecordedToolCalls = 30
INVARIANTS
  CitedWasShown
