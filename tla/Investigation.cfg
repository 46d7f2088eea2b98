\* Small budgets, so that each of them can be the one that ends the run.
SPECIFICATION FairRecordedSpec
CONSTANTS
  Kinds <- MCKinds
  Calls <- MCCalls
  Gathers <- MCGathers
  Submissions <- MCSubmissions
  AllowedActions = {"SetMemoryLimit", "SetProbePort", "None"}
  Usages <- MCUsages
  MaxReply = 2
  MaxToolCalls = 2
  MaxTokens = 12
  MaxCost = 4
  HasTimeout = TRUE
  InPrice = 3
  OutPrice = 5
  PriceUnit = 10
  ExtraTurns = 2
  MaxHypotheses = 2
  ConfidenceCap = 70
  BrokerHeadroom = 2
  DefaultMaxCalls = 1
  MaxRecordedToolCalls = 1
INVARIANTS
  RecordTypeOK
  CitationsExist
  ConclusionOrReason
  DegradedIsCapped
  RankedByConfidence
  BudgetsBounded
  CostWithinRounding
  CitationsAudited
  EveryCallAnswered
  LedgerIsShown
PROPERTIES
  BrokerIsBackstop
  Terminates
