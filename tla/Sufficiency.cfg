\* From the pod's status to the conclusion, two tool calls.
SPECIFICATION Spec
CONSTANTS
  Probes <- MCProbes
  RestartPolicies = {"Always", "Never"}
  Ages <- MCAges
  UnschedulableGrace = 30
  ProbeGraceBuffer = 15
  DefaultProbePeriod = 10
  DefaultProbeFailureThreshold = 3
  Namespaces <- MCNamespaces
  LogTailLines = 3
  EventLimit = 3
  ContentLimit = 2
  MaxToolCalls = 2
  ExcerptLimit = 1
  MaxReadErrors = 1
  MaxBehind = 2
INVARIANTS
  TypeOK
  HealthyButForTheRecord
  FailedOutputAttached
  FactsMatchLogs
  LatestEventPresented
  UndegradedIsAnswered
  CrashWithoutHistoryIsDegraded
PROPERTIES
  StableAcrossRestarts
\* A pod that is being deleted is not looked at any more, and a conclusion is
\* the end.
CHECK_DEADLOCK FALSE
