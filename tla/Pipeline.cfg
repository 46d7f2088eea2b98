\* One Diagnosis: lagging cache, one fault or restart, two upsets of any kind.
SPECIFICATION FairSpec
CONSTANTS
  Pods = {p1}
  Workloads = {web}
  FailureTypes = {"OOMKilled"}
  PolicyNames = {"default"}
  Absent = Absent
  p1 = p1
  web = web
  GraceTypes = {}
  ChurnTypes = {}
  PolicySpecs <- Switchable
  InitPolicies <- StartOn
  DirectOwner <- Top
  TopOwner <- Top
  ReplicaSetLag = FALSE
  DefaultPolicy = "default"
  Window = 1
  Workers = {w1}
  RetrySteps = 2
  ModelConfigured = TRUE
  Upsets = {"annotate", "policy", "delete", "remove", "break"}
  MaxUpsets = 2
  MaxFaults = 1
  MaxTime = 0
INVARIANTS
  TypeOK
  CopiesAgree
  DetectedIsAttended
PROPERTIES
  FollowsLifecycle
  
  RepeatOnlyUnseen
  ConflictsAccounted
  NoneNewlyUnattended
  EvidenceAttached
  InvestigationRecorded
\* With nothing failing and every queue empty the operator waits for events.
CHECK_DEADLOCK FALSE
