\* One fault; the pod is in a crash loop and goes on raising events.
SPECIFICATION FairSpec
CONSTANTS
  Pods = {p1}
  Workloads = {web}
  FailureTypes = {"OOMKilled"}
  PolicyNames = {"default"}
  Absent = Absent
  p1 = p1
  web = web
  GraceTypes = {}
  ChurnTypes = {"OOMKilled"}
  PolicySpecs <- Switchable
  InitPolicies <- StartOn
  DirectOwner <- Top
  TopOwner <- Top
  ReplicaSetLag = FALSE
  DefaultPolicy = "default"
  Window = 1
  Workers = {w1}
  RetrySteps = 2
  ModelConfigured = TRUE
  Upsets = {}
  MaxUpsets = 0
  MaxFaults = 1
  MaxTime = 0
PROPERTIES
  CreatedIsDetected
\* With nothing failing and every queue empty the operator waits for events.
CHECK_DEADLOCK FALSE
