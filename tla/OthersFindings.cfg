\* A Diagnosis is deleted while it is investigated, and opened again.
SPECIFICATION Spec
CONSTANTS
  Pods = {p1}
  Workloads = {web}
  FailureTypes = {"OOMKilled"}
  PolicyNames = {"default"}
  Absent = Absent
  p1 = p1
  web = web
  GraceTypes = {}
  ChurnTypes = {"OOMKilled"}
  PolicySpecs <- Switchable
  InitPolicies <- StartOn
  DirectOwner <- Top
  TopOwner <- Top
  ReplicaSetLag = FALSE
  DefaultPolicy = "default"
  Window = 1
  Workers = {w1}
  RetrySteps = 2
  ModelConfigured = TRUE
  Upsets = {"delete"}
  MaxUpsets = 1
  MaxFaults = 0
  MaxTime = 0
INVARIANTS
  FindingsOfDiagnosis
\* With nothing failing and every queue empty the operator waits for events.
CHECK_DEADLOCK FALSE
