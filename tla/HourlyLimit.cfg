\* Two pods fail in two ways at once, under a limit of one Diagnosis per hour.
SPECIFICATION Spec
CONSTANTS
  Pods = {p1, p2}
  Workloads = {web}
  FailureTypes = {"OOMKilled", "ImagePullBackOff"}
  PolicyNames = {"default"}
  Absent = Absent
  p1 = p1
  p2 = p2
  web = web
  rsOld = rsOld
  rsNew = rsNew
  GraceTypes = {}
  ChurnTypes = {}
  PolicySpecs <- LimitedSpec
  InitPolicies <- Limited
  DirectOwner <- Top
  TopOwner <- Top
  ReplicaSetLag = FALSE
  DefaultPolicy = "default"
  Window = 1
  Upsets = {}
  MaxUpsets = 0
  MaxFaults = 0
  MaxTime = 0
INVARIANTS
  HourlyLimit
\* With nothing failing and every queue empty the operator waits for events.
CHECK_DEADLOCK FALSE
