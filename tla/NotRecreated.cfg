\* A Diagnosis is deleted while its pod fails with a status that no longer changes.
SPECIFICATION FairSpec
CONSTANTS
  Pods = {p1}
  Workloads = {web}
  FailureTypes = {"CreateContainerConfigError"}
  PolicyNames = {"default"}
  Absent = Absent
  p1 = p1
  p2 = p2
  web = web
  rsOld = rsOld
  rsNew = rsNew
  GraceTypes = {}
  ChurnTypes = {}
  PolicySpecs <- PlainSpec
  InitPolicies <- OptedIn
  DirectOwner <- Top
  TopOwner <- Top
  ReplicaSetLag = FALSE
  DefaultPolicy = "default"
  Window = 1
  Upsets = {"delete"}
  MaxUpsets = 1
  MaxFaults = 0
  MaxTime = 0
PROPERTIES
  FailingPodsDiagnosed
\* With nothing failing and every queue empty the operator waits for events.
CHECK_DEADLOCK FALSE
