\* The pods of a rollout, under every kind of upset; a crash loop keeps changing
\* the status of its pod, a failing probe does not.
SPECIFICATION FairSpec
CONSTANTS
  Pods = {p1, p2}
  Workloads = {web, rsOld, rsNew}
  FailureTypes = {"OOMKilled", "ProbeFailure"}
  PolicyNames = {"default", "extra"}
  Absent = Absent
  p1 = p1
  p2 = p2
  web = web
  rsOld = rsOld
  rsNew = rsNew
  GraceTypes = {"ProbeFailure"}
  ChurnTypes = {"OOMKilled"}
  PolicySpecs <- EitherSpec
  InitPolicies <- LimitedOrOOM
  DirectOwner <- Direct
  TopOwner <- Top
  ReplicaSetLag = FALSE
  DefaultPolicy = "default"
  Window = 1
  Upsets = {"delete", "break", "recover", "remove", "policy"}
  MaxUpsets = 1
  MaxFaults = 1
  MaxTime = 1
INVARIANTS
  OneDiagnosisPerFailure
PROPERTIES
  HourlyOvershoot
  LoopingPodsDiagnosed
\* With nothing failing and every queue empty the operator waits for events.
CHECK_DEADLOCK FALSE
