\* Two callers and a ceiling of one call, while pods come and go.
SPECIFICATION Spec
CONSTANTS
  Callers = {c1, c2}
  Pods <- MCPods
  Refs <- MCRefs
  OwnerOf <- MCOwnerOf
  RSOwner <- MCRSOwner
  Targets <- MCTargets
  Requests <- MCRequests
  LimitFlag = 1
  DefaultMaxCalls = 25
  MaxAsked = 3
  MaxUpsets = 1
SYMMETRY Symmetric
INVARIANTS
  TypeOK
  CeilingOvershoot
  ReadsInScope
  UsableAfterRollout
\* After MaxAsked calls and MaxUpsets changes nothing is left to happen.
CHECK_DEADLOCK FALSE
