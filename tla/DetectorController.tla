------------------------- MODULE DetectorController -------------------------
(***************************************************************************)
(* PodReconciler (internal/controller/pod_controller.go), one worker.  One *)
(* reconcile is three steps, because it makes two calls to the API server  *)
(* and everything else may happen between them: it looks at the pod, the   *)
(* policy and the cached Diagnosis objects, creates the Diagnosis, and     *)
(* sets its first phase with a status update of its own.                   *)
(***************************************************************************)
EXTENDS Cluster

CONSTANTS DirectOwner,    \* the controller that owns each pod
          TopOwner,       \* the controller of that owner, if it is a ReplicaSet
          ReplicaSetLag,  \* TRUE: the ReplicaSet may be missing in the cache
          DefaultPolicy,  \* "default"
          Window          \* clock ticks in an hour

VARIABLE det  \* the worker

\* obj: the object it holds; limit: the hourly limit it went by.  unseen is
\* history, read only by HourlyOvershoot: what the cache had not been told of
\* when withinRateLimit counted.
DetWork == [pc: {"idle", "create", "mark"}, pod: Pods \cup {Absent},
            name: Names \cup {Absent}, obj: Version \cup {Absent},
            limit: Nat, unseen: SUBSET Names]
DetIdle == [pc |-> "idle", pod |-> Absent, name |-> Absent, obj |-> Absent,
            limit |-> 0, unseen |-> {}]

ASSUME DetectorAssumption ==
  /\ DirectOwner \in [Pods -> Workloads]
  /\ TopOwner \in [Pods -> Workloads]
  /\ ReplicaSetLag \in BOOLEAN
  /\ DefaultPolicy \in PolicyNames
  /\ Window \in Nat

DetTypeOK ==
  /\ det \in DetWork
  /\ det.pc # "idle" => det.pod \in Pods /\ det.name \in Names /\ det.obj \in Version
DetInit == det = DetIdle

-----------------------------------------------------------------------------
\* policyFor: the policy called "default", else whichever the list has first.
\* The empty set: the namespace has not opted in.
PolicyFor ==
  LET present == {q \in PolicyNames : policies[q] # Absent}
  IN  IF DefaultPolicy \in present THEN {DefaultPolicy} ELSE present

PolicyCovers(q, failure) == policies[q].types = {} \/ failure \in policies[q].types

\* Mutation: the ReplicaSet is taken for the workload.
ResolveWorkloadDirect(p) == {DirectOwner[p]}

\* resolveWorkload: the workload a pod's failure is attributed to.  When the
\* cache does not have the ReplicaSet yet, it is the ReplicaSet itself.
ResolveWorkload(p) == {TopOwner[p]} \cup (IF ReplicaSetLag THEN {DirectOwner[p]} ELSE {})

\* withinRateLimit: counts what the cache lists; a limit of 0 is no limit.
Recent(objs) == {n \in Names : objs[n] # Absent /\ objs[n].at > now - Window}

\* Mutations: one Diagnosis too many; a limit of 0 allows none.
WithinRateLimitInclusive(q) ==
  policies[q].limit = 0 \/ Cardinality(Recent(cache)) <= policies[q].limit
WithinRateLimitZero(q) == Cardinality(Recent(cache)) < policies[q].limit

WithinRateLimit(q) ==
  policies[q].limit = 0 \/ Cardinality(Recent(cache)) < policies[q].limit

\* buildDiagnosis; the server fills in uid, rv and at.
BuildDiagnosis(p, q) ==
  [uid |-> 0, rv |-> 0, phase |-> "New", pod |-> p, podUID |-> pods[p].uid,
   policy |-> q, evidence |-> NoEvidence, findings |-> 0, at |-> 0]

\* The outcomes of the first part of Reconcile, which changes nothing.
Uncovered(p) ==
  \/ ~Classified(p)
  \/ PolicyFor = {}
  \/ \E q \in PolicyFor : ~PolicyCovers(q, pods[p].failure)

Covered(p, q) == Classified(p) /\ q \in PolicyFor /\ PolicyCovers(q, pods[p].failure)

\* Reconcile, first part, for a pod there is nothing to do about.
DetDismiss(p) ==
  /\ det.pc = "idle" /\ p \in detQ
  /\ \/ Uncovered(p)
     \/ \E q \in PolicyFor, w \in ResolveWorkload(p) :
          Covered(p, q) /\ cache[DiagnosisName(w, pods[p].failure)] # Absent
  /\ detQ' = detQ \ {p}
  /\ UNCHANGED <<det, storeVars, pods, policies, now, later, upsets>>

\* ... for a pod over the hourly limit.
DetDefer(p) ==
  /\ det.pc = "idle" /\ p \in detQ
  /\ \E q \in PolicyFor, w \in ResolveWorkload(p) :
       /\ Covered(p, q)
       /\ cache[DiagnosisName(w, pods[p].failure)] = Absent
       /\ ~WithinRateLimit(q)
  /\ detQ' = detQ \ {p}
  /\ later' = later \cup {p}
  /\ UNCHANGED <<det, storeVars, pods, policies, now, upsets>>

\* ... for a failure that has no Diagnosis in the cache.
DetOpen(p) ==
  /\ det.pc = "idle" /\ p \in detQ
  /\ \E q \in PolicyFor, w \in ResolveWorkload(p) :
       LET n == DiagnosisName(w, pods[p].failure)
       IN  /\ Covered(p, q)
           /\ cache[n] = Absent
           /\ WithinRateLimit(q)
           /\ det' = [pc |-> "create", pod |-> p, name |-> n, obj |-> BuildDiagnosis(p, q),
                      limit |-> policies[q].limit, unseen |-> Unseen]
  /\ detQ' = detQ \ {p}
  /\ UNCHANGED <<storeVars, pods, policies, now, later, upsets>>

\* An error is returned: the pod is queued again.
DetRetry == det' = DetIdle /\ detQ' = detQ \cup {det.pod}

\* Create, with AlreadyExists ignored.
DetCreate ==
  LET new == Stored(det.name, det.obj, now)
  IN  /\ det.pc = "create"
      /\ \/ /\ diag[det.name] = Absent
            /\ Commit(det.name, new)
            /\ det' = [det EXCEPT !.pc = "mark", !.obj = new]
         \/ /\ diag[det.name] # Absent
            /\ det' = DetIdle
            /\ UnchangedStore
      /\ UNCHANGED <<evQ, invQ, faults, clusterVars>>

\* Create returns an error; the server may have stored the object all the same.
DetCreateFails ==
  /\ det.pc = "create"
  /\ Fault
  /\ \/ UnchangedStore
     \/ diag[det.name] = Absent /\ Commit(det.name, Stored(det.name, det.obj, now))
  /\ DetRetry
  /\ UNCHANGED <<evQ, invQ, pods, policies, now, later, upsets>>

\* Status().Update to Detected, against the version the create returned.
Marked(obj) == [obj EXCEPT !.phase = "Detected"]

DetMark ==
  /\ det.pc = "mark"
  /\ \/ /\ Current(det.name, det.obj)
        /\ Update(det.name, Marked(det.obj))
        /\ det' = DetIdle
        /\ UNCHANGED detQ
     \/ /\ ~Current(det.name, det.obj)
        /\ UnchangedStore
        /\ DetRetry
  /\ UNCHANGED <<evQ, invQ, faults, pods, policies, now, later, upsets>>

DetMarkFails ==
  /\ det.pc = "mark"
  /\ Fault
  /\ \/ UnchangedStore
     \/ Current(det.name, det.obj) /\ Update(det.name, Marked(det.obj))
  /\ DetRetry
  /\ UNCHANGED <<evQ, invQ, pods, policies, now, later, upsets>>

DetStart(p) == DetDismiss(p) \/ DetDefer(p) \/ DetOpen(p)
DetCalls == DetCreate \/ DetMark
DetFails == DetCreateFails \/ DetMarkFails

-----------------------------------------------------------------------------
(* Properties of every composition with this controller.                   *)

\* Replicas of one workload that fail in the same way share one Diagnosis
\* (signature.go:47), also when they belong to different ReplicaSets.
OneDiagnosisPerFailure ==
  \A m, n \in Names :
    /\ diag[m] # Absent /\ diag[n] # Absent
    /\ TopOwner[diag[m].pod] = TopOwner[diag[n].pod]
    /\ m[2] = n[2]
    => m = n

\* By how much the hourly limit can be overrun.  Nothing but a create of the
\* detector raises the number of Diagnosis objects opened within the last hour,
\* and none takes it over the limit of the policy the detector went by, those
\* left out that its cache had not been told of when it counted: neither edits
\* of the policy, nor failed calls, nor restarts add to that (withinRateLimit).
\* Only objects that are still there count, on either side.
HourlyOvershoot ==
  [][~(Recent(diag)' \subseteq Recent(diag)) =>
       /\ det.pc = "create"
       /\ det.limit > 0 => Cardinality(Recent(diag)' \ det.unseen) <= det.limit]_diag

\* What the policy promises: it "caps how many new diagnoses may be opened in
\* this namespace per hour" (healingpolicy_types.go:147).  Checked when a
\* Diagnosis has just been opened, and only of those that are still there.
HourlyLimit ==
  det.pc = "mark" /\ det.limit > 0 => Cardinality(Recent(diag)) <= det.limit
=============================================================================
