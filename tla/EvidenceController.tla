------------------------- MODULE EvidenceController -------------------------
(***************************************************************************)
(* EvidenceReconciler (internal/controller/evidence_controller.go), one    *)
(* worker.  A reconcile reads the cached Diagnosis and the cached pod,     *)
(* then collects (logs and events are live reads, by pod name), then       *)
(* writes the result with the resource version it started from.            *)
(***************************************************************************)
EXTENDS Cluster

VARIABLE ev  \* the worker

EvWork == [pc: {"idle", "collect", "write"}, name: Names \cup {Absent}, obj: Version \cup {Absent}]
EvIdle == [pc |-> "idle", name |-> Absent, obj |-> Absent]

EvTypeOK ==
  /\ ev \in EvWork
  /\ ev.pc # "idle" => ev.name \in Names /\ ev.obj \in Version
EvInit == ev = EvIdle

-----------------------------------------------------------------------------
\* Mutation: a pod of that name is there.
TargetPresentByName(obj) == pods[obj.pod].live

\* targetFor: the pod is there and is the instance that failed.
TargetPresent(obj) == pods[obj.pod].live /\ pods[obj.pod].uid = obj.podUID

\* The object with its new status, still to be written.
Enriched(obj, evidence) == [obj EXCEPT !.phase = "Enriched", !.evidence = evidence]

\* advanceWithoutPod
PodGone == [state |-> "podGone", logs |-> 0, events |-> {}]

\* Collect: logs come from whichever instance has the name now; events are
\* selected by name and outlive the instances they are about.
Collected(p) == [state |-> "collected",
                 logs |-> IF pods[p].live THEN pods[p].uid ELSE 0,
                 events |-> 1 .. pods[p].uid]

\* Reconcile up to targetFor.
EvStart(n) ==
  /\ ev.pc = "idle" /\ n \in evQ
  /\ evQ' = evQ \ {n}
  /\ ev' = CASE ~PhaseIs(cache[n], "Detected") -> EvIdle
             [] PhaseIs(cache[n], "Detected") /\ TargetPresent(cache[n]) ->
                  [pc |-> "collect", name |-> n, obj |-> cache[n]]
             [] OTHER -> [pc |-> "write", name |-> n, obj |-> Enriched(cache[n], PodGone)]
  /\ UNCHANGED <<diag, rv, cache, watch, invQ, faults, clusterVars>>

EvCollect ==
  /\ ev.pc = "collect"
  /\ ev' = [ev EXCEPT !.pc = "write", !.obj = Enriched(@, Collected(ev.obj.pod))]
  /\ UNCHANGED <<storeVars, clusterVars>>

\* Mutation: the error is logged and not returned, so the key is forgotten.
EvRetryForgets == ev' = EvIdle /\ UNCHANGED evQ

\* Reconcile returns an error: the work queue takes the key back.
EvRetry == ev' = EvIdle /\ evQ' = evQ \cup {ev.name}

\* Status().Update to Enriched.
EvWrite ==
  /\ ev.pc = "write"
  /\ \/ /\ Current(ev.name, ev.obj)
        /\ Update(ev.name, ev.obj)
        /\ ev' = EvIdle
        /\ UNCHANGED evQ
     \/ /\ ~Current(ev.name, ev.obj)
        /\ UnchangedStore
        /\ EvRetry
  /\ UNCHANGED <<invQ, faults, clusterVars>>

EvWriteFails ==
  /\ ev.pc = "write"
  /\ Fault
  /\ \/ UnchangedStore
     \/ Current(ev.name, ev.obj) /\ Update(ev.name, ev.obj)
  /\ EvRetry
  /\ UNCHANGED <<invQ, clusterVars>>
=============================================================================
