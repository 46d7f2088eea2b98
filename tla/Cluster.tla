------------------------------- MODULE Cluster -------------------------------
(***************************************************************************)
(* What the operator observes and does not control (external, except for   *)
(* the classification rule and the event filter of the detector): pods     *)
(* that break, recover, disappear and come back under the same name,       *)
(* policies that people edit, and the clock.  Every pod event that passes  *)
(* podStatusChanged puts the pod into the detector's queue.                *)
(***************************************************************************)
EXTENDS DiagnosisStore

CONSTANTS GraceTypes,    \* failures that Classify reports only after a delay
          ChurnTypes,    \* failures during which the pod's status keeps changing
          PolicySpecs,   \* policies that may be written
          InitPolicies,  \* policies at the start, a set of functions
          Upsets,        \* which changes from outside may happen
          MaxUpsets,     \* bound: how many of them
          MaxTime        \* bound: clock ticks

VARIABLES pods,      \* each pod: instance, liveness, failure, delay passed
          policies,  \* the HealingPolicy of each name, or Absent
          now,       \* the clock
          detQ,      \* work queue of the detector
          later,     \* pods to be requeued after five minutes
          upsets     \* changes from outside so far

clusterVars == <<pods, policies, now, detQ, later, upsets>>

None == "None"
Policy == [types: SUBSET FailureTypes, limit: Nat, agent: BOOLEAN]
PodState == [uid: Nat, live: BOOLEAN, failure: FailureTypes \cup {None}, ripe: BOOLEAN]

ASSUME ClusterAssumption ==
  /\ GraceTypes \subseteq FailureTypes
  /\ ChurnTypes \subseteq FailureTypes
  /\ PolicySpecs \subseteq Policy
  /\ InitPolicies \subseteq [PolicyNames -> PolicySpecs \cup {Absent}]
  /\ MaxUpsets \in Nat
  /\ MaxTime \in Nat

ClusterTypeOK ==
  /\ pods \in [Pods -> PodState]
  /\ policies \in [PolicyNames -> PolicySpecs \cup {Absent}]
  /\ now \in Nat
  /\ detQ \subseteq Pods
  /\ later \subseteq Pods
  /\ upsets \in Nat

\* What a pod becomes.  A failure of a type with a grace period is not
\* reported at once; a new instance starts healthy.
Broken(pod, failure) == [pod EXCEPT !.failure = failure, !.ripe = failure \notin GraceTypes \cup {None}]
Gone(pod) == [pod EXCEPT !.live = FALSE, !.failure = None, !.ripe = FALSE]
Successor(pod) == [pod EXCEPT !.uid = pod.uid + 1, !.live = TRUE]

\* The manager starts in a cluster whose pods may be failing already.
ClusterInit ==
  /\ pods \in {[p \in Pods |-> Broken([uid |-> 1, live |-> TRUE, failure |-> None, ripe |-> FALSE], f[p])] :
                 f \in [Pods -> FailureTypes \cup {None}]}
  /\ policies \in InitPolicies
  /\ now = 0
  /\ detQ = Pods
  /\ later = {}
  /\ upsets = 0

\* Classify: the pod is there, it fails, and the delay of a probe or a
\* scheduling failure has passed.
Classified(p) == pods[p].live /\ pods[p].failure # None /\ pods[p].ripe

-----------------------------------------------------------------------------
Upset(kind) ==
  /\ kind \in Upsets
  /\ upsets < MaxUpsets
  /\ upsets' = upsets + 1

\* podStatusChanged lets create events and changes of the status through.
PodEvent(p) == detQ' = detQ \cup {p}

PodBreaks(p, failure) ==
  /\ Upset("break")
  /\ pods[p].live /\ pods[p].failure # failure
  /\ pods' = [pods EXCEPT ![p] = Broken(@, failure)]
  /\ PodEvent(p)
  /\ UNCHANGED <<policies, now, later>>

PodRecovers(p) ==
  /\ Upset("recover")
  /\ pods[p].live /\ pods[p].failure # None
  /\ pods' = [pods EXCEPT ![p] = Broken(@, None)]
  /\ PodEvent(p)
  /\ UNCHANGED <<policies, now, later>>

\* The back-off of a crash loop changes the status again and again.
PodChurns(p) ==
  /\ pods[p].live /\ pods[p].failure \in ChurnTypes
  /\ PodEvent(p)
  /\ UNCHANGED <<pods, policies, now, later, upsets>>

\* Time passes: Classify would answer differently now, and nothing has
\* happened to the pod that would raise an event.
GraceElapses(p) ==
  /\ pods[p].live /\ pods[p].failure \in GraceTypes /\ ~pods[p].ripe
  /\ pods' = [pods EXCEPT ![p].ripe = TRUE]
  /\ UNCHANGED <<policies, now, detQ, later, upsets>>

\* podStatusChanged drops delete events.
PodDeleted(p) ==
  /\ Upset("remove")
  /\ pods[p].live
  /\ pods' = [pods EXCEPT ![p] = Gone(@)]
  /\ UNCHANGED <<policies, now, detQ, later>>

\* A new instance under the name of the old one, as a StatefulSet creates it.
PodRecreated(p) ==
  /\ ~pods[p].live
  /\ pods' = [pods EXCEPT ![p] = Successor(@)]
  /\ PodEvent(p)
  /\ UNCHANGED <<policies, now, later, upsets>>

\* No controller watches policies: an edit wakes nobody.
PolicyChanges(q, spec) ==
  /\ Upset("policy")
  /\ policies[q] # spec
  /\ policies' = [policies EXCEPT ![q] = spec]
  /\ UNCHANGED <<pods, now, detQ, later>>

Tick ==
  /\ now < MaxTime
  /\ now' = now + 1
  /\ UNCHANGED <<pods, policies, detQ, later, upsets>>

\* The five minutes of RequeueAfter have passed.
Requeue(p) ==
  /\ p \in later
  /\ later' = later \ {p}
  /\ PodEvent(p)
  /\ UNCHANGED <<pods, policies, now, upsets>>
-----------------------------------------------------------------------------
\* Somebody deletes a Diagnosis, or edits its metadata.
UserDeletes(n) ==
  /\ Upset("delete")
  /\ Remove(n)
  /\ UNCHANGED <<evQ, invQ, faults, pods, policies, now, detQ, later>>

UserAnnotates(n) ==
  /\ Upset("annotate")
  /\ Touch(n)
  /\ UNCHANGED <<evQ, invQ, faults, pods, policies, now, detQ, later>>

\* Everything outside the operator except the removal of pods.
PodNext(p) ==
  \/ \E f \in FailureTypes : PodBreaks(p, f)
  \/ PodRecovers(p)
  \/ PodChurns(p)
  \/ GraceElapses(p)
  \/ PodRecreated(p)
  \/ Requeue(p)

WorldNext ==
  \/ \E p \in Pods : PodNext(p)
  \/ \E q \in PolicyNames, spec \in PolicySpecs \cup {Absent} : PolicyChanges(q, spec)
  \/ Tick

ClusterNext ==
  \/ WorldNext /\ UNCHANGED storeVars
  \/ \E n \in Names : UserDeletes(n) \/ UserAnnotates(n)
  \/ \E n \in Names : Deliver(n) /\ UNCHANGED clusterVars
  \/ \E n \in Names : Resync(n) /\ UNCHANGED clusterVars

\* The manager restarts: it lists the pods as well.
Restart ==
  /\ Fault
  /\ Relist
  /\ detQ' = {p \in Pods : pods[p].live}
  /\ later' = {}
  /\ UNCHANGED <<pods, policies, now, upsets>>
=============================================================================
