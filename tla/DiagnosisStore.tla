--------------------------- MODULE DiagnosisStore ---------------------------
(***************************************************************************)
(* The Diagnosis objects as the three controllers see them: the API server *)
(* (external), the shared informer cache that controller-runtime puts in   *)
(* front of it (external), and the work queues that the phase predicates   *)
(* of the controllers feed (evidence_controller.go, phaseIs).              *)
(*                                                                         *)
(* A write goes to the server and is refused unless the writer holds the   *)
(* current resource version.  A read goes to the cache, which follows the  *)
(* server one watch event at a time and may lag by any number of events.   *)
(***************************************************************************)
EXTENDS Integers, Sequences, FiniteSets

CONSTANTS Pods,          \* pod names of the one namespace that is modelled
          Workloads,     \* objects a failure can be attributed to
          FailureTypes,  \* the failure types of api/v1alpha1
          PolicyNames,   \* names of the HealingPolicy objects
          Absent,        \* model value: there is no such object
          MaxFaults      \* bound: failed API or model calls, and restarts

VARIABLES diag,    \* server: the Diagnosis of each name, or Absent
          rv,      \* server: the last resource version used for each name
          cache,   \* informer cache
          watch,   \* watch events sent by the server, not yet applied
          evQ,     \* work queue of the evidence controller
          invQ,    \* work queue of the investigator
          faults   \* faults so far

storeVars == <<diag, rv, cache, watch, evQ, invQ, faults>>

\* detector.Signature and DiagnosisName are deterministic and, up to a hash
\* collision, injective: what they are computed from stands for the name.  Of
\* that, the namespace and the container are the same throughout this model.
DiagnosisName(workload, failureType) == <<workload, failureType>>
Names == Workloads \X FailureTypes

\* "New" is the empty phase of an object that was created and whose first
\* status update has not happened.
Phases == {"New", "Detected", "Enriched", "Hypothesized"}

\* What status.evidence says.  logs: the pod instance whose logs were read (0
\* for none); events: the instances whose events were read.
Evidence == [state: {"none", "podGone", "collected"}, logs: Nat, events: SUBSET Nat]
NoEvidence == [state |-> "none", logs |-> 0, events |-> {}]

\* findings: the uid of the Diagnosis that was investigated, 0 for none.
\* at: the creation timestamp.
Version == [uid: Nat, rv: Nat, phase: Phases, pod: Pods, podUID: Nat,
            policy: PolicyNames, evidence: Evidence, findings: Nat, at: Nat]

ASSUME StoreAssumption ==
  /\ Absent \notin Version
  /\ MaxFaults \in Nat

StoreTypeOK ==
  /\ diag \in [Names -> Version \cup {Absent}]
  /\ rv \in [Names -> Nat]
  /\ cache \in [Names -> Version \cup {Absent}]
  /\ watch \in [Names -> Seq(Version \cup {Absent})]
  /\ evQ \subseteq Names
  /\ invQ \subseteq Names
  /\ faults \in Nat

StoreInit ==
  /\ diag = [n \in Names |-> Absent]
  /\ rv = [n \in Names |-> 0]
  /\ cache = [n \in Names |-> Absent]
  /\ watch = [n \in Names |-> <<>>]
  /\ evQ = {}
  /\ invQ = {}
  /\ faults = 0

-----------------------------------------------------------------------------
(* The API server.                                                         *)

\* Any accepted write: the object changes and the watch is told.
Commit(n, obj) ==
  /\ diag' = [diag EXCEPT ![n] = obj]
  /\ rv' = [rv EXCEPT ![n] = @ + 1]
  /\ watch' = [watch EXCEPT ![n] = Append(@, obj)]
  /\ UNCHANGED cache

UnchangedStore == UNCHANGED <<diag, rv, cache, watch>>

\* The object a create stores: the server assigns uid and resource version.
Stored(n, obj, time) == [obj EXCEPT !.uid = rv[n] + 1, !.rv = rv[n] + 1, !.at = time]

\* Mutation: updates are accepted whatever version their sender read.
CurrentOfAnyVersion(n, held) == diag[n] # Absent

\* An update is accepted only against the version its sender read.
Current(n, held) == diag[n] # Absent /\ diag[n].rv = held.rv

Update(n, obj) == Commit(n, [obj EXCEPT !.rv = rv[n] + 1])

\* Somebody outside the operator deletes or annotates a Diagnosis.
Remove(n) == diag[n] # Absent /\ Commit(n, Absent)
Touch(n) == diag[n] # Absent /\ Update(n, diag[n])

\* A call fails, or its answer is lost, or the process dies: at most MaxFaults.
Fault == faults < MaxFaults /\ faults' = faults + 1

-----------------------------------------------------------------------------
(* The informer.                                                           *)

\* Mutation: the predicates and the checks of the phase let everything pass.
PhaseIsAny(obj, phase) == obj # Absent

\* phaseIs: the predicate each controller filters its events with.
PhaseIs(obj, phase) == obj # Absent /\ obj.phase = phase

\* Mutations: the evidence controller listens for creations; the investigator
\* listens only for evidence that was collected.
NotifyOfCreation(n, obj) ==
  /\ evQ' = IF PhaseIs(obj, "New") THEN evQ \cup {n} ELSE evQ
  /\ invQ' = IF PhaseIs(obj, "Enriched") THEN invQ \cup {n} ELSE invQ
NotifyOfCollected(n, obj) ==
  /\ evQ' = IF PhaseIs(obj, "Detected") THEN evQ \cup {n} ELSE evQ
  /\ invQ' = IF PhaseIs(obj, "Enriched") /\ obj.evidence.state = "collected"
             THEN invQ \cup {n} ELSE invQ

\* An event about obj reaches the queues whose predicate it satisfies.
Notify(n, obj) ==
  /\ evQ' = IF PhaseIs(obj, "Detected") THEN evQ \cup {n} ELSE evQ
  /\ invQ' = IF PhaseIs(obj, "Enriched") THEN invQ \cup {n} ELSE invQ

\* The next watch event is applied.  A delete event carries the last object
\* the cache had.
Deliver(n) ==
  /\ watch[n] # <<>>
  /\ cache' = [cache EXCEPT ![n] = Head(watch[n])]
  /\ watch' = [watch EXCEPT ![n] = Tail(@)]
  /\ Notify(n, IF Head(watch[n]) = Absent THEN cache[n] ELSE Head(watch[n]))
  /\ UNCHANGED <<diag, rv, faults>>

\* The periodic resync reports every cached object once more.
Resync(n) ==
  /\ cache[n] # Absent
  /\ Notify(n, cache[n])
  /\ UNCHANGED <<diag, rv, cache, watch, faults>>

\* A restarted manager lists the objects and starts with that as its cache.
Relist ==
  /\ cache' = diag
  /\ watch' = [n \in Names |-> <<>>]
  /\ evQ' = {n \in Names : PhaseIs(diag[n], "Detected")}
  /\ invQ' = {n \in Names : PhaseIs(diag[n], "Enriched")}
  /\ UNCHANGED <<diag, rv>>

\* The Diagnosis objects of which the cache has not been told everything.
Unseen == {n \in Names : watch[n] # <<>>}
=============================================================================
