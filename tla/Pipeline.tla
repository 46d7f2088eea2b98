------------------------------ MODULE Pipeline ------------------------------
(***************************************************************************)
(* The operator: the detector, the evidence controller and the             *)
(* investigator, run by one manager over one cache (cmd/main.go).  They    *)
(* share nothing but the Diagnosis objects; the phase is the hand-over.    *)
(***************************************************************************)
EXTENDS DetectorController, EvidenceController, InvestigatorController

\* History, read only by LogsOfTarget and ConflictsAccounted.
VARIABLES disturbed,  \* the pod was removed while its logs were read
          crossed,    \* workers whose attempt to record is bound to conflict
          excused     \* how many such attempts each worker has made

\* A Diagnosis without its resource version: what its readers rely on.
Specs == [pod: Pods, podUID: Nat, policy: PolicyNames]
Visibles == [uid: Nat, spec: Specs, phase: Phases, evidence: Evidence, findings: Nat]

ASSUME PipelineAssumption == Absent \notin Visibles

core == <<storeVars, clusterVars, det, ev, wrk>>
history == <<disturbed, crossed, excused>>
vars == <<core, history>>

HistoryInit ==
  /\ disturbed = FALSE
  /\ crossed = {}
  /\ excused = [w \in Workers |-> 0]

Init == StoreInit /\ ClusterInit /\ DetInit /\ EvInit /\ InvInit /\ HistoryInit

Environment ==
  \/ ClusterNext /\ UNCHANGED <<det, ev, wrk>>
  \/ \E p \in Pods : PodDeleted(p) /\ UNCHANGED <<storeVars, det, ev, wrk>>

Detector ==
  /\ (\E p \in Pods : DetStart(p)) \/ DetCalls \/ DetFails
  /\ UNCHANGED <<ev, wrk>>

EvidenceCollector ==
  /\ (\E n \in Names : EvStart(n)) \/ EvCollect \/ EvWrite \/ EvWriteFails
  /\ UNCHANGED <<det, wrk>>

Investigator ==
  /\ \E w \in Workers : (\E n \in Names : InvStart(w, n)) \/ InvSteps(w) \/ InvFails(w)
  /\ UNCHANGED <<det, ev>>

\* The process dies and starts again: whatever the workers held is lost.
Crash ==
  /\ Restart
  /\ det' = DetIdle
  /\ ev' = EvIdle
  /\ wrk' = [w \in Workers |-> InvIdle]

\* An attempt of record is bound to conflict from the moment it reads a copy of
\* which there is news the cache has not applied, or from the moment somebody
\* outside the operator writes the Diagnosis after it was read.
ReadsBehind(w) == wrk[w].pc = "read" /\ wrk[w].name \in Unseen
CrossedOutside(w) ==
  wrk[w].pc = "write" /\ upsets' # upsets /\ diag'[wrk[w].name] # diag[wrk[w].name]

Removed(p) == pods[p].live /\ ~pods'[p].live

Remember ==
  /\ disturbed' = (ev'.pc # "idle" /\ (disturbed \/ (ev.pc = "collect" /\ Removed(ev.obj.pod))))
  /\ crossed' = {w \in Workers : wrk'[w].pc = "write"
                     /\ (w \in crossed \/ ReadsBehind(w) \/ CrossedOutside(w))}
  /\ excused' = [w \in Workers |->
                   CASE wrk'[w].pc \notin {"read", "write"} -> 0
                     [] w \in crossed' \ crossed -> excused[w] + 1
                     [] OTHER -> excused[w]]

Next == (Environment \/ Detector \/ EvidenceCollector \/ Investigator \/ Crash) /\ Remember

Spec == Init /\ [][Next]_vars

HistoryTypeOK ==
  /\ disturbed \in BOOLEAN
  /\ crossed \subseteq Workers
  /\ excused \in [Workers -> Nat]

TypeOK ==
  StoreTypeOK /\ ClusterTypeOK /\ DetTypeOK /\ EvTypeOK /\ InvTypeOK /\ HistoryTypeOK

-----------------------------------------------------------------------------
(* Fairness: the watch delivers, the cache resyncs, the three work queues   *)
(* serve their keys in order (so no key waits for ever while the worker is  *)
(* idle again and again: strong fairness), a delayed key comes back, and a  *)
(* worker finishes what it started.  A crash loop (ChurnTypes) goes on      *)
(* changing the status of its pod; nothing is assumed of other pods, of     *)
(* users or of faults.                                                      *)

Serves(n) ==
  /\ SF_core(EvStart(n) /\ UNCHANGED <<det, wrk>>)
  /\ SF_core((\E w \in Workers : InvStart(w, n)) /\ UNCHANGED <<det, ev>>)
  /\ WF_core(Deliver(n) /\ UNCHANGED <<clusterVars, det, ev, wrk>>)
  /\ WF_core(Resync(n) /\ UNCHANGED <<clusterVars, det, ev, wrk>>)

ServesPod(p) ==
  /\ SF_core(DetStart(p) /\ UNCHANGED <<ev, wrk>>)
  /\ WF_core(Requeue(p) /\ UNCHANGED <<storeVars, det, ev, wrk>>)
  /\ WF_core(PodChurns(p) /\ UNCHANGED <<storeVars, det, ev, wrk>>)

Finishes ==
  /\ WF_core(DetCalls /\ UNCHANGED <<ev, wrk>>)
  /\ WF_core((EvCollect \/ EvWrite) /\ UNCHANGED <<det, wrk>>)
  /\ \A w \in Workers : WF_core(InvSteps(w) /\ UNCHANGED <<det, ev>>)

FairSpec == Spec /\ (\A n \in Names : Serves(n)) /\ (\A p \in Pods : ServesPod(p)) /\ Finishes

-----------------------------------------------------------------------------
(* Safety.                                                                  *)

Visible(o) ==
  IF o = Absent THEN Absent
  ELSE [uid |-> o.uid, spec |-> [pod |-> o.pod, podUID |-> o.podUID, policy |-> o.policy],
        phase |-> o.phase, evidence |-> o.evidence, findings |-> o.findings]

View == [n \in Names |-> Visible(diag[n])]

Lifecycle == INSTANCE DiagnosisLifecycle WITH
  Outcomes <- {e \in Evidence : e.state # "none"},
  NoOutcome <- NoEvidence,
  obj <- View

\* The objects on the server follow DiagnosisLifecycle: specification fixed,
\* phases in order, every result written once and with its phase, although
\* the writers work from a cache that lags, retry, and are restarted.
FollowsLifecycle == Lifecycle!Spec

\* Why it does: d and r are the object on the server and the last resource
\* version used for it.  Whatever the cache, the watch or a worker holds is a
\* version the server once had; so long as the server still has that resource
\* version, the object is the one that was read, and what a worker is about to
\* write is that object moved one phase on.
Genuine(d, r, v) ==
  /\ v.uid > 0
  /\ v.rv <= r
  /\ d # Absent /\ d.rv = v.rv => d = v

EnrichReady(d, r, v) ==
  /\ v.rv <= r
  /\ v.evidence.state # "none"
  /\ d # Absent /\ d.rv = v.rv => d.phase = "Detected" /\ v = Enriched(d, v.evidence)

ConcludeReady(d, r, v, about) ==
  /\ v.rv <= r
  /\ d # Absent /\ d.rv = v.rv => d.phase = "Enriched" /\ v = Hypothesized(d, about)

StoreAgrees ==
  \A n \in Names :
    /\ diag[n] # Absent => Genuine(diag[n], rv[n], diag[n])
    /\ cache[n] # Absent => Genuine(diag[n], rv[n], cache[n])
    /\ \A i \in DOMAIN watch[n] : watch[n][i] # Absent => Genuine(diag[n], rv[n], watch[n][i])

DetAgrees ==
  /\ det.pc # "idle" =>
       det.obj.phase = "New" /\ det.obj.evidence = NoEvidence /\ det.obj.findings = 0
  /\ det.pc = "mark" => Genuine(diag[det.name], rv[det.name], det.obj)

EvAgrees ==
  /\ ev.pc = "collect" =>
       Genuine(diag[ev.name], rv[ev.name], ev.obj) /\ ev.obj.phase = "Detected"
  /\ ev.pc = "write" => EnrichReady(diag[ev.name], rv[ev.name], ev.obj)

WorkerAgrees(w) ==
  /\ wrk[w].pc # "idle" => wrk[w].about > 0
  /\ wrk[w].pc = "write" =>
       ConcludeReady(diag[wrk[w].name], rv[wrk[w].name], wrk[w].obj, wrk[w].about)
InvAgrees == \A w \in Workers : WorkerAgrees(w)

\* Every copy of a Diagnosis agrees with the server as far as its resource
\* version says it should (the inductive invariant behind FollowsLifecycle).
CopiesAgree == StoreAgrees /\ DetAgrees /\ EvAgrees /\ InvAgrees

\* The logs that are attached to a Diagnosis were printed by the instance that
\* failed, unless the pod was removed after targetFor had compared its UID and
\* before the logs were read: no other replacement, restart or stale copy gets
\* logs of a namesake into the evidence (pod names are reused, and GetLogs goes
\* by the name).
LogsOfTarget ==
  [][\A n \in Names :
       PhaseIs(diag[n], "Detected") /\ PhaseIs(diag'[n], "Enriched") /\ ~disturbed =>
         diag'[n].evidence.logs \in {0, diag'[n].podUID}]_vars

\* The events attached to a Diagnosis are about the instance that failed.
EventsOfTarget ==
  \A n \in Names : diag[n] # Absent => diag[n].evidence.events \subseteq {diag[n].podUID}

\* The findings that a Diagnosis carries were made from its own evidence
\* (investigator_controller.go:91, "every Enriched diagnosis ... has been
\* investigated, and carries ranked hypotheses").
FindingsOfDiagnosis ==
  \A n \in Names : diag[n] # Absent => diag[n].findings \in {0, diag[n].uid}

\* A Diagnosis that has its findings is investigated once more only out of the
\* cache's ignorance: while the very event that carries the findings, or a later
\* one, has not been applied.  Restarts, conflicts, lost answers and the resync
\* repeat nothing (diagnosis_types.go:25, the phase is the guard against
\* repeating costly work).
RepeatOnlyUnseen ==
  [][\A w \in Workers :
       wrk[w].pc = "idle" /\ wrk'[w].pc = "run" /\ PhaseIs(diag[wrk'[w].name], "Hypothesized") =>
         wrk'[w].name \in Unseen]_vars

\* When a conflict costs a second investigation.  If record gives up although no
\* call failed and the Diagnosis still waits for its findings, then each of its
\* RetrySteps attempts read a copy that the server had moved on from, or was
\* crossed by a write from outside (investigator_controller.go:161, "retried
\* against a fresh read rather than by re running it").  The parts of the
\* operator never take an attempt from each other.
ConflictsAccounted ==
  [][\A w \in Workers :
       /\ wrk[w].pc = "write" /\ wrk'[w].pc = "idle" /\ faults' = faults
       /\ PhaseIs(diag'[wrk[w].name], "Enriched")
       => RetrySteps <= excused[w]]_vars

\* No wake-up is lost on the way to the evidence controller.  Whenever a
\* Diagnosis is at Detected and the cache has caught up with it, its key is in
\* the work queue or in the hands of the worker: every returned error, conflict
\* and restart puts it back, and the resync is never what it waits for (phaseIs;
\* Reconcile returns the error of every failed call).
DetectedIsAttended ==
  \A n \in Names :
    PhaseIs(diag[n], "Detected") /\ watch[n] = <<>> =>
      n \in evQ \/ (ev.pc # "idle" /\ ev.name = n)

\* The same for the investigator, as far as it goes: an Enriched Diagnosis that
\* is to be investigated comes to wait for the resync only by an edit of its
\* policy, which no controller watches (SetupWithManager; Reconcile drops the key
\* when the policy does not enable the agent).
Unattended(n) ==
  /\ PhaseIs(diag[n], "Enriched") /\ AgentEnabled(diag[n]) /\ ModelConfigured
  /\ watch[n] = <<>> /\ n \notin invQ
  /\ \A w \in Workers : wrk[w].pc # "idle" => wrk[w].name # n
NoneNewlyUnattended ==
  [][\A n \in Names : Unattended(n)' => Unattended(n) \/ policies' # policies]_vars

-----------------------------------------------------------------------------
(* Liveness.                                                                *)

\* Every Diagnosis that was created reaches Detected (or is removed).
CreatedIsDetected == \A n \in Names : PhaseIs(diag[n], "New") ~> ~PhaseIs(diag[n], "New")

\* Every Diagnosis at Detected gets its evidence or is removed, in spite of
\* conflicts, failed calls and restarts.
EvidenceAttached ==
  \A n \in Names : PhaseIs(diag[n], "Detected") ~> ~PhaseIs(diag[n], "Detected")

\* Every Diagnosis at Enriched whose policy enables the agent is investigated,
\* unless it is removed or the policy is changed first.
AwaitsAgent(n) == PhaseIs(diag[n], "Enriched") /\ AgentEnabled(diag[n])
InvestigationRecorded == \A n \in Names : AwaitsAgent(n) ~> ~AwaitsAgent(n)
=============================================================================
