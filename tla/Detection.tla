------------------------------ MODULE Detection ------------------------------
(***************************************************************************)
(* The detector alone in its cluster: which failures get a Diagnosis.  The *)
(* later stages never create or remove one, so they are left out here.     *)
(***************************************************************************)
EXTENDS DetectorController

vars == <<storeVars, clusterVars, det>>

Init == StoreInit /\ ClusterInit /\ DetInit

Next ==
  \/ ClusterNext /\ UNCHANGED det
  \/ \E p \in Pods : PodDeleted(p) /\ UNCHANGED <<storeVars, det>>
  \/ \E p \in Pods : DetStart(p)
  \/ DetCalls
  \/ DetFails
  \/ Restart /\ det' = DetIdle

Spec == Init /\ [][Next]_vars

\* The watch delivers, the work queue serves every pod, calls are answered,
\* delays pass, and a crash loop goes on looping: its restarts and back-offs
\* change the status of the pod.  ChurnTypes are those failures.  Of a pod that
\* is merely not ready, or cannot be scheduled or started, the status stays as
\* it is, and nothing is assumed to happen.
FairSpec ==
  /\ Spec
  /\ \A n \in Names : WF_vars(Deliver(n) /\ UNCHANGED <<clusterVars, det>>)
  /\ \A p \in Pods :
       /\ SF_vars(DetStart(p))
       /\ WF_vars(PodChurns(p) /\ UNCHANGED <<storeVars, det>>)
       /\ WF_vars(GraceElapses(p) /\ UNCHANGED <<storeVars, det>>)
       /\ WF_vars(Requeue(p) /\ UNCHANGED <<storeVars, det>>)
  /\ WF_vars(DetCalls)

TypeOK == StoreTypeOK /\ ClusterTypeOK /\ DetTypeOK

-----------------------------------------------------------------------------
\* A pod fails in an opted-in namespace, there is no Diagnosis for it, and the
\* hourly limit leaves room for one.
Room(q) == policies[q].limit = 0 \/ Cardinality(Recent(diag)) < policies[q].limit
Undiagnosed(p) ==
  /\ Classified(p)
  /\ PolicyFor # {} /\ \A q \in PolicyFor : PolicyCovers(q, pods[p].failure) /\ Room(q)
  /\ diag[DiagnosisName(TopOwner[p], pods[p].failure)] = Absent

\* Every failing pod in an opted-in namespace gets a Diagnosis, as soon as the
\* limit leaves room for it, and gets it again if somebody deletes it, unless
\* the pod recovers or the policy goes (pod_controller.go:60).
FailingPodsDiagnosed == \A p \in Pods : Undiagnosed(p) ~> ~Undiagnosed(p)

\* The same of the pods whose status keeps changing, which is what the code
\* achieves: there is no other event that would bring the detector back to a pod
\* whose Diagnosis was deleted, whose grace period has passed or whose namespace
\* opted in late (podStatusChanged; no Diagnosis or policy is watched).
LoopingPodsDiagnosed ==
  \A p \in Pods : pods[p].failure \in ChurnTypes /\ Undiagnosed(p)
                  ~> ~(pods[p].failure \in ChurnTypes /\ Undiagnosed(p))
=============================================================================
