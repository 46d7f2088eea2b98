--------------------------- MODULE PipelineProofs ---------------------------
(***************************************************************************)
(* Type correctness of the pipeline.                                       *)
(***************************************************************************)
EXTENDS Pipeline, TLAPS

\* The types of what the program has, without the history.
CoreTypeOK == StoreTypeOK /\ ClusterTypeOK /\ DetTypeOK /\ EvTypeOK /\ InvTypeOK

-----------------------------------------------------------------------------
(* What the operations make of a Diagnosis.                                *)

\* Changing the resource version, the phase or a result of a Diagnosis, and
\* building and storing a new one, all give a Diagnosis.
LEMMA VersionOps ==
  ASSUME NEW o \in Version, NEW k \in Nat
  PROVE  /\ [o EXCEPT !.rv = k] \in Version
         /\ Marked(o) \in Version
         /\ \A e \in Evidence : Enriched(o, e) \in Version
         /\ Hypothesized(o, k) \in Version
BY DEF Version, Marked, Enriched, Hypothesized, Phases

\* What a create stores is a Diagnosis.
LEMMA StoredIsVersion ==
  ASSUME StoreTypeOK, NEW n \in Names, NEW o \in Version, NEW k \in Nat
  PROVE  Stored(n, o, k) \in Version
<1>1. rv[n] + 1 \in Nat
  BY DEF StoreTypeOK
<1> QED
  BY <1>1 DEF Stored, Version

\* What buildDiagnosis returns is a Diagnosis.
LEMMA BuiltIsVersion ==
  ASSUME ClusterTypeOK, NEW p \in Pods, NEW q \in PolicyNames
  PROVE  BuildDiagnosis(p, q) \in Version
BY DEF ClusterTypeOK, PodState, BuildDiagnosis, Version, Phases, Evidence, NoEvidence

\* What the evidence controller attaches is evidence.
LEMMA EvidenceOps ==
  ASSUME ClusterTypeOK, NEW p \in Pods
  PROVE  PodGone \in Evidence /\ Collected(p) \in Evidence
BY DEF ClusterTypeOK, PodState, PodGone, Collected, Evidence

\* Every accepted write leaves the store well typed.
LEMMA CommitType ==
  ASSUME StoreTypeOK, NEW n \in Names, NEW o \in Version \cup {Absent}, Commit(n, o)
  PROVE  /\ diag' \in [Names -> Version \cup {Absent}]
         /\ rv' \in [Names -> Nat]
         /\ cache' \in [Names -> Version \cup {Absent}]
         /\ watch' \in [Names -> Seq(Version \cup {Absent})]
BY DEF StoreTypeOK, Commit

\* An update of a Diagnosis leaves the store well typed.
LEMMA UpdateType ==
  ASSUME StoreTypeOK, NEW n \in Names, NEW o \in Version, Update(n, o)
  PROVE  /\ diag' \in [Names -> Version \cup {Absent}]
         /\ rv' \in [Names -> Nat]
         /\ cache' \in [Names -> Version \cup {Absent}]
         /\ watch' \in [Names -> Seq(Version \cup {Absent})]
<1>1. rv[n] + 1 \in Nat
  BY DEF StoreTypeOK
<1>2. [o EXCEPT !.rv = rv[n] + 1] \in Version
  BY <1>1, VersionOps
<1> QED
  BY <1>2, CommitType DEF Update

-----------------------------------------------------------------------------
(* The environment.                                                        *)

\* Pods, policies and the clock change within their types.
LEMMA WorldTypes ==
  ASSUME ClusterTypeOK, WorldNext \/ \E p \in Pods : PodDeleted(p)
  PROVE  ClusterTypeOK'
<1>1. ASSUME NEW p \in Pods, PodNext(p) \/ PodDeleted(p)
      PROVE  ClusterTypeOK'
  <2>p. pods[p] \in PodState
    BY DEF ClusterTypeOK
  <2>b. \A t \in FailureTypes \cup {None} : Broken(pods[p], t) \in PodState
    BY <2>p DEF PodState, Broken
  <2>g. Gone(pods[p]) \in PodState
    BY <2>p DEF PodState, Gone
  <2>s. Successor(pods[p]) \in PodState
    <3>1. pods[p].uid + 1 \in Nat
      BY <2>p DEF PodState
    <3> QED
      BY <2>p, <3>1 DEF PodState, Successor
  <2>r. [pods[p] EXCEPT !.ripe = TRUE] \in PodState
    BY <2>p DEF PodState
  <2> USE <1>1, <2>b, <2>g, <2>s, <2>r DEF ClusterTypeOK, Upset, PodEvent
  <2>1. ASSUME NEW t \in FailureTypes, PodBreaks(p, t)
        PROVE  ClusterTypeOK'
    BY <2>1 DEF PodBreaks
  <2>2. CASE PodRecovers(p)
    BY <2>2 DEF PodRecovers
  <2>3. CASE PodChurns(p)
    BY <2>3 DEF PodChurns
  <2>4. CASE GraceElapses(p)
    BY <2>4 DEF GraceElapses
  <2>5. CASE PodRecreated(p)
    BY <2>5 DEF PodRecreated
  <2>6. CASE Requeue(p)
    BY <2>6 DEF Requeue
  <2>7. CASE PodDeleted(p)
    BY <2>7 DEF PodDeleted
  <2> QED
    BY <2>1, <2>2, <2>3, <2>4, <2>5, <2>6, <2>7 DEF PodNext
<1>2. ASSUME NEW q \in PolicyNames, NEW spec \in PolicySpecs \cup {Absent}, PolicyChanges(q, spec)
      PROVE  ClusterTypeOK'
  BY <1>2 DEF ClusterTypeOK, PolicyChanges, Upset
<1>3. CASE Tick
  BY <1>3 DEF ClusterTypeOK, Tick
<1> QED
  BY <1>1, <1>2, <1>3 DEF WorldNext

\* The informer and the users leave the store well typed.
LEMMA InformerTypes ==
  ASSUME StoreTypeOK, NEW n \in Names, Deliver(n) \/ Resync(n)
  PROVE  StoreTypeOK'
<1>1. CASE Deliver(n)
  <2>1. Head(watch[n]) \in Version \cup {Absent} /\ Tail(watch[n]) \in Seq(Version \cup {Absent})
    BY <1>1 DEF Deliver, StoreTypeOK
  <2>2. evQ' \subseteq Names /\ invQ' \subseteq Names
    BY <1>1 DEF Deliver, Notify, StoreTypeOK
  <2> QED
    BY <1>1, <2>1, <2>2 DEF Deliver, StoreTypeOK
<1>2. CASE Resync(n)
  BY <1>2 DEF Resync, Notify, StoreTypeOK
<1> QED
  BY <1>1, <1>2

\* Removing or annotating a Diagnosis leaves the store well typed.
LEMMA UserTypes ==
  ASSUME StoreTypeOK, ClusterTypeOK, NEW n \in Names, UserDeletes(n) \/ UserAnnotates(n)
  PROVE  StoreTypeOK' /\ ClusterTypeOK'
<1>1. ClusterTypeOK'
  BY DEF UserDeletes, UserAnnotates, Upset, ClusterTypeOK
<1>2. CASE UserDeletes(n)
  BY <1>1, <1>2, CommitType DEF UserDeletes, Remove, StoreTypeOK
<1>3. CASE UserAnnotates(n)
  <2>1. diag[n] \in Version
    BY <1>3 DEF UserAnnotates, Touch, StoreTypeOK
  <2> QED
    BY <1>1, <1>3, <2>1, UpdateType DEF UserAnnotates, Touch, StoreTypeOK
<1> QED
  BY <1>2, <1>3

\* Every step outside the operator keeps the types.
LEMMA EnvironmentTypes ==
  ASSUME CoreTypeOK, Environment
  PROVE  CoreTypeOK'
<1> USE DEF CoreTypeOK
<1>1. UNCHANGED <<det, ev, wrk>>
  BY DEF Environment
<1>2. DetTypeOK' /\ EvTypeOK' /\ InvTypeOK'
  BY <1>1 DEF DetTypeOK, EvTypeOK, InvTypeOK
<1>3. CASE (WorldNext \/ \E p \in Pods : PodDeleted(p)) /\ UNCHANGED storeVars
  <2>1. StoreTypeOK'
    BY <1>3 DEF StoreTypeOK, storeVars
  <2> QED
    BY <1>2, <1>3, <2>1, WorldTypes
<1>4. ASSUME NEW n \in Names, UserDeletes(n) \/ UserAnnotates(n)
      PROVE  CoreTypeOK'
  BY <1>2, <1>4, UserTypes
<1>5. ASSUME NEW n \in Names, Deliver(n) \/ Resync(n), UNCHANGED clusterVars
      PROVE  CoreTypeOK'
  <2>1. ClusterTypeOK'
    BY <1>5 DEF ClusterTypeOK, clusterVars
  <2> QED
    BY <1>2, <1>5, <2>1, InformerTypes
<1> QED
  BY <1>3, <1>4, <1>5 DEF Environment, ClusterNext

-----------------------------------------------------------------------------
(* The controllers.                                                        *)

\* Every step of the detector keeps the types.
LEMMA DetectorTypes ==
  ASSUME CoreTypeOK, Detector
  PROVE  CoreTypeOK'
<1> USE DEF CoreTypeOK
<1>1. EvTypeOK' /\ InvTypeOK'
  BY DEF Detector, EvTypeOK, InvTypeOK
<1>i. DetIdle \in DetWork /\ DetIdle.pc = "idle"
  BY DEF DetIdle, DetWork
<1>2. ASSUME NEW p \in Pods, DetDismiss(p) \/ DetDefer(p)
      PROVE  CoreTypeOK'
  <2>1. StoreTypeOK' /\ DetTypeOK'
    BY <1>2 DEF DetDismiss, DetDefer, StoreTypeOK, storeVars, DetTypeOK
  <2>2. ClusterTypeOK'
    BY <1>2 DEF DetDismiss, DetDefer, ClusterTypeOK
  <2> QED
    BY <1>1, <2>1, <2>2
<1>3. ASSUME NEW p \in Pods, DetOpen(p)
      PROVE  CoreTypeOK'
  <2>1. StoreTypeOK' /\ ClusterTypeOK'
    BY <1>3 DEF DetOpen, StoreTypeOK, storeVars, ClusterTypeOK
  <2>2. PICK q \in PolicyFor, w \in ResolveWorkload(p) :
          /\ Covered(p, q)
          /\ det' = [pc |-> "create", pod |-> p, name |-> DiagnosisName(w, pods[p].failure),
                     obj |-> BuildDiagnosis(p, q), limit |-> policies[q].limit, unseen |-> Unseen]
    BY <1>3 DEF DetOpen
  <2>3. q \in PolicyNames /\ w \in Workloads
    BY <2>2, DetectorAssumption DEF PolicyFor, ResolveWorkload
  <2>4. pods[p].failure \in FailureTypes
    BY <2>2 DEF Covered, Classified, ClusterTypeOK, PodState
  <2>5. DiagnosisName(w, pods[p].failure) \in Names
    BY <2>3, <2>4 DEF DiagnosisName, Names
  <2>6. BuildDiagnosis(p, q) \in Version
    BY <2>3, BuiltIsVersion
  <2>7. policies[q].limit \in Nat /\ Unseen \in SUBSET Names
    <3>1. policies[q] \in Policy
      BY <2>2, ClusterAssumption DEF PolicyFor, ClusterTypeOK
    <3> QED
      BY <3>1 DEF Policy, Unseen
  <2>8. DetTypeOK'
    BY <2>2, <2>5, <2>6, <2>7 DEF DetTypeOK, DetWork
  <2> QED
    BY <1>1, <2>1, <2>8
<1>4. CASE DetCalls \/ DetFails
  <2>1. det.name \in Names /\ det.obj \in Version /\ det.pod \in Pods
    BY <1>4 DEF DetCalls, DetFails, DetCreate, DetMark, DetCreateFails, DetMarkFails, DetTypeOK
  <2>2. Stored(det.name, det.obj, now) \in Version /\ Marked(det.obj) \in Version
    BY <2>1, StoredIsVersion, VersionOps DEF ClusterTypeOK
  <2>3. StoreTypeOK'
    <3>1. \/ UnchangedStore
          \/ Commit(det.name, Stored(det.name, det.obj, now))
          \/ Update(det.name, Marked(det.obj))
      BY <1>4 DEF DetCalls, DetFails, DetCreate, DetMark, DetCreateFails, DetMarkFails
    <3>2. UNCHANGED <<evQ, invQ>> /\ (UNCHANGED faults \/ faults' = faults + 1)
      BY <1>4 DEF DetCalls, DetFails, DetCreate, DetMark, DetCreateFails, DetMarkFails, Fault
    <3>3. /\ diag' \in [Names -> Version \cup {Absent}]
          /\ rv' \in [Names -> Nat]
          /\ cache' \in [Names -> Version \cup {Absent}]
          /\ watch' \in [Names -> Seq(Version \cup {Absent})]
      BY <2>1, <2>2, <3>1, CommitType, UpdateType DEF UnchangedStore, StoreTypeOK
    <3> QED
      BY <3>2, <3>3 DEF StoreTypeOK
  <2>4. ClusterTypeOK'
    BY <1>4, <2>1 DEF DetCalls, DetFails, DetCreate, DetMark, DetCreateFails, DetMarkFails,
                      DetRetry, ClusterTypeOK, clusterVars
  <2>5. DetTypeOK'
    <3>1. det' = DetIdle \/ det' = [det EXCEPT !.pc = "mark", !.obj = Stored(det.name, det.obj, now)]
      BY <1>4 DEF DetCalls, DetFails, DetCreate, DetMark, DetCreateFails, DetMarkFails, DetRetry
    <3> QED
      BY <1>i, <2>1, <2>2, <3>1 DEF DetTypeOK, DetWork
  <2> QED
    BY <1>1, <2>3, <2>4, <2>5
<1> QED
  BY <1>2, <1>3, <1>4 DEF Detector, DetStart

\* Every step of the evidence controller keeps the types.
LEMMA EvidenceTypes ==
  ASSUME CoreTypeOK, EvidenceCollector
  PROVE  CoreTypeOK'
<1> USE DEF CoreTypeOK
<1>1. DetTypeOK' /\ InvTypeOK' /\ ClusterTypeOK'
  BY DEF EvidenceCollector, EvStart, EvCollect, EvWrite, EvWriteFails, clusterVars,
         DetTypeOK, InvTypeOK, ClusterTypeOK
<1>i. EvIdle \in EvWork /\ EvIdle.pc = "idle"
  BY DEF EvIdle, EvWork
<1>2. ASSUME NEW n \in Names, EvStart(n)
      PROVE  CoreTypeOK'
  <2>1. StoreTypeOK'
    BY <1>2 DEF EvStart, StoreTypeOK
  <2>2. CASE ~PhaseIs(cache[n], "Detected")
    <3>1. ev' = EvIdle
      BY <1>2, <2>2 DEF EvStart
    <3> QED
      BY <1>1, <1>i, <2>1, <3>1 DEF EvTypeOK
  <2>3. CASE PhaseIs(cache[n], "Detected")
    <3>1. cache[n] \in Version
      BY <2>3 DEF PhaseIs, StoreTypeOK
    <3>2. Enriched(cache[n], PodGone) \in Version
      <4>1. PodGone \in Evidence
        BY DEF PodGone, Evidence
      <4> QED
        BY <3>1, <4>1, VersionOps
    <3>3. \/ ev' = [pc |-> "collect", name |-> n, obj |-> cache[n]]
          \/ ev' = [pc |-> "write", name |-> n, obj |-> Enriched(cache[n], PodGone)]
      BY <1>2, <2>3 DEF EvStart
    <3> QED
      BY <1>1, <2>1, <3>1, <3>2, <3>3 DEF EvTypeOK, EvWork
  <2> QED
    BY <2>2, <2>3
<1>3. CASE EvCollect
  <2>1. ev.name \in Names /\ ev.obj \in Version /\ ev.obj.pod \in Pods
    BY <1>3 DEF EvCollect, EvTypeOK, Version
  <2>2. Enriched(ev.obj, Collected(ev.obj.pod)) \in Version
    BY <2>1, EvidenceOps, VersionOps
  <2>3. StoreTypeOK'
    BY <1>3 DEF EvCollect, StoreTypeOK, storeVars
  <2>4. EvTypeOK'
    BY <1>3, <2>1, <2>2 DEF EvCollect, EvTypeOK, EvWork
  <2> QED
    BY <1>1, <2>3, <2>4
<1>4. CASE EvWrite \/ EvWriteFails
  <2>1. ev.name \in Names /\ ev.obj \in Version
    BY <1>4 DEF EvWrite, EvWriteFails, EvTypeOK
  <2>2. UnchangedStore \/ Update(ev.name, ev.obj)
    BY <1>4 DEF EvWrite, EvWriteFails
  <2>3. /\ diag' \in [Names -> Version \cup {Absent}]
        /\ rv' \in [Names -> Nat]
        /\ cache' \in [Names -> Version \cup {Absent}]
        /\ watch' \in [Names -> Seq(Version \cup {Absent})]
    BY <2>1, <2>2, UpdateType DEF UnchangedStore, StoreTypeOK
  <2>4. StoreTypeOK'
    BY <1>4, <2>1, <2>3 DEF EvWrite, EvWriteFails, EvRetry, Fault, StoreTypeOK
  <2>5. EvTypeOK'
    BY <1>4, <1>i DEF EvWrite, EvWriteFails, EvRetry, EvTypeOK
  <2> QED
    BY <1>1, <2>4, <2>5
<1> QED
  BY <1>2, <1>3, <1>4 DEF EvidenceCollector

\* Every step of a worker of the investigator keeps the types.
LEMMA InvestigatorTypes ==
  ASSUME CoreTypeOK, Investigator
  PROVE  CoreTypeOK'
<1> USE DEF CoreTypeOK
<1>1. DetTypeOK' /\ EvTypeOK'
  BY DEF Investigator, DetTypeOK, EvTypeOK
<1>i. InvIdle \in InvWork /\ InvIdle.pc = "idle"
  BY DEF InvIdle, InvWork
<1>2. PICK w \in Workers : (\E n \in Names : InvStart(w, n)) \/ InvSteps(w) \/ InvFails(w)
  BY DEF Investigator
<1>3. ClusterTypeOK'
  <2>1. UNCHANGED clusterVars
    BY <1>2 DEF InvStart, InvSteps, InvFails, InvRun, InvRead, InvWrite, InvRunFails, InvWriteFails
  <2> QED
    BY <2>1 DEF ClusterTypeOK, clusterVars
<1>w. wrk[w] \in InvWork
  BY DEF InvTypeOK
<1>4. ASSUME NEW new \in InvWork, wrk' = [wrk EXCEPT ![w] = new],
             new.pc # "idle" => new.name \in Names,
             new.pc = "write" => new.obj \in Version
      PROVE  InvTypeOK'
  BY <1>4 DEF InvTypeOK
<1>5. wrk' = [wrk EXCEPT ![w] = InvIdle] => InvTypeOK'
  BY <1>4, <1>i
<1>6. ASSUME NEW n \in Names, InvStart(w, n)
      PROVE  CoreTypeOK'
  <2>1. StoreTypeOK'
    BY <1>6 DEF InvStart, StoreTypeOK
  <2> DEFINE new == [InvIdle EXCEPT !.pc = "run", !.name = n, !.about = cache[n].uid]
  <2>2. CASE ToInvestigate(n)
    <3>1. cache[n].uid \in Nat
      BY <2>2 DEF ToInvestigate, PhaseIs, StoreTypeOK, Version
    <3>2. new \in InvWork /\ new.pc = "run" /\ new.name = n
      BY <3>1 DEF InvIdle, InvWork
    <3>3. wrk' = [wrk EXCEPT ![w] = new]
      BY <1>6, <2>2 DEF InvStart
    <3> HIDE DEF new
    <3>4. InvTypeOK'
      BY <1>4, <3>2, <3>3
    <3> QED
      BY <1>1, <1>3, <2>1, <3>4
  <2>3. CASE ~ToInvestigate(n)
    BY <1>1, <1>3, <1>6, <2>1, <2>3 DEF InvStart, InvTypeOK
  <2> QED
    BY <2>2, <2>3
<1>7. CASE InvRun(w)
  <2> DEFINE new == [wrk[w] EXCEPT !.pc = "read", !.tries = RetrySteps]
  <2>1. new \in InvWork /\ new.pc = "read" /\ new.name \in Names
    BY <1>7, <1>w, InvestigatorAssumption DEF InvRun, InvWork, InvTypeOK
  <2>2. wrk' = [wrk EXCEPT ![w] = new]
    BY <1>7 DEF InvRun
  <2> HIDE DEF new
  <2>3. InvTypeOK'
    BY <1>4, <2>1, <2>2
  <2> QED
    BY <1>1, <1>3, <1>7, <2>3 DEF InvRun, StoreTypeOK, storeVars
<1>8. CASE InvRunFails(w)
  <2>1. StoreTypeOK'
    BY <1>8 DEF InvRunFails, InvRetry, InvTypeOK, Fault, StoreTypeOK
  <2> QED
    BY <1>1, <1>3, <1>5, <1>8, <2>1 DEF InvRunFails, InvRetry
<1>9. CASE InvRead(w)
  <2>1. wrk[w].name \in Names
    BY <1>9 DEF InvRead, InvTypeOK
  <2>2. StoreTypeOK'
    BY <1>9, <2>1 DEF InvRead, InvRetry, StoreTypeOK
  <2> DEFINE obj == Hypothesized(cache[wrk[w].name], wrk[w].about)
             new == [wrk[w] EXCEPT !.pc = "write", !.obj = obj]
  <2>3. CASE PhaseIs(cache[wrk[w].name], "Enriched")
    <3>1. cache[wrk[w].name] \in Version /\ wrk[w].about \in Nat
      BY <1>w, <2>1, <2>3 DEF PhaseIs, StoreTypeOK, InvWork
    <3>2. obj \in Version
      BY <3>1, VersionOps
    <3>3. new \in InvWork /\ new.name \in Names /\ new.obj \in Version
      <4> HIDE DEF obj
      <4> QED
        BY <1>w, <2>1, <3>2 DEF InvWork
    <3>4. wrk' = [wrk EXCEPT ![w] = new]
      BY <1>9, <2>3 DEF InvRead, PhaseIs
    <3> HIDE DEF new
    <3>5. InvTypeOK'
      BY <1>4, <3>3, <3>4
    <3> QED
      BY <1>1, <1>3, <2>2, <3>5
  <2>4. CASE ~PhaseIs(cache[wrk[w].name], "Enriched")
    BY <1>1, <1>3, <1>5, <1>9, <2>2, <2>4 DEF InvRead, InvRetry
  <2> QED
    BY <2>3, <2>4
<1>10. CASE InvWrite(w) \/ InvWriteFails(w)
  <2>1. wrk[w].name \in Names /\ wrk[w].obj \in Version
    BY <1>10 DEF InvWrite, InvWriteFails, InvTypeOK
  <2>2. UnchangedStore \/ Update(wrk[w].name, wrk[w].obj)
    BY <1>10 DEF InvWrite, InvWriteFails
  <2>3. /\ diag' \in [Names -> Version \cup {Absent}]
        /\ rv' \in [Names -> Nat]
        /\ cache' \in [Names -> Version \cup {Absent}]
        /\ watch' \in [Names -> Seq(Version \cup {Absent})]
    BY <2>1, <2>2, UpdateType DEF UnchangedStore, StoreTypeOK
  <2>4. StoreTypeOK'
    BY <1>10, <2>1, <2>3 DEF InvWrite, InvWriteFails, InvRetry, Fault, StoreTypeOK
  <2> DEFINE new == [wrk[w] EXCEPT !.pc = "read", !.obj = Absent, !.tries = wrk[w].tries - 1]
  <2>5. CASE wrk' = [wrk EXCEPT ![w] = new] /\ ~LastAttempt(w)
    <3>1. wrk[w].tries - 1 \in Nat
      BY <1>w, <2>5 DEF InvWork, LastAttempt
    <3>2. new \in InvWork /\ new.pc = "read" /\ new.name \in Names
      BY <1>w, <2>1, <3>1 DEF InvWork
    <3> HIDE DEF new
    <3>3. InvTypeOK'
      BY <1>4, <2>5, <3>2
    <3> QED
      BY <1>1, <1>3, <2>4, <3>3
  <2>6. CASE wrk' = [wrk EXCEPT ![w] = InvIdle]
    BY <1>1, <1>3, <1>5, <2>4, <2>6
  <2>7. \/ wrk' = [wrk EXCEPT ![w] = InvIdle]
        \/ ~LastAttempt(w) /\ wrk' = [wrk EXCEPT ![w] = new]
    BY <1>10 DEF InvWrite, InvWriteFails, InvRetry
  <2> QED
    BY <2>5, <2>6, <2>7, Zenon
<1> QED
  BY <1>2, <1>6, <1>7, <1>8, <1>9, <1>10 DEF InvSteps, InvFails

\* A restart keeps the types.
LEMMA CrashTypes ==
  ASSUME CoreTypeOK, Crash
  PROVE  CoreTypeOK'
<1> USE DEF CoreTypeOK
<1>1. StoreTypeOK'
  <2>1. <<>> \in Seq(Version \cup {Absent})
    OBVIOUS
  <2> QED
    BY <2>1 DEF Crash, Restart, Fault, Relist, StoreTypeOK
<1>2. ClusterTypeOK'
  BY DEF Crash, Restart, ClusterTypeOK
<1>3. DetTypeOK' /\ EvTypeOK' /\ InvTypeOK'
  BY DEF Crash, DetTypeOK, EvTypeOK, InvTypeOK, DetIdle, EvIdle, InvIdle, DetWork, EvWork, InvWork
<1> QED
  BY <1>1, <1>2, <1>3

-----------------------------------------------------------------------------
\* The manager starts well typed, whatever the pods are doing.
LEMMA InitTypes == Init => TypeOK
<1> SUFFICES ASSUME Init PROVE TypeOK
  OBVIOUS
<1>1. StoreTypeOK
  <2>1. <<>> \in Seq(Version \cup {Absent})
    OBVIOUS
  <2> QED
    BY <2>1 DEF Init, StoreInit, StoreTypeOK
<1>2. ClusterTypeOK
  <2> DEFINE fresh == [uid |-> 1, live |-> TRUE, failure |-> None, ripe |-> FALSE]
  <2>1. PICK g \in [Pods -> FailureTypes \cup {None}] : pods = [p \in Pods |-> Broken(fresh, g[p])]
    BY DEF Init, ClusterInit
  <2>2. \A t \in FailureTypes \cup {None} : Broken(fresh, t) \in PodState
    BY DEF Broken, PodState
  <2>3. pods \in [Pods -> PodState]
    <3> HIDE DEF fresh
    <3> QED
      BY <2>1, <2>2
  <2>4. policies \in [PolicyNames -> PolicySpecs \cup {Absent}]
    <3>1. policies \in InitPolicies
      BY DEF Init, ClusterInit
    <3> QED
      BY <3>1, ClusterAssumption
  <2> QED
    BY <2>3, <2>4 DEF Init, ClusterInit, ClusterTypeOK
<1>3. DetTypeOK /\ EvTypeOK /\ InvTypeOK
  BY DEF Init, DetInit, EvInit, InvInit, DetTypeOK, EvTypeOK, InvTypeOK,
         DetIdle, EvIdle, InvIdle, DetWork, EvWork, InvWork
<1>4. HistoryTypeOK
  BY DEF Init, HistoryInit, HistoryTypeOK
<1> QED
  BY <1>1, <1>2, <1>3, <1>4 DEF TypeOK

\* The history is remembered within its types.
LEMMA RememberTypes ==
  ASSUME HistoryTypeOK, Remember
  PROVE  HistoryTypeOK'
<1>1. disturbed' \in BOOLEAN /\ crossed' \subseteq Workers
  BY DEF Remember
<1>2. \A w \in Workers : excused[w] \in Nat /\ excused[w] + 1 \in Nat
  BY DEF HistoryTypeOK
<1>3. excused' \in [Workers -> Nat]
  <2> DEFINE count(w) == CASE wrk'[w].pc \notin {"read", "write"} -> 0
                           [] w \in crossed' \ crossed -> excused[w] + 1
                           [] OTHER -> excused[w]
  <2>1. \A w \in Workers : count(w) \in Nat
    BY <1>2
  <2>2. excused' = [w \in Workers |-> count(w)]
    BY DEF Remember
  <2> HIDE DEF count
  <2> QED
    BY <2>1, <2>2
<1> QED
  BY <1>1, <1>3 DEF HistoryTypeOK

\* Every step of the pipeline keeps its state well typed.
LEMMA NextTypes == TypeOK /\ [Next]_vars => TypeOK'
<1> SUFFICES ASSUME TypeOK, [Next]_vars PROVE TypeOK'
  OBVIOUS
<1>1. CASE UNCHANGED vars
  BY <1>1 DEF vars, core, history, storeVars, clusterVars, TypeOK, StoreTypeOK, ClusterTypeOK,
              DetTypeOK, EvTypeOK, InvTypeOK, HistoryTypeOK
<1>2. CASE Next
  <2>1. CoreTypeOK /\ HistoryTypeOK
    BY DEF TypeOK, CoreTypeOK
  <2>2. CoreTypeOK'
    BY <1>2, <2>1, EnvironmentTypes, DetectorTypes, EvidenceTypes, InvestigatorTypes, CrashTypes DEF Next
  <2>3. HistoryTypeOK'
    BY <1>2, <2>1, RememberTypes DEF Next
  <2> QED
    BY <2>2, <2>3 DEF TypeOK, CoreTypeOK
<1> QED
  BY <1>1, <1>2

\* Type correctness: in every reachable state the queues hold known keys, and
\* whatever a worker holds while it is busy is a Diagnosis of a known name.
THEOREM TypeCorrect == Spec => []TypeOK
<1>1. Init => TypeOK
  BY InitTypes
<1>2. TypeOK /\ [Next]_vars => TypeOK'
  BY NextTypes
<1> QED
  BY <1>1, <1>2, PTL DEF Spec
=============================================================================
