--------------------------- MODULE OperatorProofs ---------------------------
(***************************************************************************)
(* What the operator keeps about the Diagnosis objects as a whole: how     *)
(* many are opened, whose logs they carry, when an investigation is        *)
(* repeated, and who has each of them in hand.  All of it rests on who     *)
(* writes what (Writers), on the copies being in agreement                 *)
(* (LifecycleProofs), and on the cache being the server's once the watch   *)
(* has nothing left to tell (WatchAlwaysEnds).  Nothing is assumed of how  *)
(* far the cache lags.                                                     *)
(***************************************************************************)
EXTENDS LifecycleProofs, FiniteSetTheorems

-----------------------------------------------------------------------------
(* Who writes.                                                             *)

Creating ==
  /\ det.pc = "create" /\ diag[det.name] = Absent
  /\ Commit(det.name, Stored(det.name, det.obj, now))
  /\ det'.pc # "create"
Marking == det.pc = "mark" /\ Current(det.name, det.obj) /\ Update(det.name, Marked(det.obj))
Enriching == ev.pc = "write" /\ Current(ev.name, ev.obj) /\ Update(ev.name, ev.obj)
Concluding(w) ==
  /\ wrk[w].pc = "write" /\ Current(wrk[w].name, wrk[w].obj) /\ Update(wrk[w].name, wrk[w].obj)
  /\ wrk' = [wrk EXCEPT ![w] = InvIdle]
Editing(n) == (Remove(n) \/ Touch(n)) /\ upsets' = upsets + 1

\* The objects on the server change by one of six writes; the cache changes when
\* it catches up.
LEMMA Writers ==
  ASSUME TypeOK, [Next]_vars
  PROVE  \/ UnchangedStore
         \/ (\E n \in Names : Deliver(n)) \/ Relist
         \/ Creating
         \/ Marking
         \/ Enriching
         \/ \E w \in Workers : Concluding(w)
         \/ \E n \in Names : Editing(n)
<1>1. CASE Environment
  BY <1>1, Zenon DEF Environment, ClusterNext, UserDeletes, UserAnnotates, Upset, Editing, Resync,
                     storeVars, UnchangedStore
<1>2. CASE Detector
  <2>1. DetIdle.pc = "idle"
    BY DEF DetIdle
  <2>2. \A o : [det EXCEPT !.pc = "mark", !.obj = o].pc = "mark"
    BY DEF TypeOK, DetTypeOK, DetWork
  <2> QED
    BY <1>2, <2>1, <2>2, Zenon
       DEF Detector, DetStart, DetDismiss, DetDefer, DetOpen, DetCalls, DetFails, DetCreate, DetCreateFails,
           DetMark, DetMarkFails, DetRetry, UnchangedStore, storeVars, Creating, Marking
<1>3. CASE EvidenceCollector
  BY <1>3, Zenon DEF EvidenceCollector, EvStart, EvCollect, EvWrite, EvWriteFails, UnchangedStore,
                     storeVars, Enriching
<1>4. CASE Investigator
  BY <1>4, Zenon DEF Investigator, InvStart, InvSteps, InvFails, InvRun, InvRunFails, InvRead, InvWrite,
                     InvWriteFails, InvRetry, UnchangedStore, storeVars, Concluding
<1>5. CASE Crash \/ UNCHANGED vars
  BY <1>5 DEF Crash, Restart, vars, core, storeVars, UnchangedStore
<1> QED
  BY <1>1, <1>2, <1>3, <1>4, <1>5 DEF Next

\* What never changes about a Diagnosis.
Keeps(d, o) == SameSpec(d, o) /\ o.at = d.at

\* Everything a write leaves alone.
LEMMA CommitOne ==
  ASSUME TypeOK, NEW n \in Names, NEW o, Commit(n, o)
  PROVE  diag'[n] = o /\ \A m \in Names \ {n} : diag'[m] = diag[m]
BY DEF Commit, TypeOK, StoreTypeOK

\* A Diagnosis of which the watch has nothing to tell was not written.
LEMMA CommitLeaves ==
  ASSUME TypeOK, NEW n \in Names, NEW m \in Names, NEW o, Commit(m, o), watch'[n] = <<>>
  PROVE  m # n /\ diag'[n] = diag[n] /\ watch[n] = <<>>
<1>1. watch[n] \in Seq(Version \cup {Absent})
  BY DEF TypeOK, StoreTypeOK
<1>2. Append(watch[n], o) # <<>>
  BY <1>1
<1>3. m # n
  BY <1>2 DEF Commit, TypeOK, StoreTypeOK
<1> QED
  BY <1>3 DEF Commit, TypeOK, StoreTypeOK

\* Whose write it is that changes a Diagnosis which is there: each phase has one
\* writer inside the operator.
LEMMA WriterOf ==
  ASSUME TypeOK, CopiesAgree, [Next]_vars, NEW n \in Names, diag[n] # Absent, diag'[n] # diag[n]
  PROVE  \/ Marking /\ det.name = n /\ diag[n] = det.obj
         \/ Enriching /\ ev.name = n /\ diag[n].phase = "Detected"
               /\ ev.obj = Enriched(diag[n], ev.obj.evidence)
         \/ \E w \in Workers :
               Concluding(w) /\ wrk[w].name = n /\ diag[n].phase = "Enriched"
               /\ wrk[w].obj = Hypothesized(diag[n], wrk[w].about)
         \/ Editing(n)
<1>1. ~Creating
  <2> SUFFICES ASSUME Creating
               PROVE  FALSE
    OBVIOUS
  <2>1. det.name \in Names /\ diag[det.name] = Absent
    BY DEF Creating, TypeOK, DetTypeOK
  <2> QED
    BY <2>1, CommitOne DEF Creating
<1>2. CASE Marking
  <2>1. det.name \in Names /\ diag[det.name] = det.obj
    BY <1>2 DEF Marking, Current, TypeOK, DetTypeOK, CopiesAgree, DetAgrees, Genuine
  <2> QED
    BY <1>2, <2>1, CommitOne DEF Marking, Update
<1>3. CASE Enriching
  <2>1. ev.name \in Names /\ diag[ev.name].phase = "Detected"
        /\ ev.obj = Enriched(diag[ev.name], ev.obj.evidence)
    BY <1>3 DEF Enriching, Current, TypeOK, EvTypeOK, CopiesAgree, EvAgrees, EnrichReady
  <2> QED
    BY <1>3, <2>1, CommitOne DEF Enriching, Update
<1>4. ASSUME NEW w \in Workers, Concluding(w)
      PROVE  /\ wrk[w].name = n /\ diag[n].phase = "Enriched"
             /\ wrk[w].obj = Hypothesized(diag[n], wrk[w].about)
  <2>1. wrk[w].name \in Names
    BY <1>4 DEF Concluding, TypeOK, InvTypeOK
  <2>2. wrk[w].name = n
    BY <1>4, <2>1, CommitOne DEF Concluding, Update
  <2> QED
    BY <1>4, <2>2 DEF Concluding, Current, CopiesAgree, InvAgrees, WorkerAgrees, ConcludeReady
<1>5. ASSUME NEW m \in Names, Editing(m)
      PROVE  Editing(n)
  <2>1. m = n
    BY <1>5, CommitOne DEF Editing, Remove, Touch, Update
  <2> QED
    BY <1>5, <2>1
<1> QED
  BY <1>1, <1>2, <1>3, <1>4, <1>5, Writers DEF UnchangedStore, Deliver, Relist

\* A Diagnosis that appears is the detector's; of one that is there, a write keeps
\* what was there at the start.
LEMMA Written ==
  ASSUME TypeOK, CopiesAgree, [Next]_vars, NEW n \in Names, diag'[n] # Absent, diag'[n] # diag[n]
  PROVE  \/ Creating /\ n = det.name /\ diag[n] = Absent
         \/ diag[n] # Absent /\ Keeps(diag[n], diag'[n])
<1>1. diag[n] \in Version \cup {Absent} /\ rv[n] + 1 \in Nat
  BY DEF TypeOK, StoreTypeOK
<1>2. CASE diag[n] = Absent
  <2>1. ASSUME NEW m \in Names, NEW o, Update(m, o), diag[m] # Absent
        PROVE  FALSE
    BY <1>2, <2>1, CommitOne DEF Update
  <2>2. ~Marking /\ ~Enriching
    BY <2>1 DEF Marking, Enriching, Current, TypeOK, DetTypeOK, EvTypeOK
  <2>3. \A w \in Workers : ~Concluding(w)
    BY <2>1 DEF Concluding, Current, TypeOK, InvTypeOK
  <2>4. \A m \in Names : ~Remove(m) /\ ~Touch(m)
    BY <1>2, <2>1, CommitOne DEF Remove, Touch
  <2>5. Creating
    BY <2>2, <2>3, <2>4, Writers DEF UnchangedStore, Deliver, Relist, Editing
  <2>6. det.name \in Names
    BY <2>5 DEF Creating, TypeOK, DetTypeOK
  <2> QED
    BY <1>2, <2>5, <2>6, CommitOne DEF Creating
<1>3. CASE diag[n] # Absent
  <2>1. diag[n] \in Version
    BY <1>1, <1>3
  <2>2. ASSUME NEW o \in Version, Update(n, o), Keeps(diag[n], o)
        PROVE  Keeps(diag[n], diag'[n])
    <3>1. diag'[n] = [o EXCEPT !.rv = rv[n] + 1]
      BY <2>2, CommitOne DEF Update
    <3>2. /\ diag'[n].uid = o.uid /\ diag'[n].pod = o.pod /\ diag'[n].podUID = o.podUID
          /\ diag'[n].policy = o.policy /\ diag'[n].at = o.at
      BY <2>2, <3>1 DEF Version
    <3> QED
      BY <2>2, <3>2, Zenon DEF Keeps, SameSpec
  <2>3. ASSUME NEW d \in Version, NEW e, NEW a
        PROVE  Keeps(d, d) /\ Keeps(d, Marked(d)) /\ Keeps(d, Enriched(d, e)) /\ Keeps(d, Hypothesized(d, a))
    BY DEF Marked, Enriched, Hypothesized, Version, Keeps, SameSpec
  <2>4. CASE Marking /\ det.name = n /\ diag[n] = det.obj
    <3>1. Marked(det.obj) \in Version
      BY <2>1, <2>4 DEF Marked, Version, Phases
    <3> QED
      BY <1>3, <2>1, <2>2, <2>3, <2>4, <3>1 DEF Marking
  <2>5. CASE Enriching /\ ev.name = n /\ ev.obj = Enriched(diag[n], ev.obj.evidence)
    <3>1. ev.obj \in Version /\ Update(n, ev.obj)
      BY <2>5 DEF Enriching, TypeOK, EvTypeOK
    <3>2. Keeps(diag[n], ev.obj)
      BY <2>1, <2>3, <2>5, Zenon
    <3> QED
      BY <1>3, <2>2, <3>1, <3>2
  <2>6. ASSUME NEW w \in Workers, Concluding(w), wrk[w].name = n,
               wrk[w].obj = Hypothesized(diag[n], wrk[w].about)
        PROVE  Keeps(diag[n], diag'[n])
    <3>1. wrk[w].obj \in Version /\ Update(n, wrk[w].obj)
      BY <2>6 DEF Concluding, TypeOK, InvTypeOK
    <3>2. Keeps(diag[n], wrk[w].obj)
      BY <2>1, <2>3, <2>6, Zenon
    <3> QED
      BY <2>2, <3>1, <3>2
  <2>7. CASE Editing(n)
    <3>1. ~Remove(n)
      BY CommitOne DEF Remove
    <3> QED
      BY <1>3, <2>1, <2>2, <2>3, <2>7, <3>1 DEF Editing, Touch
  <2> QED
    BY <1>3, <2>4, <2>5, <2>6, <2>7, WriterOf, Zenon
<1> QED
  BY <1>2, <1>3

-----------------------------------------------------------------------------
(* Whose logs.                                                             *)

\* Unless the pod was removed meanwhile, the target is there while the evidence
\* controller collects, and what it is about to write has the logs of that
\* instance.
LogsHeld ==
  /\ ev.pc = "collect" => disturbed \/ TargetPresent(ev.obj)
  /\ ev.pc = "write" => disturbed \/ ev.obj.evidence.logs \in {0, ev.obj.podUID}

\* Which instance has a name changes only where there is none.
LEMMA InstancesKept ==
  ASSUME TypeOK, Next, NEW p \in Pods, pods[p].live, ~Removed(p)
  PROVE  pods'[p].live /\ pods'[p].uid = pods[p].uid
<1>1. pods \in [Pods -> PodState]
  BY DEF TypeOK, ClusterTypeOK
<1>2. ASSUME NEW q \in Pods, NEW f, pods' = [pods EXCEPT ![q] = Broken(@, f)]
      PROVE  pods'[p].uid = pods[p].uid
  BY <1>1, <1>2 DEF Broken, PodState
<1>3. ASSUME NEW q \in Pods, pods' = [pods EXCEPT ![q].ripe = TRUE]
      PROVE  pods'[p].uid = pods[p].uid
  BY <1>1, <1>3 DEF PodState
<1>4. ASSUME NEW q \in Pods, PodRecreated(q)
      PROVE  pods'[p].uid = pods[p].uid
  BY <1>1, <1>4 DEF PodRecreated
<1>5. ASSUME NEW q \in Pods, PodDeleted(q)
      PROVE  pods'[p].uid = pods[p].uid
  BY <1>1, <1>5 DEF PodDeleted, Gone, PodState
<1>6. CASE UNCHANGED pods
  BY <1>6 DEF Removed
<1>7. \/ UNCHANGED pods
      \/ \E q \in Pods : PodNext(q) \/ PodDeleted(q)
  BY Zenon DEF Next, Environment, ClusterNext, WorldNext, PolicyChanges, Tick, UserDeletes, UserAnnotates,
         Detector, DetStart, DetDismiss, DetDefer, DetOpen, DetCalls, DetFails, DetCreate, DetCreateFails,
         DetMark, DetMarkFails, EvidenceCollector, EvStart, EvCollect, EvWrite, EvWriteFails,
         Investigator, InvStart, InvSteps, InvFails, InvRun, InvRunFails, InvRead, InvWrite, InvWriteFails,
         Crash, Restart, clusterVars
<1>8. pods'[p].uid = pods[p].uid
  BY <1>2, <1>3, <1>4, <1>5, <1>6, <1>7, Zenon
     DEF PodNext, PodBreaks, PodRecovers, PodChurns, GraceElapses, Requeue
<1> QED
  BY <1>8 DEF Removed

\* Every step keeps the logs to their instance while the controller holds them.
LEMMA LogsHeldKept ==
  ASSUME TypeOK, LogsHeld, [Next]_vars
  PROVE  LogsHeld'
<1>1. EvIdle.pc = "idle"
  BY DEF EvIdle
<1>2. CASE UNCHANGED vars
  BY <1>2 DEF LogsHeld, TargetPresent, vars, core, history, clusterVars
<1>r. ASSUME Next, ev'.pc # "idle"
      PROVE  disturbed' = (disturbed \/ (ev.pc = "collect" /\ Removed(ev.obj.pod)))
  BY <1>r DEF Next, Remember, TypeOK, HistoryTypeOK
<1>3. CASE Next /\ UNCHANGED ev
  <2>1. CASE ev.pc = "collect" /\ ~disturbed'
    <3>1. ev.obj \in Version /\ ev.obj.pod \in Pods
      BY <2>1 DEF TypeOK, EvTypeOK, Version
    <3>2. ~disturbed /\ ~Removed(ev.obj.pod)
      BY <1>3, <1>r, <2>1
    <3>3. pods[ev.obj.pod].live /\ pods[ev.obj.pod].uid = ev.obj.podUID
      BY <2>1, <3>2 DEF LogsHeld, TargetPresent
    <3>4. pods'[ev.obj.pod].live /\ pods'[ev.obj.pod].uid = ev.obj.podUID
      BY <1>3, <3>1, <3>2, <3>3, InstancesKept
    <3> QED
      BY <1>3, <2>1, <3>4 DEF LogsHeld, TargetPresent
  <2>2. CASE ev.pc = "write" /\ ~disturbed'
    <3>1. ~disturbed
      BY <1>3, <1>r, <2>2
    <3> QED
      BY <1>3, <2>2, <3>1 DEF LogsHeld
  <2> QED
    BY <1>3, <2>1, <2>2 DEF LogsHeld
<1>4. ASSUME NEW n \in Names, EvStart(n)
      PROVE  LogsHeld'
  <2>1. UNCHANGED pods
    BY <1>4 DEF EvStart, clusterVars
  <2>2. \/ ev' = EvIdle
        \/ TargetPresent(cache[n]) /\ ev' = [pc |-> "collect", name |-> n, obj |-> cache[n]]
        \/ /\ PhaseIs(cache[n], "Detected")
           /\ ev' = [pc |-> "write", name |-> n, obj |-> Enriched(cache[n], PodGone)]
    BY <1>4 DEF EvStart
  <2>3. CASE ev' = EvIdle
    BY <1>1, <2>3 DEF LogsHeld
  <2>4. CASE TargetPresent(cache[n]) /\ ev' = [pc |-> "collect", name |-> n, obj |-> cache[n]]
    BY <2>1, <2>4 DEF LogsHeld, TargetPresent
  <2>5. CASE /\ PhaseIs(cache[n], "Detected")
             /\ ev' = [pc |-> "write", name |-> n, obj |-> Enriched(cache[n], PodGone)]
    <3>1. cache[n] \in Version
      BY <2>5 DEF PhaseIs, TypeOK, StoreTypeOK
    <3>2. Enriched(cache[n], PodGone).evidence.logs = 0
      BY <3>1 DEF Enriched, PodGone, Version
    <3>3. ev'.pc = "write" /\ ev'.obj = Enriched(cache[n], PodGone)
      BY <2>5
    <3> QED
      BY <3>2, <3>3 DEF LogsHeld
  <2> QED
    BY <2>2, <2>3, <2>4, <2>5
<1>5. CASE Next /\ EvCollect
  <2>1. ev.pc = "collect" /\ ev \in EvWork /\ ev.obj \in Version /\ ev.obj.pod \in Pods
    BY <1>5 DEF EvCollect, TypeOK, EvTypeOK, Version
  <2>2. ev'.pc = "write" /\ ev'.obj = Enriched(ev.obj, Collected(ev.obj.pod))
    BY <1>5, <2>1 DEF EvCollect, EvWork
  <2>3. disturbed \/ Collected(ev.obj.pod).logs = ev.obj.podUID
    BY <2>1 DEF LogsHeld, TargetPresent, Collected
  <2>4. /\ Enriched(ev.obj, Collected(ev.obj.pod)).evidence = Collected(ev.obj.pod)
        /\ Enriched(ev.obj, Collected(ev.obj.pod)).podUID = ev.obj.podUID
    BY <2>1 DEF Enriched, Version
  <2>5. disturbed => disturbed'
    BY <1>5, <1>r, <2>2
  <2> QED
    BY <2>2, <2>3, <2>4, <2>5 DEF LogsHeld
<1>6. CASE EvWrite \/ EvWriteFails \/ Crash
  <2>1. ev'.pc = "idle"
    BY <1>1, <1>6, Zenon DEF EvWrite, EvWriteFails, EvRetry, Crash
  <2> QED
    BY <2>1 DEF LogsHeld
<1> QED
  BY <1>2, <1>3, <1>4, <1>5, <1>6, Zenon DEF Next, Environment, Detector, EvidenceCollector, Investigator

\* Although logs are read by the name of a pod, names are reused, and the pod may be
\* removed and replaced at any moment: the logs attached to a Diagnosis were printed
\* by the instance that failed, unless that instance was removed after the check of
\* its identity and before the logs were read.  No delay between the read and the
\* write, conflict, lost answer or restart adds to that (targetFor, Collect).
THEOREM LogsAlwaysOfTarget == Spec => LogsOfTarget
<1> DEFINE Kept == \A n \in Names :
                     PhaseIs(diag[n], "Detected") /\ PhaseIs(diag'[n], "Enriched") /\ ~disturbed =>
                       diag'[n].evidence.logs \in {0, diag'[n].podUID}
<1>1. Init => LogsHeld
  BY DEF Init, EvInit, EvIdle, LogsHeld
<1>2. TypeOK /\ LogsHeld /\ [Next]_vars => LogsHeld'
  BY LogsHeldKept
<1>3. TypeOK /\ CopiesAgree /\ LogsHeld /\ [Next]_vars => Kept
  <2> SUFFICES ASSUME TypeOK, CopiesAgree, LogsHeld, [Next]_vars, NEW n \in Names,
                      PhaseIs(diag[n], "Detected"), PhaseIs(diag'[n], "Enriched"), ~disturbed
               PROVE  diag'[n].evidence.logs \in {0, diag'[n].podUID}
    OBVIOUS
  <2>1. diag[n] # Absent /\ diag[n].phase = "Detected" /\ diag'[n] # Absent /\ diag'[n].phase = "Enriched"
    BY DEF PhaseIs
  <2>2. diag[n] \in Version /\ rv[n] + 1 \in Nat
    BY <2>1 DEF TypeOK, StoreTypeOK
  <2>3. ~Editing(n)
    <3>1. ~Remove(n)
      BY <2>1, CommitOne DEF Remove
    <3>2. ASSUME Touch(n)
          PROVE  FALSE
      <4>1. diag'[n] = [diag[n] EXCEPT !.rv = rv[n] + 1]
        BY <3>2, CommitOne DEF Touch, Update
      <4> QED
        BY <2>1, <2>2, <4>1 DEF Version
    <3> QED
      BY <3>1, <3>2 DEF Editing
  <2>4. ~(Marking /\ det.name = n /\ diag[n] = det.obj)
    BY <2>1 DEF Marking, CopiesAgree, DetAgrees
  <2>5. Enriching /\ ev.name = n
    BY <2>1, <2>3, <2>4, WriterOf
  <2>6. ev.pc = "write" /\ ev.obj \in Version /\ Update(n, ev.obj)
    BY <2>5 DEF Enriching, TypeOK, EvTypeOK
  <2>7. diag'[n] = [ev.obj EXCEPT !.rv = rv[n] + 1]
    BY <2>6, CommitOne DEF Update
  <2>8. diag'[n].evidence = ev.obj.evidence /\ diag'[n].podUID = ev.obj.podUID
    BY <2>6, <2>7 DEF Version
  <2> QED
    BY <2>6, <2>8 DEF LogsHeld
<1> QED
  BY <1>1, <1>2, <1>3, TypeCorrect, CopiesAlwaysAgree, PTL DEF Spec, LogsOfTarget

-----------------------------------------------------------------------------
(* The cache and the server.                                               *)

\* What the server has is the last watch event that was sent, and what the cache
\* has when all of them are applied.
WatchEndsAtServer ==
  \A n \in Names :
    diag[n] = IF watch[n] = <<>> THEN cache[n] ELSE watch[n][Len(watch[n])]

\* How the store, the cache and the watch change.
LEMMA StoreSteps ==
  ASSUME TypeOK, CopiesAgree, [Next]_vars
  PROVE  \/ UnchangedStore
         \/ \E n \in Names, o \in Version \cup {Absent} : Commit(n, o)
         \/ \E n \in Names : Deliver(n)
         \/ Relist
<1>1. CASE \E n \in Names, o \in Version \cup {Absent} : LawfulWrite(n, o)
  BY <1>1, Zenon DEF LawfulWrite
<1>2. CASE UNCHANGED <<diag, rv>>
  <2>1. ASSUME NEW n \in Names, NEW o, Commit(n, o)
        PROVE  FALSE
    <3>1. rv'[n] = rv[n] + 1 /\ rv[n] \in Nat
      BY <2>1 DEF Commit, TypeOK, StoreTypeOK
    <3> QED
      BY <1>2, <3>1
  <2>2. det.pc # "idle" => det.name \in Names
    BY DEF TypeOK, DetTypeOK
  <2>3. ev.pc # "idle" => ev.name \in Names
    BY DEF TypeOK, EvTypeOK
  <2>4. \A w \in Workers : wrk[w].pc # "idle" => wrk[w].name \in Names
    BY DEF TypeOK, InvTypeOK
  <2>5. ~Creating /\ ~Marking
    BY <2>1, <2>2 DEF Creating, Marking, Update
  <2>6. ~Enriching
    BY <2>1, <2>3 DEF Enriching, Update
  <2>7. \A w \in Workers : ~Concluding(w)
    BY <2>1, <2>4 DEF Concluding, Update
  <2>8. \A n \in Names : ~Remove(n) /\ ~Touch(n)
    BY <2>1, Zenon DEF Remove, Touch, Update
  <2> QED
    BY <2>5, <2>6, <2>7, <2>8, Writers, Zenon DEF Editing
<1> QED
  BY <1>1, <1>2, NextAgrees DEF Effect

\* The watch tells the cache of every write, in order.
LEMMA WatchKept ==
  ASSUME TypeOK, CopiesAgree, WatchEndsAtServer, [Next]_vars
  PROVE  WatchEndsAtServer'
<1>1. CASE UnchangedStore
  BY <1>1, Zenon DEF UnchangedStore, WatchEndsAtServer
<1>2. ASSUME NEW n \in Names, NEW o \in Version \cup {Absent}, Commit(n, o), NEW m \in Names
      PROVE  diag'[m] = IF watch'[m] = <<>> THEN cache'[m] ELSE watch'[m][Len(watch'[m])]
  <2>1. watch[n] \in Seq(Version \cup {Absent})
    BY DEF TypeOK, StoreTypeOK
  <2>2. CASE m = n
    <3>1. diag'[n] = o /\ watch'[n] = Append(watch[n], o)
      BY <1>2 DEF Commit, TypeOK, StoreTypeOK
    <3>2. /\ Append(watch[n], o) # <<>>
          /\ Append(watch[n], o)[Len(Append(watch[n], o))] = o
      BY <2>1
    <3> QED
      BY <2>2, <3>1, <3>2, Zenon
  <2>3. CASE m # n
    <3>1. diag'[m] = diag[m] /\ watch'[m] = watch[m] /\ cache'[m] = cache[m]
      BY <1>2, <2>3 DEF Commit, TypeOK, StoreTypeOK
    <3> QED
      BY <3>1, Zenon DEF WatchEndsAtServer
  <2> QED
    BY <2>2, <2>3
<1>3. ASSUME NEW n \in Names, Deliver(n), NEW m \in Names
      PROVE  diag'[m] = IF watch'[m] = <<>> THEN cache'[m] ELSE watch'[m][Len(watch'[m])]
  <2>1. watch[n] \in Seq(Version \cup {Absent}) /\ watch[n] # <<>>
    BY <1>3 DEF Deliver, TypeOK, StoreTypeOK
  <2>2. CASE m = n
    <3>1. diag'[n] = diag[n] /\ watch'[n] = Tail(watch[n]) /\ cache'[n] = Head(watch[n])
      BY <1>3 DEF Deliver, TypeOK, StoreTypeOK
    <3>2. diag[n] = watch[n][Len(watch[n])]
      BY <2>1, Zenon DEF WatchEndsAtServer
    <3>3. CASE Tail(watch[n]) = <<>>
      <4>1. Len(watch[n]) = 1
        <5>1. Len(Tail(watch[n])) = Len(watch[n]) - 1 /\ Len(watch[n]) \in Nat
          BY <2>1
        <5>2. Len(<<>>) = 0
          OBVIOUS
        <5>3. Len(Tail(watch[n])) = 0
          BY <3>3, <5>2, Zenon
        <5> QED
          BY <5>1, <5>3
      <4>2. Head(watch[n]) = watch[n][Len(watch[n])]
        BY <2>1, <4>1
      <4> QED
        BY <2>2, <3>1, <3>2, <3>3, <4>2, Zenon
    <3>4. CASE Tail(watch[n]) # <<>>
      <4>1. Tail(watch[n])[Len(Tail(watch[n]))] = watch[n][Len(watch[n])]
        BY <2>1, <3>4
      <4> QED
        BY <2>2, <3>1, <3>2, <3>4, <4>1, Zenon
    <3> QED
      BY <3>3, <3>4
  <2>3. CASE m # n
    <3>1. diag'[m] = diag[m] /\ watch'[m] = watch[m] /\ cache'[m] = cache[m]
      BY <1>3, <2>3 DEF Deliver, TypeOK, StoreTypeOK
    <3> QED
      BY <3>1, Zenon DEF WatchEndsAtServer
  <2> QED
    BY <2>2, <2>3
<1>4. ASSUME Relist, NEW m \in Names
      PROVE  diag'[m] = IF watch'[m] = <<>> THEN cache'[m] ELSE watch'[m][Len(watch'[m])]
  <2>1. watch'[m] = <<>> /\ cache'[m] = diag[m] /\ diag'[m] = diag[m]
    BY <1>4 DEF Relist
  <2> QED
    BY <2>1, Zenon
<1> QED
  BY <1>1, <1>2, <1>3, <1>4, StoreSteps, Zenon DEF WatchEndsAtServer

\* The watch ends at what the server has, always: the cache that has caught up is
\* the server's (the informer contract, on which every freshness argument rests).
LEMMA WatchAlwaysEnds == Spec => []WatchEndsAtServer
<1>1. Init => WatchEndsAtServer
  BY DEF Init, StoreInit, WatchEndsAtServer
<1>2. TypeOK /\ CopiesAgree /\ WatchEndsAtServer /\ [Next]_vars => WatchEndsAtServer'
  BY WatchKept
<1> QED
  BY <1>1, <1>2, TypeCorrect, CopiesAlwaysAgree, PTL DEF Spec

\* A Diagnosis that has its findings is investigated again only while the cache has
\* not been told of them: whatever restarts, conflicts, lost answers and resyncs
\* there are, and with any number of workers (ToInvestigate; the phase is the guard).
THEOREM RepeatsOnlyUnseen == Spec => RepeatOnlyUnseen
<1> DEFINE Kept == \A w \in Workers :
                     wrk[w].pc = "idle" /\ wrk'[w].pc = "run" /\ PhaseIs(diag[wrk'[w].name], "Hypothesized") =>
                       wrk'[w].name \in Unseen
<1>1. TypeOK /\ WatchEndsAtServer /\ [Next]_vars => Kept
  <2> SUFFICES ASSUME TypeOK, WatchEndsAtServer, [Next]_vars, NEW w \in Workers,
                      wrk[w].pc = "idle", wrk'[w].pc = "run", PhaseIs(diag[wrk'[w].name], "Hypothesized")
               PROVE  wrk'[w].name \in Unseen
    OBVIOUS
  <2>1. InvIdle.pc = "idle"
    BY DEF InvIdle
  <2>2. wrk \in [Workers -> InvWork]
    BY DEF TypeOK, InvTypeOK
  <2>3. ASSUME NEW x \in Workers, InvSteps(x) \/ InvFails(x)
        PROVE  wrk[x].pc # "idle" /\ \A y \in Workers \ {x} : wrk'[y] = wrk[y]
    BY <2>2, <2>3 DEF InvSteps, InvFails, InvRun, InvRunFails, InvRead, InvWrite, InvWriteFails, InvRetry
  <2>4. PICK x \in Workers, n \in Names : InvStart(x, n)
    <3>1. CASE UNCHANGED wrk
      BY <3>1
    <3>2. CASE Crash
      BY <2>1, <3>2 DEF Crash
    <3> QED
      BY <2>3, <3>1, <3>2, Zenon DEF Next, Environment, Detector, EvidenceCollector, Investigator, vars, core
  <2>5. /\ ToInvestigate(n)
        /\ wrk' = [wrk EXCEPT ![x] = [InvIdle EXCEPT !.pc = "run", !.name = n, !.about = cache[n].uid]]
    BY <2>4 DEF InvStart
  <2>6. x = w /\ wrk'[w].name = n
    BY <2>2, <2>5 DEF InvIdle
  <2>7. cache[n] # diag[n]
    BY <2>5, <2>6 DEF ToInvestigate, PhaseIs
  <2>8. watch[n] # <<>>
    BY <2>7, Zenon DEF WatchEndsAtServer
  <2> QED
    BY <2>6, <2>8 DEF Unseen
<1> QED
  BY <1>1, TypeCorrect, WatchAlwaysEnds, PTL DEF Spec, RepeatOnlyUnseen

-----------------------------------------------------------------------------
(* The hourly limit.                                                       *)

\* The clock goes forward.
LEMMA ClockForward ==
  ASSUME TypeOK, [Next]_vars
  PROVE  now \in Nat /\ now' \in Nat /\ now' >= now
<1>1. now \in Nat
  BY DEF TypeOK, ClusterTypeOK
<1>2. UNCHANGED now \/ now' = now + 1
  <2>1. CASE Next
    BY <2>1, Zenon
       DEF Next, Environment, ClusterNext, WorldNext, PodNext, PodBreaks, PodRecovers, PodChurns, GraceElapses,
           PodRecreated, Requeue, PolicyChanges, Tick, PodDeleted, UserDeletes, UserAnnotates,
           Detector, DetStart, DetDismiss, DetDefer, DetOpen, DetCalls, DetFails, DetCreate, DetCreateFails,
           DetMark, DetMarkFails, EvidenceCollector, EvStart, EvCollect, EvWrite, EvWriteFails,
           Investigator, InvStart, InvSteps, InvFails, InvRun, InvRunFails, InvRead, InvWrite, InvWriteFails,
           Crash, Restart, clusterVars
  <2> QED
    BY <2>1 DEF vars, core, clusterVars
<1> QED
  BY <1>1, <1>2

\* Only a create makes one Diagnosis more a recent one.
LEMMA RecentGrows ==
  ASSUME TypeOK, CopiesAgree, [Next]_vars, NEW n \in Recent(diag)', n \notin Recent(diag)
  PROVE  Creating /\ n = det.name
<1>1. n \in Names /\ diag'[n] # Absent /\ diag'[n].at > now' - Window
  BY DEF Recent
<1>2. now \in Nat /\ now' \in Nat /\ now' >= now /\ Window \in Nat
  BY ClockForward, DetectorAssumption
<1>3. diag[n] # Absent => diag[n].at \in Nat
  BY <1>1 DEF TypeOK, StoreTypeOK, Version
<1>4. diag[n] # Absent => diag'[n].at # diag[n].at
  BY <1>1, <1>2, <1>3 DEF Recent
<1>5. diag'[n] # diag[n]
  BY <1>1, <1>4
<1> QED
  BY <1>1, <1>4, <1>5, Written DEF Keeps

\* The names that the server, the cache or the watch knows anything of.
Known == {n \in Names : diag[n] # Absent \/ cache[n] # Absent \/ watch[n] # <<>>}

\* They are finitely many; and when the detector is about to create, the limit it
\* went by leaves room, those aside that its cache had not been told of.
RoomHeld ==
  /\ IsFiniteSet(Known)
  /\ det.pc = "create" /\ det.limit > 0 => Cardinality(Recent(diag) \ det.unseen) < det.limit

\* Each step adds at most one name.
LEMMA KnownFinite ==
  ASSUME TypeOK, CopiesAgree, [Next]_vars, IsFiniteSet(Known)
  PROVE  IsFiniteSet(Known')
<1>1. CASE UnchangedStore
  <2>1. Known' = Known
    BY <1>1 DEF UnchangedStore, Known
  <2> QED
    BY <2>1
<1>2. ASSUME NEW n \in Names, NEW o, Commit(n, o)
      PROVE  IsFiniteSet(Known')
  <2>1. Known' \in SUBSET (Known \cup {n})
    BY <1>2 DEF Commit, Known, TypeOK, StoreTypeOK
  <2>2. IsFiniteSet(Known \cup {n})
    BY FS_AddElement
  <2> QED
    BY <2>1, <2>2, FS_Subset
<1>3. ASSUME NEW n \in Names, Deliver(n)
      PROVE  IsFiniteSet(Known')
  <2>1. Known' \in SUBSET Known
    BY <1>3 DEF Deliver, Known, TypeOK, StoreTypeOK
  <2> QED
    BY <2>1, FS_Subset
<1>4. CASE Relist
  <2>1. Known' \in SUBSET Known
    BY <1>4 DEF Relist, Known
  <2> QED
    BY <2>1, FS_Subset
<1> QED
  BY <1>1, <1>2, <1>3, <1>4, StoreSteps, Zenon

\* The recent ones are finitely many, on the server and in the cache.
LEMMA RecentFinite ==
  ASSUME IsFiniteSet(Known)
  PROVE  IsFiniteSet(Recent(diag)) /\ IsFiniteSet(Recent(cache))
<1>1. Recent(diag) \in SUBSET Known /\ Recent(cache) \in SUBSET Known
  BY DEF Recent, Known
<1> QED
  BY <1>1, FS_Subset

\* The policies that the detector goes by are there.
LEMMA PolicyIsThere ==
  ASSUME NEW q \in PolicyFor
  PROVE  q \in PolicyNames /\ policies[q] # Absent
BY DEF PolicyFor

\* When the detector decides to create, the limit leaves room: what it counts in the
\* cache includes all that is recent on the server and known to the cache.
LEMMA RoomToCreate ==
  ASSUME TypeOK, WatchEndsAtServer, RoomHeld, NEW p \in Pods, DetOpen(p), det'.limit > 0
  PROVE  Cardinality(Recent(diag) \ det'.unseen) < det'.limit
<1>1. PICK q \in PolicyFor : WithinRateLimit(q) /\ det'.limit = policies[q].limit /\ det'.unseen = Unseen
  BY DEF DetOpen
<1>2. policies[q] \in Policy
  BY PolicyIsThere, ClusterAssumption DEF TypeOK, ClusterTypeOK
<1>3. policies[q].limit \in Nat /\ policies[q].limit # 0
  BY <1>1, <1>2 DEF Policy
<1>4. Recent(diag) \ Unseen \in SUBSET Recent(cache)
  <2> SUFFICES ASSUME NEW n \in Recent(diag), n \notin Unseen
               PROVE  n \in Recent(cache)
    OBVIOUS
  <2>1. n \in Names /\ watch[n] = <<>>
    BY DEF Recent, Unseen
  <2>2. cache[n] = diag[n]
    BY <2>1, Zenon DEF WatchEndsAtServer
  <2> QED
    BY <2>1, <2>2 DEF Recent
<1>5. IsFiniteSet(Recent(cache))
  BY RecentFinite DEF RoomHeld
<1>6. /\ IsFiniteSet(Recent(diag) \ Unseen)
      /\ Cardinality(Recent(diag) \ Unseen) <= Cardinality(Recent(cache))
  BY <1>4, <1>5, FS_Subset
<1>7. Cardinality(Recent(diag) \ Unseen) \in Nat /\ Cardinality(Recent(cache)) \in Nat
  BY <1>5, <1>6, FS_CardinalityType
<1>8. Cardinality(Recent(cache)) < policies[q].limit
  BY <1>1, <1>3 DEF WithinRateLimit
<1> QED
  BY <1>1, <1>3, <1>6, <1>7, <1>8

\* What the detector goes by is settled when it decides.
LEMMA DecisionKept ==
  ASSUME TypeOK, [Next]_vars, det'.pc = "create"
  PROVE  UNCHANGED det \/ \E p \in Pods : DetOpen(p)
<1>1. DetIdle.pc = "idle"
  BY DEF DetIdle
<1>2. \A o : [det EXCEPT !.pc = "mark", !.obj = o].pc = "mark"
  BY DEF TypeOK, DetTypeOK, DetWork
<1>3. ~DetCreate
  BY <1>1, <1>2, Zenon DEF DetCreate
<1>4. ~DetMark /\ ~DetFails /\ ~Crash
  BY <1>1, Zenon DEF DetMark, DetFails, DetCreateFails, DetMarkFails, DetRetry, Crash
<1> QED
  BY <1>3, <1>4, Zenon DEF Next, Environment, Detector, EvidenceCollector, Investigator,
     DetStart, DetDismiss, DetDefer, DetCalls, vars, core

\* Every step keeps the room.
LEMMA RoomKept ==
  ASSUME TypeOK, CopiesAgree, WatchEndsAtServer, RoomHeld, [Next]_vars
  PROVE  RoomHeld'
<1>1. IsFiniteSet(Known')
  BY KnownFinite DEF RoomHeld
<1>2. ASSUME det'.pc = "create", det'.limit > 0
      PROVE  Cardinality(Recent(diag)' \ det'.unseen) < det'.limit
  <2>1. Cardinality(Recent(diag) \ det'.unseen) < det'.limit
    <3>1. CASE UNCHANGED det
      BY <1>2, <3>1 DEF RoomHeld
    <3>2. ASSUME NEW p \in Pods, DetOpen(p)
          PROVE  Cardinality(Recent(diag) \ det'.unseen) < det'.limit
      BY <1>2, <3>2, RoomToCreate
    <3> QED
      BY <1>2, <3>1, <3>2, DecisionKept
  <2>2. Recent(diag)' \in SUBSET Recent(diag)
    BY <1>2, RecentGrows DEF Creating
  <2>3. IsFiniteSet(Recent(diag) \ det'.unseen)
    BY RecentFinite, FS_Subset DEF RoomHeld
  <2>4. /\ Cardinality(Recent(diag)' \ det'.unseen) <= Cardinality(Recent(diag) \ det'.unseen)
        /\ IsFiniteSet(Recent(diag)' \ det'.unseen)
    BY <2>2, <2>3, FS_Subset
  <2>5. /\ Cardinality(Recent(diag)' \ det'.unseen) \in Nat
        /\ Cardinality(Recent(diag) \ det'.unseen) \in Nat
    BY <2>3, <2>4, FS_CardinalityType
  <2>6. det'.limit \in Nat
    <3>1. TypeOK'
      BY NextTypes
    <3> QED
      BY <3>1 DEF TypeOK, DetTypeOK, DetWork
  <2> QED
    BY <2>1, <2>4, <2>5, <2>6
<1> QED
  BY <1>1, <1>2, Zenon DEF RoomHeld

\* By how much the hourly limit can be overrun, however far the cache lags, however
\* the policies differ, are edited, removed and put back, and however creates fail
\* halfway and the manager restarts: by no more than the Diagnosis objects that the
\* cache had not been told of when the detector counted (withinRateLimit).
THEOREM OvershootBounded == Spec => HourlyOvershoot
<1> DEFINE Kept == ~(Recent(diag)' \subseteq Recent(diag)) =>
                     /\ det.pc = "create"
                     /\ det.limit > 0 => Cardinality(Recent(diag)' \ det.unseen) <= det.limit
<1>1. Init => RoomHeld
  <2> SUFFICES ASSUME Init
               PROVE  RoomHeld
    OBVIOUS
  <2>1. Known = {}
    BY DEF Init, StoreInit, Known
  <2>2. det.pc = "idle"
    BY DEF Init, DetInit, DetIdle
  <2> QED
    BY <2>1, <2>2, FS_EmptySet DEF RoomHeld
<1>2. TypeOK /\ CopiesAgree /\ WatchEndsAtServer /\ RoomHeld /\ [Next]_vars => RoomHeld'
  BY RoomKept
<1>3. TypeOK /\ CopiesAgree /\ RoomHeld /\ [Next]_vars => Kept
  <2> SUFFICES ASSUME TypeOK, CopiesAgree, RoomHeld, [Next]_vars, ~(Recent(diag)' \subseteq Recent(diag))
               PROVE  /\ det.pc = "create"
                      /\ det.limit > 0 => Cardinality(Recent(diag)' \ det.unseen) <= det.limit
    OBVIOUS
  <2>1. Creating /\ Recent(diag)' \in SUBSET (Recent(diag) \cup {det.name})
    BY RecentGrows
  <2>2. det.pc = "create"
    BY <2>1 DEF Creating
  <2>3. ASSUME det.limit > 0
        PROVE  Cardinality(Recent(diag)' \ det.unseen) <= det.limit
    <3> DEFINE R == Recent(diag) \ det.unseen
               S == Recent(diag)' \ det.unseen
    <3>1. IsFiniteSet(R)
      BY RecentFinite, FS_Subset DEF RoomHeld
    <3>2. Cardinality(R) < det.limit
      BY <2>2, <2>3 DEF RoomHeld
    <3>3. S \in SUBSET (R \cup {det.name})
      BY <2>1
    <3>4. det.limit \in Nat
      BY DEF TypeOK, DetTypeOK, DetWork
    <3> HIDE DEF R, S
    <3>5. Cardinality(R) \in Nat
      BY <3>1, FS_CardinalityType
    <3>6. IsFiniteSet(R \cup {det.name}) /\ Cardinality(R \cup {det.name}) <= Cardinality(R) + 1
      BY <3>1, <3>5, FS_AddElement, SMTT(30)
    <3>7. Cardinality(S) <= Cardinality(R \cup {det.name}) /\ Cardinality(S) \in Nat
      BY <3>3, <3>6, FS_Subset, FS_CardinalityType
    <3>8. Cardinality(R \cup {det.name}) \in Nat
      BY <3>6, FS_CardinalityType
    <3>9. Cardinality(S) <= det.limit
      BY <3>2, <3>4, <3>5, <3>6, <3>7, <3>8
    <3> QED
      BY <3>9 DEF S
  <2> QED
    BY <2>2, <2>3
<1> QED
  BY <1>1, <1>2, <1>3, TypeCorrect, CopiesAlwaysAgree, WatchAlwaysEnds, PTL DEF Spec, HourlyOvershoot

-----------------------------------------------------------------------------
(* Conflicts.                                                              *)

\* No two workers have the same Diagnosis.
Exclusive ==
  \A w, x \in Workers :
    w # x /\ wrk[w].pc # "idle" /\ wrk[x].pc # "idle" => wrk[w].name # wrk[x].name

\* Every attempt that a worker has lost, and the one it is bound to lose, is
\* accounted for; and it is bound to lose only what it has read.
Accounted(w) ==
  /\ wrk[w].pc \in {"read", "write"} =>
       RetrySteps - wrk[w].tries + (IF w \in crossed THEN 1 ELSE 0) <= excused[w]
  /\ w \in crossed => wrk[w].pc = "write"
  /\ wrk[w].pc = "write" /\ ~Current(wrk[w].name, wrk[w].obj) => w \in crossed

AllAccounted == \A w \in Workers : Accounted(w)

\* The steps of a worker.
Starting(w, n) ==
  /\ wrk'[w].pc = "run" /\ wrk'[w].name = n
  /\ \A x \in Workers \ {w} : wrk'[x] = wrk[x] /\ wrk[x].name # n
Finding(w) == wrk[w].pc = "run" /\ wrk'[w].pc = "read" /\ wrk'[w].tries = RetrySteps
Reading(w) ==
  /\ wrk[w].pc = "read" /\ wrk'[w].pc = "write" /\ wrk'[w].tries = wrk[w].tries
  /\ UNCHANGED diag /\ PhaseIs(cache[wrk[w].name], "Enriched")
  /\ wrk'[w].obj = Hypothesized(cache[wrk[w].name], wrk[w].about)
Losing(w) ==
  /\ wrk[w].pc = "write" /\ ~Current(wrk[w].name, wrk[w].obj) /\ ~LastAttempt(w)
  /\ wrk'[w].pc = "read" /\ wrk'[w].tries = wrk[w].tries - 1

\* What a step does to a worker.
LEMMA WorkerSteps ==
  ASSUME TypeOK, [Next]_vars, NEW w \in Workers
  PROVE  \/ wrk'[w] = wrk[w]
         \/ wrk'[w].pc = "idle"
         \/ \E n \in Names : Starting(w, n)
         \/ (Finding(w) \/ Reading(w) \/ Losing(w)) /\ wrk'[w].name = wrk[w].name
<1>1. wrk \in [Workers -> InvWork] /\ wrk[w] \in InvWork
  BY DEF TypeOK, InvTypeOK
<1>2. InvIdle \in InvWork /\ InvIdle.pc = "idle"
  BY DEF InvIdle, InvWork
<1>3. CASE UNCHANGED wrk
  BY <1>3
<1>4. CASE Crash
  BY <1>2, <1>4 DEF Crash
<1>5. ASSUME NEW x \in Workers, NEW n \in Names, InvStart(x, n)
      PROVE  wrk'[w] = wrk[w] \/ Starting(w, n)
  <2>1. CASE UNCHANGED wrk \/ x # w
    BY <1>1, <1>5, <2>1 DEF InvStart
  <2>2. CASE /\ x = w
             /\ wrk' = [wrk EXCEPT ![x] = [InvIdle EXCEPT !.pc = "run", !.name = n, !.about = cache[n].uid]]
    <3>1. wrk'[w].pc = "run" /\ wrk'[w].name = n
      BY <1>1, <2>2 DEF InvIdle
    <3>2. \A y \in Workers \ {w} : wrk'[y] = wrk[y]
      BY <1>1, <2>2
    <3>3. \A y \in Workers : wrk[y].name # n
      BY <1>5, Zenon DEF InvStart
    <3> QED
      BY <3>1, <3>2, <3>3 DEF Starting
  <2> QED
    BY <1>5, <2>1, <2>2 DEF InvStart
<1>6. ASSUME NEW x \in Workers, InvSteps(x) \/ InvFails(x), x # w
      PROVE  wrk'[w] = wrk[w]
  BY <1>1, <1>6 DEF InvSteps, InvFails, InvRun, InvRunFails, InvRead, InvWrite, InvWriteFails, InvRetry
<1>7. CASE InvRun(w)
  BY <1>1, <1>7 DEF InvRun, InvWork, Finding
<1>8. CASE InvRead(w)
  <2>1. \/ wrk' = [wrk EXCEPT ![w] = InvIdle]
        \/ /\ PhaseIs(cache[wrk[w].name], "Enriched")
           /\ wrk' = [wrk EXCEPT ![w] =
                        [@ EXCEPT !.pc = "write", !.obj = Hypothesized(cache[wrk[w].name], wrk[w].about)]]
    BY <1>8, Zenon DEF InvRead, InvRetry
  <2>2. wrk[w].pc = "read" /\ UNCHANGED diag
    BY <1>8 DEF InvRead
  <2>3. CASE wrk' = [wrk EXCEPT ![w] = InvIdle]
    BY <1>1, <1>2, <2>3
  <2>4. CASE wrk' = [wrk EXCEPT ![w] =
                       [@ EXCEPT !.pc = "write", !.obj = Hypothesized(cache[wrk[w].name], wrk[w].about)]]
    <3>1. wrk'[w] = [wrk[w] EXCEPT !.pc = "write", !.obj = Hypothesized(cache[wrk[w].name], wrk[w].about)]
      BY <1>1, <2>4
    <3>2. /\ wrk'[w].pc = "write" /\ wrk'[w].tries = wrk[w].tries /\ wrk'[w].name = wrk[w].name
          /\ wrk'[w].obj = Hypothesized(cache[wrk[w].name], wrk[w].about)
      BY <1>1, <3>1 DEF InvWork
    <3>3. wrk'[w].pc # "idle"
      BY <3>2
    <3>4. PhaseIs(cache[wrk[w].name], "Enriched")
      <4>1. wrk' # [wrk EXCEPT ![w] = InvIdle]
        BY <1>1, <1>2, <3>3
      <4> QED
        BY <2>1, <4>1
    <3> QED
      BY <2>2, <3>2, <3>4 DEF Reading
  <2> QED
    BY <2>1, <2>3, <2>4
<1>9. CASE InvWrite(w)
  <2>1. \/ wrk' = [wrk EXCEPT ![w] = InvIdle]
        \/ /\ ~Current(wrk[w].name, wrk[w].obj) /\ ~LastAttempt(w)
           /\ wrk' = [wrk EXCEPT ![w] =
                        [@ EXCEPT !.pc = "read", !.obj = Absent, !.tries = wrk[w].tries - 1]]
    BY <1>9, Zenon DEF InvWrite, InvRetry
  <2>2. wrk[w].pc = "write"
    BY <1>9 DEF InvWrite
  <2>3. CASE wrk' = [wrk EXCEPT ![w] = InvIdle]
    BY <1>1, <1>2, <2>3
  <2>4. CASE /\ ~Current(wrk[w].name, wrk[w].obj) /\ ~LastAttempt(w)
             /\ wrk' = [wrk EXCEPT ![w] =
                          [@ EXCEPT !.pc = "read", !.obj = Absent, !.tries = wrk[w].tries - 1]]
    <3>1. wrk'[w].pc = "read" /\ wrk'[w].tries = wrk[w].tries - 1 /\ wrk'[w].name = wrk[w].name
      BY <1>1, <2>4 DEF InvWork
    <3> QED
      BY <2>2, <2>4, <3>1 DEF Losing
  <2> QED
    BY <2>1, <2>3, <2>4
<1>10. CASE InvFails(w)
  BY <1>1, <1>2, <1>10 DEF InvFails, InvRunFails, InvWriteFails, InvRetry
<1> QED
  BY <1>3, <1>4, <1>5, <1>6, <1>7, <1>8, <1>9, <1>10, Zenon
     DEF Next, Environment, Detector, EvidenceCollector, Investigator, InvSteps, vars, core

\* The work queue never gives one Diagnosis to two workers.
LEMMA ExclusiveKept ==
  ASSUME TypeOK, Exclusive, [Next]_vars
  PROVE  Exclusive'
<1> SUFFICES ASSUME NEW w \in Workers, NEW x \in Workers, w # x, wrk'[w].pc # "idle", wrk'[x].pc # "idle"
             PROVE  wrk'[w].name # wrk'[x].name
  BY DEF Exclusive
<1>1. ASSUME NEW y \in Workers, wrk'[y].pc # "idle", ~(\E n \in Names : Starting(y, n))
      PROVE  wrk'[y].name = wrk[y].name /\ wrk[y].pc # "idle"
  BY <1>1, WorkerSteps DEF Finding, Reading, Losing
<1>2. CASE \E n \in Names : Starting(w, n)
  BY <1>2 DEF Starting
<1>3. CASE \E n \in Names : Starting(x, n)
  BY <1>3 DEF Starting
<1>4. CASE ~(\E n \in Names : Starting(w, n)) /\ ~(\E n \in Names : Starting(x, n))
  BY <1>1, <1>4 DEF Exclusive
<1> QED
  BY <1>2, <1>3, <1>4

\* While a worker writes, it loses the object only to an edit from outside: the
\* other controllers write other phases, and the other workers other objects.
LEMMA LostByEdit ==
  ASSUME TypeOK, CopiesAgree, Exclusive, [Next]_vars, NEW w \in Workers, wrk[w].pc = "write",
         wrk'[w] = wrk[w], Current(wrk[w].name, wrk[w].obj), ~Current(wrk[w].name, wrk[w].obj)'
  PROVE  CrossedOutside(w)
<1> DEFINE n == wrk[w].name
<1>1. n \in Names /\ wrk[w].obj \in Version
  BY DEF TypeOK, InvTypeOK
<1>2. diag[n] # Absent /\ diag[n].phase = "Enriched"
  BY DEF Current, CopiesAgree, InvAgrees, WorkerAgrees, ConcludeReady
<1>3. diag'[n] # diag[n]
  BY DEF Current
<1>4. ~(Marking /\ det.name = n /\ diag[n] = det.obj)
  BY <1>2 DEF Marking, CopiesAgree, DetAgrees
<1>5. ASSUME NEW x \in Workers, Concluding(x), wrk[x].name = n
      PROVE  FALSE
  <2>1. x = w
    BY <1>5 DEF Concluding, Exclusive
  <2>2. wrk'[w].pc = "idle"
    BY <1>5, <2>1 DEF Concluding, TypeOK, InvTypeOK, InvIdle
  <2> QED
    BY <2>2
<1>6. Editing(n)
  BY <1>1, <1>2, <1>3, <1>4, <1>5, WriterOf
<1>7. upsets' # upsets
  BY <1>6 DEF Editing, TypeOK, ClusterTypeOK
<1> QED
  BY <1>3, <1>7 DEF CrossedOutside

\* What is remembered about a worker.
LEMMA Remembered ==
  ASSUME TypeOK, Remember, NEW w \in Workers
  PROVE  /\ w \in crossed' <=> wrk'[w].pc = "write" /\ (w \in crossed \/ ReadsBehind(w) \/ CrossedOutside(w))
         /\ wrk'[w].pc \in {"read", "write"} /\ w \in crossed' \ crossed => excused'[w] = excused[w] + 1
         /\ wrk'[w].pc \in {"read", "write"} /\ w \notin crossed' \ crossed => excused'[w] = excused[w]
<1>1. crossed' = {x \in Workers : wrk'[x].pc = "write"
                     /\ (x \in crossed \/ ReadsBehind(x) \/ CrossedOutside(x))}
  BY DEF Remember
<1>2. excused' = [x \in Workers |->
                   CASE wrk'[x].pc \notin {"read", "write"} -> 0
                     [] x \in crossed' \ crossed -> excused[x] + 1
                     [] OTHER -> excused[x]]
  BY DEF Remember
<1>3. w \in crossed' <=> wrk'[w].pc = "write" /\ (w \in crossed \/ ReadsBehind(w) \/ CrossedOutside(w))
  BY <1>1
<1>4. excused'[w] = CASE wrk'[w].pc \notin {"read", "write"} -> 0
                      [] w \in crossed' \ crossed -> excused[w] + 1
                      [] OTHER -> excused[w]
  BY <1>2
<1> QED
  BY <1>3, <1>4

\* Every step keeps the account.
LEMMA AccountKept ==
  ASSUME TypeOK, CopiesAgree, WatchEndsAtServer, Exclusive, AllAccounted, [Next]_vars, NEW w \in Workers
  PROVE  Accounted(w)'
<1>1. Accounted(w)
  BY DEF AllAccounted
<1>2. /\ wrk[w].tries \in Nat /\ excused[w] \in Nat /\ excused'[w] \in Nat /\ wrk'[w].tries \in Nat
      /\ RetrySteps \in Nat
  <2>1. TypeOK'
    BY NextTypes
  <2> QED
    BY <2>1, InvestigatorAssumption DEF TypeOK, InvTypeOK, InvWork, HistoryTypeOK
<1>3. CASE UNCHANGED vars
  <2>1. UNCHANGED <<wrk, diag, crossed, excused>>
    BY <1>3 DEF vars, core, history, storeVars
  <2> QED
    BY <1>1, <2>1 DEF Accounted, Current
<1>4. CASE Next
  <2>1. Remember
    BY <1>4 DEF Next
  <2> DEFINE Crosses == ReadsBehind(w) \/ CrossedOutside(w)
  <2>2. /\ w \in crossed' <=> wrk'[w].pc = "write" /\ (w \in crossed \/ Crosses)
        /\ wrk'[w].pc \in {"read", "write"} /\ w \in crossed' \ crossed => excused'[w] = excused[w] + 1
        /\ wrk'[w].pc \in {"read", "write"} /\ w \notin crossed' \ crossed => excused'[w] = excused[w]
    BY <2>1, Remembered
  <2>3. CASE wrk'[w] = wrk[w]
    <3>1. ASSUME wrk[w].pc = "write", ~Current(wrk[w].name, wrk[w].obj)'
          PROVE  w \in crossed'
      <4>1. CASE ~Current(wrk[w].name, wrk[w].obj)
        BY <1>1, <2>2, <2>3, <3>1, <4>1 DEF Accounted
      <4>2. CASE Current(wrk[w].name, wrk[w].obj)
        BY <2>2, <2>3, <3>1, <4>2, LostByEdit
      <4> QED
        BY <4>1, <4>2
    <3>2. wrk[w].pc = "read" => w \notin crossed /\ w \notin crossed' /\ excused'[w] = excused[w]
      BY <1>1, <2>2, <2>3 DEF Accounted
    <3> HIDE DEF Crosses
    <3>3. wrk'[w].pc \in {"read", "write"} =>
            RetrySteps - wrk'[w].tries + (IF w \in crossed' THEN 1 ELSE 0) <= excused'[w]
      BY <1>1, <1>2, <2>2, <2>3, <3>2 DEF Accounted
    <3> QED
      BY <2>2, <2>3, <3>1, <3>3, Zenon DEF Accounted
  <2>4. CASE wrk'[w].pc \in {"idle", "run"}
    BY <2>2, <2>4 DEF Accounted
  <2>5. CASE Finding(w)
    <3>1. wrk'[w].pc = "read" /\ wrk'[w].tries = RetrySteps /\ w \notin crossed'
      BY <2>2, <2>5 DEF Finding
    <3> QED
      BY <1>2, <3>1 DEF Accounted
  <2>6. CASE Reading(w) /\ wrk'[w].name = wrk[w].name
    <3> DEFINE n == wrk[w].name
    <3>1. /\ wrk[w].pc = "read" /\ n \in Names /\ wrk'[w].pc = "write" /\ wrk'[w].tries = wrk[w].tries
          /\ w \notin crossed
      BY <1>1, <2>6 DEF Reading, TypeOK, InvTypeOK, Accounted
    <3>2. w \in crossed' <=> n \in Unseen
      BY <2>2, <3>1 DEF ReadsBehind, CrossedOutside
    <3>3. ASSUME n \notin Unseen
          PROVE  Current(wrk[w].name, wrk[w].obj)'
      <4>1. cache[n] = diag[n]
        BY <3>1, <3>3, Zenon DEF Unseen, WatchEndsAtServer
      <4>2. diag'[n] = diag[n] /\ cache[n] # Absent /\ cache[n] \in Version
        BY <2>6, <3>1 DEF Reading, PhaseIs, TypeOK, StoreTypeOK
      <4>3. wrk'[w].obj.rv = diag[n].rv
        BY <2>6, <4>1, <4>2 DEF Reading, Hypothesized, Version
      <4> QED
        BY <2>6, <4>1, <4>2, <4>3 DEF Current
    <3>4. RetrySteps - wrk'[w].tries + (IF w \in crossed' THEN 1 ELSE 0) <= excused'[w]
      <4> HIDE DEF Crosses, n
      <4> QED
        BY <1>1, <1>2, <2>2, <3>1 DEF Accounted
    <3> QED
      BY <3>1, <3>2, <3>3, <3>4, Zenon DEF Accounted
  <2>7. CASE Losing(w)
    <3>1. wrk[w].pc = "write" /\ wrk'[w].pc = "read" /\ wrk'[w].tries = wrk[w].tries - 1 /\ w \in crossed
      BY <1>1, <2>7 DEF Losing, Accounted
    <3>2. w \notin crossed' /\ excused'[w] = excused[w]
      BY <2>2, <3>1
    <3>3. RetrySteps - wrk'[w].tries <= excused'[w]
      BY <1>1, <1>2, <3>1, <3>2 DEF Accounted
    <3> QED
      BY <1>2, <3>1, <3>2, <3>3 DEF Accounted
  <2> QED
    BY <2>3, <2>4, <2>5, <2>6, <2>7, WorkerSteps DEF Starting
<1> QED
  BY <1>3, <1>4

\* A worker that goes idle with no fault has written, or has lost the object, or
\* has lost its last attempt.
LEMMA GivingUp ==
  ASSUME TypeOK, CopiesAgree, [Next]_vars, NEW w \in Workers, wrk[w].pc = "write", wrk'[w].pc = "idle",
         faults' = faults
  PROVE  \/ ~PhaseIs(diag'[wrk[w].name], "Enriched")
         \/ ~Current(wrk[w].name, wrk[w].obj) /\ LastAttempt(w)
<1>1. wrk \in [Workers -> InvWork] /\ faults \in Nat
  BY DEF TypeOK, InvTypeOK, StoreTypeOK
<1>2. ~Fault
  BY <1>1 DEF Fault
<1>3. ~Crash /\ \A x \in Workers : ~InvFails(x)
  BY <1>2, Zenon DEF Crash, Restart, InvFails, InvRunFails, InvWriteFails
<1>4. ASSUME NEW x \in Workers, x # w, (\E n \in Names : InvStart(x, n)) \/ InvSteps(x)
      PROVE  wrk'[w] = wrk[w]
  BY <1>1, <1>4 DEF InvStart, InvSteps, InvRun, InvRead, InvWrite, InvRetry
<1>5. InvWrite(w)
  <2>1. ~UNCHANGED wrk
    OBVIOUS
  <2>2. (\E n \in Names : InvStart(w, n)) \/ InvSteps(w)
    BY <1>3, <1>4, <2>1, Zenon DEF Next, Environment, Detector, EvidenceCollector, Investigator, vars, core
  <2> QED
    BY <2>2 DEF InvSteps, InvStart, InvRun, InvRead
<1> DEFINE n == wrk[w].name
           o == wrk[w].obj
<1>6. n \in Names /\ o \in Version
  BY DEF TypeOK, InvTypeOK
<1>7. CASE Current(n, o) /\ Update(n, o)
  <2>1. o = Hypothesized(diag[n], wrk[w].about) /\ diag[n] \in Version
    BY <1>6, <1>7 DEF Current, CopiesAgree, InvAgrees, WorkerAgrees, ConcludeReady, TypeOK, StoreTypeOK
  <2>2. o.phase = "Hypothesized"
    BY <2>1 DEF Hypothesized, Version
  <2>3. diag'[n] = [o EXCEPT !.rv = rv[n] + 1]
    BY <1>6, <1>7, CommitOne DEF Update
  <2>4. diag'[n].phase = o.phase
    BY <1>6, <2>3 DEF Version
  <2> QED
    BY <2>2, <2>4 DEF PhaseIs
<1>8. CASE diag[n] # Absent /\ ~Current(n, o) /\ ~LastAttempt(w) /\ wrk'[w].pc = "read"
  BY <1>8
<1>9. CASE ~Current(n, o) /\ (diag[n] = Absent \/ LastAttempt(w)) /\ UnchangedStore
  BY <1>9 DEF UnchangedStore, PhaseIs
<1>10. [wrk[w] EXCEPT !.pc = "read", !.obj = Absent, !.tries = wrk[w].tries - 1].pc = "read"
  BY <1>1 DEF InvWork
<1>11. \/ Current(n, o) /\ Update(n, o)
       \/ diag[n] # Absent /\ ~Current(n, o) /\ ~LastAttempt(w) /\ wrk'[w].pc = "read"
       \/ ~Current(n, o) /\ (diag[n] = Absent \/ LastAttempt(w)) /\ UnchangedStore
  BY <1>1, <1>5, <1>10 DEF InvWrite
<1> QED
  BY <1>7, <1>8, <1>9, <1>11

\* When record gives up on a Diagnosis that still waits for its findings, with no
\* call having failed, then each of its attempts had read a copy behind the server's
\* or was crossed by a write from outside: however many workers there are, however
\* far the cache lags and however often the object is edited, no attempt is lost to
\* another part of the operator (record, retry.RetryOnConflict).
THEOREM ConflictsAlwaysAccounted == Spec => ConflictsAccounted
<1> DEFINE IInv == Exclusive /\ AllAccounted
           Kept == \A w \in Workers :
                     /\ wrk[w].pc = "write" /\ wrk'[w].pc = "idle" /\ faults' = faults
                     /\ PhaseIs(diag'[wrk[w].name], "Enriched")
                     => RetrySteps <= excused[w]
<1>1. Init => IInv
  <2> SUFFICES ASSUME Init
               PROVE  Exclusive /\ AllAccounted
    OBVIOUS
  <2>1. \A w \in Workers : wrk[w].pc = "idle" /\ w \notin crossed
    BY DEF Init, InvInit, InvIdle, HistoryInit
  <2> QED
    BY <2>1 DEF Exclusive, AllAccounted, Accounted
<1>2. TypeOK /\ CopiesAgree /\ WatchEndsAtServer /\ IInv /\ [Next]_vars => IInv'
  <2> SUFFICES ASSUME TypeOK, CopiesAgree, WatchEndsAtServer, Exclusive, AllAccounted, [Next]_vars
               PROVE  Exclusive' /\ AllAccounted'
    OBVIOUS
  <2>1. \A w \in Workers : Accounted(w)'
    BY AccountKept
  <2> QED
    BY <2>1, ExclusiveKept, Zenon DEF AllAccounted
<1>3. TypeOK /\ CopiesAgree /\ IInv /\ [Next]_vars => Kept
  <2> SUFFICES ASSUME TypeOK, CopiesAgree, IInv, [Next]_vars, NEW w \in Workers, wrk[w].pc = "write",
                      wrk'[w].pc = "idle", faults' = faults, PhaseIs(diag'[wrk[w].name], "Enriched")
               PROVE  RetrySteps <= excused[w]
    OBVIOUS
  <2>1. ~Current(wrk[w].name, wrk[w].obj) /\ LastAttempt(w)
    BY GivingUp
  <2>2. RetrySteps - wrk[w].tries + 1 <= excused[w]
    BY <2>1 DEF AllAccounted, Accounted
  <2>3. wrk[w].tries \in Nat /\ wrk[w].tries <= 1 /\ excused[w] \in Nat /\ RetrySteps \in Nat
    BY <2>1, InvestigatorAssumption DEF LastAttempt, TypeOK, InvTypeOK, InvWork, HistoryTypeOK
  <2> QED
    BY <2>2, <2>3
<1> QED
  BY <1>1, <1>2, <1>3, TypeCorrect, CopiesAlwaysAgree, WatchAlwaysEnds, PTL DEF Spec, ConflictsAccounted

-----------------------------------------------------------------------------
(* No wake-up is lost.                                                     *)

\* When the watch has nothing left to tell about a Diagnosis, then either it was
\* so before and the Diagnosis is the same, or this step told the queues of it.
LEMMA ToldOrQuiet ==
  ASSUME TypeOK, CopiesAgree, WatchEndsAtServer, [Next]_vars, NEW n \in Names, watch'[n] = <<>>
  PROVE  \/ diag'[n] = diag[n] /\ watch[n] = <<>>
         \/ /\ PhaseIs(diag'[n], "Detected") => n \in evQ'
            /\ PhaseIs(diag'[n], "Enriched") => n \in invQ'
<1>1. CASE UnchangedStore
  BY <1>1 DEF UnchangedStore
<1>2. ASSUME NEW m \in Names, NEW o, Commit(m, o)
      PROVE  diag'[n] = diag[n] /\ watch[n] = <<>>
  BY <1>2, CommitLeaves
<1>3. ASSUME NEW m \in Names, Deliver(m), m # n
      PROVE  diag'[n] = diag[n] /\ watch[n] = <<>>
  BY <1>3 DEF Deliver, TypeOK, StoreTypeOK
<1>4. CASE Deliver(n)
  <2>1. diag' = diag /\ cache'[n] = Head(watch[n])
    BY <1>4 DEF Deliver, TypeOK, StoreTypeOK
  <2>2. diag'[n] = cache'[n]
    <3>1. WatchEndsAtServer'
      BY WatchKept
    <3> QED
      BY <3>1, Zenon DEF WatchEndsAtServer
  <2>3. diag'[n] # Absent => Notify(n, diag'[n])
    BY <1>4, <2>1, <2>2, Zenon DEF Deliver
  <2> QED
    BY <2>3 DEF Notify, PhaseIs
<1>5. CASE Relist
  <2>1. /\ diag' = diag
        /\ evQ' = {m \in Names : PhaseIs(diag[m], "Detected")}
        /\ invQ' = {m \in Names : PhaseIs(diag[m], "Enriched")}
    BY <1>5 DEF Relist
  <2> QED
    BY <2>1
<1> QED
  BY <1>1, <1>2, <1>3, <1>4, <1>5, StoreSteps, Zenon

\* The evidence controller has the key in its queue or in hand.
EvHas(n) == n \in evQ \/ (ev.pc # "idle" /\ ev.name = n)

\* It loses a key only by taking it up, by a write, or by a restart.
LEMMA EvidenceKeys ==
  ASSUME TypeOK, [Next]_vars, NEW n \in Names
  PROVE  \/ EvHas(n) => EvHas(n)'
         \/ EvStart(n)
         \/ Enriching /\ ev.name = n
         \/ Relist
<1>1. ev \in EvWork /\ EvIdle.pc = "idle"
  BY DEF TypeOK, EvTypeOK, EvIdle
<1>2. CASE UNCHANGED ev /\ (\A m \in evQ : m \in evQ')
  BY <1>2 DEF EvHas
<1>3. ASSUME NEW m \in Names, EvStart(m), m # n
      PROVE  EvHas(n) => EvHas(n)'
  BY <1>3 DEF EvStart, EvHas
<1>4. CASE EvCollect
  <2>1. ev'.pc = "write" /\ ev'.name = ev.name /\ evQ' = evQ
    BY <1>1, <1>4 DEF EvCollect, EvWork, storeVars
  <2> QED
    BY <2>1 DEF EvHas
<1>5. CASE EvRetry
  BY <1>5 DEF EvRetry, EvHas
<1>6. CASE Enriching /\ ev.name # n /\ evQ' = evQ
  BY <1>6 DEF EvHas
<1>7. CASE EvWrite \/ EvWriteFails
  BY <1>5, <1>6, <1>7, Zenon DEF EvWrite, EvWriteFails, Enriching
<1>8. CASE Detector \/ Investigator \/ UNCHANGED vars
  <2>1. UNCHANGED <<ev, evQ>>
    BY <1>8, Zenon
       DEF Detector, DetStart, DetDismiss, DetDefer, DetOpen, DetCalls, DetFails, DetCreate, DetCreateFails,
           DetMark, DetMarkFails, Investigator, InvStart, InvSteps, InvFails, InvRun, InvRunFails, InvRead,
           InvWrite, InvWriteFails, vars, core, storeVars
  <2> QED
    BY <1>2, <2>1
<1>9. CASE Environment
  <2>1. ASSUME NEW m, NEW o, Notify(m, o)
        PROVE  \A k \in evQ : k \in evQ'
    BY <2>1 DEF Notify
  <2>2. UNCHANGED ev
    BY <1>9 DEF Environment
  <2>3. UNCHANGED evQ \/ \E m, o : Notify(m, o)
    BY <1>9, Zenon DEF Environment, ClusterNext, UserDeletes, UserAnnotates, Deliver, Resync, storeVars
  <2> QED
    BY <1>2, <2>1, <2>2, <2>3
<1> QED
  BY <1>3, <1>4, <1>7, <1>8, <1>9, Zenon DEF Next, EvidenceCollector, Crash, Restart

\* Whatever the API server refuses or loses, whoever edits the objects meanwhile and
\* however often the manager restarts, a Diagnosis at Detected that the cache has
\* caught up with is in the evidence controller's queue or in its hands, and so
\* never waits for the periodic resync (phaseIs, Reconcile).
THEOREM DetectedAlwaysAttended == Spec => []DetectedIsAttended
<1>1. Init => DetectedIsAttended
  BY DEF Init, StoreInit, DetectedIsAttended, PhaseIs
<1>2. TypeOK /\ CopiesAgree /\ WatchEndsAtServer /\ DetectedIsAttended /\ [Next]_vars => DetectedIsAttended'
  <2> SUFFICES ASSUME TypeOK, CopiesAgree, WatchEndsAtServer, DetectedIsAttended, [Next]_vars,
                      NEW n \in Names, PhaseIs(diag'[n], "Detected"), watch'[n] = <<>>
               PROVE  EvHas(n)'
    BY DEF DetectedIsAttended, EvHas, PhaseIs
  <2>1. CASE n \in evQ'
    BY <2>1 DEF EvHas
  <2>2. CASE diag'[n] = diag[n] /\ watch[n] = <<>>
    <3>1. EvHas(n)
      BY <2>2 DEF DetectedIsAttended, EvHas
    <3>2. CASE EvStart(n)
      <4>1. PhaseIs(cache[n], "Detected")
        BY <2>2, Zenon DEF WatchEndsAtServer
      <4>2. ev'.pc # "idle" /\ ev'.name = n
        BY <3>2, <4>1 DEF EvStart
      <4> QED
        BY <4>2 DEF EvHas
    <3>3. CASE Enriching /\ ev.name = n
      <4>1. Commit(n, [ev.obj EXCEPT !.rv = rv[n] + 1])
        BY <3>3 DEF Enriching, Update
      <4> QED
        BY <4>1, CommitLeaves
    <3>4. CASE Relist
      BY <2>2, <3>4 DEF Relist, EvHas
    <3> QED
      BY <3>1, <3>2, <3>3, <3>4, EvidenceKeys
  <2> QED
    BY <2>1, <2>2, ToldOrQuiet
<1> QED
  BY <1>1, <1>2, TypeCorrect, CopiesAlwaysAgree, WatchAlwaysEnds, PTL DEF Spec
\* The investigator has the key in its queue or in the hands of a worker.
InvHas(n) == n \in invQ \/ \E w \in Workers : wrk[w].pc # "idle" /\ wrk[w].name = n

\* record finds that the object has moved on, and leaves it.
Dropping(w, n) ==
  /\ wrk[w].name = n /\ UnchangedStore
  /\ cache[n] # Absent /\ ~PhaseIs(cache[n], "Enriched")

\* A worker at work gives up a key only by a write, or because record finds nothing
\* to do.
LEMMA WorkerKeys ==
  ASSUME TypeOK, NEW w \in Workers, InvSteps(w) \/ InvFails(w), NEW n \in Names, InvHas(n)
  PROVE  \/ InvHas(n)'
         \/ Concluding(w) /\ wrk[w].name = n
         \/ Dropping(w, n)
<1>1. wrk \in [Workers -> InvWork] /\ wrk[w] \in InvWork /\ wrk[w].pc # "idle"
  BY DEF TypeOK, InvTypeOK, InvSteps, InvFails, InvRun, InvRunFails, InvRead, InvWrite, InvWriteFails
<1>2. \A x \in Workers \ {w} : wrk'[x] = wrk[x]
  BY <1>1 DEF InvSteps, InvFails, InvRun, InvRunFails, InvRead, InvWrite, InvWriteFails, InvRetry
<1>3. ASSUME \A m \in invQ : m \in invQ', wrk[w].name # n
      PROVE  InvHas(n)'
  BY <1>2, <1>3 DEF InvHas
<1>4. ASSUME \A m \in invQ : m \in invQ', wrk'[w].pc # "idle", wrk'[w].name = wrk[w].name
      PROVE  InvHas(n)'
  BY <1>2, <1>4 DEF InvHas
<1>5. CASE InvRetry(w)
  <2>1. (\A m \in invQ : m \in invQ') /\ wrk[w].name \in invQ'
    BY <1>5 DEF InvRetry
  <2> QED
    BY <1>3, <2>1 DEF InvHas
<1>6. CASE InvRun(w)
  <2>1. wrk'[w].pc = "read" /\ wrk'[w].name = wrk[w].name /\ invQ' = invQ
    BY <1>1, <1>6 DEF InvRun, InvWork, storeVars
  <2> QED
    BY <1>4, <2>1
<1>7. CASE InvRead(w)
  <2>1. CASE /\ cache[wrk[w].name] # Absent /\ ~PhaseIs(cache[wrk[w].name], "Enriched")
             /\ UNCHANGED invQ /\ UnchangedStore
    <3>1. CASE wrk[w].name = n
      BY <2>1, <3>1, Zenon DEF Dropping
    <3> QED
      BY <1>3, <2>1, <3>1
  <2>2. CASE /\ wrk' = [wrk EXCEPT ![w] =
                          [@ EXCEPT !.pc = "write", !.obj = Hypothesized(cache[wrk[w].name], wrk[w].about)]]
             /\ UNCHANGED invQ
    <3>1. wrk'[w] = [wrk[w] EXCEPT !.pc = "write", !.obj = Hypothesized(cache[wrk[w].name], wrk[w].about)]
      BY <1>1, <2>2
    <3>2. wrk'[w].pc = "write" /\ wrk'[w].name = wrk[w].name
      BY <1>1, <3>1 DEF InvWork
    <3> QED
      BY <1>4, <2>2, <3>2
  <2> QED
    BY <1>5, <1>7, <2>1, <2>2, Zenon DEF InvRead, UnchangedStore
<1>8. CASE InvWrite(w)
  <2>1. CASE Concluding(w) /\ UNCHANGED invQ
    BY <1>3, <2>1
  <2>2. CASE /\ wrk' = [wrk EXCEPT ![w] =
                          [@ EXCEPT !.pc = "read", !.obj = Absent, !.tries = wrk[w].tries - 1]]
             /\ UNCHANGED invQ
    <3>1. wrk'[w].pc = "read" /\ wrk'[w].name = wrk[w].name
      BY <1>1, <2>2 DEF InvWork
    <3> QED
      BY <1>4, <2>2, <3>1
  <2> QED
    BY <1>5, <1>8, <2>1, <2>2, Zenon DEF InvWrite, Concluding
<1> QED
  BY <1>5, <1>6, <1>7, <1>8, Zenon DEF InvSteps, InvFails, InvRunFails, InvWriteFails

\* The investigator loses a key only in these ways, by taking it up, or by a restart.
LEMMA InvestigatorKeys ==
  ASSUME TypeOK, [Next]_vars, NEW n \in Names, InvHas(n)
  PROVE  \/ InvHas(n)'
         \/ \E w \in Workers : InvStart(w, n) \/ (Concluding(w) /\ wrk[w].name = n) \/ Dropping(w, n)
         \/ Relist
<1>1. wrk \in [Workers -> InvWork]
  BY DEF TypeOK, InvTypeOK
<1>2. CASE UNCHANGED wrk /\ (\A m \in invQ : m \in invQ')
  BY <1>2 DEF InvHas
<1>3. ASSUME NEW w \in Workers, NEW m \in Names, InvStart(w, m), m # n
      PROVE  InvHas(n)'
  <2>1. wrk[w].pc = "idle" /\ (n \in invQ => n \in invQ')
    BY <1>3 DEF InvStart
  <2>2. \A x \in Workers \ {w} : wrk'[x] = wrk[x]
    BY <1>1, <1>3 DEF InvStart
  <2> QED
    BY <2>1, <2>2 DEF InvHas
<1>4. CASE Detector \/ EvidenceCollector \/ UNCHANGED vars
  <2>1. UNCHANGED <<wrk, invQ>>
    BY <1>4, Zenon
       DEF Detector, DetStart, DetDismiss, DetDefer, DetOpen, DetCalls, DetFails, DetCreate, DetCreateFails,
           DetMark, DetMarkFails, EvidenceCollector, EvStart, EvCollect, EvWrite, EvWriteFails, vars, core, storeVars
  <2> QED
    BY <1>2, <2>1
<1>5. CASE Environment
  <2>1. ASSUME NEW m, NEW o, Notify(m, o)
        PROVE  \A k \in invQ : k \in invQ'
    BY <2>1 DEF Notify
  <2>2. UNCHANGED wrk
    BY <1>5 DEF Environment
  <2>3. UNCHANGED invQ \/ \E m, o : Notify(m, o)
    BY <1>5, Zenon DEF Environment, ClusterNext, UserDeletes, UserAnnotates, Deliver, Resync, storeVars
  <2> QED
    BY <1>2, <2>1, <2>2, <2>3
<1>6. CASE Investigator
  BY <1>3, <1>6, WorkerKeys, Zenon DEF Investigator
<1> QED
  BY <1>4, <1>5, <1>6, Zenon DEF Next, Crash, Restart

\* Failed model calls, lost conflicts, a Diagnosis that is deleted and recreated, a
\* restart, any number of workers: none of them makes an Enriched Diagnosis that is
\* to be investigated wait for the periodic resync.  Only an edit of the policy
\* does (Reconcile, record, phaseIs).
THEOREM OnlyPolicyEditsUnattend == Spec => NoneNewlyUnattended
<1> DEFINE Kept == \A n \in Names : Unattended(n)' => Unattended(n) \/ policies' # policies
<1>1. TypeOK /\ CopiesAgree /\ WatchEndsAtServer /\ [Next]_vars => Kept
  <2> SUFFICES ASSUME TypeOK, CopiesAgree, WatchEndsAtServer, [Next]_vars,
                      NEW n \in Names, Unattended(n)', policies' = policies
               PROVE  Unattended(n)
    OBVIOUS
  <2>1. /\ PhaseIs(diag'[n], "Enriched") /\ AgentEnabled(diag[n])' /\ ModelConfigured
        /\ watch'[n] = <<>> /\ n \notin invQ' /\ ~InvHas(n)'
    BY Zenon DEF Unattended, InvHas, PhaseIs
  <2>2. diag'[n] = diag[n] /\ watch[n] = <<>>
    BY <2>1, ToldOrQuiet
  <2>3. PhaseIs(diag[n], "Enriched") /\ AgentEnabled(diag[n])
    BY <2>1, <2>2, Zenon DEF AgentEnabled
  <2>4. cache[n] = diag[n]
    BY <2>2, Zenon DEF WatchEndsAtServer
  <2>5. ASSUME InvHas(n)
        PROVE  FALSE
    <3>1. ASSUME NEW w \in Workers, InvStart(w, n)
          PROVE  FALSE
      <4>1. ToInvestigate(n)
        BY <2>1, <2>3, <2>4, Zenon DEF ToInvestigate
      <4>2. wrk' = [wrk EXCEPT ![w] = [InvIdle EXCEPT !.pc = "run", !.name = n, !.about = cache[n].uid]]
        BY <3>1, <4>1 DEF InvStart
      <4>3. wrk'[w].pc = "run" /\ wrk'[w].name = n
        BY <4>2 DEF InvIdle, TypeOK, InvTypeOK
      <4> QED
        BY <2>1, <4>3 DEF InvHas
    <3>2. ASSUME NEW w \in Workers, Concluding(w), wrk[w].name = n
          PROVE  FALSE
      <4>1. Commit(n, [wrk[w].obj EXCEPT !.rv = rv[n] + 1])
        BY <3>2 DEF Concluding, Update
      <4> QED
        BY <2>1, <4>1, CommitLeaves
    <3>3. ASSUME NEW w \in Workers, Dropping(w, n)
          PROVE  FALSE
      BY <2>3, <2>4, <3>3 DEF Dropping
    <3>4. CASE Relist
      BY <2>1, <2>2, <2>3, <3>4 DEF Relist
    <3> QED
      BY <2>1, <2>5, <3>1, <3>2, <3>3, <3>4, InvestigatorKeys
  <2> QED
    BY <2>1, <2>2, <2>3, <2>5, Zenon DEF Unattended, InvHas
<1> QED
  BY <1>1, TypeCorrect, CopiesAlwaysAgree, WatchAlwaysEnds, PTL DEF Spec, NoneNewlyUnattended
=============================================================================
