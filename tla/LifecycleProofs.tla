--------------------------- MODULE LifecycleProofs ---------------------------
(***************************************************************************)
(* The pipeline implements DiagnosisLifecycle.  The invariant CopiesAgree  *)
(* carries the argument: optimistic concurrency lets a write through only  *)
(* when the writer's copy is the object on the server.                     *)
(***************************************************************************)
EXTENDS PipelineProofs

SameSpec(d, o) == o.uid = d.uid /\ o.pod = d.pod /\ o.podUID = d.podUID /\ o.policy = d.policy
SameEvidence(d, o) == o.evidence = d.evidence
SameFindings(d, o) == o.findings = d.findings

\* What a write may do to an existing Diagnosis: nothing that shows, or move it
\* one phase on and attach what that phase brings.
Progress(d, o) ==
  /\ SameSpec(d, o)
  /\ \/ o.phase = d.phase /\ SameEvidence(d, o) /\ SameFindings(d, o)
     \/ d.phase = "New" /\ o.phase = "Detected" /\ SameEvidence(d, o) /\ SameFindings(d, o)
     \/ d.phase = "Detected" /\ o.phase = "Enriched" /\ o.evidence.state # "none" /\ SameFindings(d, o)
     \/ d.phase = "Enriched" /\ o.phase = "Hypothesized" /\ SameEvidence(d, o) /\ o.findings # 0

\* What a write may do to a name: remove its Diagnosis, create one with nothing
\* attached, or let it progress.
Lawful(d, o) ==
  \/ d # Absent /\ o = Absent
  \/ d = Absent /\ o # Absent /\ o.phase = "New" /\ o.evidence = NoEvidence /\ o.findings = 0
  \/ d # Absent /\ o # Absent /\ Progress(d, o)

\* A write of o to n that the server accepts and that is lawful.
LawfulWrite(n, o) ==
  /\ Commit(n, o)
  /\ o # Absent => o.uid > 0 /\ o.rv = rv[n] + 1
  /\ Lawful(diag[n], o)

-----------------------------------------------------------------------------
(* Copies survive a write.                                                 *)

\* A copy of any earlier version stays genuine when the object is replaced.
LEMMA CopyKept ==
  ASSUME NEW d, NEW o \in Version \cup {Absent}, NEW r \in Nat, NEW v \in Version,
         o # Absent => o.rv = r + 1
  PROVE  /\ Genuine(d, r, v) => Genuine(o, r + 1, v)
         /\ EnrichReady(d, r, v) => EnrichReady(o, r + 1, v)
         /\ \A k \in Nat : ConcludeReady(d, r, v, k) => ConcludeReady(o, r + 1, v, k)
<1>1. v.rv \in Nat
  BY DEF Version
<1>2. v.rv <= r => v.rv <= r + 1 /\ v.rv # r + 1
  BY <1>1
<1> QED
  BY <1>2 DEF Genuine, EnrichReady, ConcludeReady

\* A lawful write to one name leaves every copy genuine, the new one included.
LEMMA WriteKeepsStore ==
  ASSUME TypeOK, StoreAgrees, NEW n \in Names, NEW o \in Version \cup {Absent}, LawfulWrite(n, o)
  PROVE  StoreAgrees'
<1>1. ASSUME NEW m \in Names, m # n
      PROVE  diag'[m] = diag[m] /\ rv'[m] = rv[m] /\ cache'[m] = cache[m] /\ watch'[m] = watch[m]
  BY <1>1 DEF LawfulWrite, Commit, TypeOK, StoreTypeOK
<1>2. diag'[n] = o /\ rv'[n] = rv[n] + 1 /\ cache'[n] = cache[n] /\ watch'[n] = Append(watch[n], o)
  BY DEF LawfulWrite, Commit, TypeOK, StoreTypeOK
<1>3. o # Absent => Genuine(o, rv[n] + 1, o)
  BY DEF LawfulWrite, Genuine, TypeOK, StoreTypeOK
<1>4. rv[n] \in Nat /\ cache[n] \in Version \cup {Absent} /\ watch[n] \in Seq(Version \cup {Absent})
  BY DEF TypeOK, StoreTypeOK
<1>5. o # Absent => o.rv = rv[n] + 1
  BY DEF LawfulWrite
<1>6. cache[n] # Absent => Genuine(o, rv[n] + 1, cache[n])
  BY <1>4, <1>5, CopyKept DEF StoreAgrees
<1>7. ASSUME NEW i \in DOMAIN Append(watch[n], o), Append(watch[n], o)[i] # Absent
      PROVE  Genuine(o, rv[n] + 1, Append(watch[n], o)[i])
  <2>1. CASE i \in DOMAIN watch[n]
    <3>1. Append(watch[n], o)[i] = watch[n][i] /\ watch[n][i] \in Version \cup {Absent}
      BY <1>4, <2>1
    <3> QED
      BY <1>4, <1>5, <1>7, <2>1, <3>1, CopyKept DEF StoreAgrees
  <2>2. CASE i \notin DOMAIN watch[n]
    <3>1. Append(watch[n], o)[i] = o
      BY <1>4, <1>7, <2>2
    <3> QED
      BY <1>3, <1>7, <3>1
  <2> QED
    BY <2>1, <2>2
<1>8. ASSUME NEW m \in Names
      PROVE  /\ diag'[m] # Absent => Genuine(diag'[m], rv'[m], diag'[m])
             /\ cache'[m] # Absent => Genuine(diag'[m], rv'[m], cache'[m])
             /\ \A i \in DOMAIN watch'[m] :
                  watch'[m][i] # Absent => Genuine(diag'[m], rv'[m], watch'[m][i])
  <2>1. CASE m = n
    BY <1>2, <1>3, <1>6, <1>7, <2>1, Zenon
  <2>2. CASE m # n
    BY <1>1, <2>2, Zenon DEF StoreAgrees
  <2> QED
    BY <2>1, <2>2
<1> QED
  BY <1>8, Zenon DEF StoreAgrees

\* The copy a worker holds stays genuine whether or not the object is written.
LEMMA HeldKept ==
  ASSUME TypeOK, NEW m \in Names, NEW v \in Version,
         \/ UNCHANGED <<diag, rv>>
         \/ \E n \in Names, o \in Version \cup {Absent} : LawfulWrite(n, o)
  PROVE  /\ Genuine(diag[m], rv[m], v) => Genuine(diag'[m], rv'[m], v)
         /\ EnrichReady(diag[m], rv[m], v) => EnrichReady(diag'[m], rv'[m], v)
         /\ \A k \in Nat : ConcludeReady(diag[m], rv[m], v, k) => ConcludeReady(diag'[m], rv'[m], v, k)
<1>1. CASE UNCHANGED <<diag, rv>>
  BY <1>1, Zenon
<1>2. ASSUME NEW n \in Names, NEW o \in Version \cup {Absent}, LawfulWrite(n, o)
      PROVE  \/ diag'[m] = diag[m] /\ rv'[m] = rv[m]
             \/ /\ diag'[m] = o /\ rv'[m] = rv[m] + 1
                /\ o # Absent => o.rv = rv[m] + 1
  BY <1>2 DEF LawfulWrite, Commit, TypeOK, StoreTypeOK
<1>3. rv[m] \in Nat
  BY DEF TypeOK, StoreTypeOK
<1>4. ASSUME NEW n \in Names, NEW o \in Version \cup {Absent}, LawfulWrite(n, o)
      PROVE  /\ Genuine(diag[m], rv[m], v) => Genuine(diag'[m], rv'[m], v)
             /\ EnrichReady(diag[m], rv[m], v) => EnrichReady(diag'[m], rv'[m], v)
             /\ \A k \in Nat : ConcludeReady(diag[m], rv[m], v, k) => ConcludeReady(diag'[m], rv'[m], v, k)
  <2>1. CASE diag'[m] = diag[m] /\ rv'[m] = rv[m]
    BY <2>1, Zenon
  <2>2. CASE diag'[m] = o /\ rv'[m] = rv[m] + 1 /\ (o # Absent => o.rv = rv[m] + 1)
    BY <1>3, <2>2, CopyKept
  <2> QED
    BY <1>2, <1>4, <2>1, <2>2
<1> QED
  BY <1>1, <1>4

-----------------------------------------------------------------------------
(* The writes are lawful.                                                  *)

Effect == UNCHANGED <<diag, rv>> \/ \E n \in Names, o \in Version \cup {Absent} : LawfulWrite(n, o)

\* An update moves the held object to a fresh resource version and is lawful if
\* what it does to the object on the server is.
LEMMA UpdateLawful ==
  ASSUME TypeOK, NEW n \in Names, NEW o \in Version, Update(n, o), o.uid > 0,
         \A k \in Nat : Lawful(diag[n], [o EXCEPT !.rv = k])
  PROVE  \E x \in Version \cup {Absent} : LawfulWrite(n, x)
<1>1. rv[n] + 1 \in Nat
  BY DEF TypeOK, StoreTypeOK
<1> DEFINE x == [o EXCEPT !.rv = rv[n] + 1]
<1>2. x \in Version /\ x.rv = rv[n] + 1 /\ x.uid = o.uid
  BY <1>1 DEF Version
<1>3. Commit(n, x) /\ Lawful(diag[n], x)
  BY <1>1 DEF Update
<1> QED
  BY <1>2, <1>3 DEF LawfulWrite

\* The first status update: the object the detector created, if it is still
\* that version, becomes Detected and nothing else about it changes.
LEMMA MarkLawful ==
  ASSUME TypeOK, CopiesAgree, det.pc = "mark", Current(det.name, det.obj),
         Update(det.name, Marked(det.obj))
  PROVE  \E x \in Version \cup {Absent} : LawfulWrite(det.name, x)
<1>1. det.name \in Names /\ det.obj \in Version
  BY DEF TypeOK, DetTypeOK
<1>2. diag[det.name] = det.obj /\ det.obj.uid > 0 /\ det.obj.phase = "New" /\ det.obj # Absent
  BY <1>1, StoreAssumption DEF Current, CopiesAgree, DetAgrees, Genuine
<1>3. Marked(det.obj) \in Version /\ Marked(det.obj).uid = det.obj.uid
  BY <1>1, VersionOps DEF Marked, Version
<1>4. ASSUME NEW k \in Nat
      PROVE  Lawful(diag[det.name], [Marked(det.obj) EXCEPT !.rv = k])
  <2>1. [Marked(det.obj) EXCEPT !.rv = k] \in Version
    BY <1>3, VersionOps
  <2>2. Progress(det.obj, [Marked(det.obj) EXCEPT !.rv = k])
    BY <1>1, <1>2 DEF Marked, Version, Progress, SameSpec, SameEvidence, SameFindings
  <2> QED
    BY <1>2, <2>1, <2>2, StoreAssumption DEF Lawful
<1> QED
  BY <1>1, <1>2, <1>3, <1>4, UpdateLawful

\* Enriching a genuine copy that is at Detected gives an object that may be
\* written: if the server still has that version, it is that object moved on.
LEMMA ReadyToEnrich ==
  ASSUME NEW d, NEW r \in Nat, NEW v \in Version, NEW e \in Evidence,
         Genuine(d, r, v), v.phase = "Detected", e.state # "none"
  PROVE  EnrichReady(d, r, Enriched(v, e))
<1>1. Enriched(v, e).rv = v.rv /\ Enriched(v, e).evidence = e
  BY DEF Enriched, Version
<1> QED
  BY <1>1 DEF EnrichReady, Genuine

\* The status update of the evidence controller: if the object is still the
\* version that was read, it is at Detected, and only evidence is attached.
LEMMA EnrichLawful ==
  ASSUME TypeOK, CopiesAgree, ev.pc = "write", Current(ev.name, ev.obj), Update(ev.name, ev.obj)
  PROVE  \E x \in Version \cup {Absent} : LawfulWrite(ev.name, x)
<1> DEFINE d == diag[ev.name]
           e == ev.obj.evidence
<1>1. ev.name \in Names /\ ev.obj \in Version /\ d \in Version /\ d # Absent
  BY DEF TypeOK, EvTypeOK, StoreTypeOK, Current
<1>2. d.phase = "Detected" /\ ev.obj = Enriched(d, e) /\ e.state # "none" /\ d.uid > 0
  BY <1>1 DEF Current, CopiesAgree, EvAgrees, EnrichReady, StoreAgrees, Genuine
<1>3. ev.obj.uid = d.uid
  BY <1>1, <1>2 DEF Enriched, Version
<1>4. ASSUME NEW k \in Nat
      PROVE  Lawful(d, [ev.obj EXCEPT !.rv = k])
  <2>1. [ev.obj EXCEPT !.rv = k] \in Version
    BY <1>1, VersionOps
  <2>2. Progress(d, [ev.obj EXCEPT !.rv = k])
    <3> HIDE DEF d, e
    <3>1. [ev.obj EXCEPT !.rv = k].evidence = e
      BY <1>1 DEF Version, e
    <3> QED
      BY <1>1, <1>2, <3>1 DEF Enriched, Version, Progress, SameSpec, SameFindings
  <2> QED
    BY <1>1, <2>1, <2>2, StoreAssumption DEF Lawful
<1> QED
  BY <1>1, <1>2, <1>3, <1>4, UpdateLawful

\* The status update of record: if the object is still the version that was
\* read, it is at Enriched, and only findings are attached.
LEMMA ConcludeLawful ==
  ASSUME TypeOK, CopiesAgree, NEW w \in Workers, wrk[w].pc = "write",
         Current(wrk[w].name, wrk[w].obj), Update(wrk[w].name, wrk[w].obj)
  PROVE  \E x \in Version \cup {Absent} : LawfulWrite(wrk[w].name, x)
<1> DEFINE d == diag[wrk[w].name]
           o == wrk[w].obj
           a == wrk[w].about
<1>1. wrk[w].name \in Names /\ o \in Version /\ d \in Version /\ d # Absent /\ a \in Nat
  BY DEF TypeOK, InvTypeOK, InvWork, StoreTypeOK, Current
<1>2. d.phase = "Enriched" /\ o = Hypothesized(d, a) /\ a > 0 /\ d.uid > 0
  BY <1>1 DEF Current, CopiesAgree, InvAgrees, WorkerAgrees, ConcludeReady, StoreAgrees, Genuine
<1>3. o.uid = d.uid
  BY <1>1, <1>2 DEF Hypothesized, Version
<1>4. ASSUME NEW k \in Nat
      PROVE  Lawful(d, [o EXCEPT !.rv = k])
  <2>1. [o EXCEPT !.rv = k] \in Version
    BY <1>1, VersionOps
  <2>2. Progress(d, [o EXCEPT !.rv = k])
    <3> HIDE DEF d, o, a
    <3> QED
      BY <1>1, <1>2 DEF Hypothesized, Version, Progress, SameSpec, SameEvidence
  <2> QED
    BY <1>1, <2>1, <2>2, StoreAssumption DEF Lawful
<1> QED
  BY <1>1, <1>2, <1>3, <1>4, UpdateLawful

\* The create of the detector: a new object with nothing attached.
LEMMA CreateLawful ==
  ASSUME TypeOK, CopiesAgree, det.pc = "create", diag[det.name] = Absent,
         Commit(det.name, Stored(det.name, det.obj, now))
  PROVE  /\ Stored(det.name, det.obj, now) \in Version
         /\ LawfulWrite(det.name, Stored(det.name, det.obj, now))
<1>1. det.name \in Names /\ det.obj \in Version /\ now \in Nat /\ rv[det.name] \in Nat
  BY DEF TypeOK, DetTypeOK, ClusterTypeOK, StoreTypeOK
<1>2. Stored(det.name, det.obj, now) \in Version
  BY <1>1, StoredIsVersion DEF TypeOK
<1>3. /\ Stored(det.name, det.obj, now).uid = rv[det.name] + 1
      /\ Stored(det.name, det.obj, now).rv = rv[det.name] + 1
      /\ Stored(det.name, det.obj, now).phase = det.obj.phase
      /\ Stored(det.name, det.obj, now).evidence = det.obj.evidence
      /\ Stored(det.name, det.obj, now).findings = det.obj.findings
  BY <1>1 DEF Stored, Version
<1>4. Lawful(diag[det.name], Stored(det.name, det.obj, now))
  BY <1>2, <1>3, StoreAssumption DEF Lawful, CopiesAgree, DetAgrees
<1> QED
  BY <1>1, <1>2, <1>3, <1>4 DEF LawfulWrite

-----------------------------------------------------------------------------
(* Every step keeps the copies in agreement.                               *)

\* What a worker holds stays in agreement when somebody else takes a step.
LEMMA DetKept ==
  ASSUME TypeOK, DetAgrees, Effect, UNCHANGED det
  PROVE  DetAgrees'
<1>1. det.pc = "mark" => det.name \in Names /\ det.obj \in Version
  BY DEF TypeOK, DetTypeOK
<1>2. det.pc = "mark" => Genuine(diag'[det.name], rv'[det.name], det.obj)
  BY <1>1, HeldKept DEF Effect, DetAgrees
<1> QED
  BY <1>2, Zenon DEF DetAgrees

\* The same for the evidence controller.
LEMMA EvKept ==
  ASSUME TypeOK, EvAgrees, Effect, UNCHANGED ev
  PROVE  EvAgrees'
<1>1. ev.pc # "idle" => ev.name \in Names /\ ev.obj \in Version
  BY DEF TypeOK, EvTypeOK
<1>2. ev.pc = "collect" => Genuine(diag'[ev.name], rv'[ev.name], ev.obj)
  BY <1>1, HeldKept DEF Effect, EvAgrees
<1>3. ev.pc = "write" => EnrichReady(diag'[ev.name], rv'[ev.name], ev.obj)
  BY <1>1, HeldKept DEF Effect, EvAgrees
<1> QED
  BY <1>2, <1>3, Zenon DEF EvAgrees

\* The same for one worker of the investigator.
LEMMA WorkerKept ==
  ASSUME TypeOK, NEW w \in Workers, WorkerAgrees(w), Effect, wrk'[w] = wrk[w]
  PROVE  WorkerAgrees(w)'
<1>1. wrk[w].pc = "write" => wrk[w].name \in Names /\ wrk[w].obj \in Version /\ wrk[w].about \in Nat
  BY DEF TypeOK, InvTypeOK, InvWork
<1>2. wrk[w].pc = "write" =>
        ConcludeReady(diag'[wrk[w].name], rv'[wrk[w].name], wrk[w].obj, wrk[w].about)
  BY <1>1, HeldKept DEF Effect, WorkerAgrees
<1> QED
  BY <1>2, Zenon DEF WorkerAgrees

\* The same for all of them.
LEMMA InvKept ==
  ASSUME TypeOK, InvAgrees, Effect, UNCHANGED wrk
  PROVE  InvAgrees'
<1>1. ASSUME NEW w \in Workers
      PROVE  WorkerAgrees(w)'
  BY WorkerKept, Zenon DEF InvAgrees
<1> QED
  BY <1>1, Zenon DEF InvAgrees

\* The store and the cache stay in agreement when nothing is written or read.
LEMMA StoreKept ==
  ASSUME StoreAgrees, UNCHANGED <<diag, rv, cache, watch>>
  PROVE  StoreAgrees'
BY Zenon DEF StoreAgrees

\* A step of the detector: nothing, a create, or the first status update.
LEMMA DetectorAgrees ==
  ASSUME TypeOK, CopiesAgree, Detector
  PROVE  Effect /\ CopiesAgree'
<1>1. CASE \E p \in Pods : DetStart(p)
  <2>1. UNCHANGED <<diag, rv, cache, watch>>
    BY <1>1, Zenon DEF DetStart, DetDismiss, DetDefer, DetOpen, storeVars
  <2>2. DetAgrees'
    <3>1. CASE UNCHANGED det
      BY <2>1, <3>1, DetKept DEF CopiesAgree, Effect
    <3>2. ASSUME NEW p \in Pods, DetOpen(p)
          PROVE  DetAgrees'
      BY <3>2 DEF DetOpen, DetAgrees, BuildDiagnosis
    <3> QED
      BY <1>1, <3>1, <3>2, Zenon DEF DetStart, DetDismiss, DetDefer
  <2> QED
    BY <2>1, <2>2, StoreKept, EvKept, InvKept DEF Detector, Effect, CopiesAgree
<1>2. CASE DetCalls \/ DetFails
  <2>1. \/ UnchangedStore /\ det' = DetIdle
        \/ /\ det.pc = "create" /\ diag[det.name] = Absent
           /\ Commit(det.name, Stored(det.name, det.obj, now))
           /\ \/ det' = DetIdle
              \/ det' = [det EXCEPT !.pc = "mark", !.obj = Stored(det.name, det.obj, now)]
        \/ /\ det.pc = "mark" /\ Current(det.name, det.obj) /\ Update(det.name, Marked(det.obj))
           /\ det' = DetIdle
    BY <1>2, Zenon DEF DetCalls, DetFails, DetCreate, DetCreateFails, DetMark, DetMarkFails, DetRetry
  <2>2. DetIdle.pc = "idle"
    BY DEF DetIdle
  <2>3. CASE UnchangedStore /\ det' = DetIdle
    <3>1. DetAgrees'
      BY <2>2, <2>3 DEF DetAgrees
    <3> QED
      BY <2>3, <3>1, StoreKept, EvKept, InvKept DEF Detector, Effect, CopiesAgree, UnchangedStore
  <2>4. CASE /\ det.pc = "create" /\ diag[det.name] = Absent
             /\ Commit(det.name, Stored(det.name, det.obj, now))
             /\ \/ det' = DetIdle
                \/ det' = [det EXCEPT !.pc = "mark", !.obj = Stored(det.name, det.obj, now)]
    <3> DEFINE new == Stored(det.name, det.obj, now)
    <3>1. det.name \in Names /\ det.obj \in Version /\ new \in Version /\ LawfulWrite(det.name, new)
      BY <2>4, CreateLawful DEF TypeOK, DetTypeOK
    <3>2. Effect /\ StoreAgrees'
      BY <3>1, WriteKeepsStore DEF Effect, CopiesAgree
    <3>3. DetAgrees'
      <4>1. new.phase = "New" /\ new.evidence = NoEvidence /\ new.findings = 0
        BY <2>4, <3>1 DEF Stored, Version, CopiesAgree, DetAgrees
      <4>2. diag'[det.name] = new /\ new # Absent
        BY <3>1, StoreAssumption DEF LawfulWrite, Commit, TypeOK, StoreTypeOK
      <4>3. Genuine(diag'[det.name], rv'[det.name], new)
        BY <3>1, <3>2, <4>2, Zenon DEF StoreAgrees
      <4>4. CASE det' = DetIdle
        BY <2>2, <4>4 DEF DetAgrees
      <4>5. CASE det' = [det EXCEPT !.pc = "mark", !.obj = new]
        <5> HIDE DEF new
        <5>1. det'.name = det.name /\ det'.obj = new /\ det'.pc = "mark"
          BY <4>5 DEF TypeOK, DetTypeOK, DetWork
        <5> QED
          BY <4>1, <4>3, <5>1 DEF DetAgrees
      <4> QED
        BY <2>4, <4>4, <4>5
    <3> QED
      BY <3>2, <3>3, EvKept, InvKept DEF Detector, CopiesAgree
  <2>5. CASE /\ det.pc = "mark" /\ Current(det.name, det.obj) /\ Update(det.name, Marked(det.obj))
             /\ det' = DetIdle
    <3>1. PICK x \in Version \cup {Absent} : LawfulWrite(det.name, x)
      BY <2>5, MarkLawful
    <3>2. det.name \in Names
      BY <2>5 DEF TypeOK, DetTypeOK
    <3>3. Effect /\ StoreAgrees'
      BY <3>1, <3>2, WriteKeepsStore DEF Effect, CopiesAgree
    <3>4. DetAgrees'
      BY <2>2, <2>5 DEF DetAgrees
    <3> QED
      BY <3>3, <3>4, EvKept, InvKept DEF Detector, CopiesAgree
  <2> QED
    BY <2>1, <2>3, <2>4, <2>5
<1> QED
  BY <1>1, <1>2 DEF Detector

\* A step of the evidence controller: what it read from the cache becomes the
\* object moved on to Enriched, and the write applies it to that very object.
LEMMA EvidenceAgrees ==
  ASSUME TypeOK, CopiesAgree, EvidenceCollector
  PROVE  Effect /\ CopiesAgree'
<1>1. EvIdle.pc = "idle"
  BY DEF EvIdle
<1>2. ASSUME NEW n \in Names, EvStart(n)
      PROVE  Effect /\ CopiesAgree'
  <2>1. UNCHANGED <<diag, rv, cache, watch>>
    BY <1>2 DEF EvStart
  <2>2. EvAgrees'
    <3>1. CASE ~PhaseIs(cache[n], "Detected")
      <4>1. ev' = EvIdle
        BY <1>2, <3>1 DEF EvStart
      <4> QED
        BY <1>1, <4>1 DEF EvAgrees
    <3>2. CASE PhaseIs(cache[n], "Detected")
      <4> DEFINE c == cache[n]
      <4>1. c \in Version /\ c.phase = "Detected" /\ Genuine(diag[n], rv[n], c)
        BY <3>2 DEF PhaseIs, TypeOK, StoreTypeOK, CopiesAgree, StoreAgrees
      <4>2. \/ ev' = [pc |-> "collect", name |-> n, obj |-> c]
            \/ ev' = [pc |-> "write", name |-> n, obj |-> Enriched(c, PodGone)]
        BY <1>2, <3>2 DEF EvStart
      <4>3. EnrichReady(diag[n], rv[n], Enriched(c, PodGone))
        <5>1. PodGone \in Evidence /\ PodGone.state = "podGone"
          BY DEF PodGone, Evidence
        <5>2. rv[n] \in Nat
          BY DEF TypeOK, StoreTypeOK
        <5> QED
          BY <4>1, <5>1, <5>2, ReadyToEnrich
      <4> QED
        BY <2>1, <4>1, <4>2, <4>3 DEF EvAgrees
    <3> QED
      BY <3>1, <3>2
  <2> QED
    BY <2>1, <2>2, StoreKept, DetKept, InvKept DEF EvidenceCollector, Effect, CopiesAgree
<1>3. CASE EvCollect
  <2>1. UNCHANGED <<diag, rv, cache, watch>>
    BY <1>3 DEF EvCollect, storeVars
  <2>2. EvAgrees'
    <3> DEFINE e == Collected(ev.obj.pod)
    <3>1. ev.name \in Names /\ ev.obj \in Version /\ ev.obj.phase = "Detected"
      BY <1>3 DEF EvCollect, TypeOK, EvTypeOK, CopiesAgree, EvAgrees
    <3>2. Genuine(diag[ev.name], rv[ev.name], ev.obj)
      BY <1>3 DEF EvCollect, CopiesAgree, EvAgrees
    <3>3. e \in Evidence /\ e.state = "collected"
      <4>1. ev.obj.pod \in Pods
        BY <3>1 DEF Version
      <4> QED
        BY <4>1, EvidenceOps DEF Collected, TypeOK
    <3>4. EnrichReady(diag[ev.name], rv[ev.name], Enriched(ev.obj, e))
      <4>1. rv[ev.name] \in Nat
        BY <3>1 DEF TypeOK, StoreTypeOK
      <4> HIDE DEF e
      <4> QED
        BY <3>1, <3>2, <3>3, <4>1, ReadyToEnrich
    <3>5. ev'.name = ev.name /\ ev'.pc = "write" /\ ev'.obj = Enriched(ev.obj, e)
      BY <1>3 DEF EvCollect, TypeOK, EvTypeOK, EvWork
    <3> QED
      BY <2>1, <3>4, <3>5 DEF EvAgrees
  <2> QED
    BY <2>1, <2>2, StoreKept, DetKept, InvKept DEF EvidenceCollector, Effect, CopiesAgree
<1>4. CASE EvWrite \/ EvWriteFails
  <2>1. /\ ev.pc = "write" /\ ev' = EvIdle
        /\ \/ UnchangedStore
           \/ Current(ev.name, ev.obj) /\ Update(ev.name, ev.obj)
    BY <1>4, Zenon DEF EvWrite, EvWriteFails, EvRetry
  <2>2. EvAgrees'
    BY <1>1, <2>1 DEF EvAgrees
  <2>3. CASE UnchangedStore
    BY <2>2, <2>3, StoreKept, DetKept, InvKept DEF EvidenceCollector, Effect, CopiesAgree, UnchangedStore
  <2>4. CASE Current(ev.name, ev.obj) /\ Update(ev.name, ev.obj)
    <3>1. PICK x \in Version \cup {Absent} : LawfulWrite(ev.name, x)
      BY <2>1, <2>4, EnrichLawful
    <3>2. ev.name \in Names
      BY <2>1 DEF TypeOK, EvTypeOK
    <3>3. Effect /\ StoreAgrees'
      BY <3>1, <3>2, WriteKeepsStore DEF Effect, CopiesAgree
    <3> QED
      BY <2>2, <3>3, DetKept, InvKept DEF EvidenceCollector, CopiesAgree
  <2> QED
    BY <2>1, <2>3, <2>4
<1> QED
  BY <1>2, <1>3, <1>4 DEF EvidenceCollector

\* A step of the investigator: what record reads becomes the object moved on
\* to Hypothesized, and the write applies it to that very object.
LEMMA InvestigatorAgrees ==
  ASSUME TypeOK, CopiesAgree, Investigator
  PROVE  Effect /\ CopiesAgree'
<1>1. InvIdle.pc = "idle"
  BY DEF InvIdle
<1>2. PICK w \in Workers : (\E n \in Names : InvStart(w, n)) \/ InvSteps(w) \/ InvFails(w)
  BY DEF Investigator
<1>3. wrk \in [Workers -> InvWork]
  BY DEF TypeOK, InvTypeOK
<1>4. ASSUME NEW x, wrk' = [wrk EXCEPT ![w] = x]
      PROVE  wrk'[w] = x /\ \A v \in Workers \ {w} : wrk'[v] = wrk[v]
  BY <1>3, <1>4
<1>5. SUFFICES /\ Effect /\ StoreAgrees'
               /\ WorkerAgrees(w)'
               /\ \A v \in Workers \ {w} : wrk'[v] = wrk[v]
  <2>1. ASSUME NEW v \in Workers, v # w
        PROVE  WorkerAgrees(v)'
    BY <1>5, <2>1, WorkerKept DEF CopiesAgree, InvAgrees
  <2>2. InvAgrees'
    BY <1>5, <2>1, Zenon DEF InvAgrees
  <2> QED
    BY <1>5, <2>2, DetKept, EvKept DEF CopiesAgree, Investigator
<1>6. ASSUME NEW n \in Names, InvStart(w, n)
      PROVE  /\ Effect /\ StoreAgrees'
             /\ WorkerAgrees(w)'
             /\ \A v \in Workers \ {w} : wrk'[v] = wrk[v]
  <2>1. UNCHANGED <<diag, rv, cache, watch>>
    BY <1>6 DEF InvStart
  <2>2. CASE wrk' = wrk
    BY <2>1, <2>2, StoreKept, WorkerKept DEF Effect, CopiesAgree, InvAgrees
  <2>3. CASE ToInvestigate(n) /\ wrk' # wrk
    <3> DEFINE x == [InvIdle EXCEPT !.pc = "run", !.name = n, !.about = cache[n].uid]
    <3>1. wrk' = [wrk EXCEPT ![w] = x]
      BY <1>6, <2>3 DEF InvStart
    <3>2. cache[n].uid > 0
      BY <2>3 DEF ToInvestigate, PhaseIs, CopiesAgree, StoreAgrees, Genuine
    <3>3. x.pc = "run" /\ x.about = cache[n].uid
      BY DEF InvIdle
    <3>4. wrk'[w] = x /\ \A v \in Workers \ {w} : wrk'[v] = wrk[v]
      BY <1>4, <3>1
    <3>5. WorkerAgrees(w)'
      <4> HIDE DEF x
      <4> QED
        BY <3>2, <3>3, <3>4 DEF WorkerAgrees
    <3> QED
      BY <2>1, <3>4, <3>5, StoreKept DEF Effect, CopiesAgree
  <2> QED
    BY <1>6, <2>2, <2>3 DEF InvStart
<1>7. ASSUME UNCHANGED <<diag, rv, cache, watch>>, NEW x, wrk' = [wrk EXCEPT ![w] = x],
             x.pc # "write", x.pc # "idle" => wrk[w].pc # "idle" /\ x.about = wrk[w].about
      PROVE  /\ Effect /\ StoreAgrees'
             /\ WorkerAgrees(w)'
             /\ \A v \in Workers \ {w} : wrk'[v] = wrk[v]
  <2>1. wrk'[w] = x /\ \A v \in Workers \ {w} : wrk'[v] = wrk[v]
    BY <1>4, <1>7
  <2>2. WorkerAgrees(w)'
    BY <1>7, <2>1 DEF WorkerAgrees, CopiesAgree, InvAgrees
  <2> QED
    BY <1>7, <2>1, <2>2, StoreKept DEF Effect, CopiesAgree
<1>8. CASE InvRun(w)
  <2> DEFINE x == [wrk[w] EXCEPT !.pc = "read", !.tries = RetrySteps]
  <2>1. x.pc = "read" /\ x.about = wrk[w].about
    BY <1>3 DEF InvWork
  <2>2. wrk[w].pc # "idle" /\ UNCHANGED <<diag, rv, cache, watch>> /\ wrk' = [wrk EXCEPT ![w] = x]
    BY <1>8 DEF InvRun, storeVars
  <2> HIDE DEF x
  <2> QED
    BY <1>5, <1>7, <2>1, <2>2
<1>9. CASE wrk' = [wrk EXCEPT ![w] = InvIdle] /\ UNCHANGED <<diag, rv, cache, watch>>
  BY <1>1, <1>5, <1>7, <1>9
<1>10. CASE /\ wrk[w].pc = "read" /\ PhaseIs(cache[wrk[w].name], "Enriched")
            /\ wrk' = [wrk EXCEPT ![w] = [wrk[w] EXCEPT !.pc = "write",
                                            !.obj = Hypothesized(cache[wrk[w].name], wrk[w].about)]]
            /\ UNCHANGED <<diag, rv, cache, watch>>
  <2> DEFINE n == wrk[w].name
             a == wrk[w].about
             c == cache[n]
             x == [wrk[w] EXCEPT !.pc = "write", !.obj = Hypothesized(c, a)]
  <2>1. n \in Names /\ a \in Nat /\ a > 0
    BY <1>3, <1>10 DEF TypeOK, InvTypeOK, InvWork, CopiesAgree, InvAgrees, WorkerAgrees
  <2>2. c \in Version /\ c.phase = "Enriched" /\ Genuine(diag[n], rv[n], c)
    BY <1>10, <2>1 DEF PhaseIs, TypeOK, StoreTypeOK, CopiesAgree, StoreAgrees
  <2>3. ConcludeReady(diag[n], rv[n], Hypothesized(c, a), a)
    <3> HIDE DEF n, a, c
    <3>1. Hypothesized(c, a).rv = c.rv
      BY <2>2 DEF Hypothesized, Version
    <3> QED
      BY <2>2, <3>1 DEF ConcludeReady, Genuine
  <2>4. x.pc = "write" /\ x.name = n /\ x.about = a /\ x.obj = Hypothesized(c, a)
    BY <1>3 DEF InvWork
  <2>5. wrk'[w] = x /\ \A v \in Workers \ {w} : wrk'[v] = wrk[v]
    BY <1>4, <1>10
  <2>6. WorkerAgrees(w)'
    <3> HIDE DEF x, n, a, c
    <3> QED
      BY <1>10, <2>1, <2>3, <2>4, <2>5 DEF WorkerAgrees
  <2> QED
    BY <1>5, <1>10, <2>5, <2>6, StoreKept DEF Effect, CopiesAgree
<1>11. CASE /\ wrk[w].pc = "write" /\ UNCHANGED <<diag, rv, cache, watch>>
            /\ wrk' = [wrk EXCEPT ![w] = [wrk[w] EXCEPT !.pc = "read", !.obj = Absent,
                                                        !.tries = wrk[w].tries - 1]]
  <2> DEFINE x == [wrk[w] EXCEPT !.pc = "read", !.obj = Absent, !.tries = wrk[w].tries - 1]
  <2>1. x.pc = "read" /\ x.about = wrk[w].about
    BY <1>3 DEF InvWork
  <2>2. wrk[w].pc # "idle" /\ wrk' = [wrk EXCEPT ![w] = x]
    BY <1>11
  <2> HIDE DEF x
  <2> QED
    BY <1>5, <1>7, <1>11, <2>1, <2>2
<1>12. CASE /\ wrk[w].pc = "write" /\ Current(wrk[w].name, wrk[w].obj)
            /\ Update(wrk[w].name, wrk[w].obj) /\ wrk' = [wrk EXCEPT ![w] = InvIdle]
  <2>1. PICK x \in Version \cup {Absent} : LawfulWrite(wrk[w].name, x)
    BY <1>12, ConcludeLawful
  <2>2. wrk[w].name \in Names
    BY <1>12 DEF TypeOK, InvTypeOK
  <2>3. Effect /\ StoreAgrees'
    BY <2>1, <2>2, WriteKeepsStore DEF Effect, CopiesAgree
  <2>4. wrk'[w] = InvIdle /\ \A v \in Workers \ {w} : wrk'[v] = wrk[v]
    BY <1>4, <1>12
  <2>5. WorkerAgrees(w)'
    BY <1>1, <2>4 DEF WorkerAgrees
  <2> QED
    BY <1>5, <2>3, <2>4, <2>5
<1>13. CASE InvRead(w)
  BY <1>9, <1>10, <1>13, Zenon DEF InvRead, InvRetry
<1>14. CASE InvWrite(w) \/ InvFails(w)
  BY <1>9, <1>11, <1>12, <1>14, Zenon
     DEF InvWrite, InvFails, InvRunFails, InvWriteFails, InvRetry, UnchangedStore
<1> QED
  BY <1>2, <1>5, <1>6, <1>8, <1>13, <1>14 DEF InvSteps

\* A step of the environment: users write, and the informer moves versions from
\* the watch into the cache.
LEMMA EnvironmentAgrees ==
  ASSUME TypeOK, CopiesAgree, Environment
  PROVE  Effect /\ CopiesAgree'
<1>1. UNCHANGED <<det, ev, wrk>>
  BY DEF Environment
<1>2. SUFFICES Effect /\ StoreAgrees'
  BY <1>1, DetKept, EvKept, InvKept DEF CopiesAgree
<1>3. CASE UNCHANGED <<diag, rv, cache, watch>>
  BY <1>2, <1>3, StoreKept DEF Effect, CopiesAgree
<1>4. ASSUME NEW n \in Names, NEW o \in Version \cup {Absent}, LawfulWrite(n, o)
      PROVE  Effect /\ StoreAgrees'
  BY <1>4, WriteKeepsStore DEF Effect, CopiesAgree
<1>5. ASSUME NEW n \in Names, UserDeletes(n)
      PROVE  Effect /\ StoreAgrees'
  <2>1. LawfulWrite(n, Absent)
    BY <1>5 DEF UserDeletes, Remove, LawfulWrite, Lawful
  <2> QED
    BY <1>4, <2>1
<1>6. ASSUME NEW n \in Names, UserAnnotates(n)
      PROVE  Effect /\ StoreAgrees'
  <2> DEFINE d == diag[n]
  <2>1. d # Absent /\ d \in Version /\ d.uid > 0 /\ Update(n, d)
    BY <1>6 DEF UserAnnotates, Touch, TypeOK, StoreTypeOK, CopiesAgree, StoreAgrees, Genuine
  <2>2. ASSUME NEW k \in Nat
        PROVE  Lawful(d, [d EXCEPT !.rv = k])
    <3> HIDE DEF d
    <3>1. [d EXCEPT !.rv = k] \in Version
      BY <2>1, VersionOps
    <3>2. Progress(d, [d EXCEPT !.rv = k])
      BY <2>1 DEF Version, Progress, SameSpec, SameEvidence, SameFindings
    <3> QED
      BY <2>1, <3>1, <3>2, StoreAssumption DEF Lawful
  <2>3. PICK x \in Version \cup {Absent} : LawfulWrite(n, x)
    BY <2>1, <2>2, UpdateLawful
  <2> QED
    BY <1>4, <2>3
<1>7. ASSUME NEW n \in Names, Deliver(n)
      PROVE  Effect /\ StoreAgrees'
  <2>1. watch[n] \in Seq(Version \cup {Absent}) /\ watch[n] # <<>>
    BY <1>7 DEF Deliver, TypeOK, StoreTypeOK
  <2>2. UNCHANGED <<diag, rv>>
    BY <1>7 DEF Deliver
  <2>3. /\ cache'[n] = watch[n][1]
        /\ watch'[n] = Tail(watch[n])
        /\ \A m \in Names \ {n} : cache'[m] = cache[m] /\ watch'[m] = watch[m]
    BY <1>7, <2>1 DEF Deliver, TypeOK, StoreTypeOK
  <2>4. 1 \in DOMAIN watch[n]
    BY <2>1
  <2>5. ASSUME NEW i \in DOMAIN Tail(watch[n])
        PROVE  i + 1 \in DOMAIN watch[n] /\ Tail(watch[n])[i] = watch[n][i + 1]
    BY <2>1
  <2>6. ASSUME NEW m \in Names
        PROVE  /\ diag[m] # Absent => Genuine(diag[m], rv[m], diag[m])
               /\ cache'[m] # Absent => Genuine(diag[m], rv[m], cache'[m])
               /\ \A i \in DOMAIN watch'[m] :
                    watch'[m][i] # Absent => Genuine(diag[m], rv[m], watch'[m][i])
    <3>1. CASE m = n
      <4>1. cache'[n] # Absent => Genuine(diag[n], rv[n], cache'[n])
        BY <2>3, <2>4, Zenon DEF CopiesAgree, StoreAgrees
      <4>2. ASSUME NEW i \in DOMAIN watch'[n], watch'[n][i] # Absent
            PROVE  Genuine(diag[n], rv[n], watch'[n][i])
        <5>1. i + 1 \in DOMAIN watch[n] /\ watch'[n][i] = watch[n][i + 1]
          BY <2>3, <2>5, <4>2, Zenon
        <5> QED
          BY <4>2, <5>1, Zenon DEF CopiesAgree, StoreAgrees
      <4> QED
        BY <3>1, <4>1, <4>2, Zenon DEF CopiesAgree, StoreAgrees
    <3>2. CASE m # n
      BY <2>3, <3>2, Zenon DEF CopiesAgree, StoreAgrees
    <3> QED
      BY <3>1, <3>2
  <2>7. StoreAgrees'
    BY <2>2, <2>6, Zenon DEF StoreAgrees
  <2> QED
    BY <2>2, <2>7 DEF Effect
<1> QED
  BY <1>2, <1>3, <1>5, <1>6, <1>7, Zenon DEF Environment, ClusterNext, Resync, storeVars

\* A restart: the cache is a copy of the store and the workers hold nothing.
LEMMA CrashAgrees ==
  ASSUME TypeOK, CopiesAgree, Crash
  PROVE  Effect /\ CopiesAgree'
<1>1. UNCHANGED <<diag, rv>> /\ cache' = diag /\ watch' = [n \in Names |-> <<>>]
  BY DEF Crash, Restart, Relist
<1>2. ASSUME NEW n \in Names
      PROVE  DOMAIN watch'[n] = {}
  BY <1>1
<1>3. StoreAgrees'
  BY <1>1, <1>2, Zenon DEF CopiesAgree, StoreAgrees
<1>4. DetAgrees' /\ EvAgrees'
  BY DEF Crash, DetAgrees, EvAgrees, DetIdle, EvIdle
<1>5. ASSUME NEW w \in Workers
      PROVE  WorkerAgrees(w)'
  BY DEF Crash, WorkerAgrees, InvIdle
<1>6. InvAgrees'
  BY <1>5, Zenon DEF InvAgrees
<1> QED
  BY <1>1, <1>3, <1>4, <1>6 DEF Effect, CopiesAgree

\* Every step of the pipeline is a lawful write or leaves the objects alone,
\* and keeps every copy in agreement with the server.
LEMMA NextAgrees ==
  ASSUME TypeOK, CopiesAgree, [Next]_vars
  PROVE  Effect /\ CopiesAgree'
<1>1. CASE UNCHANGED vars
  <2>1. UNCHANGED <<diag, rv, cache, watch, det, ev, wrk>>
    BY <1>1 DEF vars, core, storeVars
  <2> QED
    BY <2>1, StoreKept, DetKept, EvKept, InvKept DEF Effect, CopiesAgree
<1> QED
  BY <1>1, EnvironmentAgrees, DetectorAgrees, EvidenceAgrees, InvestigatorAgrees, CrashAgrees DEF Next

\* At the start there is no copy of anything.
LEMMA InitAgrees == Init => CopiesAgree
<1> SUFFICES ASSUME Init
             PROVE  CopiesAgree
  OBVIOUS
<1>1. ASSUME NEW n \in Names
      PROVE  diag[n] = Absent /\ cache[n] = Absent /\ DOMAIN watch[n] = {}
  BY DEF Init, StoreInit
<1>2. StoreAgrees
  BY <1>1, Zenon DEF StoreAgrees
<1>3. DetAgrees /\ EvAgrees
  BY DEF Init, DetInit, EvInit, DetAgrees, EvAgrees, DetIdle, EvIdle
<1>4. ASSUME NEW w \in Workers
      PROVE  WorkerAgrees(w)
  BY DEF Init, InvInit, WorkerAgrees, InvIdle
<1> QED
  BY <1>2, <1>3, <1>4 DEF CopiesAgree, InvAgrees

\* Whatever the cache, the watch and the workers hold agrees with the server as
\* far as its resource version says: for any number of pods, workloads, workers
\* and retries, any lag of the cache, and any faults and restarts.
THEOREM CopiesAlwaysAgree == Spec => []CopiesAgree
<1>1. TypeOK /\ CopiesAgree /\ [Next]_vars => CopiesAgree'
  BY NextAgrees
<1> QED
  BY <1>1, InitAgrees, TypeCorrect, PTL DEF Spec

-----------------------------------------------------------------------------
(* Refinement.                                                             *)

\* An object that is there shows its fields, and is not taken for an absent one.
LEMMA VisiblePresent ==
  ASSUME NEW o \in Version
  PROVE  /\ Visible(o) = [uid |-> o.uid,
                          spec |-> [pod |-> o.pod, podUID |-> o.podUID, policy |-> o.policy],
                          phase |-> o.phase, evidence |-> o.evidence, findings |-> o.findings]
         /\ Visible(o) \in Visibles
         /\ Visible(o) # Absent
<1>1. Visible(o) = [uid |-> o.uid,
                    spec |-> [pod |-> o.pod, podUID |-> o.podUID, policy |-> o.policy],
                    phase |-> o.phase, evidence |-> o.evidence, findings |-> o.findings]
  BY StoreAssumption DEF Visible
<1>2. Visible(o) \in Visibles
  BY <1>1 DEF Visibles, Specs, Version
<1> QED
  BY <1>1, <1>2, PipelineAssumption

\* A lawful write is a step of the abstract specification or does not show.
LEMMA LawfulIsAbstract ==
  ASSUME TypeOK, NEW n \in Names, NEW o \in Version \cup {Absent}, LawfulWrite(n, o)
  PROVE  [Lifecycle!Next]_View
<1> DEFINE d == diag[n]
<1>1. d \in Version \cup {Absent} /\ diag' = [diag EXCEPT ![n] = o] /\ Lawful(d, o)
  BY DEF LawfulWrite, Commit, TypeOK, StoreTypeOK
<1>2. View' = [View EXCEPT ![n] = Visible(o)]
  BY <1>1 DEF View, TypeOK, StoreTypeOK
<1>3. View[n] = Visible(d) /\ View'[n] = Visible(o)
  BY <1>1, <1>2 DEF View
<1>4. Visible(Absent) = Absent
  BY DEF Visible
<1>5. CASE d # Absent /\ o = Absent
  <2>1. Lifecycle!Discard(n)
    BY <1>1, <1>2, <1>3, <1>4, <1>5, VisiblePresent DEF Lifecycle!Discard
  <2> QED
    BY <2>1 DEF Lifecycle!Next
<1>6. CASE d = Absent /\ o # Absent /\ o.phase = "New" /\ o.evidence = NoEvidence /\ o.findings = 0
  <2>1. /\ Visible(o) # Absent /\ Visible(o).uid \in Nat /\ Visible(o).spec \in Specs
        /\ Visible(o) = [uid |-> Visible(o).uid, spec |-> Visible(o).spec, phase |-> "New",
                         evidence |-> NoEvidence, findings |-> 0]
    BY <1>6, VisiblePresent DEF Visibles
  <2>2. Lifecycle!Open(n)
    BY <1>2, <1>3, <1>4, <1>6, <2>1 DEF Lifecycle!Open
  <2> QED
    BY <2>2 DEF Lifecycle!Next
<1>7. CASE d # Absent /\ o # Absent /\ Progress(d, o)
  <2>1. /\ d \in Version /\ o \in Version
        /\ Visible(d) # Absent /\ Visible(o) # Absent
        /\ Visible(d) \in Visibles /\ Visible(o) \in Visibles
        /\ Visible(o).uid = Visible(d).uid /\ Visible(o).spec = Visible(d).spec
    BY <1>1, <1>7, VisiblePresent DEF Progress, SameSpec
  <2>2. /\ Visible(d).phase = d.phase /\ Visible(o).phase = o.phase
        /\ Visible(d).evidence = d.evidence /\ Visible(o).evidence = o.evidence
        /\ Visible(d).findings = d.findings /\ Visible(o).findings = o.findings
    BY <2>1, VisiblePresent
  <2>3. CASE o.phase = d.phase /\ SameEvidence(d, o) /\ SameFindings(d, o)
    <3>1. Visible(o) = Visible(d)
      BY <2>1, <2>2, <2>3 DEF SameEvidence, SameFindings, Visibles
    <3>2. View' = View
      BY <1>2, <1>3, <3>1 DEF View
    <3> QED
      BY <3>2
  <2>4. CASE d.phase = "New" /\ o.phase = "Detected" /\ SameEvidence(d, o) /\ SameFindings(d, o)
    <3>1. Visible(o) = [Visible(d) EXCEPT !.phase = "Detected"]
      BY <2>1, <2>2, <2>4 DEF SameEvidence, SameFindings, Visibles
    <3>2. Lifecycle!Detect(n)
      BY <1>2, <1>3, <2>1, <2>2, <2>4, <3>1 DEF Lifecycle!Detect, Lifecycle!Advances
    <3> QED
      BY <3>2 DEF Lifecycle!Next
  <2>5. CASE /\ d.phase = "Detected" /\ o.phase = "Enriched"
             /\ o.evidence.state # "none" /\ SameFindings(d, o)
    <3>1. Visible(o) = [Visible(d) EXCEPT !.phase = "Enriched", !.evidence = Visible(o).evidence]
      BY <2>1, <2>2, <2>5 DEF SameFindings, Visibles
    <3>2. Visible(o).evidence \in {e \in Evidence : e.state # "none"}
      BY <2>1, <2>2, <2>5 DEF Visibles
    <3>3. Lifecycle!Enrich(n)
      BY <1>2, <1>3, <2>1, <2>2, <2>5, <3>1, <3>2 DEF Lifecycle!Enrich, Lifecycle!Advances
    <3> QED
      BY <3>3 DEF Lifecycle!Next
  <2>6. CASE d.phase = "Enriched" /\ o.phase = "Hypothesized" /\ SameEvidence(d, o) /\ o.findings # 0
    <3>1. Visible(o) = [Visible(d) EXCEPT !.phase = "Hypothesized", !.findings = Visible(o).findings]
      BY <2>1, <2>2, <2>6 DEF SameEvidence, Visibles
    <3>2. Visible(o).findings \in Nat \ {0}
      BY <2>1, <2>2, <2>6 DEF Visibles
    <3>3. Lifecycle!Conclude(n)
      BY <1>2, <1>3, <2>1, <2>2, <2>6, <3>1, <3>2 DEF Lifecycle!Conclude, Lifecycle!Advances
    <3> QED
      BY <3>3 DEF Lifecycle!Next
  <2> QED
    BY <1>7, <2>3, <2>4, <2>5, <2>6 DEF Progress
<1> QED
  BY <1>1, <1>5, <1>6, <1>7 DEF Lawful

\* The pipeline implements DiagnosisLifecycle: specification fixed, phases in
\* order, every result written once, for every instance.
THEOREM PipelineFollowsLifecycle == Spec => FollowsLifecycle
<1>1. Init => Lifecycle!Init
  BY DEF Init, StoreInit, Lifecycle!Init, View, Visible
<1>2. TypeOK /\ CopiesAgree /\ [Next]_vars => [Lifecycle!Next]_View
  <2> SUFFICES ASSUME TypeOK, CopiesAgree, [Next]_vars
               PROVE  [Lifecycle!Next]_View
    OBVIOUS
  <2>1. Effect
    BY NextAgrees
  <2>2. CASE UNCHANGED <<diag, rv>>
    BY <2>2, Zenon DEF View
  <2> QED
    BY <2>1, <2>2, LawfulIsAbstract DEF Effect
<1> QED
  BY <1>1, <1>2, TypeCorrect, CopiesAlwaysAgree, PTL DEF Spec, FollowsLifecycle, Lifecycle!Spec
=============================================================================
