--------------------------- MODULE CollectionProofs ---------------------------
(***************************************************************************)
(* What the evidence package says, for every size of the output and of the *)
(* list of events and for every interleaving of the reads with what the    *)
(* container does meanwhile: whose output is attached, whose termination   *)
(* is reported, which event is presented first, and whose pods pass for    *)
(* siblings.                                                               *)
(***************************************************************************)
EXTENDS SufficiencyProofs, SequenceTheorems

-----------------------------------------------------------------------------
(* The invariants.                                                         *)

FailedOne == pod.containers[container]
Crashed == failure \in {"CrashLoopBackOff", "OOMKilled"}

\* A container that backs off has an exit on record.
BackOffRecorded ==
  stage = "watched" => \A i \in Containers :
    pod.containers[i].state = "waiting" /\ pod.containers[i].reason = "CrashLoopBackOff" =>
      pod.containers[i].last # Unset

\* After a crash there is a container to blame.  When it runs again or waits, its
\* last exit is on record, and when it runs it has been started since.
CrashKept ==
  stage \in {"Detected", "targeted", "previous read", "Enriched"} /\ Crashed =>
    /\ container \in Containers
    /\ FailedOne.state = "running" => FailedOne.last # Unset /\ behind >= 1
    /\ FailedOne.state = "waiting" => FailedOne.last # Unset

\* As long as the container stands still, the termination that was reported is
\* the one that the status reports, and the previous output is of that instance.
TerminationKept ==
  moved = "still" /\ container # 0 =>
    /\ stage = "targeted" => facts.termination = TerminationFact(FailedOne)
    /\ stage = "previous read" \/ Gathered =>
         \A l \in Lines("PreviousLogs") : l.of = facts.termination.of

\* If the container runs after the previous output was read and was not restarted
\* meanwhile, then that output is the end of what an earlier instance printed.
PreviousOutputKept ==
  /\ stage = "previous read" /\ Crashed /\ ns.output > 0 /\ moved # "restarted"
  /\ ~items["PreviousLogs"].broken /\ FailedOne.state = "running"
  => \E l \in Lines("PreviousLogs") : l.of >= 0 /\ l.of < behind /\ l.line = ns.output

\* The events of a complete package are those of the namespace.
EventsKept ==
  Gathered /\ items["Events"].status = "Collected" =>
    Events(ns).text # <<>> /\ items["Events"].content = Truncate(Events(ns).text)

CollectionInv ==
  /\ BackOffRecorded /\ CrashKept /\ TerminationKept /\ PreviousOutputKept /\ FailedOutputAttached
  /\ EventsKept

-----------------------------------------------------------------------------
(* The operators on texts.                                                 *)

\* The last n lines of a text: lines of it, and the final one if there is any.
LEMMA LastLines ==
  ASSUME NEW S, NEW s \in Seq(S), NEW n \in Nat \ {0}
  PROVE  /\ Last(s, n) \in Seq(S)
         /\ Len(s) <= n => Last(s, n) = s
         /\ s # <<>> => /\ Last(s, n) # <<>>
                        /\ Last(s, n)[Len(Last(s, n))] = s[Len(s)]
<1> DEFINE m == IF Len(s) > n THEN Len(s) - n + 1 ELSE 1
<1>1. Len(s) \in Nat
  BY LenProperties
<1>2. /\ m \in Nat \ {0} /\ m <= Len(s) + 1
      /\ Len(s) <= n => m = 1
      /\ Len(s) > 0 => m <= Len(s)
  BY <1>1
<1>3. Last(s, n) = SubSeq(s, m, Len(s))
  BY DEF Last
<1> HIDE DEF m
<1>4. \A i \in m .. Len(s) : s[i] \in S
  BY <1>1, <1>2, ElementOfSeq
<1>5. /\ SubSeq(s, m, Len(s)) \in Seq(S)
      /\ Len(SubSeq(s, m, Len(s))) = IF m <= Len(s) THEN Len(s) - m + 1 ELSE 0
      /\ \A i \in 1 .. Len(s) - m + 1 : SubSeq(s, m, Len(s))[i] = s[m + i - 1]
  <2>1. m \in Int /\ Len(s) \in Int
    BY <1>1, <1>2
  <2> QED
    BY <1>4, <2>1, SubSeqProperties
<1>6. Len(s) <= n => Last(s, n) = s
  BY <1>2, <1>3, SubSeqFull
<1>7. s # <<>> => Len(s) > 0
  BY <1>1, EmptySeq
<1>8. ASSUME s # <<>>
      PROVE  /\ Last(s, n) # <<>>
             /\ Last(s, n)[Len(Last(s, n))] = s[Len(s)]
  <2> DEFINE t == SubSeq(s, m, Len(s))
             k == Len(s) - m + 1
  <2>1. k \in 1 .. k /\ m + k - 1 = Len(s)
    BY <1>1, <1>2, <1>7, <1>8
  <2>2. Len(t) = k
    BY <1>1, <1>2, <1>5, <1>7, <1>8
  <2>3. t[k] = s[Len(s)]
    BY <1>5, <2>1
  <2> HIDE DEF t
  <2>4. t # <<>>
    BY <2>1, <2>2, EmptySeq
  <2> HIDE DEF k
  <2> QED
    BY <1>3, <2>2, <2>3, <2>4 DEF t
<1> QED
  BY <1>3, <1>5, <1>6, <1>8

\* What Collect attaches of the output of an instance: lines of this instance
\* only and, if it printed anything, its final line.
AttachedOutput(instance, n) == Truncate(Last(Printed(instance, n), LogTailLines))

LEMMA AttachedLines ==
  ASSUME NEW instance, NEW n \in Nat
  PROVE  /\ Printed(instance, n) # <<>> <=> n > 0
         /\ Last(Printed(instance, n), LogTailLines) # <<>> <=> n > 0
         /\ \A i \in DOMAIN AttachedOutput(instance, n) : AttachedOutput(instance, n)[i].of = instance
         /\ n > 0 => \E i \in DOMAIN AttachedOutput(instance, n) :
                       AttachedOutput(instance, n)[i] = [of |-> instance, line |-> n]
<1> DEFINE S == [of: {instance}, line: Nat]
           p == Printed(instance, n)
           q == Last(p, LogTailLines)
           t == Last(q, ContentLimit)
<1>1. p \in Seq(S) /\ Len(p) = n /\ \A k \in 1 .. n : p[k] = [of |-> instance, line |-> k]
  BY DEF Printed
<1>2. LogTailLines \in Nat \ {0} /\ ContentLimit \in Nat \ {0}
  BY CollectorAssumption
<1> HIDE DEF p
<1>3. p # <<>> <=> n > 0
  BY <1>1, EmptySeq
<1>4. q \in Seq(S) /\ (p # <<>> => q # <<>> /\ q[Len(q)] = p[Len(p)])
  BY <1>1, <1>2, LastLines
<1>5. p = <<>> => q = <<>>
  <2>1. Len(p) <= LogTailLines => q = p
    BY <1>1, <1>2, LastLines
  <2> QED
    BY <1>1, <1>2, <1>3, <2>1
<1> HIDE DEF q
<1>6. t \in Seq(S) /\ (q # <<>> => t # <<>> /\ t[Len(t)] = q[Len(q)])
  BY <1>2, <1>4, LastLines
<1>7. AttachedOutput(instance, n) = t
  BY DEF AttachedOutput, Truncate, q, p
<1> HIDE DEF t
<1>8. Len(t) \in Nat /\ DOMAIN t = 1 .. Len(t) /\ \A i \in DOMAIN t : t[i] \in S
  BY <1>6, LenProperties, ElementOfSeq
<1>9. n > 0 => Len(t) \in DOMAIN t /\ t[Len(t)] = [of |-> instance, line |-> n]
  <2>1. t # <<>> => Len(t) # 0
    BY <1>6, EmptySeq
  <2> QED
    BY <1>1, <1>3, <1>4, <1>6, <1>8, <2>1
<1>10. \A i \in DOMAIN t : t[i].of = instance
  BY <1>8
<1> QED
  BY <1>3, <1>4, <1>5, <1>7, <1>9, <1>10 DEF q, p

\* A finite set of numbers that is not empty has a greatest one.
LEMMA HasGreatest ==
  ASSUME NEW S, S \subseteq Nat, IsFiniteSet(S), S # {}
  PROVE  \E x \in S : {y \in S : y > x} = {}
<1> DEFINE above(x) == {y \in S : y > x}
           N == {Cardinality(above(x)) : x \in S}
<1>1. \A x \in S : IsFiniteSet(above(x)) /\ Cardinality(above(x)) \in Nat
  BY FS_Subset, FS_CardinalityType
<1>2. N \subseteq Nat /\ N # {}
  BY <1>1
<1>3. PICK c \in N : \A d \in N : c <= d
  BY <1>2, HasFirst
<1>4. PICK x \in S : Cardinality(above(x)) = c
  BY <1>3
<1>5. ASSUME NEW y \in above(x)
      PROVE  FALSE
  <2>1. above(y) \in SUBSET above(x) /\ y \notin above(y) /\ y \in S
    <3>1. y \in S /\ y > x /\ x \in Nat /\ y \in Nat
      BY <1>5
    <3>2. \A z \in S : z > y => z > x
      <4>1. \A z \in Nat : z > y => z > x
        BY <3>1
      <4> QED
        BY <4>1
    <3>3. y \notin above(y)
      BY <3>1
    <3>4. above(y) \in SUBSET above(x)
      BY <3>2, Zenon
    <3> QED
      BY <3>1, <3>3, <3>4
  <2>2. Cardinality(above(y)) <= Cardinality(above(x))
        /\ (Cardinality(above(x)) = Cardinality(above(y)) => above(x) = above(y))
    BY <1>1, <2>1, FS_Subset
  <2>3. c <= Cardinality(above(y))
    BY <1>3, <2>1
  <2>4. Cardinality(above(x)) \in Nat /\ Cardinality(above(y)) \in Nat
    BY <1>1, <2>1
  <2> QED
    BY <1>4, <1>5, <2>1, <2>2, <2>3, <2>4
<1> QED
  BY <1>5

\* The events in descending order begin with the latest.
LEMMA DescendingFromGreatest ==
  ASSUME NEW S, S \subseteq Nat, IsFiniteSet(S), S # {}
  PROVE  /\ \E T : Descending(S) \in Seq(T)
         /\ Len(Descending(S)) = Cardinality(S) /\ Cardinality(S) \in Nat \ {0}
         /\ \A y \in S : Descending(S)[1] >= y
<1> DEFINE pick(i) == CHOOSE x \in S : Cardinality({y \in S : y > x}) = i - 1
           d == [i \in 1 .. Cardinality(S) |-> pick(i)]
           T == {pick(i) : i \in 1 .. Cardinality(S)}
<1>1. Descending(S) = d
  BY DEF Descending
<1>2. Cardinality(S) \in Nat \ {0}
  BY FS_CardinalityType, FS_EmptySet
<1>3. d \in Seq(T) /\ Len(d) = Cardinality(S) /\ d[1] = pick(1)
  <2> HIDE DEF pick
  <2> QED
    BY <1>2
<1>4. PICK x \in S : {y \in S : y > x} = {}
  BY HasGreatest
<1>5. Cardinality({y \in S : y > x}) = 1 - 1
  BY <1>4, FS_EmptySet
<1>6. pick(1) \in S /\ Cardinality({y \in S : y > pick(1)}) = 0
  <2>1. \E z \in S : Cardinality({y \in S : y > z}) = 1 - 1
    BY <1>5
  <2>2. pick(1) \in S /\ Cardinality({y \in S : y > pick(1)}) = 1 - 1
    BY <2>1, Zenon
  <2> HIDE DEF pick
  <2> QED
    BY <2>2
<1> HIDE DEF pick
<1>7. {y \in S : y > pick(1)} = {}
  <2>1. {y \in S : y > pick(1)} \in SUBSET S
    OBVIOUS
  <2>2. IsFiniteSet({y \in S : y > pick(1)})
    BY <2>1, FS_Subset, Zenon
  <2> QED
    BY <1>6, <2>2, FS_EmptySet
<1>8. \A y \in S : pick(1) >= y
  <2>1. \A y \in S : ~(y > pick(1))
    BY <1>7
  <2>2. pick(1) \in Nat
    BY <1>6
  <2> QED
    BY <2>1, <2>2
<1> HIDE DEF d, T
<1> QED
  BY <1>1, <1>2, <1>3, <1>8

\* events: when all events fit the limits, the text that is attached is not cut and
\* begins with the latest of them.
LEMMA EventsFromLatest ==
  ASSUME NEW w \in Namespaces, Len(w.events) <= EventLimit, Len(w.events) <= ContentLimit,
         Events(w).text # <<>>
  PROVE  \A i \in DOMAIN w.events : Excerpt(Truncate(Events(w).text))[1] >= w.events[i]
<1> DEFINE e == w.events
           S == {e[i] : i \in DOMAIN e}
           d == Descending(S)
<1>1. e \in Seq(Nat)
  BY CollectorAssumption DEF Namespace
<1>2. First(e, EventLimit) = e
  <2>1. First(e, EventLimit) = SubSeq(e, 1, Len(e))
    BY <1>1, CollectorAssumption DEF First
  <2> QED
    BY <1>1, <2>1, SubSeqFull
<1>3. Events(w).text = d
  BY <1>2 DEF Events, Answer
<1> HIDE DEF e
<1>4. Len(e) \in Nat /\ DOMAIN e = 1 .. Len(e) /\ S \subseteq Nat
  BY <1>1, LenProperties, ElementOfSeq
<1>5. IsFiniteSet(S) /\ Cardinality(S) <= Len(e)
  <2>1. e \in Surjection(1 .. Len(e), S)
    BY <1>1, <1>4 DEF Surjection
  <2>2. IsFiniteSet(1 .. Len(e)) /\ Cardinality(1 .. Len(e)) = Len(e)
    <3>1. 1 \in Int /\ Len(e) \in Int
      BY <1>4
    <3>2. IsFiniteSet(1 .. Len(e)) /\ Cardinality(1 .. Len(e)) = IF 1 > Len(e) THEN 0 ELSE Len(e) - 1 + 1
      BY <3>1, FS_Interval, Zenon
    <3> QED
      BY <1>4, <3>2
  <2> QED
    BY <2>1, <2>2, FS_Surjection
<1>6. S # {}
  <2>1. Cardinality({}) = 0
    BY FS_EmptySet
  <2>2. Descending({}) = <<>>
    BY <2>1 DEF Descending
  <2> QED
    BY <1>3, <2>2
<1> HIDE DEF S
<1>7. /\ \E T : d \in Seq(T)
      /\ Len(d) = Cardinality(S) /\ Cardinality(S) \in Nat \ {0}
      /\ \A y \in S : d[1] >= y
  BY <1>4, <1>5, <1>6, DescendingFromGreatest
<1> HIDE DEF d
<1>8. PICK T : d \in Seq(T)
  BY <1>7
<1>9. Truncate(d) = d
  <2>1. Len(d) <= ContentLimit /\ ContentLimit \in Nat \ {0}
    BY <1>4, <1>5, <1>7, CollectorAssumption DEF e
  <2> QED
    BY <1>8, <2>1, LastLines DEF Truncate
<1>10. Excerpt(d)[1] = d[1]
  <2> DEFINE n == IF Len(d) < ExcerptLimit THEN Len(d) ELSE ExcerptLimit
  <2>1. n \in Nat \ {0} /\ n <= Len(d)
    BY <1>7, SufficiencyAssumption
  <2>2. Excerpt(d) = SubSeq(d, 1, n)
    BY DEF Excerpt, First
  <2> HIDE DEF n
  <2>3. \A i \in 1 .. n : d[i] \in T
    BY <1>7, <1>8, <2>1, ElementOfSeq
  <2>4. SubSeq(d, 1, n)[1] = d[1 + 1 - 1]
    <3>1. 1 \in 1 .. n - 1 + 1 /\ 1 \in Int /\ n \in Int
      BY <2>1
    <3> QED
      BY <2>3, <3>1, SubSeqProperties
  <2>5. 1 + 1 - 1 = 1
    OBVIOUS
  <2> QED
    BY <2>2, <2>4, <2>5, Zenon
<1> QED
  BY <1>3, <1>7, <1>9, <1>10 DEF S, e

-----------------------------------------------------------------------------
(* Reading the output.                                                     *)

\* The content of an item is what was gathered, if anything was.
LEMMA ItemContent ==
  ASSUME NEW kind, NEW broken
  PROVE  /\ Item(failure, kind, broken).status = "Collected" =>
              /\ Gather(ns, kind).text # <<>>
              /\ Item(failure, kind, broken).content = Truncate(Gather(ns, kind).text)
         /\ Item(failure, kind, broken).status # "Collected" => Item(failure, kind, broken).content = <<>>
         /\ ~broken /\ kind \in Applicable(failure) /\ Gather(ns, kind).text # <<>> =>
              Item(failure, kind, broken).status = "Collected"
         /\ Item(failure, kind, broken).broken = broken
BY ItemTells

\* What the kubelet answers about the output of the failed container, and what two
\* cuts leave of it.
LEMMA OutputAnswered ==
  ASSUME TypeOK, container \in Containers, NEW previous
  PROVE  /\ HasLog(FailedOne, previous) =>
              /\ Logs(ns, previous).text # <<>> <=> ns.output > 0
              /\ Truncate(Logs(ns, previous).text) =
                   AttachedOutput(InstanceLogged(FailedOne, previous), ns.output)
         /\ ~HasLog(FailedOne, previous) => Logs(ns, previous).text = <<>>
<1> DEFINE inst == InstanceLogged(FailedOne, previous)
           out == Last(Printed(inst, ns.output), LogTailLines)
<1>1. ns.output \in Nat
  BY CollectorAssumption DEF TypeOK, Namespace
<1>2. container # 0
  BY ContainersNumbered
<1>3. Logs(ns, previous) = IF HasLog(FailedOne, previous) THEN Answer(out) ELSE Error
  BY <1>2 DEF Logs, FailedOne
<1>4. HasLog(FailedOne, previous) => Logs(ns, previous).text = out
  BY <1>3 DEF Answer
<1>5. ~HasLog(FailedOne, previous) => Logs(ns, previous).text = <<>>
  BY <1>3 DEF Error
<1>6. /\ out # <<>> <=> ns.output > 0
      /\ Truncate(out) = AttachedOutput(inst, ns.output)
  BY <1>1, AttachedLines DEF AttachedOutput
<1> HIDE DEF inst, out
<1> QED
  BY <1>4, <1>5, <1>6 DEF inst

\* Whatever is attached was printed by the instance that was asked for.
LEMMA OutputOfInstance ==
  ASSUME TypeOK, container \in Containers, NEW kind, NEW previous, NEW broken,
         Gather(ns, kind) = Logs(ns, previous),
         NEW i \in DOMAIN Item(failure, kind, broken).content
  PROVE  /\ HasLog(FailedOne, previous)
         /\ Item(failure, kind, broken).content[i].of = InstanceLogged(FailedOne, previous)
<1> DEFINE it == Item(failure, kind, broken)
           inst == InstanceLogged(FailedOne, previous)
<1>1. /\ it.status = "Collected" =>
           /\ Gather(ns, kind).text # <<>>
           /\ it.content = Truncate(Gather(ns, kind).text)
      /\ it.status # "Collected" => it.content = <<>>
  BY ItemContent, Zenon
<1>2. \A j \in DOMAIN AttachedOutput(inst, ns.output) : AttachedOutput(inst, ns.output)[j].of = inst
  <2>1. ns.output \in Nat
    BY CollectorAssumption DEF TypeOK, Namespace
  <2> QED
    BY <2>1, AttachedLines DEF AttachedOutput
<1>3. /\ HasLog(FailedOne, previous) =>
           Truncate(Logs(ns, previous).text) = AttachedOutput(inst, ns.output)
      /\ ~HasLog(FailedOne, previous) => Logs(ns, previous).text = <<>>
  BY OutputAnswered
<1>4. i \in DOMAIN it.content /\ DOMAIN <<>> = {}
  OBVIOUS
<1> HIDE DEF it, inst
<1>5. it.status = "Collected"
  BY <1>1, <1>4
<1>6. HasLog(FailedOne, previous) /\ it.content = AttachedOutput(inst, ns.output)
  BY <1>1, <1>3, <1>5
<1>7. it.content[i].of = inst
  BY <1>2, <1>4, <1>6
<1> QED
  BY <1>6, <1>7 DEF it, inst

\* What is collected as previous logs was printed by the previous instance.
LEMMA PreviousLinesOf ==
  ASSUME TypeOK, container \in Containers, NEW broken,
         NEW i \in DOMAIN Item(failure, "PreviousLogs", broken).content
  PROVE  /\ HasLog(FailedOne, TRUE)
         /\ Item(failure, "PreviousLogs", broken).content[i].of = InstanceLogged(FailedOne, TRUE)
<1> DEFINE previous == TRUE
           kind == "PreviousLogs"
<1>1. Gather(ns, kind) = Logs(ns, previous)
  BY DEF Gather
<1>2. i \in DOMAIN Item(failure, kind, broken).content
  OBVIOUS
<1> HIDE DEF previous, kind
<1>3. /\ HasLog(FailedOne, previous)
      /\ Item(failure, kind, broken).content[i].of = InstanceLogged(FailedOne, previous)
  BY <1>1, <1>2, OutputOfInstance
<1> QED
  BY <1>3 DEF previous, kind

\* The final line of the output is attached when there is any output to be had.
LEMMA OutputEnds ==
  ASSUME TypeOK, container \in Containers, NEW kind, NEW previous, NEW broken,
         Gather(ns, kind) = Logs(ns, previous), ~broken, kind \in Applicable(failure),
         HasLog(FailedOne, previous), ns.output > 0
  PROVE  \E i \in DOMAIN Item(failure, kind, broken).content :
           Item(failure, kind, broken).content[i] =
             [of |-> InstanceLogged(FailedOne, previous), line |-> ns.output]
<1> DEFINE it == Item(failure, kind, broken)
           inst == InstanceLogged(FailedOne, previous)
<1>1. /\ it.status = "Collected" => it.content = Truncate(Gather(ns, kind).text)
      /\ ~broken /\ kind \in Applicable(failure) /\ Gather(ns, kind).text # <<>> => it.status = "Collected"
  BY ItemContent, Zenon
<1>2. \E i \in DOMAIN AttachedOutput(inst, ns.output) :
        AttachedOutput(inst, ns.output)[i] = [of |-> inst, line |-> ns.output]
  <2>1. ns.output \in Nat
    BY CollectorAssumption DEF TypeOK, Namespace
  <2> QED
    BY <2>1, AttachedLines DEF AttachedOutput
<1>3. /\ Logs(ns, previous).text # <<>>
      /\ Truncate(Logs(ns, previous).text) = AttachedOutput(inst, ns.output)
  BY OutputAnswered
<1> HIDE DEF it, inst
<1>4. it.content = AttachedOutput(inst, ns.output)
  BY <1>1, <1>3
<1>5. \E i \in DOMAIN it.content : it.content[i] = [of |-> inst, line |-> ns.output]
  BY <1>2, <1>4
<1> QED
  BY <1>5 DEF it, inst

-----------------------------------------------------------------------------
(* The container.                                                          *)

\* What a step of a container leaves in its status.
LEMMA ContainerBecomes ==
  ASSUME PodTypeOK, NEW i \in Containers, NEW cs, Becomes(i, cs)
  PROVE  \A j \in Containers : pod'.containers[j] = IF j = i THEN cs ELSE pod.containers[j]
BY DEF Becomes, PodTypeOK, Pod

\* A restart leaves the reason of the latest exit on record.
LEMMA StartsRecorded ==
  ASSUME PodTypeOK, NEW i \in Containers, Starts(i)
  PROVE  pod'.containers[i].state = "running" /\ pod'.containers[i].last = LatestExit(pod.containers[i])
<1> DEFINE cs == pod.containers[i]
           last == IF cs.state = "terminated" THEN cs.reason ELSE cs.last
           new == [state |-> "running", reason |-> Unset, ready |-> Probes[i] = NoProbe, age |-> 0,
                   last |-> last]
<1>1. Becomes(i, new)
  BY DEF Starts
<1>2. last = LatestExit(cs)
  BY DEF LatestExit
<1> HIDE DEF last
<1>3. new.state = "running" /\ new.last = last
  OBVIOUS
<1> HIDE DEF new
<1> QED
  BY <1>1, <1>2, <1>3, ContainerBecomes

\* An exit, and the back-off after it, which puts the exit on record.
LEMMA ExitsRecorded ==
  ASSUME PodTypeOK, ReasonsFit, NEW i \in Containers,
         (\E r \in ExitReasons : Exits(i, r)) \/ BacksOff(i)
  PROVE  \/ pod'.containers[i].state = "terminated"
         \/ pod'.containers[i].state = "waiting" /\ pod'.containers[i].last # Unset
<1> DEFINE cs == pod.containers[i]
<1>1. cs \in Status
  BY DEF PodTypeOK, Pod
<1>2. cs.state = "terminated" => cs.reason \in ExitReasons
  BY DEF ReasonsFit
<1>3. ASSUME NEW r \in ExitReasons, Exits(i, r)
      PROVE  pod'.containers[i].state = "terminated"
  <2> DEFINE new == [cs EXCEPT !.state = "terminated", !.reason = r, !.ready = FALSE, !.age = 0]
  <2>1. Becomes(i, new)
    BY <1>3 DEF Exits
  <2> HIDE DEF cs
  <2>2. new.state = "terminated"
    BY <1>1 DEF Status
  <2> HIDE DEF new
  <2> QED
    BY <2>1, <2>2, ContainerBecomes
<1>4. CASE BacksOff(i)
  <2> DEFINE new == [cs EXCEPT !.state = "waiting", !.reason = "CrashLoopBackOff", !.last = cs.reason]
  <2>1. Becomes(i, new) /\ cs.state = "terminated"
    BY <1>4 DEF BacksOff
  <2> HIDE DEF cs
  <2>2. new.state = "waiting" /\ new.last = cs.reason /\ cs.reason # Unset
    BY <1>1, <1>2, <2>1 DEF Status, ExitReasons, Unset
  <2> HIDE DEF new
  <2> QED
    BY <2>1, <2>2, ContainerBecomes
<1> QED
  BY <1>3, <1>4

\* The kubelet backs off only after an exit.
LEMMA BackOffStep ==
  ASSUME TypeOK, ReasonsFit, BackOffRecorded, [Next]_vars
  PROVE  BackOffRecorded'
<1> USE DEF evidenceVars, agentVars
<1> DEFINE Recorded(cs) == cs.state = "waiting" /\ cs.reason = "CrashLoopBackOff" => cs.last # Unset
<1> SUFFICES ASSUME stage' = "watched", NEW i \in Containers
             PROVE  Recorded(pod'.containers[i])
  BY DEF BackOffRecorded
<1>1. stage = "watched" /\ (PodNext \/ pod' = pod)
  <2>1. CASE PodChanges
    BY <2>1 DEF PodChanges
  <2>2. ~(Detect \/ Target \/ ReadPreviousLogs \/ ReadTheOthers \/ AdvanceWithoutPod \/ Begin \/ Accept)
    BY DEF Detect, Target, ReadPreviousLogs, ReadTheOthers, AdvanceWithoutPod, Begin, Accept
  <2>3. ~(Restarts \/ ExitsAgain)
    BY DEF Restarts, ExitsAgain, Collecting
  <2>4. ASSUME NEW k \in Kinds
        PROVE  ~(ToolAnswers(k) \/ ToolFails(k))
    BY DEF ToolAnswers, ToolFails
  <2>5. ~ToolDenied
    BY DEF ToolDenied
  <2>6. CASE UNCHANGED vars
    BY <2>6 DEF vars
  <2> QED
    BY <2>1, <2>2, <2>3, <2>4, <2>5, <2>6 DEF Next
<1>2. Recorded(pod.containers[i])
  BY <1>1 DEF BackOffRecorded
<1>3. PodTypeOK /\ pod \in Pod
  BY DEF TypeOK, PodTypeOK
<1>4. CASE pod'.containers = pod.containers
  BY <1>2, <1>4
<1>5. CASE Waits \/ Placed \/ Evicted \/ Deleted
  <2>1. pod'.containers = pod.containers
    BY <1>3, <1>5 DEF Waits, Placed, Evicted, Deleted, Pod
  <2> QED
    BY <1>4, <2>1
<1>6. ASSUME NEW j \in Containers, ContainerNext(j)
      PROVE  Recorded(pod'.containers[i])
  <2> DEFINE cs == pod.containers[j]
  <2>1. cs \in Status
    BY <1>3 DEF Pod
  <2>2. CASE i # j
    <3>1. \E new : Becomes(j, new)
      BY <1>6 DEF ContainerNext, Held, Starts, Runs, ProbeAnswers, Exits, BacksOff
    <3>2. pod'.containers[i] = pod.containers[i]
      BY <1>3, <2>2, <3>1, ContainerBecomes
    <3> QED
      BY <1>2, <3>2, SMTT(30)
  <2>3. ASSUME NEW new, Becomes(j, new), Recorded(new)
        PROVE  Recorded(pod'.containers[i])
    <3>1. i = j => pod'.containers[i] = new
      BY <1>3, <2>3, ContainerBecomes
    <3> QED
      BY <2>2, <2>3, <3>1
  <2>4. ASSUME NEW r \in WaitingReasons, Held(j, r)
        PROVE  \E new : Becomes(j, new) /\ Recorded(new)
    <3>1. Becomes(j, [cs EXCEPT !.reason = r]) /\ r # "CrashLoopBackOff"
      BY <2>4 DEF Held
    <3> HIDE DEF cs
    <3>2. [cs EXCEPT !.reason = r].reason = r
      BY <2>1 DEF Status
    <3> QED
      BY <3>1, <3>2
  <2>5. CASE Runs(j)
    <3>1. PICK a : Becomes(j, [cs EXCEPT !.age = a]) /\ cs.state = "running"
      BY <2>5 DEF Runs
    <3> HIDE DEF cs
    <3>2. [cs EXCEPT !.age = a].state = "running"
      BY <2>1, <3>1 DEF Status
    <3> QED
      BY <2>3, <3>1, <3>2
  <2>6. CASE ProbeAnswers(j)
    <3>1. Becomes(j, [cs EXCEPT !.ready = ~cs.ready]) /\ cs.state = "running"
      BY <2>6 DEF ProbeAnswers
    <3> HIDE DEF cs
    <3>2. [cs EXCEPT !.ready = ~cs.ready].state = "running"
      BY <2>1, <3>1 DEF Status
    <3> QED
      BY <2>3, <3>1, <3>2
  <2>7. CASE Starts(j)
    <3>1. pod'.containers[j].state = "running"
      BY <1>3, <2>7, StartsRecorded
    <3> QED
      BY <2>2, <3>1
  <2>8. CASE (\E r \in ExitReasons : Exits(j, r)) \/ BacksOff(j)
    <3>1. Recorded(pod'.containers[j])
      BY <1>3, <2>8, ExitsRecorded
    <3> QED
      BY <2>2, <3>1
  <2> QED
    BY <1>6, <2>3, <2>4, <2>5, <2>6, <2>7, <2>8 DEF ContainerNext
<1> QED
  BY <1>1, <1>4, <1>5, <1>6 DEF PodNext

\* The failed container, from its detection to the end of the collection.
LEMMA CrashStep ==
  ASSUME TypeOK, ReasonsFit, BackOffRecorded, CrashKept, [Next]_vars
  PROVE  CrashKept'
<1> USE DEF evidenceVars, agentVars
<1>1. CASE PodChanges
  BY <1>1 DEF PodChanges, CrashKept
<1>2. CASE Detect
  <2> SUFFICES ASSUME Crashed'
               PROVE  /\ container' \in Containers
                      /\ FailedOne'.state = "running" => FailedOne'.last # Unset /\ behind' >= 1
                      /\ FailedOne'.state = "waiting" => FailedOne'.last # Unset
    BY DEF CrashKept
  <2>1. /\ stage = "watched" /\ Classify(pod) # NoSignal
        /\ failure' = Classify(pod).type /\ container' = Classify(pod).container
        /\ behind' = StartedSince(container') /\ pod' = Focus(container')
    BY <1>2 DEF Detect
  <2>2. PICK i \in Containers : /\ ClassifyContainer(pod, i) # None
                                /\ Classify(pod) = Signal(ClassifyContainer(pod, i), i)
    <3>1. \A c : Signal("Evicted", 0).type \notin {"CrashLoopBackOff", "OOMKilled"}
                 /\ Signal("Unschedulable", 0).type \notin {"CrashLoopBackOff", "OOMKilled"}
      BY DEF Signal
    <3> QED
      BY <2>1, <3>1, ClassifyAnswers DEF Crashed, TypeOK
  <2>3. container' = i /\ failure' = ClassifyContainer(pod, i)
    BY <2>1, <2>2 DEF Signal
  <2> DEFINE cs == pod.containers[i]
  <2>4. cs \in Status
    BY DEF TypeOK, PodTypeOK, Pod
  <2>5. FailedOne' = [cs EXCEPT !.age = 0, !.ready = FALSE]
    BY <2>1, <2>3, FocusTypes, ZenonT(40) DEF FailedOne, TypeOK
  <2>6. FailedOne'.state = cs.state /\ FailedOne'.last = cs.last
    BY <2>4, <2>5 DEF Status
  <2>7. cs.state = "waiting" /\ cs.reason = "CrashLoopBackOff" => cs.last # Unset
    BY <2>1 DEF BackOffRecorded
  <2>8. CASE KilledForMemory(cs)
    <3>1. cs.state # "terminated" => cs.last = "OOMKilled"
      BY <2>8 DEF KilledForMemory
    <3>2. cs.state = "running" => behind' = 1
      <4>1. i # 0
        BY ContainersNumbered
      <4> QED
        BY <2>1, <2>3, <2>8, <3>1, <4>1 DEF StartedSince
    <3> QED
      BY <2>3, <2>6, <3>1, <3>2 DEF Unset
  <2>9. CASE ~KilledForMemory(cs)
    <3>1. CASE cs.state = "waiting"
      <4> DEFINE w == WaitingReasonToFailureType(cs.reason)
      <4>1. w = "OOMKilled" => FALSE
        BY DEF WaitingReasonToFailureType, None
      <4>2. w = "CrashLoopBackOff" => cs.reason = "CrashLoopBackOff"
        BY DEF WaitingReasonToFailureType, None
      <4>3. ClassifyContainer(pod, i) = w
        <5>1. ~ProbeFailure(cs, Probes[i])
          BY <3>1 DEF ProbeFailure
        <5> HIDE DEF w
        <5> QED
          BY <2>9, <3>1, <5>1 DEF ClassifyContainer, w
      <4> HIDE DEF w
      <4> QED
        BY <2>3, <2>6, <2>7, <3>1, <4>1, <4>2, <4>3 DEF Crashed
    <3>2. CASE cs.state = "running"
      <4>1. ClassifyContainer(pod, i) \in {"ProbeFailure", None}
        BY <2>9, <3>2 DEF ClassifyContainer
      <4> QED
        BY <2>3, <4>1 DEF Crashed, None
    <3>3. CASE cs.state = "terminated"
      BY <2>3, <2>6, <3>3
    <3> QED
      BY <2>4, <3>1, <3>2, <3>3 DEF Status
  <2> QED
    BY <2>8, <2>9
<1>3. CASE Restarts
  <2> SUFFICES ASSUME Crashed
               PROVE  /\ container \in Containers
                      /\ FailedOne'.state = "running" /\ FailedOne'.last # Unset /\ behind' >= 1
    BY <1>3 DEF Restarts, CrashKept, Crashed
  <2>1. stage \in {"Detected", "targeted", "previous read"} /\ container' = container
        /\ behind' = behind + 1 /\ Starts(container)
    BY <1>3 DEF Restarts, Collecting
  <2>2. container \in Containers /\ (FailedOne.state = "waiting" => FailedOne.last # Unset)
    BY <2>1 DEF CrashKept
  <2>3. FailedOne'.state = "running" /\ FailedOne'.last = LatestExit(FailedOne)
    BY <2>1, <2>2, StartsRecorded DEF TypeOK, FailedOne
  <2>4. FailedOne.state = "waiting" \/ FailedOne.state = "terminated"
    BY <2>1 DEF Starts, FailedOne
  <2>5. FailedOne.state = "terminated" => FailedOne.reason \in ExitReasons
    BY <2>2 DEF ReasonsFit, FailedOne
  <2>6. LatestExit(FailedOne) # Unset
    BY <2>2, <2>4, <2>5 DEF LatestExit, ExitReasons, Unset
  <2>7. behind' >= 1
    <3>1. behind \in Nat
      BY DEF TypeOK
    <3>2. behind' = behind + 1
      BY <2>1
    <3> QED
      BY <3>1, <3>2
  <2> QED
    BY <2>2, <2>3, <2>6, <2>7
<1>4. CASE ExitsAgain
  <2> SUFFICES ASSUME Crashed
               PROVE  /\ container \in Containers
                      /\ FailedOne'.state # "running"
                      /\ FailedOne'.state = "waiting" => FailedOne'.last # Unset
    BY <1>4 DEF ExitsAgain, CrashKept, Crashed
  <2>1. /\ stage \in {"Detected", "targeted", "previous read"} /\ container' = container
        /\ (\E r \in ExitReasons : Exits(container, r)) \/ BacksOff(container)
    BY <1>4 DEF ExitsAgain, Collecting
  <2>2. container \in Containers
    BY <2>1 DEF CrashKept
  <2> QED
    BY <2>1, <2>2, ExitsRecorded DEF TypeOK, FailedOne
<1>5. CASE Target \/ ReadPreviousLogs \/ ReadTheOthers \/ AdvanceWithoutPod
  <2>1. /\ pod' = pod /\ container' = container /\ behind' = behind /\ failure' = failure
        /\ stage \in {"Detected", "targeted", "previous read"}
    BY <1>5 DEF Target, ReadPreviousLogs, ReadTheOthers, AdvanceWithoutPod
  <2> QED
    BY <2>1 DEF CrashKept, FailedOne, Crashed
<1>6. CASE Begin \/ ToolDenied \/ Accept \/ (\E k \in Kinds : ToolAnswers(k) \/ ToolFails(k))
  <2>1. stage' \in {"running", "concluded"}
    BY <1>6 DEF Begin, ToolDenied, Accept, ToolAnswers, ToolFails
  <2> QED
    BY <2>1 DEF CrashKept
<1>7. CASE UNCHANGED vars
  BY <1>7 DEF vars, CrashKept, FailedOne, Crashed
<1> QED
  BY <1>1, <1>2, <1>3, <1>4, <1>5, <1>6, <1>7 DEF Next

-----------------------------------------------------------------------------
(* The collection.                                                         *)

\* The steps after which nothing is being read and no complete package waits.
LEMMA OtherSteps ==
  ASSUME PodChanges \/ Detect \/ Begin \/ ToolDenied \/ Accept \/ AdvanceWithoutPod
         \/ (\E k \in Kinds : ToolAnswers(k) \/ ToolFails(k))
  PROVE  stage' \notin {"targeted", "previous read"} /\ ~Gathered'
<1>1. CASE AdvanceWithoutPod
  BY <1>1, WithoutPodIsPartial DEF AdvanceWithoutPod, Gathered
<1>2. CASE PodChanges \/ Detect \/ Begin \/ ToolDenied \/ Accept
           \/ (\E k \in Kinds : ToolAnswers(k) \/ ToolFails(k))
  <2>1. stage' \in {"watched", "Detected", "running", "concluded"}
    BY <1>2 DEF PodChanges, Detect, Begin, ToolDenied, Accept, ToolAnswers, ToolFails
  <2> QED
    BY <2>1 DEF Gathered
<1> QED
  BY <1>1, <1>2

\* The steps of the container happen before the package is complete; during the
\* collection they are noticed, and a restart for good.
LEMMA MovesNoticed ==
  ASSUME Restarts \/ ExitsAgain
  PROVE  /\ stage' = stage /\ stage' \in {"Detected", "targeted", "previous read"} /\ ~Gathered'
         /\ container' = container /\ failure' = failure /\ ns' = ns /\ items' = items
         /\ stage \in {"targeted", "previous read"} =>
              /\ moved' # "still"
              /\ Restarts => moved' = "restarted"
              /\ moved = "restarted" => moved' = "restarted"
         /\ ExitsAgain => behind' = behind
<1>1. CASE Restarts
  <2>1. /\ stage' = stage /\ container' = container /\ failure' = failure /\ ns' = ns /\ items' = items
        /\ moved' = IF Collecting THEN "restarted" ELSE moved
        /\ stage = "Detected" \/ Collecting
    BY <1>1 DEF Restarts
  <2>2. ~ExitsAgain \/ behind' = behind
    BY DEF ExitsAgain
  <2> QED
    BY <2>1, <2>2 DEF Collecting, Gathered
<1>2. CASE ExitsAgain /\ ~Restarts
  <2>1. /\ stage' = stage /\ container' = container /\ failure' = failure /\ ns' = ns /\ items' = items
        /\ behind' = behind
        /\ moved' = IF Collecting /\ moved = "still" THEN "moved" ELSE moved
        /\ stage = "Detected" \/ Collecting
    BY <1>2 DEF ExitsAgain
  <2> QED
    BY <1>2, <2>1 DEF Collecting, Gathered
<1> QED
  BY <1>1, <1>2

\* Reading the previous output, first of all kinds.
LEMMA PreviousRead ==
  ASSUME ReadPreviousLogs
  PROVE  /\ stage = "targeted" /\ stage' = "previous read"
         /\ UNCHANGED <<pod, ns, container, behind, failure, facts, moved>>
         /\ \E broken : items'["PreviousLogs"] = Item(failure, "PreviousLogs", broken)
BY DEF ReadPreviousLogs

\* Reading the others leaves it as it is.
LEMMA OthersRead ==
  ASSUME ReadTheOthers
  PROVE  /\ stage = "previous read" /\ stage' = "Enriched" /\ Gathered'
         /\ UNCHANGED <<pod, ns, container, behind, failure, facts, moved>>
         /\ items'["PreviousLogs"] = items["PreviousLogs"]
         /\ \A k \in Kinds \ {"PreviousLogs"} : \E broken : items'[k] = Item(failure, k, broken)
<1>1. PICK broken : items' = [k \in Kinds |-> IF k = "PreviousLogs" THEN items[k]
                                             ELSE Item(failure, k, k \in broken)]
  BY DEF ReadTheOthers
<1>2. "PreviousLogs" \in Kinds
  BY DEF Kinds
<1>3. DOMAIN items' = Kinds /\ items'["PreviousLogs"] = items["PreviousLogs"]
  BY <1>1, <1>2
<1>4. \A k \in Kinds \ {"PreviousLogs"} : items'[k] = Item(failure, k, k \in broken)
  BY <1>1
<1> QED
  BY <1>3, <1>4 DEF ReadTheOthers, Gathered

\* Whose termination is reported.
LEMMA TerminationStep ==
  ASSUME TypeOK, TerminationKept, [Next]_vars
  PROVE  TerminationKept'
<1> USE DEF evidenceVars, agentVars
<1>1. CASE PodChanges \/ Detect \/ Begin \/ ToolDenied \/ Accept \/ AdvanceWithoutPod
           \/ (\E k \in Kinds : ToolAnswers(k) \/ ToolFails(k))
  BY <1>1, OtherSteps DEF TerminationKept
<1>2. CASE Restarts \/ ExitsAgain
  BY <1>2, MovesNoticed DEF TerminationKept
<1>3. CASE Target
  <2> SUFFICES ASSUME container # 0
               PROVE  facts'.termination = TerminationFact(FailedOne)'
    BY <1>3 DEF Target, TerminationKept, Gathered
  <2>1. facts' = Facts /\ pod' = pod /\ container' = container /\ behind' = behind
    BY <1>3 DEF Target
  <2>2. Facts.termination = TerminationFact(FailedOne)
    BY DEF Facts, FailedOne
  <2> QED
    BY <2>1, <2>2 DEF TerminationFact, InstanceLogged, FailedOne
<1>4. CASE ReadPreviousLogs
  <2> SUFFICES ASSUME moved = "still", container # 0, NEW l \in Lines("PreviousLogs")'
               PROVE  l.of = facts.termination.of
    BY <1>4, PreviousRead DEF TerminationKept, Gathered
  <2>1. PICK broken : items'["PreviousLogs"] = Item(failure, "PreviousLogs", broken)
    BY <1>4, PreviousRead
  <2> DEFINE c == Item(failure, "PreviousLogs", broken).content
  <2>2. PICK i \in DOMAIN c : l = c[i]
    BY <2>1 DEF Lines
  <2>3. container \in Containers
    BY DEF TypeOK
  <2>4. HasLog(FailedOne, TRUE) /\ c[i].of = InstanceLogged(FailedOne, TRUE)
    BY <2>2, <2>3, PreviousLinesOf, Zenon
  <2>5. FailedOne.last # Unset
    BY <2>4 DEF HasLog
  <2>6. facts.termination = TerminationFact(FailedOne)
    BY <1>4, PreviousRead DEF TerminationKept
  <2>7. TerminationFact(FailedOne).of = InstanceLogged(FailedOne, TRUE)
    BY <2>5 DEF TerminationFact
  <2> HIDE DEF c
  <2> QED
    BY <2>2, <2>4, <2>6, <2>7
<1>5. CASE ReadTheOthers
  <2>1. Lines("PreviousLogs")' = Lines("PreviousLogs")
    BY <1>5, OthersRead DEF Lines
  <2> QED
    BY <1>5, <2>1, OthersRead DEF TerminationKept
<1>6. CASE UNCHANGED vars
  BY <1>6 DEF vars, TerminationKept, TerminationFact, InstanceLogged, FailedOne, Lines, Gathered
<1> QED
  BY <1>1, <1>2, <1>3, <1>4, <1>5, <1>6 DEF Next

\* Whose output is attached first.
LEMMA PreviousOutputStep ==
  ASSUME TypeOK, ReasonsFit, CrashKept, PreviousOutputKept, [Next]_vars
  PROVE  PreviousOutputKept'
<1> USE DEF evidenceVars, agentVars
<1>1. CASE PodChanges \/ Detect \/ Begin \/ ToolDenied \/ Accept \/ AdvanceWithoutPod
           \/ (\E k \in Kinds : ToolAnswers(k) \/ ToolFails(k))
  BY <1>1, OtherSteps DEF PreviousOutputKept
<1>2. CASE Restarts
  BY <1>2, MovesNoticed DEF PreviousOutputKept
<1>3. CASE ExitsAgain
  <2> SUFFICES ASSUME stage = "previous read", Crashed
               PROVE  FailedOne'.state # "running"
    BY <1>3, MovesNoticed DEF PreviousOutputKept, Crashed
  <2>1. container \in Containers
    BY DEF CrashKept
  <2> QED
    BY <1>3, <2>1, ExitsRecorded, MovesNoticed DEF ExitsAgain, FailedOne, TypeOK
<1>4. CASE Target \/ ReadTheOthers
  <2>1. stage' # "previous read"
    BY <1>4 DEF Target, ReadTheOthers
  <2> QED
    BY <2>1 DEF PreviousOutputKept
<1>5. CASE ReadPreviousLogs
  <2> SUFFICES ASSUME Crashed, ns.output > 0, ~items'["PreviousLogs"].broken, FailedOne.state = "running"
               PROVE  \E l \in Lines("PreviousLogs")' : l.of >= 0 /\ l.of < behind /\ l.line = ns.output
    BY <1>5, PreviousRead DEF PreviousOutputKept, Crashed, FailedOne
  <2>1. PICK broken : items'["PreviousLogs"] = Item(failure, "PreviousLogs", broken)
    BY <1>5, PreviousRead
  <2>2. ~broken
    <3>1. Item(failure, "PreviousLogs", broken).broken = broken
      BY ItemContent
    <3> QED
      BY <2>1, <3>1, Zenon
  <2> DEFINE c == Item(failure, "PreviousLogs", broken).content
             l == [of |-> InstanceLogged(FailedOne, TRUE), line |-> ns.output]
  <2>3. container \in Containers /\ FailedOne.last # Unset /\ behind >= 1
    BY <1>5, PreviousRead DEF CrashKept
  <2>4. Gather(ns, "PreviousLogs") = Logs(ns, TRUE)
    BY DEF Gather
  <2>5. "PreviousLogs" \in Applicable(failure)
    BY DEF Applicable, Required, Crashed
  <2>6. HasLog(FailedOne, TRUE)
    BY <2>3 DEF HasLog
  <2>7. \E i \in DOMAIN c : c[i] = l
    BY <2>2, <2>3, <2>4, <2>5, <2>6, OutputEnds, Zenon
  <2>8. l.of = behind - 1 /\ l.line = ns.output
    BY DEF InstanceLogged
  <2> HIDE DEF l
  <2>9. l \in Lines("PreviousLogs")'
    BY <2>1, <2>7 DEF Lines
  <2>10. behind \in Nat
    BY DEF TypeOK
  <2>11. behind - 1 >= 0 /\ behind - 1 < behind
    BY <2>3, <2>10
  <2> QED
    BY <2>8, <2>9, <2>11
<1>6. CASE UNCHANGED vars
  BY <1>6 DEF vars, PreviousOutputKept, FailedOne, Crashed, Lines
<1> QED
  BY <1>1, <1>2, <1>3, <1>4, <1>5, <1>6 DEF Next

\* The output of an instance that exited is attached in the end.
LEMMA AttachedStep ==
  ASSUME TypeOK, CrashKept, PreviousOutputKept, FailedOutputAttached, [Next]_vars
  PROVE  FailedOutputAttached'
<1> USE DEF evidenceVars, agentVars
<1>1. CASE PodChanges \/ Detect \/ Begin \/ ToolDenied \/ Accept \/ AdvanceWithoutPod
           \/ (\E k \in Kinds : ToolAnswers(k) \/ ToolFails(k))
  BY <1>1, OtherSteps DEF FailedOutputAttached
<1>2. CASE Restarts \/ ExitsAgain
  BY <1>2, MovesNoticed DEF FailedOutputAttached
<1>3. CASE Target \/ ReadPreviousLogs
  <2>1. ~Gathered'
    BY <1>3 DEF Target, ReadPreviousLogs, Gathered
  <2> QED
    BY <2>1 DEF FailedOutputAttached
<1>4. CASE ReadTheOthers
  <2>1. /\ stage = "previous read"
        /\ UNCHANGED <<pod, ns, container, behind, failure, facts, moved>>
        /\ items'["PreviousLogs"] = items["PreviousLogs"]
    BY <1>4, OthersRead
  <2> SUFFICES ASSUME Crashed, ns.output > 0, moved # "restarted",
                      ~items["PreviousLogs"].broken, ~items'["CurrentLogs"].broken
               PROVE  \E l \in Lines("PreviousLogs")' \cup Lines("CurrentLogs")' :
                        l.of >= 0 /\ l.line = ns.output
                        /\ (l.of < behind \/ FailedOne.state # "running")
    BY <2>1 DEF FailedOutputAttached, Crashed, Exited, FailedOne
  <2>2. CASE FailedOne.state = "running"
    <3>1. PICK l \in Lines("PreviousLogs") : l.of >= 0 /\ l.of < behind /\ l.line = ns.output
      BY <2>1, <2>2 DEF PreviousOutputKept
    <3>2. Lines("PreviousLogs")' = Lines("PreviousLogs")
      BY <2>1 DEF Lines
    <3> QED
      BY <3>1, <3>2
  <2>3. CASE FailedOne.state # "running"
    <3>1. "CurrentLogs" \in Kinds \ {"PreviousLogs"}
      BY DEF Kinds
    <3>2. PICK broken : items'["CurrentLogs"] = Item(failure, "CurrentLogs", broken)
      BY <1>4, <3>1, OthersRead
    <3>3. ~broken
      <4>1. Item(failure, "CurrentLogs", broken).broken = broken
        BY ItemContent
      <4> QED
        BY <3>2, <4>1, Zenon
    <3> DEFINE c == Item(failure, "CurrentLogs", broken).content
               l == [of |-> InstanceLogged(FailedOne, FALSE), line |-> ns.output]
    <3>4. container \in Containers /\ (FailedOne.state = "waiting" => FailedOne.last # Unset)
      BY <2>1 DEF CrashKept
    <3>5. Gather(ns, "CurrentLogs") = Logs(ns, FALSE)
      BY DEF Gather
    <3>6. "CurrentLogs" \in Applicable(failure)
      BY DEF Applicable, Opportunistic, Crashed
    <3>7. HasLog(FailedOne, FALSE)
      BY <3>4 DEF HasLog
    <3>8. \E i \in DOMAIN c : c[i] = l
      BY <3>3, <3>4, <3>5, <3>6, <3>7, OutputEnds, Zenon
    <3>9. l.of = behind /\ l.line = ns.output
      BY DEF InstanceLogged
    <3> HIDE DEF l
    <3>10. l \in Lines("CurrentLogs")'
      BY <3>2, <3>8 DEF Lines
    <3>11. behind >= 0
      <4>1. behind \in Nat
        BY DEF TypeOK
      <4> QED
        BY <4>1
    <3> QED
      BY <2>3, <3>9, <3>10, <3>11
  <2> QED
    BY <2>2, <2>3
<1>5. CASE UNCHANGED vars
  BY <1>5 DEF vars, FailedOutputAttached, Exited, Lines, Gathered
<1> QED
  BY <1>1, <1>2, <1>3, <1>4, <1>5 DEF Next

\* Which events are attached.
LEMMA EventsStep ==
  ASSUME EventsKept, [Next]_vars
  PROVE  EventsKept'
<1> USE DEF evidenceVars, agentVars
<1>1. CASE PodChanges \/ Detect \/ Begin \/ ToolDenied \/ Accept \/ AdvanceWithoutPod
           \/ (\E k \in Kinds : ToolAnswers(k) \/ ToolFails(k))
  BY <1>1, OtherSteps DEF EventsKept
<1>2. CASE Restarts \/ ExitsAgain
  BY <1>2, MovesNoticed DEF EventsKept
<1>3. CASE Target \/ ReadPreviousLogs
  <2>1. ~Gathered'
    BY <1>3 DEF Target, ReadPreviousLogs, Gathered
  <2> QED
    BY <2>1 DEF EventsKept
<1>4. CASE ReadTheOthers
  <2>1. "Events" \in Kinds \ {"PreviousLogs"}
    BY DEF Kinds
  <2>2. PICK broken : items'["Events"] = Item(failure, "Events", broken)
    BY <1>4, <2>1, OthersRead
  <2>3. Item(failure, "Events", broken).status = "Collected" =>
          /\ Gather(ns, "Events").text # <<>>
          /\ Item(failure, "Events", broken).content = Truncate(Gather(ns, "Events").text)
    BY ItemContent, Zenon
  <2>4. Gather(ns, "Events") = Events(ns)
    BY DEF Gather
  <2>5. ns' = ns
    BY <1>4, OthersRead
  <2> QED
    BY <2>2, <2>3, <2>4, <2>5 DEF EventsKept, Events
<1>5. CASE UNCHANGED vars
  BY <1>5 DEF vars, EventsKept, Gathered, Events
<1> QED
  BY <1>1, <1>2, <1>3, <1>4, <1>5 DEF Next

-----------------------------------------------------------------------------
(* The theorems.                                                           *)

\* Every reachable state satisfies the invariants above.
LEMMA CollectionAlways == Spec => []CollectionInv
<1>1. Init => CollectionInv
  <2> SUFFICES ASSUME Init PROVE CollectionInv
    OBVIOUS
  <2>1. stage = "watched"
    BY DEF Init
  <2>2. \A i \in Containers : pod.containers[i].reason = "ContainerCreating"
    BY DEF Init, PodInit, NewContainer
  <2> QED
    BY <2>1, <2>2 DEF CollectionInv, BackOffRecorded, CrashKept, TerminationKept, PreviousOutputKept,
                      FailedOutputAttached, EventsKept, Gathered
<1>2. EvidenceInv /\ CollectionInv /\ [Next]_vars => CollectionInv'
  BY BackOffStep, CrashStep, TerminationStep, PreviousOutputStep, AttachedStep, EventsStep
     DEF EvidenceInv, CollectionInv
<1> QED
  BY <1>1, <1>2, EvidenceAlways, PTL DEF Spec

\* The end of the output of an instance that exited is attached to the evidence of
\* every crash and memory kill whose container was not restarted between the two
\* reads of its logs, however much it prints (Collect, Truncate).
THEOREM AlwaysOutputAttached == Spec => []FailedOutputAttached
<1>1. CollectionInv => FailedOutputAttached
  BY DEF CollectionInv
<1> QED
  BY <1>1, CollectionAlways, PTL

\* The termination that is reported and the previous output that is attached are of
\* one instance, unless the container moved during the collection
\* (populateContainerFacts, logs).
THEOREM AlwaysFactsMatchLogs == Spec => []FactsMatchLogs
<1>1. CollectionInv => FactsMatchLogs
  BY DEF CollectionInv, TerminationKept, FactsMatchLogs
<1> QED
  BY <1>1, CollectionAlways, PTL

\* Whatever order the server lists the events in, the latest opens the excerpt the
\* agent sees when all of them fit the limits (events, Truncate, excerpt).
THEOREM LatestEventAlwaysPresented == Spec => []LatestEventPresented
<1>1. TypeOK /\ CollectionInv => LatestEventPresented
  <2> SUFFICES ASSUME TypeOK, CollectionInv, Gathered, items["Events"].status = "Collected",
                      Len(ns.events) <= EventLimit, Len(ns.events) <= ContentLimit
               PROVE  \A i \in DOMAIN ns.events : Excerpt(items["Events"].content)[1] >= ns.events[i]
    BY DEF LatestEventPresented
  <2>1. Events(ns).text # <<>> /\ items["Events"].content = Truncate(Events(ns).text)
    BY DEF CollectionInv, EventsKept
  <2>2. \A i \in DOMAIN ns.events : Excerpt(Truncate(Events(ns).text))[1] >= ns.events[i]
    BY <2>1, EventsFromLatest DEF TypeOK
  <2> QED
    BY <2>1, <2>2
<1> QED
  BY <1>1, CollectionAlways, SufficiencyTypeCorrect, PTL
=============================================================================
