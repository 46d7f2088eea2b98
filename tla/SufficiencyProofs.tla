-------------------------- MODULE SufficiencyProofs --------------------------
(***************************************************************************)
(* From the pod's status to the conclusion, for every number of            *)
(* containers, every probe, every namespace and every budget: types, what  *)
(* Classify answers, and what the sufficiency gate makes of the evidence.  *)
(***************************************************************************)
EXTENDS Sufficiency, FiniteSetTheorems, TLAPS

\* A container that waits or has terminated says why in the words of its state.
ReasonsFit ==
  \A i \in Containers :
    /\ pod.containers[i].state = "terminated" => pod.containers[i].reason \in ExitReasons
    /\ pod.containers[i].state = "waiting" => pod.containers[i].reason \in WaitingReasons

-----------------------------------------------------------------------------
(* The invariants.                                                         *)

\* An item says what the matrix says, and what is required is never filed as not
\* applicable.
ItemFits(k) ==
  /\ items[k].required <=> k \in Required(failure)
  /\ items[k].required => items[k].status # "NotApplicable"

\* The package: nothing is answered before it is complete, and it is either the
\* placeholder of a pod that is gone or has an item for every kind.
PackageKept ==
  /\ stage \in {"watched", "Detected", "targeted", "previous read"} => answered = {}
  /\ stage = "previous read" => DOMAIN items = {"PreviousLogs"} /\ ItemFits("PreviousLogs")
  /\ stage \in {"Enriched", "running", "concluded"} =>
       \/ items = ItemsWithoutPod
       \/ /\ DOMAIN items = Kinds
          /\ \A k \in Kinds : ItemFits(k) /\ (items[k].status = "Collected" => k \in answered)

\* The requirements of the investigation: what is not collected is known to be
\* unobtainable, and with a complete package they are those of the matrix and
\* none is met without an answer.
RequirementsKept ==
  /\ reqs \in [DOMAIN reqs -> Requirement]
  /\ stage = "running" => \A k \in DOMAIN reqs : reqs[k].collected \/ ~reqs[k].obtainable
  /\ stage \in {"running", "concluded"} /\ DOMAIN items = Kinds =>
       /\ DOMAIN reqs = Required(failure)
       /\ \A k \in DOMAIN reqs : reqs[k].collected => k \in answered
  /\ stage = "concluded" => (degraded <=> \E k \in DOMAIN reqs : ~reqs[k].collected)

\* Only a Deployment ever answers with a history.
HistoryKept == "RolloutHistory" \in answered => ns.owner = "Deployment"

-----------------------------------------------------------------------------
(* The pod.                                                                *)

\* A set of containers that is not empty has a first one.
LEMMA HasFirst ==
  ASSUME NEW S, S \subseteq Nat, S # {}
  PROVE  \E i \in S : \A j \in S : i <= j
<1>1. IsWellFoundedOn(OpToRel(<, Nat), Nat)
  BY NatLessThanWellFounded, Zenon
<1>2. PICK i \in S : \A j \in S : ~(<<j, i>> \in OpToRel(<, Nat))
  BY <1>1, WFMin, Zenon
<1>3. \A j \in S : ~(j < i)
  BY <1>2, Zenon DEF OpToRel
<1> QED
  BY <1>3

\* The containers are numbered.
LEMMA ContainersNumbered == Containers \subseteq Nat \ {0}
BY ClassificationAssumption, SMTT(30) DEF Containers

\* A container changes and the pod stays a pod.
LEMMA BecomesTypes ==
  ASSUME PodTypeOK, ReasonsFit, NEW i \in Containers, NEW cs \in Status, Becomes(i, cs),
         cs.state = "terminated" => cs.reason \in ExitReasons,
         cs.state = "waiting" => cs.reason \in WaitingReasons
  PROVE  PodTypeOK' /\ ReasonsFit'
<1>1. pod \in Pod /\ pod.containers \in [Containers -> Status]
  BY DEF PodTypeOK, Pod
<1>2. pod' = [pod EXCEPT !.containers = [pod.containers EXCEPT ![i] = cs]]
  BY <1>1 DEF Becomes, Pod
<1>3. [pod.containers EXCEPT ![i] = cs] \in [Containers -> Status]
  BY <1>1
<1>4. pod' \in Pod
  BY <1>1, <1>2, <1>3 DEF Pod
<1>5. pod'.containers = [pod.containers EXCEPT ![i] = cs]
  BY <1>1, <1>2 DEF Pod
<1>6. ReasonsFit'
  BY <1>1, <1>5 DEF ReasonsFit
<1> QED
  BY <1>4, <1>6 DEF PodTypeOK

\* The kubelet and the scheduler keep the pod a pod.
LEMMA PodNextTypes ==
  ASSUME PodTypeOK, ReasonsFit, PodNext
  PROVE  PodTypeOK' /\ ReasonsFit'
<1>1. pod \in Pod /\ pod.containers \in [Containers -> Status]
  BY DEF PodTypeOK, Pod
<1>2. CASE Waits
  <2>1. PICK a \in Ages : pod' = [pod EXCEPT !.pending = a]
    BY <1>2 DEF Waits, Later
  <2> QED
    BY <1>1, <2>1 DEF PodTypeOK, Pod, ReasonsFit
<1>3. CASE Placed \/ Evicted \/ Deleted
  BY <1>1, <1>3 DEF Placed, Evicted, Deleted, PodTypeOK, Pod, ReasonsFit
<1>4. ASSUME NEW i \in Containers, ContainerNext(i)
      PROVE  PodTypeOK' /\ ReasonsFit'
  <2> DEFINE cs == pod.containers[i]
  <2>1. cs \in Status
    BY <1>1
  <2>2. /\ cs.state = "terminated" => cs.reason \in ExitReasons
        /\ cs.state = "waiting" => cs.reason \in WaitingReasons
    BY DEF ReasonsFit
  <2>3. ASSUME NEW r \in WaitingReasons, Held(i, r)
        PROVE  PodTypeOK' /\ ReasonsFit'
    <3> DEFINE new == [cs EXCEPT !.reason = r]
    <3>1. Becomes(i, new) /\ cs.state = "waiting"
      BY <2>3 DEF Held
    <3> HIDE DEF cs
    <3>2. new \in Status /\ new.reason \in WaitingReasons /\ new.state = "waiting"
      BY <2>1, <3>1 DEF Status
    <3> QED
      BY <3>1, <3>2, BecomesTypes
  <2>4. CASE Starts(i)
    <3> DEFINE last == IF cs.state = "terminated" THEN cs.reason ELSE cs.last
               new == [state |-> "running", reason |-> Unset, ready |-> Probes[i] = NoProbe, age |-> 0,
                       last |-> last]
    <3>1. Becomes(i, new)
      BY <2>4 DEF Starts
    <3>2. last \in ExitReasons \cup {Unset}
      BY <2>1, <2>2 DEF Status
    <3> HIDE DEF last, cs
    <3>3. new \in Status /\ new.state = "running"
      BY <3>2, ClassificationAssumption DEF Status
    <3> QED
      BY <3>1, <3>3, BecomesTypes
  <2>5. CASE Runs(i)
    <3>1. PICK a \in Ages : Becomes(i, [cs EXCEPT !.age = a])
      BY <2>5 DEF Runs, Later
    <3>2. cs.state = "running"
      BY <2>5 DEF Runs
    <3> HIDE DEF cs
    <3>3. [cs EXCEPT !.age = a] \in Status /\ [cs EXCEPT !.age = a].state = "running"
      BY <2>1, <3>2 DEF Status
    <3> QED
      BY <3>1, <3>3, BecomesTypes
  <2>6. CASE ProbeAnswers(i)
    <3>1. Becomes(i, [cs EXCEPT !.ready = ~cs.ready]) /\ cs.state = "running"
      BY <2>6 DEF ProbeAnswers
    <3> HIDE DEF cs
    <3>2. [cs EXCEPT !.ready = ~cs.ready] \in Status /\ [cs EXCEPT !.ready = ~cs.ready].state = "running"
      BY <2>1, <3>1 DEF Status
    <3> QED
      BY <3>1, <3>2, BecomesTypes
  <2>7. ASSUME NEW r \in ExitReasons, Exits(i, r)
        PROVE  PodTypeOK' /\ ReasonsFit'
    <3> DEFINE new == [cs EXCEPT !.state = "terminated", !.reason = r, !.ready = FALSE, !.age = 0]
    <3>1. Becomes(i, new)
      BY <2>7 DEF Exits
    <3> HIDE DEF cs
    <3>2. new \in Status /\ new.reason \in ExitReasons /\ new.state = "terminated"
      BY <2>1, ClassificationAssumption DEF Status
    <3> QED
      BY <3>1, <3>2, BecomesTypes
  <2>8. CASE BacksOff(i)
    <3> DEFINE new == [cs EXCEPT !.state = "waiting", !.reason = "CrashLoopBackOff", !.last = cs.reason]
    <3>1. Becomes(i, new) /\ cs.state = "terminated"
      BY <2>8 DEF BacksOff
    <3> HIDE DEF cs
    <3>2. new \in Status /\ new.reason \in WaitingReasons /\ new.state = "waiting"
      BY <2>1, <2>2, <3>1 DEF Status, WaitingReasons
    <3> QED
      BY <3>1, <3>2, BecomesTypes
  <2> QED
    BY <1>4, <2>3, <2>4, <2>5, <2>6, <2>7, <2>8 DEF ContainerNext
<1> QED
  BY <1>2, <1>3, <1>4 DEF PodNext

\* A pod that is reduced to one of its containers is a pod.
LEMMA FocusTypes ==
  ASSUME PodTypeOK, ReasonsFit, NEW i, pod' = Focus(i)
  PROVE  /\ PodTypeOK' /\ ReasonsFit'
         /\ pod'.pending = pod.pending /\ pod'.restart = pod.restart
         /\ \A j \in Containers :
              pod'.containers[j] = IF j = i THEN [pod.containers[j] EXCEPT !.age = 0, !.ready = FALSE]
                                   ELSE NewContainer
<1> DEFINE one(j) == IF j = i THEN [pod.containers[j] EXCEPT !.age = 0, !.ready = FALSE] ELSE NewContainer
           all == [j \in Containers |-> one(j)]
<1>1. pod \in Pod /\ pod.containers \in [Containers -> Status]
  BY DEF PodTypeOK, Pod
<1>2. NewContainer \in Status
  BY ClassificationAssumption DEF NewContainer, Status, WaitingReasons
<1>3. \A j \in Containers : [pod.containers[j] EXCEPT !.age = 0, !.ready = FALSE] \in Status
  BY <1>1, ClassificationAssumption DEF Status
<1>4. all \in [Containers -> Status]
  BY <1>2, <1>3
<1>5. pod' = [pod EXCEPT !.containers = all]
  BY DEF Focus
<1>6. \A j \in Containers : all[j] = one(j)
  OBVIOUS
<1> HIDE DEF all
<1>7. pod' \in Pod /\ pod'.containers = all /\ pod'.pending = pod.pending /\ pod'.restart = pod.restart
  BY <1>1, <1>4, <1>5 DEF Pod
<1>8. ASSUME NEW j \in Containers
      PROVE  /\ one(j).state = "terminated" => one(j).reason \in ExitReasons
             /\ one(j).state = "waiting" => one(j).reason \in WaitingReasons
  <2>1. CASE j = i
    BY <1>1, <2>1 DEF ReasonsFit, Status
  <2>2. CASE j # i
    BY <2>2 DEF NewContainer, WaitingReasons
  <2> QED
    BY <2>1, <2>2
<1>9. ReasonsFit'
  BY <1>6, <1>7, <1>8, ZenonT(40) DEF ReasonsFit
<1> QED
  BY <1>6, <1>7, <1>9 DEF PodTypeOK

-----------------------------------------------------------------------------
(* Classify.                                                               *)

\* A container is reported under one of the failure types, or not at all.
LEMMA ClassifyContainerTypes ==
  ASSUME NEW i
  PROVE  ClassifyContainer(pod, i) \in FailureTypes \cup {None}
<1> DEFINE cs == pod.containers[i]
           waiting == IF cs.state = "waiting" THEN WaitingReasonToFailureType(cs.reason) ELSE None
<1>1. waiting \in FailureTypes \cup {None}
  BY DEF WaitingReasonToFailureType, FailureTypes
<1>2. ClassifyContainer(pod, i) \in {"OOMKilled", waiting, "CrashLoopBackOff", "ProbeFailure", None}
  BY DEF ClassifyContainer
<1> HIDE DEF waiting
<1> QED
  BY <1>1, <1>2 DEF FailureTypes

\* What Classify answers: nothing, a failure of the whole pod, or the failure of a
\* container of a pod that was placed.
LEMMA ClassifyAnswers ==
  ASSUME PodTypeOK
  PROVE  \/ Classify(pod) = NoSignal
         \/ pod.evicted /\ Classify(pod) = Signal("Evicted", 0)
         \/ Unschedulable(pod) /\ Classify(pod) = Signal("Unschedulable", 0)
         \/ /\ pod.pending = -1
            /\ \E i \in Containers : /\ ClassifyContainer(pod, i) # None
                                     /\ Classify(pod) = Signal(ClassifyContainer(pod, i), i)
<1> DEFINE failing == {i \in Containers : pod.pending = -1 /\ ClassifyContainer(pod, i) # None}
           first == CHOOSE i \in failing : \A j \in failing : i <= j
<1>1. failing # {} => first \in failing
  <2>1. failing \subseteq Nat
    BY ContainersNumbered
  <2> HIDE DEF failing
  <2>2. failing # {} => \E i \in failing : \A j \in failing : i <= j
    BY <2>1, HasFirst
  <2> QED
    BY <2>2
<1>2. \/ Classify(pod) = NoSignal
      \/ pod.evicted /\ Classify(pod) = Signal("Evicted", 0)
      \/ Unschedulable(pod) /\ Classify(pod) = Signal("Unschedulable", 0)
      \/ failing # {} /\ Classify(pod) = Signal(ClassifyContainer(pod, first), first)
  <2> HIDE DEF failing, first
  <2>1. Classify(pod) = CASE pod.deleting -> NoSignal
        [] ~pod.deleting /\ pod.evicted -> Signal("Evicted", 0)
        [] ~pod.deleting /\ ~pod.evicted /\ Unschedulable(pod) -> Signal("Unschedulable", 0)
        [] ~pod.deleting /\ ~pod.evicted /\ ~Unschedulable(pod) /\ failing # {} ->
             Signal(ClassifyContainer(pod, first), first)
        [] OTHER -> NoSignal
    BY DEF Classify, failing, first
  <2> QED
    BY <2>1
<1> HIDE DEF first
<1>3. CASE failing # {} /\ Classify(pod) = Signal(ClassifyContainer(pod, first), first)
  BY <1>1, <1>3
<1> QED
  BY <1>2, <1>3

\* Classify names a failure type and a container of the pod.
LEMMA ClassifyTypes ==
  ASSUME PodTypeOK
  PROVE  /\ Classify(pod).type \in FailureTypes \cup {None}
         /\ Classify(pod).container \in Containers \cup {0}
         /\ Classify(pod) # NoSignal => Classify(pod).type # None
<1>1. CASE Classify(pod) = NoSignal
  BY <1>1 DEF NoSignal, Signal
<1>2. CASE Classify(pod) = Signal("Evicted", 0) \/ Classify(pod) = Signal("Unschedulable", 0)
  BY <1>2 DEF Signal, FailureTypes, None
<1>3. ASSUME NEW i \in Containers, ClassifyContainer(pod, i) # None,
             Classify(pod) = Signal(ClassifyContainer(pod, i), i)
      PROVE  /\ Classify(pod).type = ClassifyContainer(pod, i)
             /\ Classify(pod).container = i
  BY <1>3 DEF Signal
<1> QED
  BY <1>1, <1>2, <1>3, ClassifyAnswers, ClassifyContainerTypes

-----------------------------------------------------------------------------
(* One round of Collect.                                                   *)

\* What an item tells.
LEMMA ItemTells ==
  ASSUME NEW type, NEW kind, NEW broken
  PROVE  /\ Item(type, kind, broken).status \in {"Collected", "Unavailable", "NotApplicable"}
         /\ Item(type, kind, broken).required <=> kind \in Required(type)
         /\ Item(type, kind, broken).required => Item(type, kind, broken).status # "NotApplicable"
         /\ Item(type, kind, broken).broken = broken
         /\ Item(type, kind, broken).status = "Collected" =>
              /\ ~broken
              /\ Gather(ns, kind).text # <<>>
              /\ Item(type, kind, broken).content = Truncate(Gather(ns, kind).text)
         /\ Item(type, kind, broken).status # "Collected" => Item(type, kind, broken).content = <<>>
         /\ ~broken /\ kind \in Applicable(type) /\ Gather(ns, kind).text # <<>> =>
              Item(type, kind, broken).status = "Collected"
<1> DEFINE answer == IF broken THEN Error ELSE Gather(ns, kind)
           item(status, text) ==
             [status |-> status, required |-> kind \in Required(type), broken |-> broken, content |-> text]
<1>1. Item(type, kind, broken) =
        CASE kind \notin Applicable(type) -> item("NotApplicable", <<>>)
          [] kind \in Applicable(type) /\ answer.text # <<>> ->
               item("Collected", Truncate(answer.text))
          [] OTHER -> item("Unavailable", <<>>)
  BY DEF Item
<1>2. kind \in Required(type) => kind \in Applicable(type)
  BY DEF Applicable
<1>3. answer.text # <<>> => ~broken /\ answer = Gather(ns, kind)
  BY DEF Error
<1>4. ~broken => answer = Gather(ns, kind)
  OBVIOUS
<1>5. ASSUME NEW status, NEW text
      PROVE  /\ item(status, text).status = status
             /\ item(status, text).required <=> kind \in Required(type)
             /\ item(status, text).broken = broken
             /\ item(status, text).content = text
  OBVIOUS
<1> HIDE DEF answer, item
<1>6. CASE kind \notin Applicable(type)
  <2>1. Item(type, kind, broken) = item("NotApplicable", <<>>)
    BY <1>1, <1>6
  <2> QED
    BY <2>1, <1>2, <1>5, <1>6
<1>7. CASE kind \in Applicable(type) /\ answer.text # <<>>
  <2>1. Item(type, kind, broken) = item("Collected", Truncate(answer.text))
    BY <1>1, <1>7
  <2> QED
    BY <2>1, <1>3, <1>5, <1>7
<1>8. CASE kind \in Applicable(type) /\ answer.text = <<>>
  <2>1. Item(type, kind, broken) = item("Unavailable", <<>>)
    BY <1>1, <1>8
  <2> QED
    BY <2>1, <1>4, <1>5, <1>8
<1> QED
  BY <1>6, <1>7, <1>8

-----------------------------------------------------------------------------
(* Types.                                                                  *)

\* The scalars that populateContainerFacts takes from a container's status.
LEMMA FactsTypes ==
  ASSUME PodTypeOK, ReasonsFit, container \in Containers \cup {0}
  PROVE  /\ Facts.termination.reason \in ExitReasons \cup {Unset}
         /\ Facts.waiting \in WaitingReasons \cup {Unset}
<1> DEFINE i == IF container = 0 THEN 1 ELSE container
           cs == pod.containers[i]
           waiting == IF pod.pending = -1 /\ cs.state = "waiting" THEN cs.reason ELSE Unset
<1>1. 1 \in Containers
  BY ClassificationAssumption DEF Containers
<1>2. i \in Containers
  BY <1>1
<1>3. Facts = [termination |-> TerminationFact(cs), waiting |-> waiting]
  BY DEF Facts
<1> HIDE DEF i
<1>4. cs \in Status
  BY <1>2 DEF PodTypeOK, Pod
<1>5. /\ cs.state = "terminated" => cs.reason \in ExitReasons
      /\ cs.state = "waiting" => cs.reason \in WaitingReasons
  BY <1>2 DEF ReasonsFit
<1> HIDE DEF cs
<1>6. TerminationFact(cs).reason \in ExitReasons \cup {Unset}
  BY <1>4, <1>5 DEF TerminationFact, Status
<1>7. waiting \in WaitingReasons \cup {Unset}
  BY <1>5
<1> HIDE DEF waiting
<1> QED
  BY <1>3, <1>6, <1>7

\* A container that starts, exits or backs off takes a step of the pod.
LEMMA MovesOfThePod ==
  ASSUME container \in Containers,
         Starts(container) \/ (\E r \in ExitReasons : Exits(container, r)) \/ BacksOff(container)
  PROVE  PodNext
BY DEF PodNext, ContainerNext

\* Every step keeps the types.
LEMMA TypesStep ==
  ASSUME TypeOK, ReasonsFit, PackageKept, RequirementsKept, [Next]_vars
  PROVE  TypeOK' /\ ReasonsFit'
<1> USE DEF evidenceVars, agentVars
<1>1. CASE PodChanges
  BY <1>1, PodNextTypes DEF PodChanges, TypeOK
<1>2. CASE Detect
  <2>1. PodTypeOK' /\ ReasonsFit'
    BY <1>2, FocusTypes DEF Detect, TypeOK
  <2>2. failure' \in FailureTypes \cup {None} /\ container' \in Containers \cup {0}
    BY <1>2, ClassifyTypes DEF Detect, TypeOK
  <2>3. behind' \in Nat
    BY <1>2 DEF Detect, StartedSince
  <2> QED
    BY <1>2, <2>1, <2>2, <2>3 DEF Detect, TypeOK
<1>3. CASE Restarts
  <2>1. PodTypeOK' /\ ReasonsFit'
    BY <1>3, PodNextTypes, MovesOfThePod DEF Restarts, TypeOK
  <2>2. behind' \in Nat /\ moved' \in {"still", "moved", "restarted"}
    <3>1. behind' = behind + 1 /\ moved' \in {"restarted", moved}
      BY <1>3 DEF Restarts
    <3>2. behind \in Nat /\ moved \in {"still", "moved", "restarted"}
      BY DEF TypeOK
    <3> QED
      BY <3>1, <3>2
  <2> QED
    BY <1>3, <2>1, <2>2 DEF Restarts, TypeOK
<1>4. CASE ExitsAgain
  <2>1. PodTypeOK' /\ ReasonsFit'
    BY <1>4, PodNextTypes, MovesOfThePod DEF ExitsAgain, TypeOK
  <2> QED
    BY <1>4, <2>1 DEF ExitsAgain, TypeOK
<1>5. CASE Target
  BY <1>5, FactsTypes DEF Target, TypeOK, PodTypeOK, ReasonsFit
<1>6. CASE ReadPreviousLogs
  <2>1. PICK broken : items' = [k \in {"PreviousLogs"} |-> Item(failure, k, broken)]
    BY <1>6 DEF ReadPreviousLogs
  <2>2. DOMAIN items' \subseteq Kinds
    BY <2>1 DEF Kinds
  <2>3. \A k \in DOMAIN items' : items'[k].status \in {"Collected", "Unavailable", "NotApplicable"}
    BY <2>1, ItemTells
  <2> QED
    BY <1>6, <2>2, <2>3 DEF ReadPreviousLogs, TypeOK, PodTypeOK, ReasonsFit
<1>7. CASE ReadTheOthers
  <2>1. PICK broken : items' = [k \in Kinds |-> IF k = "PreviousLogs" THEN items[k]
                                               ELSE Item(failure, k, k \in broken)]
    BY <1>7 DEF ReadTheOthers
  <2>2. "PreviousLogs" \in DOMAIN items
    BY <1>7 DEF ReadTheOthers, PackageKept
  <2>3. \A k \in DOMAIN items' : items'[k].status \in {"Collected", "Unavailable", "NotApplicable"}
    BY <2>1, <2>2, ItemTells DEF TypeOK
  <2>4. answered' \subseteq Kinds /\ DOMAIN items' \subseteq Kinds
    BY <1>7, <2>1 DEF ReadTheOthers
  <2> QED
    BY <1>7, <2>3, <2>4 DEF ReadTheOthers, TypeOK, PodTypeOK, ReasonsFit
<1>8. CASE AdvanceWithoutPod
  <2>1. DOMAIN items' \subseteq Kinds /\ \A k \in DOMAIN items' : items'[k].status = "Unavailable"
    BY <1>8 DEF AdvanceWithoutPod, ItemsWithoutPod, Kinds
  <2> QED
    BY <1>8, <2>1 DEF AdvanceWithoutPod, TypeOK, PodTypeOK, ReasonsFit
<1>9. CASE Begin
  <2>1. PodTypeOK' /\ ReasonsFit'
    BY <1>9, FocusTypes DEF Begin, TypeOK
  <2>2. DOMAIN reqs' \subseteq Kinds /\ \A k \in DOMAIN reqs' : reqs'[k] \in Requirement
    BY <1>9 DEF Begin, BuildInput, RequirementOf, Requirement, TypeOK
  <2> QED
    BY <1>9, <2>1, <2>2 DEF Begin, TypeOK
<1>10. ASSUME NEW k \in Kinds, ToolAnswers(k)
       PROVE  TypeOK' /\ ReasonsFit'
  <2>1. DOMAIN reqs' \subseteq Kinds /\ \A j \in DOMAIN reqs' : reqs'[j] \in Requirement
    BY <1>10 DEF ToolAnswers, TypeOK, RequirementsKept, Requirement
  <2>2. calls' \in 0 .. MaxToolCalls /\ answered' \subseteq Kinds
    BY <1>10, SufficiencyAssumption DEF ToolAnswers, TypeOK
  <2> QED
    BY <1>10, <2>1, <2>2 DEF ToolAnswers, TypeOK, PodTypeOK, ReasonsFit
<1>11. ASSUME NEW k \in Kinds, ToolFails(k)
       PROVE  TypeOK' /\ ReasonsFit'
  <2>1. DOMAIN reqs' \subseteq Kinds /\ \A j \in DOMAIN reqs' : reqs'[j] \in Requirement
    BY <1>11 DEF ToolFails, TypeOK, RequirementsKept, Requirement
  <2>2. calls' \in 0 .. MaxToolCalls
    BY <1>11, SufficiencyAssumption DEF ToolFails, TypeOK
  <2> QED
    BY <1>11, <2>1, <2>2 DEF ToolFails, TypeOK, PodTypeOK, ReasonsFit
<1>12. CASE ToolDenied
  <2>1. calls' \in 0 .. MaxToolCalls
    BY <1>12, SufficiencyAssumption DEF ToolDenied, TypeOK
  <2> QED
    BY <1>12, <2>1 DEF ToolDenied, TypeOK, PodTypeOK, ReasonsFit
<1>13. CASE Accept
  BY <1>13 DEF Accept, TypeOK, PodTypeOK, ReasonsFit
<1>14. CASE UNCHANGED vars
  BY <1>14 DEF vars, TypeOK, PodTypeOK, ReasonsFit
<1> QED
  BY <1>1, <1>2, <1>3, <1>4, <1>5, <1>6, <1>7, <1>8, <1>9, <1>10, <1>11, <1>12, <1>13, <1>14
     DEF Next

-----------------------------------------------------------------------------
(* The package and the requirements.                                       *)

\* The package of a pod that is gone is not a complete one.
LEMMA WithoutPodIsPartial ==
  DOMAIN ItemsWithoutPod # Kinds
BY DEF ItemsWithoutPod, Kinds

\* Every step keeps the package.
LEMMA PackageStep ==
  ASSUME TypeOK, PackageKept, [Next]_vars
  PROVE  PackageKept'
<1> USE DEF evidenceVars, agentVars
<1>1. CASE PodChanges
  BY <1>1 DEF PodChanges, PackageKept, ItemFits
<1>2. CASE Detect
  BY <1>2 DEF Detect, PackageKept
<1>3. CASE Restarts \/ ExitsAgain
  BY <1>3 DEF Restarts, ExitsAgain, Collecting, PackageKept, ItemFits
<1>4. CASE Target
  BY <1>4 DEF Target, PackageKept
<1>5. CASE ReadPreviousLogs
  <2>1. PICK broken : items' = [k \in {"PreviousLogs"} |-> Item(failure, k, broken)]
    BY <1>5 DEF ReadPreviousLogs
  <2>2. DOMAIN items' = {"PreviousLogs"} /\ items'["PreviousLogs"] = Item(failure, "PreviousLogs", broken)
    BY <2>1
  <2>3. stage = "targeted" /\ stage' = "previous read" /\ failure' = failure /\ answered' = answered
    BY <1>5 DEF ReadPreviousLogs
  <2>4. ItemFits("PreviousLogs")'
    <3> DEFINE it == Item(failure, "PreviousLogs", broken)
    <3>1. /\ it.required <=> "PreviousLogs" \in Required(failure)
          /\ it.required => it.status # "NotApplicable"
      BY ItemTells, Zenon
    <3> QED
      BY <2>2, <2>3, <3>1, Zenon DEF ItemFits
  <2> QED
    BY <2>2, <2>3, <2>4 DEF PackageKept
<1>6. CASE ReadTheOthers
  <2>1. PICK broken : items' = [k \in Kinds |-> IF k = "PreviousLogs" THEN items[k]
                                               ELSE Item(failure, k, k \in broken)]
    BY <1>6 DEF ReadTheOthers
  <2>2. stage = "previous read" /\ stage' = "Enriched" /\ failure' = failure
    BY <1>6 DEF ReadTheOthers
  <2>3. DOMAIN items' = Kinds
    BY <2>1
  <2>4. ASSUME NEW k \in Kinds
        PROVE  ItemFits(k)' /\ (items'[k].status = "Collected" => k \in answered')
    <3>1. items'[k].status = "Collected" => k \in answered'
      BY <1>6 DEF ReadTheOthers
    <3>2. CASE k = "PreviousLogs"
      <4>1. items'[k] = items[k]
        BY <2>1, <3>2
      <4> QED
        BY <2>2, <3>1, <3>2, <4>1 DEF PackageKept, ItemFits
    <3>3. CASE k # "PreviousLogs"
      <4>1. items'[k] = Item(failure, k, k \in broken)
        BY <2>1, <3>3
      <4> QED
        <5> DEFINE it == Item(failure, k, k \in broken)
        <5>1. /\ it.required <=> k \in Required(failure)
              /\ it.required => it.status # "NotApplicable"
          BY ItemTells, Zenon
        <5> QED
          BY <2>2, <3>1, <4>1, <5>1, Zenon DEF ItemFits
    <3> QED
      BY <3>2, <3>3
  <2> QED
    BY <2>2, <2>3, <2>4 DEF PackageKept
<1>7. CASE AdvanceWithoutPod
  BY <1>7 DEF AdvanceWithoutPod, PackageKept, ItemsWithoutPod
<1>8. CASE Begin
  BY <1>8 DEF Begin, PackageKept, ItemFits, ItemsWithoutPod
<1>9. ASSUME NEW k \in Kinds, ToolAnswers(k) \/ ToolFails(k)
      PROVE  PackageKept'
  BY <1>9 DEF ToolAnswers, ToolFails, PackageKept, ItemFits, ItemsWithoutPod
<1>10. CASE ToolDenied \/ Accept
  BY <1>10 DEF ToolDenied, Accept, PackageKept, ItemFits, ItemsWithoutPod
<1>11. CASE UNCHANGED vars
  BY <1>11 DEF vars, PackageKept, ItemFits, ItemsWithoutPod
<1> QED
  BY <1>1, <1>2, <1>3, <1>4, <1>5, <1>6, <1>7, <1>8, <1>9, <1>10, <1>11 DEF Next

\* Every step keeps the requirements.
LEMMA RequirementsStep ==
  ASSUME TypeOK, PackageKept, RequirementsKept, [Next]_vars
  PROVE  RequirementsKept'
<1> USE DEF evidenceVars, agentVars
<1>1. CASE PodChanges \/ Detect \/ Restarts \/ ExitsAgain \/ Target \/ ReadPreviousLogs
           \/ AdvanceWithoutPod
  <2>1. reqs' = reqs /\ stage' \notin {"running", "concluded"}
    BY <1>1 DEF PodChanges, Detect, Restarts, ExitsAgain, Target, ReadPreviousLogs,
                AdvanceWithoutPod, Collecting
  <2> QED
    BY <2>1 DEF RequirementsKept
<1>2. CASE ReadTheOthers
  <2>1. reqs' = reqs /\ stage' = "Enriched"
    BY <1>2 DEF ReadTheOthers
  <2> QED
    BY <2>1 DEF RequirementsKept
<1>3. CASE Begin
  <2> DEFINE need == {x \in DOMAIN items : items[x].required}
  <2>1. /\ stage = "Enriched" /\ stage' = "running" /\ reqs' = BuildInput
        /\ items' = items /\ failure' = failure /\ answered' = answered
    BY <1>3 DEF Begin
  <2>2. DOMAIN reqs' = need /\ \A k \in need : reqs'[k] = RequirementOf(items[k])
    BY <2>1 DEF BuildInput
  <2>3. reqs' \in [DOMAIN reqs' -> Requirement]
    BY <2>1 DEF BuildInput, RequirementOf, Requirement
  <2>4. \A k \in need : items[k].status # "NotApplicable"
    BY <2>1 DEF PackageKept, ItemFits, ItemsWithoutPod
  <2>5. \A k \in need : items[k].status \in {"Collected", "Unavailable", "NotApplicable"}
    BY DEF TypeOK
  <2>6. \A k \in DOMAIN reqs' : reqs'[k].collected \/ ~reqs'[k].obtainable
    <3>1. ASSUME NEW k \in need
          PROVE  RequirementOf(items[k]).collected \/ ~RequirementOf(items[k]).obtainable
      <4>1. items[k].status = "Collected" \/ items[k].status = "Unavailable"
        BY <2>4, <2>5, <3>1
      <4> QED
        BY <4>1 DEF RequirementOf
    <3> HIDE DEF need
    <3> QED
      BY <2>2, <3>1
  <2>7. ASSUME DOMAIN items = Kinds
        PROVE  /\ DOMAIN reqs' = Required(failure)
               /\ \A k \in DOMAIN reqs' : reqs'[k].collected => k \in answered
    <3>1. \A k \in Kinds : ItemFits(k) /\ (items[k].status = "Collected" => k \in answered)
      BY <2>1, <2>7, WithoutPodIsPartial DEF PackageKept
    <3>2. Required(failure) \subseteq Kinds
      BY DEF Required, Kinds
    <3>3. need = Required(failure)
      BY <2>7, <3>1, <3>2 DEF ItemFits
    <3> QED
      <4>1. \A k \in need : RequirementOf(items[k]).collected => items[k].status = "Collected"
        BY DEF RequirementOf
      <4>2. \A k \in need : k \in Kinds
        BY <2>7
      <4> HIDE DEF need
      <4> QED
        BY <2>2, <3>1, <3>3, <4>1, <4>2
  <2> HIDE DEF need
  <2> QED
    BY <2>1, <2>3, <2>6, <2>7 DEF RequirementsKept
<1>4. ASSUME NEW k \in Kinds, ToolAnswers(k)
      PROVE  RequirementsKept'
  <2>1. /\ stage = "running" /\ stage' = "running" /\ items' = items /\ failure' = failure
        /\ answered' = answered \cup {k}
        /\ reqs' = IF k \in DOMAIN reqs THEN [reqs EXCEPT ![k].collected = TRUE] ELSE reqs
    BY <1>4 DEF ToolAnswers
  <2>2. reqs' \in [DOMAIN reqs -> Requirement] /\ DOMAIN reqs' = DOMAIN reqs
    BY <2>1 DEF RequirementsKept, Requirement
  <2>3. \A j \in DOMAIN reqs :
          /\ j # k => reqs'[j] = reqs[j]
          /\ j = k => reqs'[j].collected
    BY <2>1 DEF RequirementsKept, Requirement
  <2> QED
    BY <2>1, <2>2, <2>3 DEF RequirementsKept
<1>5. ASSUME NEW k \in Kinds, ToolFails(k)
      PROVE  RequirementsKept'
  <2>1. /\ stage = "running" /\ stage' = "running" /\ items' = items /\ failure' = failure
        /\ answered' = answered
        /\ reqs' = IF k \in DOMAIN reqs /\ ~reqs[k].collected
                   THEN [reqs EXCEPT ![k].obtainable = FALSE] ELSE reqs
    BY <1>5 DEF ToolFails
  <2>2. reqs' \in [DOMAIN reqs -> Requirement] /\ DOMAIN reqs' = DOMAIN reqs
    BY <2>1 DEF RequirementsKept, Requirement
  <2>3. \A j \in DOMAIN reqs :
          /\ reqs'[j].collected = reqs[j].collected
          /\ reqs'[j].obtainable => reqs[j].obtainable
    BY <2>1 DEF RequirementsKept, Requirement
  <2> QED
    BY <2>1, <2>2, <2>3 DEF RequirementsKept
<1>6. CASE ToolDenied
  BY <1>6 DEF ToolDenied, RequirementsKept
<1>7. CASE Accept
  <2>1. /\ stage = "running" /\ stage' = "concluded" /\ items' = items /\ failure' = failure
        /\ answered' = answered /\ reqs' = reqs
        /\ degraded' = (\E k \in DOMAIN reqs : ~reqs[k].collected)
    BY <1>7 DEF Accept
  <2> QED
    BY <2>1 DEF RequirementsKept
<1>8. CASE UNCHANGED vars
  BY <1>8 DEF vars, RequirementsKept
<1> QED
  BY <1>1, <1>2, <1>3, <1>4, <1>5, <1>6, <1>7, <1>8 DEF Next

\* Every step keeps the rule about histories.
LEMMA HistoryStep ==
  ASSUME TypeOK, PackageKept, HistoryKept, [Next]_vars
  PROVE  HistoryKept'
<1> USE DEF evidenceVars, agentVars
<1>1. CASE Detect
  BY <1>1 DEF Detect, PackageKept, HistoryKept
<1>2. CASE ReadTheOthers
  <2>1. PICK broken : items' = [k \in Kinds |-> IF k = "PreviousLogs" THEN items[k]
                                               ELSE Item(failure, k, k \in broken)]
    BY <1>2 DEF ReadTheOthers
  <2>2. "RolloutHistory" \in Kinds
    BY DEF Kinds
  <2>3. items'["RolloutHistory"] = Item(failure, "RolloutHistory", "RolloutHistory" \in broken)
    BY <2>1, <2>2
  <2>4. Gather(ns, "RolloutHistory") = RolloutHistory(ns)
    BY DEF Gather
  <2>5. RolloutHistory(ns).text # <<>> => ns.owner = "Deployment"
    BY DEF RolloutHistory, Error
  <2>6. "RolloutHistory" \in answered' => items'["RolloutHistory"].status = "Collected"
    BY <1>2 DEF ReadTheOthers
  <2>7. items'["RolloutHistory"].status = "Collected" => Gather(ns, "RolloutHistory").text # <<>>
    <3> DEFINE it == Item(failure, "RolloutHistory", "RolloutHistory" \in broken)
    <3>1. it.status = "Collected" => Gather(ns, "RolloutHistory").text # <<>>
      BY ItemTells, Zenon
    <3> HIDE DEF it
    <3> QED
      BY <2>3, <3>1 DEF it
  <2>8. ns' = ns
    BY <1>2 DEF ReadTheOthers
  <2> QED
    BY <2>4, <2>5, <2>6, <2>7, <2>8 DEF HistoryKept
<1>3. ASSUME NEW k \in Kinds, ToolAnswers(k)
      PROVE  HistoryKept'
  <2>1. answered' = answered \cup {k} /\ ns' = ns /\ ToolCanAnswer(k)
    BY <1>3 DEF ToolAnswers
  <2>2. ASSUME k = "RolloutHistory"
        PROVE  ns.owner = "Deployment"
    <3>1. PICK w \in Namespaces : w.owner = ns.owner /\ Gather(w, "RolloutHistory").ok
      BY <2>1, <2>2 DEF ToolCanAnswer
    <3>2. Gather(w, "RolloutHistory") = RolloutHistory(w)
      BY DEF Gather
    <3>3. RolloutHistory(w).ok => w.owner = "Deployment"
      BY DEF RolloutHistory, Error
    <3> QED
      BY <3>1, <3>2, <3>3
  <2> QED
    BY <2>1, <2>2 DEF HistoryKept
<1>4. CASE UNCHANGED <<ns, answered>>
  BY <1>4 DEF HistoryKept
<1>5. PodChanges \/ Restarts \/ ExitsAgain \/ Target \/ ReadPreviousLogs \/ AdvanceWithoutPod
      \/ Begin \/ (\E k \in Kinds : ToolFails(k)) \/ ToolDenied \/ Accept \/ UNCHANGED vars
      => UNCHANGED <<ns, answered>>
  BY Zenon DEF PodChanges, Restarts, ExitsAgain, Target, ReadPreviousLogs, AdvanceWithoutPod, Begin,
               ToolFails, ToolDenied, Accept, vars
<1> QED
  BY <1>1, <1>2, <1>3, <1>4, <1>5 DEF Next

-----------------------------------------------------------------------------
(* The theorems about the gate.                                            *)

\* What every reachable state satisfies.
EvidenceInv == TypeOK /\ ReasonsFit /\ PackageKept /\ RequirementsKept /\ HistoryKept

\* A new pod and nothing collected yet.
LEMMA EvidenceInit ==
  ASSUME Init
  PROVE  EvidenceInv
<1>1. PICK policy \in RestartPolicies, pending \in {-1, 0} :
        pod = [deleting |-> FALSE, evicted |-> FALSE, pending |-> pending, restart |-> policy,
               containers |-> [i \in Containers |-> NewContainer]]
  BY DEF Init, PodInit
<1>2. NewContainer \in Status
  BY ClassificationAssumption DEF NewContainer, Status, WaitingReasons
<1>3. PodTypeOK
  BY <1>1, <1>2, ClassificationAssumption DEF PodTypeOK, Pod
<1>4. ReasonsFit
  BY <1>1 DEF ReasonsFit, NewContainer, WaitingReasons
<1>5. ns \in Namespaces
  BY CollectorAssumption DEF Init
<1>6. DOMAIN Nothing = {} /\ Nothing \in [{} -> Requirement]
  BY DEF Nothing
<1>7. facts.termination.reason = Unset /\ facts.waiting = Unset
  BY DEF Init, NoFacts
<1>8. calls \in 0 .. MaxToolCalls
  BY SufficiencyAssumption DEF Init
<1>9. TypeOK
  BY <1>3, <1>5, <1>6, <1>7, <1>8 DEF Init, TypeOK
<1>10. PackageKept /\ RequirementsKept /\ HistoryKept
  BY <1>6 DEF Init, PackageKept, RequirementsKept, HistoryKept
<1> QED
  BY <1>4, <1>9, <1>10 DEF EvidenceInv

\* Every reachable state satisfies them.
LEMMA EvidenceAlways == Spec => []EvidenceInv
<1>1. EvidenceInv /\ [Next]_vars => EvidenceInv'
  BY TypesStep, PackageStep, RequirementsStep, HistoryStep DEF EvidenceInv
<1> QED
  BY <1>1, EvidenceInit, PTL DEF Spec

\* Pod, package and requirements always have their types, whatever the cluster
\* does to the container while the evidence is read.
THEOREM SufficiencyTypeCorrect == Spec => []TypeOK
<1>1. EvidenceInv => TypeOK
  BY DEF EvidenceInv
<1> QED
  BY <1>1, EvidenceAlways, PTL

\* A conclusion that does not call itself degraded about a pod whose evidence was
\* collected rests on an answer for every kind of evidence that the matrix
\* requires (buildInput, accept).
THEOREM AlwaysAnswered == Spec => []UndegradedIsAnswered
<1>1. EvidenceInv => UndegradedIsAnswered
  BY DEF EvidenceInv, RequirementsKept, UndegradedIsAnswered
<1> QED
  BY <1>1, EvidenceAlways, PTL

\* A crash of a pod that no Deployment owns is never concluded undegraded: the
\* matrix requires a history that rolloutHistory refuses to such a workload, to
\* the collector and to the agent's tool alike.
THEOREM AlwaysDegradedWithoutHistory == Spec => []CrashWithoutHistoryIsDegraded
<1>1. ASSUME EvidenceInv, stage = "concluded", DOMAIN items = Kinds,
             failure \in {"CrashLoopBackOff", "OOMKilled"}, ns.owner # "Deployment"
      PROVE  degraded
  <2>1. "RolloutHistory" \in Required(failure)
    BY <1>1 DEF Required
  <2>2. "RolloutHistory" \notin answered
    BY <1>1 DEF EvidenceInv, HistoryKept
  <2>3. /\ DOMAIN reqs = Required(failure)
        /\ \A k \in DOMAIN reqs : reqs[k].collected => k \in answered
        /\ degraded <=> \E k \in DOMAIN reqs : ~reqs[k].collected
    BY <1>1 DEF EvidenceInv, RequirementsKept
  <2> QED
    BY <2>1, <2>2, <2>3
<1>2. EvidenceInv => CrashWithoutHistoryIsDegraded
  BY <1>1 DEF CrashWithoutHistoryIsDegraded
<1> QED
  BY <1>2, EvidenceAlways, PTL

\* The sufficiency gate never holds a submission back with the requirements that
\* buildInput derives, however the tools answer.
THEOREM NeverLeftToDemand == Spec => []NothingLeftToDemand
<1>1. EvidenceInv => NothingLeftToDemand
  BY DEF EvidenceInv, RequirementsKept, NothingLeftToDemand, Gate, MissingObtainable
<1> QED
  BY <1>1, EvidenceAlways, PTL

-----------------------------------------------------------------------------
(* The theorems about Classify.                                            *)

\* A pod whose containers all run and are ready is reported for nothing but an
\* eviction or a memory kill on record, for every number of containers, probe and
\* age.
THEOREM AlwaysHealthyButForTheRecord == Spec => []HealthyButForTheRecord
<1>1. ASSUME TypeOK, pod.pending = -1, ~pod.evicted,
             \A i \in Containers : pod.containers[i].state = "running" /\ pod.containers[i].ready
      PROVE  \/ Classify(pod) = NoSignal
             \/ /\ Classify(pod).type = "OOMKilled"
                /\ pod.containers[Classify(pod).container].last = "OOMKilled"
  <2>1. ~Unschedulable(pod)
    BY <1>1, ClassificationAssumption DEF Unschedulable
  <2>2. \A i \in Containers : ClassifyContainer(pod, i) # None =>
          /\ ClassifyContainer(pod, i) = "OOMKilled"
          /\ pod.containers[i].last = "OOMKilled"
    BY <1>1 DEF ClassifyContainer, KilledForMemory, ProbeFailure
  <2>3. ASSUME NEW i \in Containers, ClassifyContainer(pod, i) # None,
               Classify(pod) = Signal(ClassifyContainer(pod, i), i)
        PROVE  /\ Classify(pod).type = "OOMKilled"
               /\ pod.containers[Classify(pod).container].last = "OOMKilled"
    BY <2>2, <2>3 DEF Signal
  <2> QED
    BY <1>1, <2>1, <2>3, ClassifyAnswers DEF TypeOK
<1>2. TypeOK => HealthyButForTheRecord
  BY <1>1 DEF HealthyButForTheRecord
<1> QED
  BY <1>2, SufficiencyTypeCorrect, PTL

\* A step of the pod leaves a memory kill on record until the container exits again.
LEMMA KillStaysOnRecord ==
  ASSUME PodTypeOK, PodNext, NEW i \in Containers, LatestExit(pod.containers[i]) = "OOMKilled",
         ~(pod.containers[i].state = "running" /\ pod'.containers[i].state = "terminated")
  PROVE  KilledForMemory(pod'.containers[i])
<1>1. pod \in Pod /\ pod.containers \in [Containers -> Status] /\ pod.containers[i] \in Status
  BY DEF PodTypeOK, Pod
<1>2. KilledForMemory(pod.containers[i])
  BY DEF LatestExit, KilledForMemory
<1>3. CASE pod'.containers[i] = pod.containers[i]
  BY <1>2, <1>3
<1>4. CASE Waits \/ Placed \/ Evicted \/ Deleted
  <2>1. pod'.containers = pod.containers
    BY <1>1, <1>4 DEF Waits, Placed, Evicted, Deleted, Pod
  <2> QED
    BY <1>3, <2>1
<1>5. ASSUME NEW j \in Containers, ContainerNext(j)
      PROVE  KilledForMemory(pod'.containers[i])
  <2> DEFINE cs == pod.containers[j]
  <2>1. ASSUME NEW new, Becomes(j, new)
        PROVE  pod'.containers[i] = IF i = j THEN new ELSE pod.containers[i]
    BY <1>1, <2>1 DEF Becomes, Pod
  <2>2. CASE i # j
    <3>1. \E new : Becomes(j, new)
      BY <1>5 DEF ContainerNext, Held, Starts, Runs, ProbeAnswers, Exits, BacksOff
    <3> QED
      BY <1>3, <2>1, <2>2, <3>1, SMTT(30)
  <2>3. CASE i = j
    <3>1. cs \in Status
      BY <1>1
    <3>2. LatestExit(cs) = "OOMKilled"
      BY <2>3
    <3>3. ASSUME NEW r \in WaitingReasons, Held(j, r)
          PROVE  KilledForMemory(pod'.containers[i])
      <4>1. Becomes(j, [cs EXCEPT !.reason = r]) /\ cs.state = "waiting"
        BY <3>3 DEF Held
      <4>2. pod'.containers[i] = [cs EXCEPT !.reason = r]
        BY <2>1, <2>3, <4>1
      <4> HIDE DEF cs
      <4> QED
        BY <3>1, <3>2, <4>1, <4>2 DEF LatestExit, KilledForMemory, Status
    <3>4. CASE Starts(j)
      <4> DEFINE last == IF cs.state = "terminated" THEN cs.reason ELSE cs.last
                 new == [state |-> "running", reason |-> Unset, ready |-> Probes[j] = NoProbe,
                         age |-> 0, last |-> last]
      <4>1. Becomes(j, new)
        BY <3>4 DEF Starts
      <4>2. last = "OOMKilled"
        BY <3>2 DEF LatestExit
      <4>3. new.last = last
        OBVIOUS
      <4> HIDE DEF new, last
      <4> QED
        BY <2>1, <2>3, <4>1, <4>2, <4>3 DEF KilledForMemory
    <3>5. CASE Runs(j)
      <4>1. PICK a : Becomes(j, [cs EXCEPT !.age = a]) /\ cs.state = "running"
        BY <3>5 DEF Runs
      <4>2. pod'.containers[i] = [cs EXCEPT !.age = a]
        BY <2>1, <2>3, <4>1
      <4> HIDE DEF cs
      <4> QED
        BY <3>1, <3>2, <4>1, <4>2 DEF LatestExit, KilledForMemory, Status
    <3>6. CASE ProbeAnswers(j)
      <4>1. Becomes(j, [cs EXCEPT !.ready = ~cs.ready]) /\ cs.state = "running"
        BY <3>6 DEF ProbeAnswers
      <4>2. pod'.containers[i] = [cs EXCEPT !.ready = ~cs.ready]
        BY <2>1, <2>3, <4>1
      <4> HIDE DEF cs
      <4> QED
        BY <3>1, <3>2, <4>1, <4>2 DEF LatestExit, KilledForMemory, Status
    <3>7. ASSUME NEW r \in ExitReasons, Exits(j, r)
          PROVE  FALSE
      <4> DEFINE new == [cs EXCEPT !.state = "terminated", !.reason = r, !.ready = FALSE, !.age = 0]
      <4>1. Becomes(j, new) /\ cs.state = "running"
        BY <3>7 DEF Exits
      <4>2. pod'.containers[i] = new
        BY <2>1, <2>3, <4>1
      <4> HIDE DEF cs
      <4>3. new.state = "terminated"
        BY <3>1 DEF Status
      <4> QED
        BY <2>3, <4>1, <4>2, <4>3 DEF cs
    <3>8. CASE BacksOff(j)
      <4> DEFINE new == [cs EXCEPT !.state = "waiting", !.reason = "CrashLoopBackOff",
                                   !.last = cs.reason]
      <4>1. Becomes(j, new) /\ cs.state = "terminated"
        BY <3>8 DEF BacksOff
      <4>2. pod'.containers[i] = new
        BY <2>1, <2>3, <4>1
      <4> HIDE DEF cs
      <4>3. new.last = cs.reason
        BY <3>1 DEF Status
      <4> QED
        BY <3>2, <4>1, <4>2, <4>3 DEF LatestExit, KilledForMemory
    <3> QED
      BY <1>5, <3>3, <3>4, <3>5, <3>6, <3>7, <3>8 DEF ContainerNext
  <2> QED
    BY <2>2, <2>3
<1> QED
  BY <1>4, <1>5 DEF PodNext

\* A memory kill keeps its classification through back-off and restart until the
\* container exits again, in whatever order the kubelet reports the states.
THEOREM AlwaysStableAcrossRestarts == Spec => StableAcrossRestarts
<1>1. ASSUME TypeOK, [Next]_vars, NEW i \in Containers, stage' = "watched",
             LatestExit(pod.containers[i]) = "OOMKilled",
             ~(pod.containers[i].state = "running" /\ pod'.containers[i].state = "terminated")
      PROVE  ClassifyContainer(pod', i) = "OOMKilled"
  <2>1. (PodNext /\ PodChanges) \/ pod' = pod
    <3> USE DEF evidenceVars, agentVars
    <3>1. CASE PodChanges
      BY <3>1 DEF PodChanges
    <3>2. ~(Detect \/ Target \/ ReadPreviousLogs \/ ReadTheOthers \/ AdvanceWithoutPod \/ Begin \/ Accept)
      BY <1>1 DEF Detect, Target, ReadPreviousLogs, ReadTheOthers, AdvanceWithoutPod, Begin, Accept
    <3>3. ~(Restarts \/ ExitsAgain)
      BY <1>1 DEF Restarts, ExitsAgain, Collecting
    <3>4. ASSUME NEW k \in Kinds
          PROVE  ~(ToolAnswers(k) \/ ToolFails(k))
      BY <1>1 DEF ToolAnswers, ToolFails
    <3>5. ~ToolDenied
      BY <1>1 DEF ToolDenied
    <3>6. CASE UNCHANGED vars
      BY <3>6 DEF vars
    <3> QED
      BY <1>1, <3>1, <3>2, <3>3, <3>4, <3>5, <3>6 DEF Next
  <2>2. KilledForMemory(pod'.containers[i])
    <3>1. CASE PodNext
      BY <1>1, <3>1, KillStaysOnRecord DEF TypeOK
    <3>2. CASE pod' = pod
      BY <1>1, <3>2 DEF LatestExit, KilledForMemory
    <3> QED
      BY <2>1, <3>1, <3>2
  <2> QED
    BY <2>2 DEF ClassifyContainer
<1>2. TypeOK /\ [Next]_vars =>
        [\A i \in Containers :
           /\ stage' = "watched" /\ LatestExit(pod.containers[i]) = "OOMKilled"
           /\ ~(pod.containers[i].state = "running" /\ pod'.containers[i].state = "terminated")
           => ClassifyContainer(pod', i) = "OOMKilled"]_vars
  BY <1>1
<1> QED
  BY <1>2, SufficiencyTypeCorrect, PTL DEF Spec, StableAcrossRestarts
=============================================================================
