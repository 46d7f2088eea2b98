--------------------------- MODULE Classification ---------------------------
(***************************************************************************)
(* detector.Classify (internal/detector/detector.go) on the statuses that  *)
(* the kubelet and the scheduler (external) bring about: containers wait,  *)
(* run, become ready, exit, back off and restart, and of each only the     *)
(* last termination is remembered.                                         *)
(***************************************************************************)
EXTENDS Integers, Sequences

CONSTANTS Probes,          \* readiness probe of each container, or NoProbe
          RestartPolicies, \* restart policies to consider
          Ages,            \* seconds at which a status is looked at
          UnschedulableGrace, ProbeGraceBuffer,  \* 30 and 15 seconds
          DefaultProbePeriod, DefaultProbeFailureThreshold  \* 10 seconds, 3

VARIABLE pod  \* the pod as the detector reads it

Containers == DOMAIN Probes
NoProbe == [initial |-> -1, period |-> -1, threshold |-> -1]
ExitReasons == {"OOMKilled", "Error", "Completed"}

\* The reasons of waitingReasonToFailureType by the type they map to; a
\* transient reason such as ContainerCreating maps to none.
WaitingReasons == {"ContainerCreating", "CrashLoopBackOff", "ErrImagePull", "ImagePullBackOff",
                   "CreateContainerConfigError", "CreateContainerError", "RunContainerError"}
None == "None"
Unset == "unset"  \* the empty string

\* reason: why it waits or terminated; age: seconds running; last: the reason of
\* the previous termination, Unset for none.
Status == [state: {"waiting", "running", "terminated"},
           reason: WaitingReasons \cup ExitReasons \cup {Unset},
           ready: BOOLEAN, age: Ages, last: ExitReasons \cup {Unset}]

\* pending: seconds in the scheduler's verdict Unschedulable, -1 once placed.
Pod == [deleting: BOOLEAN, evicted: BOOLEAN, pending: Ages \cup {-1},
        restart: RestartPolicies, containers: [Containers -> Status]]

ASSUME ClassificationAssumption ==
  /\ Probes \in Seq([initial: Int, period: Int, threshold: Int]) /\ Probes # <<>>
  /\ RestartPolicies \subseteq {"Always", "OnFailure", "Never"}
  /\ Ages \subseteq Nat /\ 0 \in Ages
  /\ {UnschedulableGrace, ProbeGraceBuffer, DefaultProbePeriod,
      DefaultProbeFailureThreshold} \subseteq Nat

PodTypeOK == pod \in Pod

NewContainer == [state |-> "waiting", reason |-> "ContainerCreating", ready |-> FALSE,
                 age |-> 0, last |-> Unset]

\* A new pod, placed on a node or not yet.
PodInit ==
  \E policy \in RestartPolicies, pending \in {-1, 0} :
    pod = [deleting |-> FALSE, evicted |-> FALSE, pending |-> pending, restart |-> policy,
           containers |-> [i \in Containers |-> NewContainer]]

-----------------------------------------------------------------------------
(* Classify.                                                               *)

\* Mutation: the reason is taken for the type.
WaitingReasonItself(reason) == IF reason = "ContainerCreating" THEN None ELSE reason

WaitingReasonToFailureType(reason) ==
  CASE reason = "CrashLoopBackOff" -> "CrashLoopBackOff"
    [] reason \in {"ErrImagePull", "ImagePullBackOff"} -> "ImagePullBackOff"
    [] reason = "CreateContainerConfigError" -> "CreateContainerConfigError"
    [] reason \in {"CreateContainerError", "RunContainerError"} -> "RunContainerError"
    [] OTHER -> None

\* readinessBudget, for a container that has a probe: 0 or less is the default.
ReadinessBudget(probe) ==
  probe.initial
    + (IF probe.threshold <= 0 THEN DefaultProbeFailureThreshold ELSE probe.threshold)
      * (IF probe.period <= 0 THEN DefaultProbePeriod ELSE probe.period)
    + ProbeGraceBuffer

\* Mutation: a container that is ready is not let off.
ProbeFailureOf(cs, probe) ==
  cs.state = "running" /\ probe # NoProbe /\ cs.age >= ReadinessBudget(probe)

\* classifyProbeFailure
ProbeFailure(cs, probe) ==
  /\ cs.state = "running" /\ ~cs.ready
  /\ probe # NoProbe /\ cs.age >= ReadinessBudget(probe)

\* Mutation: only the current state is looked at.
KilledForMemoryNow(cs) == cs.state = "terminated" /\ cs.reason = "OOMKilled"

\* The record of the previous termination is asked first, then the current one.
KilledForMemory(cs) ==
  cs.last = "OOMKilled" \/ (cs.state = "terminated" /\ cs.reason = "OOMKilled")

\* classifyContainer: the first cause that applies, the most specific first.
ClassifyContainer(p, i) ==
  LET cs == p.containers[i]
      waiting == IF cs.state = "waiting" THEN WaitingReasonToFailureType(cs.reason) ELSE None
  IN  IF KilledForMemory(cs) THEN "OOMKilled"
      ELSE IF waiting # None THEN waiting
      ELSE IF cs.state = "terminated" /\ cs.reason # "Completed" /\ p.restart # "Never"
           THEN "CrashLoopBackOff"
      ELSE IF ProbeFailure(cs, Probes[i]) THEN "ProbeFailure"
      ELSE None

\* classifyUnschedulable
Unschedulable(p) == p.pending >= UnschedulableGrace

Signal(type, container) == [type |-> type, container |-> container]
NoSignal == Signal(None, 0)

\* A pod that was not placed has no container statuses.
Classify(p) ==
  LET failing == {i \in Containers : p.pending = -1 /\ ClassifyContainer(p, i) # None}
      first == CHOOSE i \in failing : \A j \in failing : i <= j
  IN  CASE p.deleting -> NoSignal
        [] ~p.deleting /\ p.evicted -> Signal("Evicted", 0)
        [] ~p.deleting /\ ~p.evicted /\ Unschedulable(p) -> Signal("Unschedulable", 0)
        [] ~p.deleting /\ ~p.evicted /\ ~Unschedulable(p) /\ failing # {} ->
             Signal(ClassifyContainer(p, first), first)
        [] OTHER -> NoSignal

-----------------------------------------------------------------------------
(* The kubelet and the scheduler (external).                               *)

Alive == ~pod.deleting /\ ~pod.evicted
Becomes(i, cs) == pod' = [pod EXCEPT !.containers[i] = cs]
Later(age) == {a \in Ages : a > age}

Waits == /\ Alive /\ pod.pending >= 0
         /\ \E a \in Later(pod.pending) : pod' = [pod EXCEPT !.pending = a]

Placed == Alive /\ pod.pending >= 0 /\ pod' = [pod EXCEPT !.pending = -1]

\* The image, the configuration or the runtime keeps a container from starting.
Held(i, reason) ==
  LET cs == pod.containers[i]
  IN  /\ Alive /\ pod.pending = -1 /\ cs.state = "waiting"
      /\ reason \notin {cs.reason, "CrashLoopBackOff"}
      /\ Becomes(i, [cs EXCEPT !.reason = reason])

\* The container runs, for the first time or again; without a probe it is ready.
Starts(i) ==
  LET cs == pod.containers[i]
  IN  /\ Alive /\ pod.pending = -1
      /\ \/ cs.state = "waiting"
         \/ cs.state = "terminated" /\ pod.restart = "Always"
         \/ cs.state = "terminated" /\ pod.restart = "OnFailure" /\ cs.reason # "Completed"
      /\ Becomes(i, [state |-> "running", reason |-> Unset, ready |-> Probes[i] = NoProbe, age |-> 0,
                     last |-> IF cs.state = "terminated" THEN cs.reason ELSE cs.last])

Runs(i) ==
  LET cs == pod.containers[i]
  IN  /\ Alive /\ cs.state = "running"
      /\ \E a \in Later(cs.age) : Becomes(i, [cs EXCEPT !.age = a])

ProbeAnswers(i) ==
  LET cs == pod.containers[i]
  IN  /\ Alive /\ cs.state = "running" /\ Probes[i] # NoProbe
      /\ Becomes(i, [cs EXCEPT !.ready = ~cs.ready])

Exits(i, reason) ==
  LET cs == pod.containers[i]
  IN  /\ Alive /\ cs.state = "running"
      /\ Becomes(i, [cs EXCEPT !.state = "terminated", !.reason = reason,
                               !.ready = FALSE, !.age = 0])

BacksOff(i) ==
  LET cs == pod.containers[i]
  IN  /\ Alive /\ cs.state = "terminated"
      /\ pod.restart = "Always" \/ (pod.restart = "OnFailure" /\ cs.reason # "Completed")
      /\ Becomes(i, [cs EXCEPT !.state = "waiting", !.reason = "CrashLoopBackOff",
                               !.last = cs.reason])

Evicted == Alive /\ pod.pending = -1 /\ pod' = [pod EXCEPT !.evicted = TRUE]
Deleted == ~pod.deleting /\ pod' = [pod EXCEPT !.deleting = TRUE]

ContainerNext(i) ==
  \/ \E r \in WaitingReasons : Held(i, r)
  \/ Starts(i)
  \/ Runs(i)
  \/ ProbeAnswers(i)
  \/ \E r \in ExitReasons : Exits(i, r)
  \/ BacksOff(i)

PodNext == Waits \/ Placed \/ (\E i \in Containers : ContainerNext(i)) \/ Evicted \/ Deleted
=============================================================================
