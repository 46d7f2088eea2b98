------------------------------ MODULE Collector ------------------------------
(***************************************************************************)
(* The evidence package: the requirement matrix (internal/evidence/        *)
(* matrix.go) and what the collector reads for each kind of evidence       *)
(* (collector.go), given the status of the pod and the namespace around    *)
(* it.  A text is the sequence of its lines: the lines of a log, the       *)
(* events, or one line for a JSON document.  Limits in bytes are limits in *)
(* lines.                                                                  *)
(***************************************************************************)
EXTENDS Classification, FiniteSets

CONSTANTS Namespaces,    \* what a pod may find around itself
          LogTailLines,  \* 100
          EventLimit,    \* 50
          ContentLimit   \* 8192 bytes

VARIABLES ns,         \* the namespace, and what the pod declares
          container,  \* Target.Container, 0 for a failure of the whole pod
          behind      \* history: instances started after the one that failed

Kinds == {"PreviousLogs", "CurrentLogs", "Events", "WorkloadSpec", "RolloutHistory",
          "ConfigReferences", "ServiceEndpoints", "NodeStatus", "SiblingPods", "ResourceUsage"}
FailureTypes == {"CrashLoopBackOff", "OOMKilled", "ImagePullBackOff", "CreateContainerConfigError",
                 "RunContainerError", "Unschedulable", "ProbeFailure", "Evicted"}

\* owner: kind of the workload; found: it still exists; labels: those of the pod;
\* others: the label sets of the other pods; refs: where the pod names ConfigMaps
\* and Secrets; services: their selectors; events: their times, in the server's
\* order; output: lines an instance of the container prints.
Namespace ==
  [owner: {"Deployment", "StatefulSet", "DaemonSet", "ReplicaSet", "Pod"}, found: BOOLEAN,
   labels: SUBSET STRING,
   others: SUBSET SUBSET STRING,
   refs: SUBSET {"envFrom", "env", "volume", "init", "projected"},
   services: SUBSET SUBSET STRING,
   node: BOOLEAN, metrics: BOOLEAN, events: Seq(Nat), output: Nat]

ASSUME CollectorAssumption ==
  /\ Namespaces \subseteq Namespace /\ Namespaces # {}
  /\ {LogTailLines, EventLimit, ContentLimit} \subseteq Nat \ {0}

-----------------------------------------------------------------------------
(* The matrix.                                                             *)

\* The kinds that are Required for a failure type ...
Required(type) ==
  {"Events", "WorkloadSpec"} \cup
  CASE type = "CrashLoopBackOff" -> {"PreviousLogs", "RolloutHistory"}
    [] type = "OOMKilled" -> {"PreviousLogs", "RolloutHistory", "ResourceUsage"}
    [] type = "CreateContainerConfigError" -> {"ConfigReferences"}
    [] type = "Unschedulable" -> {"NodeStatus"}
    [] type = "ProbeFailure" -> {"CurrentLogs", "ServiceEndpoints"}
    [] type = "Evicted" -> {"NodeStatus", "SiblingPods"}
    [] OTHER -> {}

\* Mutation: the running instance is of no interest after a crash.
OpportunisticNoCurrent(type) ==
  CASE type \in {"CrashLoopBackOff", "OOMKilled"} -> {"SiblingPods"}
    [] type \in {"ImagePullBackOff", "CreateContainerConfigError"} -> {"RolloutHistory"}
    [] type = "RunContainerError" -> {"ConfigReferences"}
    [] type = "Unschedulable" -> {"SiblingPods"}
    [] type = "ProbeFailure" -> {"PreviousLogs", "RolloutHistory"}
    [] type = "Evicted" -> {"PreviousLogs", "ResourceUsage"}

\* ... and those that are Opportunistic; all others are NotApplicable.
Opportunistic(type) ==
  CASE type \in {"CrashLoopBackOff", "OOMKilled"} -> {"CurrentLogs", "SiblingPods"}
    [] type \in {"ImagePullBackOff", "CreateContainerConfigError"} -> {"RolloutHistory"}
    [] type = "RunContainerError" -> {"ConfigReferences"}
    [] type = "Unschedulable" -> {"SiblingPods"}
    [] type = "ProbeFailure" -> {"PreviousLogs", "RolloutHistory"}
    [] type = "Evicted" -> {"PreviousLogs", "ResourceUsage"}

Applicable(type) == Required(type) \cup Opportunistic(type)

-----------------------------------------------------------------------------
(* gather, for each kind: an answer or an error.                           *)

Answer(text) == [ok |-> TRUE, text |-> text]
Error == [ok |-> FALSE, text |-> <<>>]

First(s, n) == SubSeq(s, 1, IF Len(s) < n THEN Len(s) ELSE n)
Last(s, n) == SubSeq(s, IF Len(s) > n THEN Len(s) - n + 1 ELSE 1, Len(s))
Descending(S) ==
  [i \in 1 .. Cardinality(S) |-> CHOOSE x \in S : Cardinality({y \in S : y > x}) = i - 1]

\* The kubelet (external): what it has the output of.  A container that waits for
\* its restart is asked about the instance that exited.
HasLog(cs, previous) == cs.last # Unset \/ (~previous /\ cs.state # "waiting")
InstanceLogged(cs, previous) == IF previous /\ cs.state # "waiting" THEN behind - 1 ELSE behind
Printed(instance, n) == [k \in 1 .. n |-> [of |-> instance, line |-> k]]

\* logs; without a container's name the request is refused when there are several.
Logs(w, previous) ==
  LET cs == pod.containers[IF container = 0 THEN 1 ELSE container]
  IN  IF (container = 0 /\ Cardinality(Containers) > 1) \/ ~HasLog(cs, previous) THEN Error
      ELSE Answer(Last(Printed(InstanceLogged(cs, previous), w.output), LogTailLines))

\* Mutation: the server's order is kept.
EventsUnsorted(w) == Answer(First(w.events, EventLimit))

\* events: the server's first EventLimit, which are not the latest, the latest of
\* them first.
Events(w) ==
  LET listed == First(w.events, EventLimit)
  IN  Answer(Descending({listed[i] : i \in DOMAIN listed}))

\* workloadSpec, podTemplate: the pod's own template for other owners.
WorkloadSpec(w) ==
  IF w.owner \in {"Deployment", "StatefulSet", "DaemonSet"} /\ ~w.found THEN Error
  ELSE Answer(<<w.owner>>)

\* Mutation: other workloads have an empty history.
RolloutHistoryEmpty(w) == IF w.found THEN Answer(<<"revisions">>) ELSE Error

\* rolloutHistory: the latest revisions of a Deployment.
RolloutHistory(w) ==
  IF w.owner = "Deployment" /\ w.found THEN Answer(<<"revisions">>) ELSE Error

\* configReferences: what the environment of the containers and the volumes name,
\* not what init containers and projected volumes name.
ConfigReferences(w) ==
  IF w.refs \cap {"envFrom", "env", "volume"} = {} THEN Error ELSE Answer(<<"references">>)

\* serviceEndpoints: a Service without a selector selects nothing.
ServiceEndpoints(w) ==
  LET matched == {s \in w.services : s # {} /\ s \subseteq w.labels}
  IN  IF matched = {} THEN Error ELSE Answer(<<matched>>)

\* nodeStatus: all nodes for a pod that was not placed.
NodeStatus(w) ==
  IF pod.pending >= 0 THEN Answer(<<"all nodes">>)
  ELSE IF w.node THEN Answer(<<"node">>) ELSE Error

\* siblingPods: the pods that have all labels of this one.
Siblings(w) == {labels \in w.others : w.labels \subseteq labels}
SiblingPods(w) == IF Siblings(w) = {} THEN Error ELSE Answer(<<Siblings(w)>>)

\* resourceUsage
ResourceUsage(w) == IF w.metrics THEN Answer(<<"usage">>) ELSE Error

Gather(w, kind) ==
  CASE kind = "PreviousLogs" -> Logs(w, TRUE)
    [] kind = "CurrentLogs" -> Logs(w, FALSE)
    [] kind = "Events" -> Events(w)
    [] kind = "WorkloadSpec" -> WorkloadSpec(w)
    [] kind = "RolloutHistory" -> RolloutHistory(w)
    [] kind = "ConfigReferences" -> ConfigReferences(w)
    [] kind = "ServiceEndpoints" -> ServiceEndpoints(w)
    [] kind = "NodeStatus" -> NodeStatus(w)
    [] kind = "SiblingPods" -> SiblingPods(w)
    [] kind = "ResourceUsage" -> ResourceUsage(w)

-----------------------------------------------------------------------------
(* Collect.                                                                *)

\* Truncate keeps the tail.
Truncate(text) == Last(text, ContentLimit)

\* One round of the loop.  broken: a call of the API fails.
Item(type, kind, broken) ==
  LET answer == IF broken THEN Error ELSE Gather(ns, kind)
      item(status, text) ==
        [status |-> status, required |-> kind \in Required(type), broken |-> broken, content |-> text]
  IN  CASE kind \notin Applicable(type) -> item("NotApplicable", <<>>)
        [] kind \in Applicable(type) /\ answer.text # <<>> ->
             item("Collected", Truncate(answer.text))
        [] OTHER -> item("Unavailable", <<>>)

\* Mutation: the current state is asked first.
TerminationFactCurrent(cs) ==
  IF cs.state = "terminated" THEN [reason |-> cs.reason, of |-> behind]
  ELSE IF cs.last # Unset THEN [reason |-> cs.last, of |-> InstanceLogged(cs, TRUE)]
  ELSE [reason |-> Unset, of |-> 0]

\* populateContainerFacts: the last termination, then the current one.  of is the
\* instance it belongs to.
TerminationFact(cs) ==
  IF cs.last # Unset THEN [reason |-> cs.last, of |-> InstanceLogged(cs, TRUE)]
  ELSE IF cs.state = "terminated" THEN [reason |-> cs.reason, of |-> behind]
  ELSE [reason |-> Unset, of |-> 0]
Facts ==
  LET cs == pod.containers[IF container = 0 THEN 1 ELSE container]
  IN  [termination |-> TerminationFact(cs),
       waiting |-> IF pod.pending = -1 /\ cs.state = "waiting" THEN cs.reason ELSE Unset]
=============================================================================
