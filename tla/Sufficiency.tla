----------------------------- MODULE Sufficiency -----------------------------
(***************************************************************************)
(* What a diagnosis rests on, from the pod's status to the conclusion: the *)
(* failure type, the evidence that Collect attaches while the container    *)
(* goes on failing (collector.go) or, when the pod is gone,                *)
(* advanceWithoutPod (evidence_controller.go), what buildInput makes of it *)
(* (investigator_controller.go), and the sufficiency gate of the agent, as *)
(* far as it depends on that (investigator.go, accept).                    *)
(***************************************************************************)
EXTENDS Collector

CONSTANTS MaxToolCalls,   \* the agent's budget of tool calls
          ExcerptLimit,   \* baselineExcerptLimit, 1500 bytes
          MaxReadErrors,  \* bound: calls of the API that fail in one collection
          MaxBehind       \* bound: restarts after the failure

VARIABLES stage,     \* how far the diagnosis is
          failure,   \* spec.failureType
          items,     \* status.evidence.items, by kind
          facts,     \* the scalars of status.evidence
          moved,     \* history: what the container did during the collection
          reqs,      \* Input.Requirements, by kind
          answered,  \* history: kinds that were read without an error
          calls,     \* tool calls made
          degraded   \* Findings.Degraded

evidenceVars == <<items, facts, moved>>
agentVars == <<reqs, answered, calls, degraded>>
vars == <<pod, ns, container, behind, stage, failure, evidenceVars, agentVars>>

Requirement == [collected: BOOLEAN, obtainable: BOOLEAN]
NoFacts == [termination |-> [reason |-> Unset, of |-> 0], waiting |-> Unset]

ASSUME SufficiencyAssumption ==
  /\ {MaxToolCalls, MaxReadErrors, MaxBehind} \subseteq Nat
  /\ ExcerptLimit \in Nat \ {0}

TypeOK ==
  /\ PodTypeOK
  /\ ns \in Namespaces
  /\ container \in Containers \cup {0}
  /\ behind \in Nat
  /\ stage \in {"watched", "Detected", "targeted", "previous read", "Enriched",
                "running", "concluded"}
  /\ failure \in FailureTypes \cup {None}
  /\ DOMAIN items \subseteq Kinds
  /\ \A k \in DOMAIN items : items[k].status \in {"Collected", "Unavailable", "NotApplicable"}
  /\ facts.termination.reason \in ExitReasons \cup {Unset}
  /\ facts.waiting \in WaitingReasons \cup {Unset}
  /\ moved \in {"still", "moved", "restarted"}
  /\ DOMAIN reqs \subseteq Kinds /\ \A k \in DOMAIN reqs : reqs[k] \in Requirement
  /\ answered \subseteq Kinds
  /\ calls \in 0 .. MaxToolCalls
  /\ degraded \in BOOLEAN

Nothing == [k \in {} |-> None]

Init ==
  /\ PodInit
  /\ ns = CHOOSE w \in Namespaces : TRUE
  /\ container = 0
  /\ behind = 0
  /\ stage = "watched"
  /\ failure = None
  /\ items = Nothing
  /\ facts = NoFacts
  /\ moved = "still"
  /\ reqs = Nothing
  /\ answered = {}
  /\ calls = 0
  /\ degraded = FALSE

-----------------------------------------------------------------------------
(* Detection, and the time until the collection.                           *)

PodChanges ==
  /\ stage = "watched"
  /\ PodNext
  /\ UNCHANGED <<ns, container, behind, stage, failure, evidenceVars, agentVars>>

\* Only the container that failed matters from here on.
Focus(i) ==
  [pod EXCEPT !.containers =
     [j \in Containers |-> IF j = i THEN [pod.containers[j] EXCEPT !.age = 0, !.ready = FALSE]
                           ELSE NewContainer]]

\* The failed instance is the last that was started, unless the container has
\* been started again and the record of the exit was what counted.
StartedSince(i) ==
  IF i # 0 /\ KilledForMemory(pod.containers[i]) /\ pod.containers[i].last = "OOMKilled"
     /\ pod.containers[i].state # "waiting"
  THEN 1 ELSE 0

\* The detector looks at the pod and opens a Diagnosis.
Detect ==
  LET signal == Classify(pod)
  IN  /\ stage = "watched" /\ signal # NoSignal
      /\ failure' = signal.type
      /\ container' = signal.container
      /\ behind' = StartedSince(signal.container)
      /\ pod' = Focus(signal.container)
      /\ ns' \in Namespaces
      /\ stage' = "Detected"
      /\ UNCHANGED <<evidenceVars, agentVars>>

\* The container goes on meanwhile: it is restarted, exits, is held back.
Collecting == stage \in {"targeted", "previous read"}
Restarts ==
  /\ stage = "Detected" \/ Collecting
  /\ container # 0 /\ behind < MaxBehind
  /\ Starts(container)
  /\ behind' = behind + 1
  /\ moved' = IF Collecting THEN "restarted" ELSE moved
  /\ UNCHANGED <<ns, container, stage, failure, items, facts, agentVars>>

ExitsAgain ==
  /\ stage = "Detected" \/ Collecting
  /\ container # 0
  /\ (\E r \in ExitReasons : Exits(container, r)) \/ BacksOff(container)
  /\ moved' = IF Collecting /\ moved = "still" THEN "moved" ELSE moved
  /\ UNCHANGED <<ns, container, behind, stage, failure, items, facts, agentVars>>

-----------------------------------------------------------------------------
(* The collection: the pod from the cache, then one read after the other.  *)

Target ==
  /\ stage = "Detected"
  /\ facts' = Facts
  /\ stage' = "targeted"
  /\ UNCHANGED <<pod, ns, container, behind, failure, items, moved, agentVars>>

\* The first of allKinds.
ReadPreviousLogs ==
  /\ stage = "targeted"
  /\ \E broken \in {b \in BOOLEAN : b => "PreviousLogs" \in Applicable(failure) /\ MaxReadErrors > 0} :
       items' = [k \in {"PreviousLogs"} |-> Item(failure, k, broken)]
  /\ stage' = "previous read"
  /\ UNCHANGED <<pod, ns, container, behind, failure, facts, moved, agentVars>>

\* The others; nothing they return depends on when each is read.
Broken(kinds) == {b \in SUBSET kinds : Cardinality(b) <= MaxReadErrors}
ReadTheOthers ==
  /\ stage = "previous read"
  /\ \E broken \in Broken(Applicable(failure) \ {"PreviousLogs"}) :
       items' = [k \in Kinds |-> IF k = "PreviousLogs" THEN items[k]
                                 ELSE Item(failure, k, k \in broken)]
  /\ answered' = {k \in Kinds : items'[k].status = "Collected"}
  /\ stage' = "Enriched"
  /\ UNCHANGED <<pod, ns, container, behind, failure, facts, moved, reqs, calls, degraded>>

\* advanceWithoutPod, when the pod is gone or is another instance: the same for
\* every failure type.
ItemsWithoutPod ==
  [k \in {"PreviousLogs"} |->
     [status |-> "Unavailable", required |-> TRUE, broken |-> FALSE, content |-> <<>>]]

AdvanceWithoutPod ==
  /\ stage = "Detected"
  /\ items' = ItemsWithoutPod
  /\ stage' = "Enriched"
  /\ UNCHANGED <<pod, ns, container, behind, failure, facts, moved, agentVars>>

-----------------------------------------------------------------------------
(* The investigation.                                                      *)

\* Mutation: what was tried is taken for collected.
RequirementTried(item) ==
  [collected |-> item.status # "NotApplicable", obtainable |-> item.status # "Unavailable"]

\* buildInput
RequirementOf(item) ==
  [collected |-> item.status = "Collected", obtainable |-> item.status # "Unavailable"]
BuildInput == [k \in {x \in DOMAIN items : items[x].required} |-> RequirementOf(items[k])]

\* excerpt keeps the head.
Excerpt(text) == First(text, ExcerptLimit)

Begin ==
  /\ stage = "Enriched"
  /\ reqs' = BuildInput
  /\ pod' = Focus(0)
  /\ stage' = "running"
  /\ UNCHANGED <<ns, container, behind, failure, evidenceVars, answered, calls, degraded>>

\* Whether the tool for kind k (toolForEvidence, satisfierFor) can answer: the
\* namespace may have changed, the kind of the workload has not.  Logs may be those
\* of another pod of the workload, and empty.
ToolCanAnswer(k) ==
  \/ k \in {"PreviousLogs", "CurrentLogs"}
  \/ \E w \in Namespaces : w.owner = ns.owner /\ Gather(w, k).ok

\* recordRequirement: an answer meets the requirement, an empty one too.
ToolAnswers(k) ==
  /\ stage = "running" /\ calls < MaxToolCalls
  /\ ToolCanAnswer(k)
  /\ calls' = calls + 1
  /\ answered' = answered \cup {k}
  /\ reqs' = IF k \in DOMAIN reqs THEN [reqs EXCEPT ![k].collected = TRUE] ELSE reqs
  /\ UNCHANGED <<pod, ns, container, behind, stage, failure, evidenceVars, degraded>>

ToolFails(k) ==
  /\ stage = "running" /\ calls < MaxToolCalls
  /\ calls' = calls + 1
  /\ reqs' = IF k \in DOMAIN reqs /\ ~reqs[k].collected
             THEN [reqs EXCEPT ![k].obtainable = FALSE] ELSE reqs
  /\ UNCHANGED <<pod, ns, container, behind, stage, failure, evidenceVars, answered, degraded>>

ToolDenied ==
  /\ stage = "running" /\ calls < MaxToolCalls
  /\ calls' = calls + 1
  /\ UNCHANGED <<pod, ns, container, behind, stage, failure, evidenceVars, reqs, answered, degraded>>

\* accept, given a valid submission: something is missing and could be had.
MissingObtainable == {k \in DOMAIN reqs : ~reqs[k].collected /\ reqs[k].obtainable}
Gate == MissingObtainable # {} /\ calls < MaxToolCalls

Accept ==
  /\ stage = "running"
  /\ ~Gate
  /\ degraded' = (\E k \in DOMAIN reqs : ~reqs[k].collected)
  /\ stage' = "concluded"
  /\ UNCHANGED <<pod, ns, container, behind, failure, evidenceVars, reqs, answered, calls>>

Next ==
  \/ PodChanges
  \/ Detect
  \/ Restarts
  \/ ExitsAgain
  \/ Target
  \/ ReadPreviousLogs
  \/ ReadTheOthers
  \/ AdvanceWithoutPod
  \/ Begin
  \/ \E k \in Kinds : ToolAnswers(k) \/ ToolFails(k)
  \/ ToolDenied
  \/ Accept

Spec == Init /\ [][Next]_vars

-----------------------------------------------------------------------------
(* Properties.                                                             *)

\* A container whose latest exit was a memory kill keeps that classification
\* through back-off and restart until it exits again, so that one failure keeps
\* one Diagnosis name whatever the cluster displays meanwhile (Classify, "the
\* most specific cause wins over the symptom").
LatestExit(cs) == IF cs.state = "terminated" THEN cs.reason ELSE cs.last
StableAcrossRestarts ==
  [][\A i \in Containers :
       /\ stage' = "watched" /\ LatestExit(pod.containers[i]) = "OOMKilled"
       /\ ~(pod.containers[i].state = "running" /\ pod'.containers[i].state = "terminated")
       => ClassifyContainer(pod', i) = "OOMKilled"]_vars

\* A pod whose containers all run and are ready is reported for nothing but an
\* eviction or a memory kill that is still on record: that record outlives the
\* recovery, everything else does not (Classify, "or nil when nothing is
\* wrong").
HealthyButForTheRecord ==
  /\ stage = "watched" /\ pod.pending = -1 /\ ~pod.evicted
  /\ \A i \in Containers : pod.containers[i].state = "running" /\ pod.containers[i].ready
  => \/ Classify(pod) = NoSignal
     \/ /\ Classify(pod).type = "OOMKilled"
        /\ pod.containers[Classify(pod).container].last = "OOMKilled"

Gathered == stage = "Enriched" /\ DOMAIN items = Kinds
Lines(kind) == {items[kind].content[i] : i \in DOMAIN items[kind].content}

\* The end of the output of an instance that exited, the failed one or a later
\* one, is attached as previous or as current output, unless the container is
\* restarted between the two reads: at the first exit there is no previous
\* instance yet, and the current one is the one that failed (Collect; Truncate,
\* "the error that preceded termination").
Exited(instance) == instance < behind \/ pod.containers[container].state # "running"
FailedOutputAttached ==
  /\ Gathered /\ failure \in {"CrashLoopBackOff", "OOMKilled"}
  /\ ns.output > 0 /\ moved # "restarted"
  /\ ~items["PreviousLogs"].broken /\ ~items["CurrentLogs"].broken
  => \E l \in Lines("PreviousLogs") \cup Lines("CurrentLogs") :
       l.of >= 0 /\ l.line = ns.output /\ Exited(l.of)

\* The reason of the termination that is reported and the output of the previous
\* instance are of one and the same instance, unless the container moved on while
\* they were read (populateContainerFacts prefers the last termination).
FactsMatchLogs ==
  Gathered /\ moved = "still" =>
    \A l \in Lines("PreviousLogs") : container # 0 => l.of = facts.termination.of

\* The latest event opens the agent's excerpt when all events fit both limits:
\* the list of events is limited before it is sorted, then cut at its end by
\* excerpt and at its beginning by Truncate (events, Truncate, excerpt).
LatestEventPresented ==
  /\ Gathered /\ items["Events"].status = "Collected"
  /\ Len(ns.events) <= EventLimit /\ Len(ns.events) <= ContentLimit
  => \A i \in DOMAIN ns.events : Excerpt(items["Events"].content)[1] >= ns.events[i]

\* A conclusion about a pod that was still there and that does not call itself
\* degraded has an answer for everything the matrix requires for the failure,
\* though it may be an empty one (matrix.go, Required).  The items of
\* advanceWithoutPod do not support this.
UndegradedIsAnswered ==
  stage = "concluded" /\ ~degraded /\ DOMAIN items = Kinds => Required(failure) \subseteq answered

\* What the matrix requires is not always something the workload can have: for a
\* crash the history of rollouts is required and only Deployments have one, so
\* that of any other workload is always a degraded conclusion, whatever the agent
\* reads (matrix.go and rolloutHistory).
CrashWithoutHistoryIsDegraded ==
  /\ stage = "concluded" /\ DOMAIN items = Kinds
  /\ failure \in {"CrashLoopBackOff", "OOMKilled"} /\ ns.owner # "Deployment"
  => degraded

\* With the requirements that buildInput derives, the gate never holds a
\* submission back: what the baseline lacks counts as unobtainable from the
\* start (buildInput, Obtainable).
NothingLeftToDemand == stage = "running" => ~Gate

\* What the gate is for: "an analysis should not conclude without the item while
\* it remains obtainable" (matrix.go:32).  No investigation ends without a single
\* tool call although a required item is missing that a call would have got.
RequiredBeforeConcluding ==
  stage = "concluded" /\ calls = 0 /\ MaxToolCalls > 0 /\ DOMAIN items = Kinds =>
    \A k \in Required(failure) \ answered : ~Gather(ns, k).ok
=============================================================================
