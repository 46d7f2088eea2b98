# KubeCure in TLA+

KubeCure is a Kubernetes operator. It watches pods, opens one `Diagnosis` object per
failure, attaches evidence to it, and has a model-driven agent investigate it.
This directory models the parts that are implemented, checks them with TLC on small
instances, and proves the central results with TLAPS for every instance.

## 1. Inventory

| Component (source) | State | Operations | Hard behaviour |
| :- | :- | :- | :- |
| Detector (`controller/pod_controller.go`) | none of its own; work queue, requeue timer | `Reconcile`: look at pod, policy and cached objects, `Create`, then `Status().Update` | two calls that are not atomic; decisions on a lagging cache; events that are filtered out |
| Classifier (`detector/detector.go`, `signature.go`) | none | `Classify`, `Signature`, `DiagnosisName` | precedence of causes, grace periods, a record of the past that outlives it |
| Evidence controller (`controller/evidence_controller.go`) | none; work queue | `Reconcile`: read, collect, write; `advanceWithoutPod` | a long collection between read and write; pod names that are reused |
| Collector, matrix (`evidence/collector.go`, `matrix.go`, `Truncate` of `redact.go`) | none | `Collect`, `Gather`, one read per kind of evidence | live reads by name of a container that goes on failing; several limits applied one after the other |
| Investigator controller (`controller/investigator_controller.go`) | two workers, work queue | `Reconcile`, `buildInput`, `record` with `RetryOnConflict` | an expensive run guarded by a cached phase; retries from the same cache |
| Agent (`agent/investigator.go`, `findings.go`), model adapter (`model/gemini`) | findings, ledger, requirements, messages | `Run`, `handleCalls`, `accept`, `validateSubmission`, `account` | an arbitrary model; budgets; a deadline |
| Broker (`tools/broker.go`, `scope.go`, `catalog.go`) | scope, list of calls | `Call`, `resolvePod`, `inWorkload` | concurrent callers (MCP), membership over several reads |
| MCP server (`tools/mcp.go`, `cmd/kubecure-mcp`) | a broker | hands requests to the broker | one goroutine per request |
| Manager (`cmd/main.go`) | the shared cache | starts the three controllers | restarts |

The controllers share nothing but the `Diagnosis` objects: each acts on one phase and
writes the next (`""` → `Detected` → `Enriched` → `Hypothesized`). Writes go to the API
server and need the current resource version; reads go to the informer cache. Events
reach a work queue through the predicates `podStatusChanged` and `phaseIs`.

What makes each part correct: the detector opens one `Diagnosis` per failure, within the
hourly limit, and misses none; every object moves through its phases in order, each
result written once, and does not get stuck; evidence describes the instance that failed
and holds its last output and its latest events; an investigation is not paid for twice; a
conclusion cites only what was read, says when it is degraded, and stays within its budgets;
the record lets a reader find what is cited; the tools read nothing outside the workload.
`PROJECT.json` lists the hazards with the line where each bites.

## 2. Modules

| Module | Models | Extends |
| :- | :- | :- |
| `DiagnosisStore` | API server, informer cache, watch, evidence and investigator queues (external, with `phaseIs`) | |
| `Cluster` | pods, policies, clock, detector queue, users; `podStatusChanged`; restart | `DiagnosisStore` |
| `DetectorController` | `PodReconciler` | `Cluster` |
| `EvidenceController` | `EvidenceReconciler` | `Cluster` |
| `InvestigatorController` | `InvestigatorReconciler`, its workers | `Cluster` |
| `Pipeline` | the composition of the three | all of them |
| `Detection` | the detector alone | `DetectorController` |
| `DiagnosisLifecycle` | abstract specification of a `Diagnosis` | |
| `Investigation` | one `Run` of the agent | |
| `InvestigationRecord` | the agent with its broker, its conversation (`handleCalls`, `toContents`) and what `record` stores | `Investigation` |
| `ToolBroker` | one broker, its callers and the cluster they read | |
| `Classification` | `Classify`, and the statuses kubelet and scheduler produce (external) | |
| `Collector` | the requirement matrix, what is read for each kind of evidence, `populateContainerFacts`, `Truncate` | `Classification` |
| `Sufficiency` | the course of a collection, `buildInput`, the gate: from status to conclusion | `Collector` |
| `MC*` | constants for TLC | the module of that name |
| `PipelineProofs`, `LifecycleProofs`, `OperatorProofs` | types, refinement, safety of the pipeline | `Pipeline`, each the one before |
| `InvestigationProofs`, `RecordProofs` | the agent; the agent with its record | `Investigation`; `InvestigationRecord` and `InvestigationProofs` |
| `BrokerProofs` | the broker | `ToolBroker` |
| `SufficiencyProofs`, `CollectionProofs` | classification and gate; the content of the evidence | `Sufficiency`; the one before |

**State and steps.** A reconcile is split where another actor can act: between its API
calls, and around a collection or an investigation. `det`, `ev` and `wrk[w]` hold what the
goroutine holds at that point.

* Detector: `DetDismiss`, `DetDefer` and `DetOpen` are the outcomes of the part that only
  reads; `DetCreate` and `DetMark` are the two calls; `DetCreateFails` and `DetMarkFails`
  are errors whose write may have been stored all the same.
* Evidence: `EvStart` (up to `targetFor`), `EvCollect`, `EvWrite`, `EvWriteFails`.
* Investigator: `InvStart`, `InvRun`, `InvRunFails`, then the attempts of `record`,
  `InvRead` and `InvWrite`; `InvWriteFails`.
* Store: `Commit` appends to the watch, `Deliver` applies one event to the cache and
  notifies the queues, `Resync` repeats the notification, `Relist` is a start.
* History: every step of `Pipeline` is followed by `Remember`, which changes only `disturbed`
  (the pod was removed while its evidence was collected), `crossed` and `excused` (attempts of
  `record` that are bound to conflict); `det.unseen` is what the cache had not been told of when
  the detector counted. No guard reads them; they let properties name their exceptions exactly.
* Agent: `LoopHead`; `Generate`, `GenerateTimesOut`, `GenerateFails`; for every call of a
  reply `Refuse`, `CallTool`, `Conclude` or `Reject`; `Deadline` at any moment.
* Agent and surroundings: `BrokerCall` is `CallTool` with the broker's ceiling and audit;
  `AgentStep` is every other step, with what it adds to the messages; `Record` is the status
  made of findings and audit.
* Collection: `Target` (the pod from the cache and the facts of its status),
  `ReadPreviousLogs`, `ReadTheOthers`, or `AdvanceWithoutPod`; before and between them
  `Restarts` and `ExitsAgain` of the container. Then `Begin` (`buildInput`), `ToolAnswers`,
  `ToolFails`, `ToolDenied` and `Accept`.
* Broker: `Admit` (ceiling, tool, arguments), `Get`, `List`, `Check`, `Read`, `Fails`,
  `Record`. Two variables are history: the pods that were in the workload at some time,
  and at all times, of a call.

**Abstractions.** One namespace, one container per pod in the pipeline, a name is the pair
of workload and failure type (the hash is taken to be injective). A log or an event is the
instance it comes from. Findings are the `uid` of the object that was investigated. In
`Investigation` a hypothesis keeps cause, confidence, citations and actions; an empty cause
stands for every ill-formed text. The pipeline's pods and policies are read as they are (only
the cache of `Diagnosis` objects lags, and with `ReplicaSetLag` that of ReplicaSets).
`ToolBroker` reads pods and ReplicaSets as they are when it asks. That is exact for
`kubecure-mcp`, whose client is direct; in the operator the client of the registry is the
manager's cache, so that its answers can be older, and `ReadsInScope` and `UsableAfterRollout` are
to be read up to that lag. A ReplicaSet in `ToolBroker` is pruned, never adopted by another
controller. In `Investigation` one tick per model call stands for elapsed time. In `Collector` a text is the
sequence of its lines (of a log, of events, one for a JSON document), and limits in bytes are
limits in lines; instances of a container are numbered from the one that failed, which is 0.
Whatever the tools return during an investigation may come from a changed namespace, but the
kind of the workload is the same. In the conversation a result is the identifier of its
evidence, or an error; texts beside calls and results are left out.

## 3. Runs

| Run | Question | Result |
| :- | :- | :- |
| `Pipeline` | lagging cache, one fault or restart, two upsets of any kind: do copies agree, do objects follow the lifecycle, when are logs another instance's, when is an investigation repeated or given up, is any wake-up lost, is every stage completed? | pass, 159,126 states |
| `Detection` | two pods in two ReplicaSets of a Deployment, two policies that are edited, lagging cache, one fault or restart, one upset: one object per failure, by how much is the hourly limit overrun, is a crash loop always diagnosed? | pass, 233,322 states |
| `Investigation` | what a conclusion rests on, what it costs, that it ends; is the model answered, is the broker only a backstop, are citations in the record? | pass |
| `ToolBroker` | two callers: overshoot of the ceiling, scope of reads, rollouts | pass |
| `Sufficiency` | classification; what is attached about a container that goes on failing, in four kinds of workload; what an undegraded conclusion rests on | pass, 1,392,572 states |
| `StuckNew` | `README.md:57`, a Diagnosis is created at `Detected` | violated |
| `NotRecreated` | `README.md:74`, a deleted Diagnosis is recreated | violated |
| `EventsByName` | `evidence_controller.go:116`, evidence describes the failed instance | violated |
| `OthersFindings` | `investigator_controller.go:91`, every Enriched diagnosis has been investigated | violated |
| `UnseenEvidence` | `findings.go:82`, only identifiers from the evidence are cited | violated |
| `HourlyLimit` | `healingpolicy_types.go:147`, how many diagnoses are opened per hour | violated |
| `GateSilent` | `matrix.go:32`, no conclusion without a required item that is obtainable | violated |

What the runs that fail show:

* **StuckNew.** `Create` succeeds, the status update does not (an error, or a restart). The
  retry finds the object and returns; with an empty phase no predicate lets it through. The run
  assumes that the detector's queue serves its keys (strong fairness of `DetStart`) and that the
  pod's crash loop goes on raising events: the object stays as it is although the detector gets to
  its pod again and again.
* **NotRecreated.** The detector wakes on pod events that change the status. A pod stuck with,
  say, `CreateContainerConfigError` raises none, so the deletion goes unnoticed.
* **EventsByName.** Events are selected by `involvedObject.name`: those of a predecessor of
  the same name are attached too.
* **OthersFindings.** A Diagnosis is deleted while it is investigated. The detector opens
  another of the same name, which is enriched; `record` fetches by name, finds `Enriched`, and
  writes findings that were made from the evidence of the first.
* **UnseenEvidence.** One reply holds a tool call and, after it, a submission that cites `E1`.
  By the time the submission is validated the ledger has `E1`, which the model never saw.
* **HourlyLimit.** `withinRateLimit` counts what the cache lists. Under a limit of one, two
  failures are opened before the event of the first create is applied. The property counts the
  objects that are there; one that was opened and deleted is not counted by the code either, which
  is a second difference from the words.
* **GateSilent.** A required read fails during the collection. `buildInput` marks the item as
  unobtainable, so the gate accepts a submission made without any tool call (as degraded), although
  one call would have got the item.

Where a property of the operator has exceptions, it states them itself: `LogsOfTarget` except when
the pod was removed between the UID check and the read by name; `RepeatOnlyUnseen`, that an
investigation is repeated only while the event with its findings has not reached the cache;
`HourlyOvershoot`, that the limit is overrun by no more than the objects the cache had not been told
of; `ConflictsAccounted`, that `record` gives up only after as many stale reads and edits from outside
as it has attempts. Some others hold under a condition that the cfg or the property states. The
violations without it were reached with the same modules and are not kept as runs:

* with `ReplicaSetLag = TRUE`, `OneDiagnosisPerFailure`;
* `FailingPodsDiagnosed`, which `NotRecreated` violates by a deletion, also by a grace period that
  ends, or a policy that is added, while the status is stable;
* `UndegradedIsAnswered` without its restriction to pods that were still there:
  `advanceWithoutPod` lists only `PreviousLogs`;
* `FailedOutputAttached` when the container is restarted between the read of its previous and
  that of its current output: the first finds no previous instance, the second a fresh one;
* `FactsMatchLogs` when it moves on between the cached status and the read;
* `LatestEventPresented` with more events than the list's limit, which is applied before the
  sort, or than the content limit, which cuts a list that begins with the latest;
* that the siblings are *all* the other pods of the workload, as `EvidenceSiblingPods` has it:
  they are selected by every label of the pod, so the other revision of a rollout and every
  other pod of a StatefulSet is left out;
* `DurationReported`, for every run: `Run` has no named result, so the deferred function sets the
  duration of a value that has already been copied (`diagnosis_types.go:295` has the record say what
  was consumed);
* `UsableAfterRollout` without its exception for controllers of ReplicaSets that are not
  Deployments.

`GateSilent` is one instance of something general, which `SufficiencyProofs` proves:
`buildInput` marks whatever the baseline lacks as unobtainable, so in the operator the sufficiency
gate of `accept` never refuses a submission (`NeverLeftToDemand`; the tests of the agent package use
other inputs). `CrashWithoutHistoryIsDegraded` is another fact worth knowing: for a crash the matrix
requires a rollout history, which exists for Deployments only, so a conclusion about any other
workload is always degraded and its confidence capped.

`DetectedIsAttended` and `NoneNewlyUnattended` ask where a Diagnosis waits. The resync of the
informer would hide a forgotten key from `EvidenceAttached` and `InvestigationRecorded`, which
only say *eventually*: an evidence controller that drops the key after a failed call
(`EvRetryForgets`) still satisfies `EvidenceAttached`, and violates `DetectedIsAttended`. In the
code the evidence controller never leaves a Diagnosis to the resync. The investigator does so in
one case: it drops the key of an Enriched Diagnosis whose policy is missing or does not enable the
agent, and no controller watches policies, so enabling the agent later goes unnoticed until then.

**Bounds.** `MaxFaults` bounds failed calls and restarts together, `MaxUpsets` changes from
outside, `MaxTime` the clock, `MaxReply` the calls in one reply, `MaxAsked` calls to a
broker. One `Diagnosis` name under one fault and two upsets contains every pair of a
disturbance and a reaction for one object; objects of different names meet only in the rate
limit and in `OneDiagnosisPerFailure`, which is why `Detection` has two pods, of two
ReplicaSets and with two kinds of failure, and leaves out the later stages. `RetrySteps` is 2 (5 in client-go): one retry and its exhaustion. `Investigation`
has two tool calls, two extra turns, and budgets of which each can be the one that ends a
run; one call is recorded (`MaxRecordedToolCalls`), so that the limit cuts an audit of two, and
`DefaultMaxCalls` is below the budget, so that a broker bound without a limit is noticed. `ToolBroker` has a ceiling of 1, two callers and three calls, enough for the overshoot;
its callers are interchangeable and declared symmetric (the run checks invariants only).
`Sufficiency` looks at ages one second on either side of the probe budget and of the
scheduling grace; at logs and events shorter than, as long as and longer than the limits
(`LogTailLines` 3, `EventLimit` 3, `ContentLimit` 2, `ExcerptLimit` 1, in lines); at one failed
read per collection (`MaxReadErrors`, beside a failed read of the previous output) and two
restarts after the failure (`MaxBehind`: one before and one during the collection). Its four
namespaces are a rollout, an orphaned pod, a StatefulSet and a bare pod. Deadlock is allowed where the system waits for events: an idle operator, a
broker that has used up `MaxAsked`, a finished diagnosis.

**Fairness.** `Pipeline` and `Detection`: the watch delivers and the informer resyncs (weak),
a worker finishes what it began (weak: every call returns, with an error if need be), every
queue, the detector's too, serves every key it holds (strong: client-go queues are first-in
first-out, and a key is not always servable when its worker is busy), and a delayed key comes back
(weak). A pod in a crash loop (`ChurnTypes`: `OOMKilled` in `Detection` and `StuckNew`, none in
`Pipeline`) keeps looping, which changes its status (weak), and a grace period passes. Nothing is assumed of pods
that are merely not ready or cannot start: their status is stable. Nothing is assumed of users or
faults.
`InvestigationRecord`: `Run` goes on, the broker and the model answer or err, because their
calls carry a context, and the findings are recorded (weak).

**Mutants.** For every property of a passing run `PROJECT.json` names a plausible slip in the
code (a dropped phase check, a UID that is not compared, an inclusive limit, a key that is
not queued again) that makes TLC report it. The mutated definitions stand beside the originals.

## 4. Proofs

Eight modules hold the theorems. They are about the specifications that the runs check, and all
but three state a definition that a run checks (`PROJECT.json`, `theorems`). The three are
`RecordedImplementsAgent`, the refinement that lifts the agent's theorems; `NeverLeftToDemand`, the
general form of what `GateSilent` shows; and `RunsAreBounded`, the variant of the agent's loop.

**The pipeline.** `PipelineProofs` proves `Spec => []TypeOK`, one lemma per component's share of
`Next`.

`LifecycleProofs` proves that `Pipeline` implements `DiagnosisLifecycle`, for any number of
pods, names, workers, retries, faults and any lag of the cache. The mapping forgets the
resource version and the creation time. `FollowsLifecycle` is not inductive: a worker writes
a copy it read long ago. The strengthening is `CopiesAgree`: whatever the cache, the watch or
a worker holds has a resource version the server has used, and *if the server still has that
version*, it is the server's object, or (for a worker about to write) that object moved one
phase on. The argument: a write is accepted only against the current version (`Current`), so
by `CopiesAgree` it is the current object moved on (`MarkLawful`, `EnrichLawful`,
`ConcludeLawful`, `CreateLawful`); every accepted write uses a new resource version, so every
other copy's premise becomes false (`CopyKept`, `HeldKept`); and each lawful write is a step of
the abstract specification (`LawfulIsAbstract`).

`OperatorProofs` adds the other safety properties, for any lag of the cache, any policies and
edits, and any number of faults, restarts, upsets and attempts; no theorem restricts a constant.
The lemmas `Writers`, `WriterOf`, `Written` and `StoreSteps` say once who changes the store and how.

| Theorem | Inductive invariant |
| :- | :- |
| `LogsAlwaysOfTarget` | `LogsHeld`: while it collects, the target is there, and what is about to be written has the target's logs, or the pod was removed in between |
| `RepeatsOnlyUnseen` | `WatchEndsAtServer`: the last event of the watch, or the cache when there is none, is the server's object |
| `OvershootBounded` | `RoomHeld`: when a create is pending, the recent objects other than those unseen at the count are finitely many and below the limit that was read |
| `ConflictsAlwaysAccounted` | `Exclusive`: no two workers have one name; `Accounted`: every attempt a worker has lost, or is bound to lose, was a stale read or an edit from outside |
| `DetectedAlwaysAttended`, `OnlyPolicyEditsUnattend` | `WatchEndsAtServer` |

The limit in `OvershootBounded` is the one the detector read, because policies may differ and be
edited; only a create makes an object a recent one (`RecentGrows`), and what the detector counted
includes every recent object that the cache has (`RoomToCreate`). In `ConflictsAlwaysAccounted`
the point is `LostByEdit`: each phase has one writer inside the operator and each object one
worker, so an object that was current when it was read is lost only to an edit from outside.

That no wake-up is lost is argued from both ends. A step that changes an object, or hands the last
event of one to the cache, either leaves the watch something to deliver or puts the key in the
queue (`ToldOrQuiet`, which needs that the watch ends at the server's object). A step that takes a
key from a queue gives it to a worker or finds nothing to do; a worker gives it up only to the
queue, with a write, or because `record` finds the phase changed (`Dropping`); and a restart lists
everything anew (`EvidenceKeys`, `WorkerKeys`, `InvestigatorKeys`). What remains is a key that the
investigator dropped because its policy did not enable the agent, until an edit makes it.

**The agent.** `InvestigationProofs` proves, for all budgets, prices, tools, submissions and
models: types; `RankedByConfidence` (the cap is monotone, so it keeps the order of `rank`);
`CitationsExist`; `DegradedIsCapped`; `BudgetsBounded`, with the
strengthening that the budgets had not run out when the model was asked; `CostWithinRounding`,
from a lemma about truncated division; and `ConclusionOrReason`. `RunsAreBounded` gives the loop a
variant, `StepsLeft`: the turns left times the length of a turn, what is left of the current one,
the deadline and the end. It is a natural number and falls with every step (`StepProgresses`,
`StepsDecrease`), so that a run ends if only it goes on.

`RecordProofs` proves that `InvestigationRecord` implements `Investigation` (binding a broker,
keeping messages and recording add no behaviour to the agent), so that the theorems above hold
of the composition which the run checks; its types; and four properties, each of which relates
things that are kept in different places:

* `BrokerIsBackstop` for every budget and headroom: the length of the broker's audit and the
  agent's count of tool calls are equal.
* `EveryCallAnswered`: by `Answering` a turn is the results so far followed by the calls still to
  be handled, in order.
* `LedgerIsShown`: by `LedgerKept` what the ledger has and the model has not seen is in the
  results of the current turn.
* `CitationsAudited` for every limit on recorded calls: by `AuditNumbers` the *n*-th audited call
  that brought something carries identifier *n* and none is missing, and by `StatusOfEnd` the
  status was made from the final audit. Cutting the audit at its end keeps the count of what
  comes before.

**The broker.** `BrokerProofs`, for any number of callers, requests, pods and any ceiling:
types (with `CallsInOrder`, what a call holds at each of its steps); `CeilingOvershoot`, by
counting: the audit and the calls in progress that were admitted are together below the ceiling
plus the number of callers, because a caller is admitted only while the audit is below the
ceiling; `ReadsInScope`, by `ScopeKept`: what a call has left to examine, or is about to read,
was listed or fetched with an owner that it had during the call; and `UsableAfterRollout`, by
`ReplacementsFound`: a pod that was in the workload throughout a call is listed, and stays among
those left to examine until a pod is found.

**Classification and evidence.** `SufficiencyProofs`, for any number of containers, probes, ages,
namespaces and tool calls. The invariant is `EvidenceInv`: types; `ReasonsFit` (a container waits
or has terminated for a reason of that kind); `PackageKept` (a package is the placeholder of
`advanceWithoutPod`, or has an item for every kind, required exactly if the matrix says so, and
then never filed as not applicable); `RequirementsKept` (the requirements are those of the matrix,
none is met without an answer, and what is not met is unobtainable); `HistoryKept` (only a
Deployment has answered with a history). From it follow `UndegradedIsAnswered`,
`CrashWithoutHistoryIsDegraded` and `NothingLeftToDemand` (the theorem `NeverLeftToDemand`). `HealthyButForTheRecord` and the action
property `StableAcrossRestarts` follow from what `Classify` answers (`ClassifyAnswers`) and from
what the kubelet may do to a status (`KillStaysOnRecord`).

`CollectionProofs` is about the content of the package, for every length of output, number of
events and limit. `LastLines` and `AttachedLines` say what two cuts in a row leave of a log: only
lines of one instance, and its final one; `DescendingFromGreatest` and `EventsFromLatest` that the
sorted events begin with the greatest. `LatestEventPresented` follows. `FactsMatchLogs` needs
`TerminationKept`: as long as the container stands still, the fact that was reported is still what
its status says. `FailedOutputAttached` needs `CrashKept`: after a crash a container that runs has
been started since and has an exit on record, and one that waits has an exit on record (which in
turn needs `BackOffRecorded`, before detection); and `PreviousOutputKept`: if it runs when the
second read begins and was not restarted, the first read found the end of an earlier instance.
Otherwise the second read finds the end of the current one, which has exited.

**Assumptions.** The `ASSUME`s of the modules, which TLC evaluates in the runs: types of the
constants, that `Absent` is not an object, and what the code or Kubernetes guarantees: a pod has a
container, limits are positive, there are finitely many callers, names are not empty, the
controller of a ReplicaSet is not a ReplicaSet. In `ToolBroker`, `Classification` and `Collector`
the empty string is the constant `Unset`.

**Only model-checked.** `EvidenceAttached`, `InvestigationRecorded`, `LoopingPodsDiagnosed` and
`Terminates`: liveness under fairness and `ENABLED` are out of the prover's reach (no module uses a
`RECURSIVE` operator). The safety part of three of them is proved: no key is lost on the way to
`EvidenceAttached` (`DetectedAlwaysAttended`) and, but for edits of a policy, to
`InvestigationRecorded` (`OnlyPolicyEditsUnattend`), and a run has a variant (`RunsAreBounded`).
`LoopingPodsDiagnosed` rests on pods whose status keeps changing and has none.
`OneDiagnosisPerFailure` has no theorem: under the condition `ReplicaSetLag = FALSE` that it needs,
it is what `resolveWorkload` returns. The properties of the runs that fail are not theorems.

## 5. Not modelled

* Remediation, verification, judge, planner and retention: types and documentation only, there
  is no implementation.
* Redaction, prompts and the layout of JSON documents: text.
* Of the Gemini client the HTTP call, schemas and thought signatures; the MCP transport; flags,
  metrics and the selection of a model: I/O around what is modelled.
* The result of `search_similar_diagnoses`: a list of names, phases and causes that no decision
  in the code depends on.
* Hash collisions of signatures, leader election, generated deep copies.

## 6. Plan

Done, in this order: store and cluster; the three controllers and their composition; the
lifecycle and the refinement proof; the agent and its proofs; the broker; classification; the
collector and the sufficiency of what it collects; the agent with its broker, conversation and
record.

Proved, in this order: types and refinement of the pipeline; the agent; the composition of agent
and record; the broker; what bounds the exceptions of the operator (logs,
repeats, hourly limit, conflicts); classification, gate
and the content of the evidence; that no wake-up is lost, and the length of a run. Every safety
property of a passing run except `OneDiagnosisPerFailure` has a theorem.

Left:

1. Model: the pod caches of the detector and of the operator's tools as further lagging views;
   ReplicaSets that another controller adopts; several containers per pod in the pipeline.
