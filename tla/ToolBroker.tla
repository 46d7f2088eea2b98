----------------------------- MODULE ToolBroker -----------------------------
(***************************************************************************)
(* The broker through which an investigation reads the cluster             *)
(* (internal/tools/broker.go, scope.go, catalog.go).  The agent calls it   *)
(* from one goroutine, the MCP server (mcp.go) from one per request, so a  *)
(* call is the steps between which its lock is free or the cluster is      *)
(* read: the ceiling, the pod, its membership in the workload, the read    *)
(* itself, the record.                                                     *)
(*                                                                         *)
(* Pods and ReplicaSets are read as the cluster has them.  That is exact   *)
(* for kubecure-mcp, whose client goes to the API server.  The registry of *)
(* the operator has the manager's client, which reads the informer cache   *)
(* (scope.go:90, 111, 120, 158) and may lag behind: there "at some moment  *)
(* of the call" is a moment of the cache.                                  *)
(***************************************************************************)
EXTENDS Integers, Sequences, FiniteSets

CONSTANTS Callers,      \* goroutines that call one broker
          Pods,         \* pod names of the namespace
          Refs,         \* controller references, [kind, name]
          OwnerOf,      \* the controller that creates the pods of each name
          RSOwner,      \* the controller of each ReplicaSet of Refs, by name
          Targets,      \* target references a Diagnosis can have
          Requests,     \* tool calls
          LimitFlag,    \* Scope.MaxCalls as given
          DefaultMaxCalls,  \* 25
          MaxAsked,     \* bound: calls
          MaxUpsets     \* bound: changes of the cluster

VARIABLES scope,   \* what the broker is bound to
          live,    \* cluster: the pods that exist
          owner,   \* cluster: the controller reference of each
          rs,      \* cluster: the controller of each ReplicaSet, Nil if gone
          audit,   \* Broker.calls: the outcome of each call
          call,    \* what each caller is doing
          had,     \* history: pods in the workload at some time in the call
          kept,    \* history: pods in the workload at all times of the call
          upsets   \* changes of the cluster so far

clusterVars == <<live, owner, rs, upsets>>
vars == <<scope, clusterVars, audit, call, had, kept>>

Unset == "unset"  \* the empty string
Nil == [kind |-> Unset, name |-> Unset]
Unnamed == "unnamed"
NoPod == "no pod"
ReplicaSets == {r.name : r \in {x \in Refs : x.kind = "ReplicaSet"}}

\* One tool for each kind of handler in the catalogue.
PodTools == {"get_pod_logs", "get_pod_events"}
OtherTools == {"get_workload_spec", "search_similar_diagnoses"}

\* sound: the arguments decode; container: the pod has the container asked for.
Request == [tool: STRING, sound: BOOLEAN, pod: Pods \cup {Unnamed}, container: BOOLEAN]
Scope == [kind: {r.kind : r \in Refs} \cup {"Pod"}, name: {r.name : r \in Refs} \cup Pods,
          target: Pods]
Outcomes == {Unset, "refused", "denied", "failed", "answered"}
Work == [pc: {"idle", "get", "list", "check", "read", "record"}, req: Request \cup {Nil},
         todo: SUBSET (Pods \X (Refs \cup {Nil})), pod: Pods \cup {NoPod}, outcome: Outcomes]
Idle == [pc |-> "idle", req |-> Nil, todo |-> {}, pod |-> NoPod, outcome |-> Unset]

\* Objects have names and kinds, and no ReplicaSet controls another.
ASSUME BrokerAssumption ==
  /\ IsFiniteSet(Callers) /\ Callers # {}
  /\ Pods \subseteq STRING \ {Unset}
  /\ Refs \subseteq [kind: STRING \ {Unset}, name: STRING \ {Unset}]
  /\ OwnerOf \in [Pods -> Refs \cup {Nil}]
  /\ RSOwner \in [ReplicaSets -> Refs \cup {Nil}]
  /\ \A r \in ReplicaSets : RSOwner[r].kind # "ReplicaSet"
  /\ Targets \subseteq [pod: Pods, owner: Refs \cup {Nil}]
  /\ Requests \subseteq Request
  /\ LimitFlag \in Int
  /\ DefaultMaxCalls \in Nat \ {0}
  /\ MaxAsked \in Nat /\ MaxUpsets \in Nat

TypeOK ==
  /\ scope \in Scope
  /\ live \subseteq Pods
  /\ owner \in [Pods -> Refs \cup {Nil}]
  /\ rs \in [ReplicaSets -> Refs \cup {Nil}]
  /\ audit \in Seq(Outcomes \ {Unset})
  /\ call \in [Callers -> Work]
  /\ had \in [Callers -> SUBSET Pods]
  /\ kept \in [Callers -> SUBSET Pods]
  /\ upsets \in Nat

-----------------------------------------------------------------------------
(* The scope.                                                              *)

\* Mutation: the owner is taken for granted.
ScopeForDiagnosisOwned(t) == [kind |-> t.owner.kind, name |-> t.owner.name, target |-> t.pod]

\* ScopeForDiagnosis: a pod without an owner is its own workload.
ScopeForDiagnosis(t) ==
  IF t.owner = Nil THEN [kind |-> "Pod", name |-> t.pod, target |-> t.pod]
  ELSE [kind |-> t.owner.kind, name |-> t.owner.name, target |-> t.pod]

\* BindTo
MaxCalls == IF LimitFlag <= 0 THEN DefaultMaxCalls ELSE LimitFlag

\* Mutation: the controller is compared without looking behind a ReplicaSet.
InWorkloadDirect(p, ref) ==
  IF scope.kind = "Pod" THEN p = scope.name
  ELSE ref = [kind |-> scope.kind, name |-> scope.name]

\* Mutation: any ReplicaSet is taken for one of the Deployment's.
InWorkloadAnyReplicaSet(p, ref) ==
  IF scope.kind = "Pod" THEN p = scope.name
  ELSE \/ ref = [kind |-> scope.kind, name |-> scope.name]
       \/ scope.kind = "Deployment" /\ ref.kind = "ReplicaSet"

\* inWorkload: whether a pod that was read with the controller reference ref
\* belongs to the workload.  The ReplicaSet is read when it is needed.
InWorkload(p, ref) ==
  IF scope.kind = "Pod" THEN p = scope.name
  ELSE \/ ref = [kind |-> scope.kind, name |-> scope.name]
       \/ /\ scope.kind = "Deployment" /\ ref.kind = "ReplicaSet"
          /\ rs[ref.name] = [kind |-> "Deployment", name |-> scope.name]

\* What membership means, for the histories: the workload is among the
\* controllers of the pod, its own and that of its ReplicaSet.
Controllers(p) ==
  {owner[p]} \cup (IF owner[p].kind = "ReplicaSet" THEN {rs[owner[p].name]} ELSE {})
Members ==
  {p \in live : IF scope.kind = "Pod" THEN p = scope.name
                ELSE [kind |-> scope.kind, name |-> scope.name] \in Controllers(p)}

Init ==
  /\ \E t \in Targets : scope = ScopeForDiagnosis(t)
  /\ live \in SUBSET Pods
  /\ owner = OwnerOf
  /\ rs = RSOwner
  /\ audit = <<>>
  /\ call = [c \in Callers |-> Idle]
  /\ had = [c \in Callers |-> {}]
  /\ kept = [c \in Callers |-> {}]
  /\ upsets = 0

-----------------------------------------------------------------------------
(* One call.                                                               *)

Goes(c, work) == call' = [call EXCEPT ![c] = work]
Ends(c, outcome) == Goes(c, [call[c] EXCEPT !.pc = "record", !.outcome = outcome, !.todo = {}])
Reads(c, p) == Goes(c, [call[c] EXCEPT !.pc = "read", !.pod = p, !.todo = {}])
UnchangedCluster == UNCHANGED <<scope, clusterVars>>

\* Calls made so far, the ones in progress included.
Asked == Len(audit) + Cardinality({c \in Callers : call[c].pc # "idle"})

\* Mutation: the call after the last is let through.
CeilingReachedBeyond == Len(audit) > MaxCalls

\* The lock is held for the length of the record only, not to the end of the
\* call.
CeilingReached == Len(audit) >= MaxCalls

\* The ceiling, the existence of the tool and its arguments.
Admit(c, req) ==
  /\ call[c].pc = "idle" /\ Asked < MaxAsked
  /\ LET new == [Idle EXCEPT !.req = req]
     IN  Goes(c, CASE CeilingReached -> [new EXCEPT !.pc = "record", !.outcome = "refused"]
                   [] ~CeilingReached /\ (req.tool \notin PodTools \cup OtherTools \/ ~req.sound) ->
                        [new EXCEPT !.pc = "record", !.outcome = "denied"]
                   [] ~CeilingReached /\ req.tool \in PodTools /\ req.sound -> [new EXCEPT !.pc = "get"]
                   [] OTHER -> [new EXCEPT !.pc = "read"])
  /\ had' = [had EXCEPT ![c] = Members]
  /\ kept' = [kept EXCEPT ![c] = Members]
  /\ UNCHANGED audit /\ UnchangedCluster

\* resolvePod and defaultPod: the pod that is named, or the target if it is
\* there, which is then not checked.
Get(c) ==
  LET req == call[c].req
  IN  /\ call[c].pc = "get"
      /\ \/ /\ req.pod # Unnamed /\ req.pod \in live
            /\ Goes(c, [call[c] EXCEPT !.pc = "check", !.todo = {<<req.pod, owner[req.pod]>>}])
         \/ /\ req.pod # Unnamed /\ req.pod \notin live
            /\ Ends(c, "denied")
         \/ /\ req.pod = Unnamed /\ scope.target \in live
            /\ Reads(c, scope.target)
         \/ /\ req.pod = Unnamed /\ scope.target \notin live
            /\ Goes(c, [call[c] EXCEPT !.pc = "list"])
      /\ UNCHANGED <<audit, had, kept>> /\ UnchangedCluster

\* defaultPod: the pods of the namespace, to find a replacement.
List(c) ==
  /\ call[c].pc = "list"
  /\ Goes(c, [call[c] EXCEPT !.pc = "check", !.todo = {<<p, owner[p]>> : p \in live}])
  /\ UNCHANGED <<audit, had, kept>> /\ UnchangedCluster

\* The pods are examined in the order of the list, which means nothing; the
\* first that belongs to the workload is taken.
Check(c) ==
  /\ call[c].pc = "check"
  /\ \/ /\ call[c].todo = {}
        /\ Ends(c, "denied")
     \/ \E t \in call[c].todo :
          IF InWorkload(t[1], t[2])
          THEN Reads(c, t[1])
          ELSE Goes(c, [call[c] EXCEPT !.todo = @ \ {t}])
  /\ UNCHANGED <<audit, had, kept>> /\ UnchangedCluster

\* The container is looked up before its logs are read; Gather reads by the
\* name of the pod.
Read(c) ==
  /\ call[c].pc = "read"
  /\ Ends(c, IF call[c].req.tool = "get_pod_logs" /\ ~call[c].req.container
             THEN "denied" ELSE "answered")
  /\ UNCHANGED <<audit, had, kept>> /\ UnchangedCluster

\* A read of the cluster fails.
Fails(c) ==
  /\ call[c].pc \in {"get", "list", "check", "read"}
  /\ Ends(c, "failed")
  /\ UNCHANGED <<audit, had, kept>> /\ UnchangedCluster

\* Whatever the outcome, the call is recorded and returns.
Record(c) ==
  /\ call[c].pc = "record"
  /\ audit' = Append(audit, call[c].outcome)
  /\ Goes(c, Idle)
  /\ had' = [had EXCEPT ![c] = {}]
  /\ kept' = [kept EXCEPT ![c] = {}]
  /\ UnchangedCluster

Step(c) == Get(c) \/ List(c) \/ Check(c) \/ Read(c) \/ Fails(c) \/ Record(c)

-----------------------------------------------------------------------------
(* The cluster (external).                                                 *)

Observed ==
  /\ UNCHANGED <<scope, audit, call>>
  /\ upsets < MaxUpsets
  /\ upsets' = upsets + 1
  /\ had' = [c \in Callers |-> IF call[c].pc = "idle" THEN {} ELSE had[c] \cup Members']
  /\ kept' = [c \in Callers |-> kept[c] \cap Members']

\* A pod goes; its controller creates one of the same or another name.
PodGoes(p) == p \in live /\ live' = live \ {p} /\ UNCHANGED <<owner, rs>> /\ Observed

PodComes(p) ==
  /\ p \notin live
  /\ live' = live \cup {p}
  /\ owner' = [owner EXCEPT ![p] = OwnerOf[p]]
  /\ UNCHANGED rs
  /\ Observed

\* A pod whose labels are changed is released by its controller.
PodReleased(p) ==
  /\ p \in live /\ owner[p] # Nil
  /\ owner' = [owner EXCEPT ![p] = Nil]
  /\ UNCHANGED <<live, rs>>
  /\ Observed

\* An old ReplicaSet without pods is removed.  None is orphaned and adopted by
\* another controller: Deployments of one namespace have selectors of their own.
ReplicaSetPruned(r) ==
  /\ rs[r] # Nil
  /\ \A p \in live : owner[p] # [kind |-> "ReplicaSet", name |-> r]
  /\ rs' = [rs EXCEPT ![r] = Nil]
  /\ UNCHANGED <<live, owner>>
  /\ Observed

ClusterNext ==
  \/ \E p \in Pods : PodGoes(p) \/ PodComes(p) \/ PodReleased(p)
  \/ \E r \in ReplicaSets : ReplicaSetPruned(r)

Next ==
  \/ \E c \in Callers : (\E req \in Requests : Admit(c, req)) \/ Step(c)
  \/ ClusterNext

Spec == Init /\ [][Next]_vars

-----------------------------------------------------------------------------
(* Properties.                                                             *)

Admitted ==
  Cardinality({i \in DOMAIN audit : audit[i] # "refused"})
    + Cardinality({c \in Callers : call[c].pc # "idle" /\ call[c].outcome # "refused"})

\* The ceiling is checked at the start of a call and counted at its end: with
\* several callers more calls than the ceiling are made, by at most one for
\* every other caller; a single caller never passes it (Scope.MaxCalls).
CeilingOvershoot == Admitted <= MaxCalls + Cardinality(Callers) - 1

\* No pod is read that was outside the workload for the whole of the call,
\* except the diagnosed pod when none is named: what was true of the reference
\* when the pod was fetched, and of the ReplicaSet later, was true at one time,
\* since a ReplicaSet never gets another controller
\* (Scope, "Any pod controlled by it is in scope; nothing else is").
ReadsInScope ==
  \A c \in Callers :
    call[c].pc \in {"read", "record"} /\ call[c].pod # NoPod =>
      \/ call[c].pod \in had[c]
      \/ call[c].req.pod = Unnamed /\ call[c].pod = scope.target

\* A call that names no pod is denied for want of one only if no pod belonged
\* to the workload throughout: rollouts that replace the diagnosed pod leave
\* the investigation usable (resolvePod).  Not so for other controllers of
\* ReplicaSets: resolveWorkload makes them the workload of the Diagnosis, and
\* inWorkload looks behind a ReplicaSet for Deployments only.
UsableAfterRollout ==
  \A c \in Callers :
    /\ call[c].pc = "record" /\ call[c].outcome = "denied"
    /\ call[c].req.pod = Unnamed /\ call[c].req.sound /\ call[c].req.container
    /\ call[c].req.tool \in PodTools
    => \A p \in kept[c] :
         owner[p].kind = "ReplicaSet" /\ scope.kind \notin {"Deployment", "ReplicaSet"}
=============================================================================
