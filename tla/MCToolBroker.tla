---------------------------- MODULE MCToolBroker ----------------------------
(* A Deployment with two revisions, another controller of ReplicaSets (a    *)
(* Rollout) and a bare pod; two callers.                                    *)
EXTENDS ToolBroker, TLC

Ref(kind, name) == [kind |-> kind, name |-> name]

MCPods == {"web-a", "web-b", "cron", "bare"}
MCRefs == {Ref("ReplicaSet", "rs-a"), Ref("ReplicaSet", "rs-b"), Ref("ReplicaSet", "rs-x"),
           Ref("Deployment", "web"), Ref("Rollout", "cron")}
MCOwnerOf == [p \in MCPods |-> CASE p = "web-a" -> Ref("ReplicaSet", "rs-a")
                                 [] p = "web-b" -> Ref("ReplicaSet", "rs-b")
                                 [] p = "cron" -> Ref("ReplicaSet", "rs-x")
                                 [] OTHER -> Nil]
MCRSOwner == [r \in {"rs-a", "rs-b", "rs-x"} |->
                IF r = "rs-x" THEN Ref("Rollout", "cron") ELSE Ref("Deployment", "web")]

\* Diagnosed: a pod of the Deployment; one attributed to its ReplicaSet; one of
\* the Rollout; a bare pod.
MCTargets == {[pod |-> "web-a", owner |-> Ref("Deployment", "web")],
              [pod |-> "web-a", owner |-> Ref("ReplicaSet", "rs-a")],
              [pod |-> "cron", owner |-> Ref("Rollout", "cron")],
              [pod |-> "bare", owner |-> Nil]}

\* The callers are alike.
Symmetric == Permutations(Callers)

Ask(tool, pod) == [tool |-> tool, sound |-> TRUE, pod |-> pod, container |-> TRUE]
MCRequests == {Ask("get_pod_events", p) : p \in {Unnamed, "web-b", "cron"}}
         \cup {[Ask("get_pod_logs", Unnamed) EXCEPT !.container = FALSE],
               Ask("get_workload_spec", Unnamed), Ask("delete_pod", Unnamed)}
=============================================================================
