----------------------------- MODULE MCPipeline -----------------------------
(* The pipeline on a small cluster: one pod, whose workload is web.        *)
EXTENDS Pipeline

CONSTANTS p1, web

\* Policies cover every failure type and have no limit.
AgentOn == [types |-> {}, limit |-> 0, agent |-> TRUE]
AgentOff == [types |-> {}, limit |-> 0, agent |-> FALSE]

Switchable == {AgentOn, AgentOff}
StartOn == {[q \in PolicyNames |-> AgentOn]}

Top == [p \in Pods |-> web]
=============================================================================
