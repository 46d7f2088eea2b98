----------------------------- MODULE MCDetection -----------------------------
(* The detector and the pods of a Deployment, which belong to two of its    *)
(* ReplicaSets (a rollout).                                                *)
EXTENDS Detection

CONSTANTS p1, p2, web, rsOld, rsNew

Unlimited == [types |-> {}, limit |-> 0, agent |-> FALSE]
OnlyOOM == [types |-> {"OOMKilled"}, limit |-> 0, agent |-> FALSE]
OnePerHour == [types |-> {}, limit |-> 1, agent |-> FALSE]

EitherSpec == {OnlyOOM, OnePerHour}
PlainSpec == {Unlimited}
LimitedSpec == {OnePerHour}
OptedIn == {[q \in PolicyNames |-> Unlimited]}
Limited == {[q \in PolicyNames |-> OnePerHour]}
LimitedOrOOM == {[q \in PolicyNames |-> IF q = DefaultPolicy THEN OnePerHour ELSE OnlyOOM]}

Direct == [p \in Pods |-> IF p = p1 THEN rsOld ELSE rsNew]
Top == [p \in Pods |-> web]
=============================================================================
