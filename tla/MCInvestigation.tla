--------------------------- MODULE MCInvestigation ---------------------------
(* Two required kinds of evidence, three tools, two tool calls, of which  *)
(* one is recorded.                                                       *)
EXTENDS InvestigationRecord

MCKinds == {"PreviousLogs", "Events"}
MCCalls == {"get_pod_logs", "get_pod_events", "get_node_status"}
MCGathers ==
  [c \in MCCalls |-> CASE c = "get_pod_logs" -> {"PreviousLogs"}
                       [] c = "get_pod_events" -> {"Events"}
                       [] OTHER -> {}]

B(kind) == [src |-> "B", id |-> kind]
E(n) == [src |-> "E", id |-> n]
H(cause, confidence, cites, actions) ==
  [cause |-> cause, confidence |-> confidence, cites |-> cites, actions |-> actions]

\* Hypotheses the model may submit, sound and unsound, in any order, and too many.
Proposals ==
  {H("leak", 90, {E(1)}, {"SetMemoryLimit"}),
   H("leak", 60, {B("Events"), E(2)}, {}),
   H("probe", 80, {B("Events")}, {"SetProbePort"}),
   H("probe", 80, {}, {}),
   H("", 50, {E(1)}, {}),
   H("disk", 101, {E(1)}, {}),
   H("disk", 40, {E(1)}, {"DeletePod"})}
MCSubmissions ==
  UNION {[1 .. n -> Proposals] : n \in 0 .. 2} \cup {[i \in 1 .. 3 |-> H("leak", 90, {E(1)}, {})]}

\* What one answer may use: nothing; tokens that cost more than they weigh; and
\* tokens whose price is rounded down to nothing.
MCUsages == {[in |-> 0, out |-> 0], [in |-> 0, out |-> 4], [in |-> 3, out |-> 1]}
=============================================================================
