---------------------------- MODULE MCSufficiency ----------------------------
(* Two containers, one without a probe.  The ages lie on both sides of the *)
(* probe's budget, 5 + 1 * 10 + 15 seconds, and of the scheduler's 30.     *)
EXTENDS Sufficiency

MCProbes == <<[initial |-> 5, period |-> 0, threshold |-> 1], NoProbe>>
MCAges == {0, 29, 30}

\* A Deployment during a rollout, and a pod of another workload with the same app
\* label.
Rollout ==
  [owner |-> "Deployment", found |-> TRUE, labels |-> {"app=web", "hash=b"},
   others |-> {{"app=web", "hash=b"}, {"app=web", "hash=a"}, {"app=web", "hash=z"}},
   refs |-> {"envFrom", "init"}, services |-> {{}, {"app=web"}, {"app=db"}},
   node |-> TRUE, metrics |-> TRUE, events |-> <<2, 3, 1>>, output |-> 3]

\* The Deployment is gone with its pods still there; few events; little output.
Orphaned == [Rollout EXCEPT !.found = FALSE, !.others = {}, !.events = <<1, 2>>, !.output = 1,
                            !.metrics = FALSE]

\* The pods of a StatefulSet carry their own name as a label.
Ordinal ==
  [owner |-> "StatefulSet", found |-> TRUE, labels |-> {"app=db", "pod=db-0"},
   others |-> {{"app=db", "pod=db-1"}}, refs |-> {"projected"},
   services |-> {{"app=db"}}, node |-> TRUE, metrics |-> FALSE, events |-> <<1, 3, 2, 4>>, output |-> 2]

\* A pod of its own without labels that prints nothing, on a node that is gone.
Bare ==
  [owner |-> "Pod", found |-> TRUE, labels |-> {}, others |-> {{"app=web"}},
   refs |-> {}, services |-> {{}},
   node |-> FALSE, metrics |-> TRUE, events |-> <<>>, output |-> 0]

MCNamespaces == {Rollout, Orphaned, Ordinal, Bare}
=============================================================================
