------------------------ MODULE DiagnosisLifecycle ------------------------
(***************************************************************************)
(* What the pipeline promises about one Diagnosis, whatever the cache, the *)
(* retries and the restarts do: it is opened with a specification that     *)
(* never changes, it moves through the phases one at a time, each stage    *)
(* writes its result once and together with the phase, and a removed       *)
(* object takes its results with it (api/v1alpha1/diagnosis_types.go,      *)
(* Phase and DiagnosisSpec).                                               *)
(***************************************************************************)
EXTENDS Naturals

CONSTANTS Names,      \* names of Diagnosis objects
          Specs,      \* what the detector records when it opens one
          Outcomes,   \* what the evidence stage can attach
          NoOutcome,  \* nothing attached yet
          Absent      \* there is no such object

VARIABLE obj  \* each Diagnosis, or Absent

Init == obj = [n \in Names |-> Absent]

\* An object of some uid and specification appears, with nothing attached.
Open(n) ==
  /\ obj[n] = Absent
  /\ obj'[n] # Absent
  /\ obj'[n].uid \in Nat
  /\ obj'[n].spec \in Specs
  /\ obj' = [obj EXCEPT ![n] = [uid |-> obj'[n].uid, spec |-> obj'[n].spec, phase |-> "New",
                               evidence |-> NoOutcome, findings |-> 0]]

\* An object in one phase moves to the next; it is not replaced meanwhile.
Advances(n, from) == obj[n] # Absent /\ obj'[n] # Absent /\ obj[n].phase = from

Detect(n) ==
  /\ Advances(n, "New")
  /\ obj' = [obj EXCEPT ![n] = [@ EXCEPT !.phase = "Detected"]]

Enrich(n) ==
  /\ Advances(n, "Detected")
  /\ obj'[n].evidence \in Outcomes
  /\ obj' = [obj EXCEPT ![n] = [@ EXCEPT !.phase = "Enriched", !.evidence = obj'[n].evidence]]

Conclude(n) ==
  /\ Advances(n, "Enriched")
  /\ obj'[n].findings \in Nat \ {0}
  /\ obj' = [obj EXCEPT ![n] = [@ EXCEPT !.phase = "Hypothesized", !.findings = obj'[n].findings]]

Discard(n) ==
  /\ obj[n] # Absent
  /\ obj' = [obj EXCEPT ![n] = Absent]

Next == \E n \in Names : Open(n) \/ Detect(n) \/ Enrich(n) \/ Conclude(n) \/ Discard(n)

Spec == Init /\ [][Next]_obj
=============================================================================
