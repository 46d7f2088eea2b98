----------------------- MODULE InvestigatorController -----------------------
(***************************************************************************)
(* InvestigatorReconciler (internal/controller/investigator_controller.go) *)
(* with its concurrent workers.  A reconcile reads the cached Diagnosis    *)
(* and the policy it names, runs the agent (Investigation.tla), and        *)
(* records the findings: record looks the object up again by its name, in  *)
(* the same cache, and retries on a conflict.                              *)
(***************************************************************************)
EXTENDS Cluster

CONSTANTS Workers,          \* investigatorConcurrency of them
          RetrySteps,       \* attempts of retry.DefaultRetry
          ModelConfigured   \* FALSE: no model, r.Model is nil

VARIABLE wrk  \* the workers

\* about: uid of the Diagnosis being investigated; tries: attempts left.
InvWork == [pc: {"idle", "run", "read", "write"}, name: Names \cup {Absent},
            about: Nat, obj: Version \cup {Absent}, tries: Nat]
InvIdle == [pc |-> "idle", name |-> Absent, about |-> 0, obj |-> Absent, tries |-> 0]

ASSUME InvestigatorAssumption ==
  /\ RetrySteps \in Nat \ {0}
  /\ ModelConfigured \in BOOLEAN

InvTypeOK ==
  /\ wrk \in [Workers -> InvWork]
  /\ \A w \in Workers :
       /\ wrk[w].pc # "idle" => wrk[w].name \in Names
       /\ wrk[w].pc = "write" => wrk[w].obj \in Version
InvInit == wrk = [w \in Workers |-> InvIdle]

-----------------------------------------------------------------------------
\* The policy recorded at detection exists and enables the agent.
AgentEnabled(obj) == policies[obj.policy] # Absent /\ policies[obj.policy].agent

\* The object with its new status, still to be written.
Hypothesized(obj, about) == [obj EXCEPT !.phase = "Hypothesized", !.findings = about]

\* Mutation: the phase is not checked.
ToInvestigateAnyPhase(n) == cache[n] # Absent /\ AgentEnabled(cache[n]) /\ ModelConfigured

\* The early returns of Reconcile.
ToInvestigate(n) == PhaseIs(cache[n], "Enriched") /\ AgentEnabled(cache[n]) /\ ModelConfigured

\* Reconcile up to the start of Run.  The work queue never gives one key to
\* two workers.
InvStart(w, n) ==
  /\ wrk[w].pc = "idle" /\ n \in invQ
  /\ \A x \in Workers : wrk[x].name # n
  /\ invQ' = invQ \ {n}
  /\ wrk' = IF ToInvestigate(n)
            THEN [wrk EXCEPT ![w] = [InvIdle EXCEPT !.pc = "run", !.name = n, !.about = cache[n].uid]]
            ELSE wrk
  /\ UNCHANGED <<diag, rv, cache, watch, evQ, faults, clusterVars>>

\* Run returns findings.
InvRun(w) ==
  /\ wrk[w].pc = "run"
  /\ wrk' = [wrk EXCEPT ![w] = [@ EXCEPT !.pc = "read", !.tries = RetrySteps]]
  /\ UNCHANGED <<storeVars, clusterVars>>

\* Mutation: the error is logged and not returned, so the key is forgotten.
InvRetryForgets(w) ==
  /\ wrk' = [wrk EXCEPT ![w] = InvIdle]
  /\ UNCHANGED invQ

\* Reconcile returns an error: the work queue takes the key back.
InvRetry(w) ==
  /\ wrk' = [wrk EXCEPT ![w] = InvIdle]
  /\ invQ' = invQ \cup {wrk[w].name}

\* The model fails: Run returns an error.
InvRunFails(w) ==
  /\ wrk[w].pc = "run"
  /\ Fault
  /\ InvRetry(w)
  /\ UNCHANGED <<diag, rv, cache, watch, evQ, clusterVars>>

\* record, one attempt: the read.
InvRead(w) ==
  LET n == wrk[w].name
  IN  /\ wrk[w].pc = "read"
      /\ \/ /\ cache[n] = Absent
            /\ InvRetry(w)
         \/ /\ cache[n] # Absent /\ ~PhaseIs(cache[n], "Enriched")
            /\ wrk' = [wrk EXCEPT ![w] = InvIdle]
            /\ UNCHANGED invQ
         \/ /\ PhaseIs(cache[n], "Enriched")
            /\ wrk' = [wrk EXCEPT ![w] =
                         [@ EXCEPT !.pc = "write", !.obj = Hypothesized(cache[n], wrk[w].about)]]
            /\ UNCHANGED invQ
      /\ UNCHANGED <<diag, rv, cache, watch, evQ, faults, clusterVars>>

\* Mutations: a conflict is retried without end; a conflict is not retried.
LastAttemptNever(w) == FALSE
LastAttemptAlways(w) == TRUE

\* retry.RetryOnConflict has no attempt left.
LastAttempt(w) == wrk[w].tries <= 1

\* record, one attempt: Status().Update.  A conflict is retried, anything else
\* ends the reconcile.
InvWrite(w) ==
  LET n == wrk[w].name
      o == wrk[w].obj
  IN  /\ wrk[w].pc = "write"
      /\ \/ /\ Current(n, o)
            /\ Update(n, o)
            /\ wrk' = [wrk EXCEPT ![w] = InvIdle]
            /\ UNCHANGED invQ
         \/ /\ diag[n] # Absent /\ ~Current(n, o) /\ ~LastAttempt(w)
            /\ UnchangedStore
            /\ wrk' = [wrk EXCEPT ![w] =
                         [@ EXCEPT !.pc = "read", !.obj = Absent, !.tries = wrk[w].tries - 1]]
            /\ UNCHANGED invQ
         \/ /\ ~Current(n, o) /\ (diag[n] = Absent \/ LastAttempt(w))
            /\ UnchangedStore
            /\ InvRetry(w)
      /\ UNCHANGED <<evQ, faults, clusterVars>>

InvWriteFails(w) ==
  /\ wrk[w].pc = "write"
  /\ Fault
  /\ \/ UnchangedStore
     \/ Current(wrk[w].name, wrk[w].obj) /\ Update(wrk[w].name, wrk[w].obj)
  /\ InvRetry(w)
  /\ UNCHANGED <<evQ, clusterVars>>

InvSteps(w) == InvRun(w) \/ InvRead(w) \/ InvWrite(w)
InvFails(w) == InvRunFails(w) \/ InvWriteFails(w)
=============================================================================
