---------------------------- MODULE Investigation ----------------------------
(***************************************************************************)
(* One run of the agent loop (internal/agent/investigator.go, Run) with    *)
(* the validation of its conclusion (internal/agent/findings.go).  The     *)
(* model is external: it answers a turn with any sequence of tool calls    *)
(* and submissions, with any token usage, or with an error.  The broker is *)
(* external: a call succeeds, fails or is denied.  The deadline of the     *)
(* context may pass at any moment.                                         *)
(***************************************************************************)
EXTENDS Integers, Sequences, FiniteSets

CONSTANTS Kinds,           \* required kinds of evidence
          Calls,           \* tool calls the model can make
          Gathers,         \* SatisfiedBy: the required kinds each call obtains
          Submissions,     \* submissions the model can make
          AllowedActions,  \* proposable action types
          Usages,          \* token usage one answer can report
          MaxReply,        \* bound: calls in one answer
          MaxToolCalls, MaxTokens, MaxCost,  \* Budget; 0 tokens or cost: no limit
          HasTimeout,      \* Budget.Timeout > 0
          InPrice, OutPrice,  \* Pricing, per PriceUnit tokens
          PriceUnit,       \* 1_000_000
          ExtraTurns,      \* 6
          MaxHypotheses,   \* 5
          ConfidenceCap    \* degradedConfidenceCap, 70

VARIABLES pc,         \* where Run is
          f,          \* st.findings
          result,     \* what Run returned
          baseline,   \* required kinds the baseline holds, cited as B:<kind>
          collected,  \* requirements with Collected set
          lost,       \* requirements with neither Collected nor Obtainable set
          gathered,   \* evidence identifiers given out: nextEvidence - 1
          reply,      \* tool calls of this turn still to be handled
          expired,    \* the deadline has passed
          spent       \* history: usage times price, before any division

vars == <<pc, f, result, baseline, collected, lost, gathered, reply, expired, spent>>

Submit == "submit_findings"
Citation == [src: {"B"}, id: Kinds] \cup [src: {"E"}, id: Nat]
Hypothesis == [cause: STRING, confidence: Int, cites: SUBSET Citation, actions: SUBSET STRING]
Reasons == {"", "concluded", "wall clock", "tokens", "cost", "turns"}

Findings ==
  [hypotheses: Seq(Hypothesis), toolCalls: Nat, turns: Nat, tokens: Nat, cost: Nat,
   duration: Nat, exhausted: BOOLEAN, degraded: BOOLEAN, missing: SUBSET Kinds, reason: Reasons]

NoFindings ==
  [hypotheses |-> <<>>, toolCalls |-> 0, turns |-> 0, tokens |-> 0, cost |-> 0,
   duration |-> 0, exhausted |-> FALSE, degraded |-> FALSE, missing |-> {}, reason |-> ""]

ASSUME InvestigationAssumption ==
  /\ Submit \notin Calls
  /\ Gathers \in [Calls -> SUBSET Kinds]
  /\ \A s \in Submissions : s \in Seq(Hypothesis)
  /\ \A u \in Usages : u \in [in: Nat, out: Nat]
  /\ {MaxReply, MaxToolCalls, MaxTokens, MaxCost, InPrice, OutPrice} \subseteq Nat
  /\ {ExtraTurns, MaxHypotheses, ConfidenceCap} \subseteq Nat
  /\ PriceUnit \in Nat \ {0}
  /\ HasTimeout \in BOOLEAN

TypeOK ==
  /\ pc \in {"head", "generate", "handle", "done", "failed"}
  /\ f \in Findings
  /\ result \in Findings
  /\ baseline \subseteq Kinds
  /\ collected \subseteq Kinds
  /\ lost \subseteq Kinds
  /\ gathered \in Nat
  /\ reply \in Seq(Calls \cup {Submit})
  /\ expired \in BOOLEAN
  /\ spent \in Nat

\* Any Input the package admits: some requirements were met by the baseline,
\* some of the others cannot be.  buildInput makes all of the others lost
\* (Sufficiency, NothingLeftToDemand); the package's tests do not.
Init ==
  /\ pc = "head"
  /\ f = NoFindings
  /\ result = NoFindings
  /\ baseline \in SUBSET Kinds
  /\ collected = baseline
  /\ lost \in SUBSET (Kinds \ baseline)
  /\ gathered = 0
  /\ reply = <<>>
  /\ expired = FALSE
  /\ spent = 0

-----------------------------------------------------------------------------
(* Leaving Run.                                                            *)

\* The results of Run are not named, so the return statement copies the
\* findings, and the deferred function sets the duration of the original
\* afterwards.  One tick per call of the model stands for the time it takes.
Return(findings) ==
  /\ result' = findings
  /\ f' = [findings EXCEPT !.duration = findings.turns]
  /\ pc' = "done"
  /\ reply' = <<>>

\* stop
Stopped(reason) == [f EXCEPT !.reason = reason, !.exhausted = TRUE, !.hypotheses = <<>>]

-----------------------------------------------------------------------------
(* The head of the loop.                                                   *)

MaxTurns == MaxToolCalls + ExtraTurns
CostKnown == InPrice > 0 \/ OutPrice > 0

\* Mutation: the token budget may be reached and passed.
TokensExhaustedBeyond == MaxTokens > 0 /\ f.tokens > MaxTokens

\* exhausted
TokensExhausted == MaxTokens > 0 /\ f.tokens >= MaxTokens
CostExhausted == CostKnown /\ MaxCost > 0 /\ f.cost >= MaxCost

\* Mutation: a reason that the findings do not know.
ExhaustedUnnamed == IF expired THEN "deadline" ELSE ""

Exhausted ==
  CASE expired -> "wall clock"
    [] ~expired /\ TokensExhausted -> "tokens"
    [] ~expired /\ ~TokensExhausted /\ CostExhausted -> "cost"
    [] OTHER -> ""

\* Mutation: the turn is not counted.
NextTurnUncounted == f

NextTurn == [f EXCEPT !.turns = @ + 1]

LoopHead ==
  /\ pc = "head"
  /\ \/ /\ f.turns >= MaxTurns
        /\ Return(Stopped("turns"))
     \/ /\ f.turns < MaxTurns /\ Exhausted # ""
        /\ Return(Stopped(Exhausted))
     \/ /\ f.turns < MaxTurns /\ Exhausted = ""
        /\ f' = NextTurn
        /\ pc' = "generate"
        /\ UNCHANGED <<result, reply>>
  /\ UNCHANGED <<baseline, collected, lost, gathered, expired, spent>>

-----------------------------------------------------------------------------
(* Model.Generate.                                                         *)

\* Mutation: the price is rounded up.
CallCostRoundedUp(u) ==
  IF CostKnown THEN (u.in * InPrice + u.out * OutPrice + PriceUnit - 1) \div PriceUnit ELSE 0

\* account: each of the two products is divided, and rounded down, by itself.
CallCost(u) == IF CostKnown THEN (u.in * InPrice) \div PriceUnit + (u.out * OutPrice) \div PriceUnit
                            ELSE 0
Account(u) == [f EXCEPT !.tokens = @ + u.in + u.out, !.cost = @ + CallCost(u)]

\* An answer without a tool call is only told to go on.
Generate ==
  /\ pc = "generate"
  /\ \E u \in Usages, n \in 0 .. MaxReply :
       \E calls \in [1 .. n -> Calls \cup {Submit}] :
         /\ f' = Account(u)
         /\ spent' = spent + u.in * InPrice + u.out * OutPrice
         /\ reply' = calls
         /\ pc' = IF n = 0 THEN "head" ELSE "handle"
  /\ UNCHANGED <<result, baseline, collected, lost, gathered, expired>>

\* The call ends with DeadlineExceeded, the investigation's or the provider's.
GenerateTimesOut ==
  /\ pc = "generate"
  /\ Return(Stopped("wall clock"))
  /\ UNCHANGED <<baseline, collected, lost, gathered, expired, spent>>

\* Any other error is returned, and the reconcile is retried.
GenerateFails ==
  /\ pc = "generate" /\ ~expired
  /\ pc' = "failed"
  /\ UNCHANGED <<f, result, baseline, collected, lost, gathered, reply, expired, spent>>

-----------------------------------------------------------------------------
(* handleCalls.                                                            *)

\* The next call of the turn, or the next turn.
Handled ==
  /\ reply' = Tail(reply)
  /\ pc' = IF Tail(reply) = <<>> THEN "head" ELSE "handle"

Refuse ==
  /\ pc = "handle" /\ Head(reply) # Submit
  /\ f.toolCalls >= MaxToolCalls
  /\ Handled
  /\ UNCHANGED <<f, result, baseline, collected, lost, gathered, expired, spent>>

\* recordRequirement: success meets the requirement, failure (except a denial)
\* makes it unobtainable.
CallTool ==
  /\ pc = "handle" /\ Head(reply) # Submit
  /\ f.toolCalls < MaxToolCalls
  /\ f' = [f EXCEPT !.toolCalls = @ + 1]
  /\ LET kinds == Gathers[Head(reply)] \ collected
     IN  \/ /\ collected' = collected \cup kinds
            /\ lost' = lost \ kinds
            /\ gathered' = gathered + 1
         \/ /\ lost' = lost \cup kinds
            /\ UNCHANGED <<collected, gathered>>
         \/ UNCHANGED <<collected, lost, gathered>>
  /\ Handled
  /\ UNCHANGED <<result, baseline, expired, spent>>

\* What may be cited.
Ledger == [src: {"B"}, id: baseline] \cup [src: {"E"}, id: 1 .. gathered]

\* Mutations: citations are not looked up; an empty submission passes.
ValidAnyCitation(s) ==
  /\ Len(s) \in 1 .. MaxHypotheses
  /\ \A i \in DOMAIN s :
       /\ s[i].cause # ""
       /\ s[i].confidence \in 0 .. 100
       /\ s[i].cites # {}
       /\ s[i].actions \subseteq AllowedActions
ValidEmpty(s) == s = <<>>

\* validateSubmission; a cause of "" stands for one that is empty or too long.
Valid(s) ==
  /\ Len(s) \in 1 .. MaxHypotheses
  /\ \A i \in DOMAIN s :
       /\ s[i].cause # ""
       /\ s[i].confidence \in 0 .. 100
       /\ s[i].cites # {} /\ s[i].cites \subseteq Ledger
       /\ s[i].actions \subseteq AllowedActions

\* Mutation: the model's order is kept.
RanksAsSubmitted(s) == {[i \in DOMAIN s |-> i]}

\* rank: the order by confidence that keeps the model's order between equals.
Ranks(s) ==
  {g \in [DOMAIN s -> DOMAIN s] :
     \A i, j \in DOMAIN s :
       i < j => \/ s[g[i]].confidence > s[g[j]].confidence
                \/ s[g[i]].confidence = s[g[j]].confidence /\ g[i] < g[j]}

\* capConfidence
Capped(h) == IF h.confidence > ConfidenceCap THEN [h EXCEPT !.confidence = ConfidenceCap] ELSE h

\* accept, its sufficiency gate: something is missing that could still be had.
Missing == Kinds \ collected

Gate == Missing \ lost # {} /\ f.toolCalls < MaxToolCalls

\* Mutation: only evidence that cannot be had counts as missing.
ConclusionLostOnly(s, g) ==
  [f EXCEPT !.hypotheses = [i \in DOMAIN s |-> IF lost = {} THEN s[g[i]] ELSE Capped(s[g[i]])],
            !.degraded = lost # {},
            !.missing = lost,
            !.reason = "concluded"]

Conclusion(s, g) ==
  [f EXCEPT !.hypotheses = [i \in DOMAIN s |-> IF Missing = {} THEN s[g[i]] ELSE Capped(s[g[i]])],
            !.degraded = Missing # {},
            !.missing = Missing,
            !.reason = "concluded"]

\* A valid submission ends the run; the calls after it are not made.
Conclude ==
  /\ pc = "handle" /\ Head(reply) = Submit
  /\ \E s \in Submissions :
       /\ Valid(s) /\ ~Gate
       /\ \E g \in Ranks(s) : Return(Conclusion(s, g))
  /\ UNCHANGED <<baseline, collected, lost, gathered, expired, spent>>

Reject ==
  /\ pc = "handle" /\ Head(reply) = Submit
  /\ \E s \in Submissions : ~Valid(s) \/ Gate
  /\ Handled
  /\ UNCHANGED <<f, result, baseline, collected, lost, gathered, expired, spent>>

-----------------------------------------------------------------------------
Deadline ==
  /\ HasTimeout /\ ~expired /\ pc \notin {"done", "failed"}
  /\ expired' = TRUE
  /\ UNCHANGED <<pc, f, result, baseline, collected, lost, gathered, reply, spent>>

Finished == pc \in {"done", "failed"} /\ UNCHANGED vars

Answer == Generate \/ GenerateTimesOut \/ GenerateFails
Handle == Refuse \/ CallTool \/ Conclude \/ Reject

Next == LoopHead \/ Answer \/ Handle \/ Deadline \/ Finished

Spec == Init /\ [][Next]_vars

\* Run keeps going; the model answers or errs (its HTTP call has the context).
FairSpec == Spec /\ WF_vars(LoopHead) /\ WF_vars(Answer) /\ WF_vars(Handle)

-----------------------------------------------------------------------------
(* Properties.                                                             *)

Concluded == pc = "done" /\ result.reason = "concluded"

\* Every hypothesis that is returned cites something, and only evidence that
\* this investigation had: an item of the baseline or the answer to a call
\* that succeeded (validateSubmission against the ledger).
CitationsExist ==
  pc = "done" =>
    \A i \in DOMAIN result.hypotheses :
      result.hypotheses[i].cites # {} /\ result.hypotheses[i].cites \subseteq Ledger

\* An investigation ends with a conclusion that has hypotheses, or with the
\* budget that ended it and none: never a guess, never neither (Findings).
ConclusionOrReason ==
  pc = "done" =>
    /\ result.reason = "concluded" <=> result.hypotheses # <<>>
    /\ result.exhausted <=> result.reason # "concluded"

\* A conclusion says so when required evidence is missing, says what, and then
\* presents nothing as certain (accept, capConfidence).
DegradedIsCapped ==
  Concluded =>
    /\ result.missing = Missing
    /\ result.degraded <=> Missing # {}
    /\ result.degraded => \A i \in DOMAIN result.hypotheses :
                            result.hypotheses[i].confidence <= ConfidenceCap

\* Hypotheses come in the order of the confidence they are reported with, the
\* cap included, and the model's order never decides against it (rank).
RankedByConfidence ==
  pc = "done" =>
    \A i, j \in DOMAIN result.hypotheses :
      i < j => result.hypotheses[i].confidence >= result.hypotheses[j].confidence

\* Tool calls and turns never exceed their limits, and tokens and cost exceed
\* theirs by less than the last answer of the model (exhausted is asked before
\* every turn).
BudgetsBounded ==
  /\ f.toolCalls <= MaxToolCalls
  /\ f.turns <= MaxTurns
  /\ TokensExhausted => \E u \in Usages : f.tokens - (u.in + u.out) < MaxTokens
  /\ CostExhausted => \E u \in Usages : f.cost - CallCost(u) < MaxCost

\* The cost that is reported and held against the budget never exceeds the real
\* one, and falls short of it by less than two units for every turn (account
\* divides twice per answer).
CostWithinRounding ==
  /\ f.cost * PriceUnit <= spent
  /\ spent <= f.cost * PriceUnit + 2 * f.turns * (PriceUnit - 1)

\* Run reports how long it took (diagnosis_types.go, Investigation "records how
\* an analysis was performed and what it consumed").
DurationReported == pc = "done" /\ result.turns > 0 => result.duration > 0

\* Every investigation ends, whatever the model answers (extraTurns bounds the
\* loop).
Terminates == <>(pc \in {"done", "failed"})
=============================================================================
