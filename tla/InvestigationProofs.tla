------------------------- MODULE InvestigationProofs -------------------------
(***************************************************************************)
(* The agent loop, for every budget, every set of tools and every model.   *)
(***************************************************************************)
EXTENDS Investigation, TLAPS

\* The proofs need beside TypeOK: calls are handled only while there are some.
HandlesReply == pc = "handle" => reply # <<>>

-----------------------------------------------------------------------------
(* What the helpers return.                                                *)

\* Capping a confidence keeps the rest of a hypothesis, bounds the confidence
\* and never turns the order of two confidences round.
LEMMA Capping ==
  ASSUME NEW h \in Hypothesis, NEW k \in Hypothesis
  PROVE  /\ Capped(h) \in Hypothesis
         /\ Capped(h).cites = h.cites
         /\ Capped(h).confidence <= ConfidenceCap
         /\ h.confidence >= k.confidence => Capped(h).confidence >= Capped(k).confidence
BY InvestigationAssumption, SMTT(30) DEF Capped, Hypothesis

\* A stopped run has no hypotheses, keeps what was counted, and says why.
LEMMA Stopping ==
  ASSUME f \in Findings, NEW r \in Reasons
  PROVE  /\ Stopped(r) \in Findings
         /\ Stopped(r).hypotheses = <<>> /\ Stopped(r).exhausted /\ Stopped(r).reason = r
         /\ Stopped(r).toolCalls = f.toolCalls /\ Stopped(r).turns = f.turns
         /\ Stopped(r).tokens = f.tokens /\ Stopped(r).cost = f.cost
<1>1. <<>> \in Seq(Hypothesis)
  OBVIOUS
<1> QED
  BY <1>1 DEF Stopped, Findings

\* A conclusion has the submitted hypotheses in the order g gives, capped when
\* something is missing, and keeps what was counted.
LEMMA Concluding ==
  ASSUME TypeOK, NEW s \in Submissions, NEW g \in [DOMAIN s -> DOMAIN s]
  PROVE  /\ Conclusion(s, g) \in Findings
         /\ Conclusion(s, g).hypotheses =
              [i \in DOMAIN s |-> IF Missing = {} THEN s[g[i]] ELSE Capped(s[g[i]])]
         /\ Conclusion(s, g).missing = Missing /\ Conclusion(s, g).degraded = (Missing # {})
         /\ Conclusion(s, g).reason = "concluded" /\ Conclusion(s, g).exhausted = f.exhausted
         /\ Conclusion(s, g).toolCalls = f.toolCalls /\ Conclusion(s, g).turns = f.turns
         /\ Conclusion(s, g).tokens = f.tokens /\ Conclusion(s, g).cost = f.cost
<1> DEFINE hs == [i \in DOMAIN s |-> IF Missing = {} THEN s[g[i]] ELSE Capped(s[g[i]])]
<1>1. s \in Seq(Hypothesis)
  BY InvestigationAssumption
<1>2. \A i \in DOMAIN s : s[g[i]] \in Hypothesis
  BY <1>1
<1>3. \A i \in DOMAIN s : hs[i] \in Hypothesis
  BY <1>2, Capping
<1>4. hs \in Seq(Hypothesis)
  <2>1. DOMAIN s = 1 .. Len(s) /\ Len(s) \in Nat
    BY <1>1
  <2> HIDE DEF hs
  <2>2. hs \in [1 .. Len(s) -> Hypothesis]
    BY <1>3, <2>1 DEF hs
  <2> QED
    BY <2>1, <2>2
<1>5. Missing \subseteq Kinds
  BY DEF Missing
<1> HIDE DEF hs
<1>6. Conclusion(s, g) = [f EXCEPT !.hypotheses = hs, !.degraded = Missing # {},
                                   !.missing = Missing, !.reason = "concluded"]
  BY DEF Conclusion, hs
<1>7. /\ Conclusion(s, g) \in Findings /\ Conclusion(s, g).hypotheses = hs
      /\ Conclusion(s, g).missing = Missing /\ Conclusion(s, g).degraded = (Missing # {})
      /\ Conclusion(s, g).reason = "concluded" /\ Conclusion(s, g).exhausted = f.exhausted
      /\ Conclusion(s, g).toolCalls = f.toolCalls /\ Conclusion(s, g).turns = f.turns
      /\ Conclusion(s, g).tokens = f.tokens /\ Conclusion(s, g).cost = f.cost
  BY <1>4, <1>5, <1>6 DEF TypeOK, Findings, Reasons
<1> QED
  BY <1>7 DEF hs

\* Usage is counted in natural numbers.
LEMMA Accounting ==
  ASSUME f \in Findings, NEW u \in Usages
  PROVE  /\ CallCost(u) \in Nat
         /\ u.in \in Nat /\ u.out \in Nat
         /\ Account(u) \in Findings
         /\ Account(u).tokens = f.tokens + u.in + u.out
         /\ Account(u).cost = f.cost + CallCost(u)
         /\ Account(u).toolCalls = f.toolCalls /\ Account(u).turns = f.turns
<1>1. /\ u.in \in Nat /\ u.out \in Nat /\ InPrice \in Nat /\ OutPrice \in Nat
      /\ PriceUnit \in Nat \ {0}
  BY InvestigationAssumption
<1>2. u.in * InPrice \in Nat /\ u.out * OutPrice \in Nat
  BY <1>1
<1>3. \A a \in Nat : a \div PriceUnit \in Nat
  BY <1>1
<1>4. CallCost(u) \in Nat
  BY <1>2, <1>3 DEF CallCost
<1>5. f.tokens + u.in + u.out \in Nat /\ f.cost + CallCost(u) \in Nat
  BY <1>1, <1>4, SMTT(30) DEF Findings
<1> QED
  BY <1>1, <1>4, <1>5 DEF Account, Findings

\* How a run ends: with a budget, or with a submission that was accepted.  Once
\* it has ended nothing changes.
LEMMA Ending ==
  ASSUME TypeOK, [Next]_vars
  PROVE  /\ pc = "done" => UNCHANGED vars
         /\ pc # "done" /\ pc' = "done" =>
              /\ UNCHANGED <<baseline, collected, lost, gathered>>
              /\ \/ \E r \in Reasons \ {"", "concluded"} : result' = Stopped(r)
                 \/ \E s \in Submissions : \E g \in Ranks(s) :
                      Valid(s) /\ ~Gate /\ result' = Conclusion(s, g)
<1>1. pc = "done" => UNCHANGED vars
  BY DEF Next, LoopHead, Answer, Generate, GenerateTimesOut, GenerateFails, Handle, Refuse, CallTool,
         Conclude, Reject, Deadline, Finished, vars
<1>2. ASSUME pc # "done", pc' = "done"
      PROVE  (LoopHead /\ pc' = "done") \/ GenerateTimesOut \/ Conclude
  BY <1>2 DEF Next, Answer, Generate, GenerateFails, Handle, Refuse, CallTool,
              Reject, Deadline, Finished, Handled, vars
<1>3. CASE LoopHead /\ pc' = "done"
  <2>1. Exhausted \in {"", "wall clock", "tokens", "cost"}
    BY DEF Exhausted
  <2>2. result' = Stopped("turns") \/ (Exhausted # "" /\ result' = Stopped(Exhausted))
    BY <1>3 DEF LoopHead, Return
  <2> QED
    BY <1>1, <1>3, <2>1, <2>2 DEF LoopHead, Reasons
<1>4. CASE GenerateTimesOut
  <2>1. result' = Stopped("wall clock") /\ UNCHANGED <<baseline, collected, lost, gathered>>
    BY <1>4 DEF GenerateTimesOut, Return
  <2>2. "wall clock" \in Reasons \ {"", "concluded"}
    BY DEF Reasons
  <2> QED
    BY <1>1, <2>1, <2>2
<1>5. CASE Conclude
  BY <1>1, <1>5 DEF Conclude, Return
<1> QED
  BY <1>1, <1>2, <1>3, <1>4, <1>5

-----------------------------------------------------------------------------
(* Types.                                                                  *)

\* Leaving Run stores findings and nothing else.
LEMMA ReturnTypes ==
  ASSUME TypeOK, NEW x \in Findings, Return(x), UNCHANGED <<baseline, collected, lost, gathered, expired, spent>>
  PROVE  TypeOK' /\ HandlesReply'
<1>1. [x EXCEPT !.duration = x.turns] \in Findings
  BY DEF Findings
<1>2. <<>> \in Seq(Calls \cup {Submit})
  OBVIOUS
<1> QED
  BY <1>1, <1>2 DEF Return, TypeOK, HandlesReply

\* Going on to the next call leaves a sequence of calls.
LEMMA HandledTypes ==
  ASSUME TypeOK, HandlesReply, pc = "handle", Handled
  PROVE  reply' \in Seq(Calls \cup {Submit}) /\ pc' \in {"head", "handle"} /\ HandlesReply'
<1>1. reply \in Seq(Calls \cup {Submit}) /\ reply # <<>>
  BY DEF TypeOK, HandlesReply
<1>2. Tail(reply) \in Seq(Calls \cup {Submit})
  BY <1>1
<1> QED
  BY <1>2 DEF Handled, HandlesReply

\* Every step keeps the types.
LEMMA StepTypes ==
  ASSUME TypeOK, HandlesReply, [Next]_vars
  PROVE  TypeOK' /\ HandlesReply'
<1>1. f \in Findings
  BY DEF TypeOK
<1>2. CASE LoopHead
  <2>1. Exhausted \in Reasons /\ "turns" \in Reasons
    BY DEF Exhausted, Reasons
  <2>2. CASE Return(Stopped("turns")) \/ Return(Stopped(Exhausted))
    BY <1>1, <1>2, <2>1, <2>2, Stopping, ReturnTypes DEF LoopHead
  <2>3. CASE f' = NextTurn /\ pc' = "generate" /\ UNCHANGED <<result, reply>>
    <3>1. f.turns + 1 \in Nat
      BY <1>1 DEF Findings
    <3>2. f' \in Findings
      BY <1>1, <2>3, <3>1 DEF Findings, NextTurn
    <3> QED
      BY <1>2, <2>3, <3>2 DEF LoopHead, TypeOK, HandlesReply
  <2> QED
    BY <1>2, <2>2, <2>3 DEF LoopHead
<1>3. CASE Generate
  <2>1. PICK u \in Usages, n \in 0 .. MaxReply : \E calls \in [1 .. n -> Calls \cup {Submit}] :
          /\ f' = Account(u) /\ spent' = spent + u.in * InPrice + u.out * OutPrice
          /\ reply' = calls /\ pc' = IF n = 0 THEN "head" ELSE "handle"
    BY <1>3 DEF Generate
  <2>2. n \in Nat /\ reply' \in [1 .. n -> Calls \cup {Submit}]
    BY <2>1, InvestigationAssumption
  <2>3. reply' \in Seq(Calls \cup {Submit}) /\ Len(reply') = n
    BY <2>2
  <2>4. f' \in Findings /\ u.in \in Nat /\ u.out \in Nat
    BY <1>1, <2>1, Accounting
  <2>5. spent' \in Nat
    <3>1. u.in * InPrice \in Nat /\ u.out * OutPrice \in Nat
      BY <2>4, InvestigationAssumption
    <3> QED
      BY <2>1, <3>1 DEF TypeOK
  <2>6. HandlesReply'
    BY <2>1, <2>3 DEF HandlesReply
  <2> QED
    BY <1>3, <2>1, <2>3, <2>4, <2>5, <2>6 DEF Generate, TypeOK
<1>4. CASE GenerateTimesOut
  <2>1. "wall clock" \in Reasons
    BY DEF Reasons
  <2> QED
    BY <1>1, <1>4, <2>1, Stopping, ReturnTypes DEF GenerateTimesOut
<1>5. CASE Refuse \/ Reject
  <2>1. pc = "handle" /\ Handled /\ UNCHANGED <<f, result, baseline, collected, lost, gathered, expired, spent>>
    BY <1>5 DEF Refuse, Reject
  <2> QED
    BY <2>1, HandledTypes DEF TypeOK
<1>6. CASE CallTool
  <2>1. pc = "handle" /\ Handled /\ UNCHANGED <<result, baseline, expired, spent>>
    BY <1>6 DEF CallTool
  <2>2. f.toolCalls + 1 \in Nat
    BY <1>1 DEF Findings
  <2>3. f' \in Findings
    BY <1>1, <1>6, <2>2 DEF CallTool, Findings
  <2>4. Head(reply) \in Calls
    <3>1. reply \in Seq(Calls \cup {Submit}) /\ reply # <<>> /\ Head(reply) # Submit
      BY <1>6 DEF CallTool, TypeOK, HandlesReply
    <3> QED
      BY <3>1
  <2>5. Gathers[Head(reply)] \subseteq Kinds
    BY <2>4, InvestigationAssumption
  <2>6. collected' \subseteq Kinds /\ lost' \subseteq Kinds /\ gathered' \in Nat
    BY <1>6, <2>5 DEF CallTool, TypeOK
  <2> QED
    BY <2>1, <2>3, <2>6, HandledTypes DEF TypeOK
<1>7. CASE Conclude
  <2>1. PICK s \in Submissions : \E g \in Ranks(s) : Return(Conclusion(s, g))
    BY <1>7 DEF Conclude
  <2>2. PICK g \in [DOMAIN s -> DOMAIN s] : Return(Conclusion(s, g))
    BY <2>1 DEF Ranks
  <2>3. Conclusion(s, g) \in Findings
    BY Concluding
  <2> QED
    BY <1>7, <2>2, <2>3, ReturnTypes DEF Conclude
<1>8. CASE GenerateFails \/ Deadline \/ Finished \/ UNCHANGED vars
  BY <1>8 DEF GenerateFails, Deadline, Finished, vars, TypeOK, HandlesReply
<1> QED
  BY <1>2, <1>3, <1>4, <1>5, <1>6, <1>7, <1>8 DEF Next, Answer, Handle

\* A run starts well typed, with no calls to handle.
LEMMA InitTypes == Init => TypeOK /\ HandlesReply
<1>1. NoFindings \in Findings
  <2>1. <<>> \in Seq(Hypothesis)
    OBVIOUS
  <2> QED
    BY <2>1 DEF NoFindings, Findings, Reasons
<1>2. <<>> \in Seq(Calls \cup {Submit})
  OBVIOUS
<1>3. ASSUME Init
      PROVE  baseline \subseteq Kinds /\ collected \subseteq Kinds /\ lost \subseteq Kinds
  BY <1>3 DEF Init
<1>4. ASSUME Init
      PROVE  pc = "head" /\ expired = FALSE /\ gathered = 0 /\ spent = 0
  BY <1>4 DEF Init
<1>5. ASSUME Init
      PROVE  f \in Findings /\ result \in Findings /\ reply \in Seq(Calls \cup {Submit})
  BY <1>1, <1>2, <1>5, Zenon DEF Init
<1> QED
  BY <1>3, <1>4, <1>5 DEF TypeOK, HandlesReply

\* The agent loop keeps its types: counters are natural numbers, hypotheses are
\* well formed, and the calls of a turn are known tools.
THEOREM InvestigationTypeCorrect == Spec => []TypeOK
<1>1. TypeOK /\ HandlesReply /\ [Next]_vars => TypeOK' /\ HandlesReply'
  BY StepTypes
<1> QED
  BY <1>1, InitTypes, PTL DEF Spec

-----------------------------------------------------------------------------
(* What a returned conclusion is worth.                                    *)

\* A submission and the order it is ranked in, as the proofs use them.
LEMMA Ranking ==
  ASSUME NEW s \in Submissions, NEW g \in Ranks(s)
  PROVE  /\ g \in [DOMAIN s -> DOMAIN s]
         /\ DOMAIN s \subseteq Nat
         /\ \A i \in DOMAIN s : s[g[i]] \in Hypothesis
         /\ \A i, j \in DOMAIN s : i < j => s[g[i]].confidence >= s[g[j]].confidence
<1>1. s \in Seq(Hypothesis)
  BY InvestigationAssumption
<1>2. g \in [DOMAIN s -> DOMAIN s]
  BY DEF Ranks
<1>3. \A i \in DOMAIN s : s[g[i]] \in Hypothesis
  BY <1>1, <1>2
<1>4. \A i \in DOMAIN s : s[g[i]].confidence \in Int
  BY <1>3 DEF Hypothesis
<1>5. DOMAIN s \subseteq Nat
  BY <1>1
<1>6. \A i, j \in DOMAIN s : i < j => \/ s[g[i]].confidence > s[g[j]].confidence
                                     \/ s[g[i]].confidence = s[g[j]].confidence
  BY DEF Ranks
<1> QED
  BY <1>2, <1>3, <1>4, <1>5, <1>6

\* The order of the hypotheses in a conclusion.
LEMMA ConclusionRanked ==
  ASSUME TypeOK, NEW s \in Submissions, NEW g \in Ranks(s),
         NEW i \in DOMAIN Conclusion(s, g).hypotheses, NEW j \in DOMAIN Conclusion(s, g).hypotheses,
         i < j
  PROVE  Conclusion(s, g).hypotheses[i].confidence >= Conclusion(s, g).hypotheses[j].confidence
<1> DEFINE hs == Conclusion(s, g).hypotheses
<1>1. g \in [DOMAIN s -> DOMAIN s]
  BY Ranking
<1>2. hs = [k \in DOMAIN s |-> IF Missing = {} THEN s[g[k]] ELSE Capped(s[g[k]])]
  BY <1>1, Concluding
<1>3. i \in DOMAIN s /\ j \in DOMAIN s
  BY <1>2
<1>4. /\ s[g[i]] \in Hypothesis /\ s[g[j]] \in Hypothesis
      /\ s[g[i]].confidence >= s[g[j]].confidence
  BY <1>3, Ranking
<1>5. Capped(s[g[i]]).confidence >= Capped(s[g[j]]).confidence
  BY <1>4, Capping
<1> QED
  BY <1>2, <1>3, <1>4, <1>5

\* Hypotheses are returned in the order of the confidence they carry, the cap
\* included, whatever the model submitted (rank before capConfidence).
THEOREM AlwaysRanked == Spec => []RankedByConfidence
<1>1. Init => RankedByConfidence
  BY DEF Init, RankedByConfidence
<1>2. TypeOK /\ RankedByConfidence /\ [Next]_vars => RankedByConfidence'
  <2> SUFFICES ASSUME TypeOK, RankedByConfidence, [Next]_vars, pc' = "done",
                      NEW i \in DOMAIN result'.hypotheses, NEW j \in DOMAIN result'.hypotheses, i < j
               PROVE  result'.hypotheses[i].confidence >= result'.hypotheses[j].confidence
    BY DEF RankedByConfidence
  <2>1. CASE pc = "done"
    BY <2>1, Ending DEF RankedByConfidence, vars
  <2>2. ASSUME pc # "done", NEW r \in Reasons, result' = Stopped(r)
        PROVE  FALSE
    <3>1. result'.hypotheses = <<>>
      BY <2>2, Stopping DEF TypeOK
    <3> QED
      BY <3>1
  <2>3. ASSUME NEW s \in Submissions, NEW g \in Ranks(s), result' = Conclusion(s, g)
        PROVE  result'.hypotheses[i].confidence >= result'.hypotheses[j].confidence
    BY <2>3, ConclusionRanked
  <2> QED
    BY <2>1, <2>2, <2>3, Ending
<1> QED
  BY <1>1, <1>2, InvestigationTypeCorrect, PTL DEF Spec

\* Every hypothesis of every result cites something, and only evidence this
\* investigation had.
THEOREM CitationsAlwaysExist == Spec => []CitationsExist
<1>1. Init => CitationsExist
  BY DEF Init, CitationsExist
<1>2. TypeOK /\ CitationsExist /\ [Next]_vars => CitationsExist'
  <2> SUFFICES ASSUME TypeOK, CitationsExist, [Next]_vars, pc' = "done",
                      NEW i \in DOMAIN result'.hypotheses
               PROVE  result'.hypotheses[i].cites # {} /\ result'.hypotheses[i].cites \subseteq Ledger'
    BY DEF CitationsExist
  <2>1. CASE pc = "done"
    BY <2>1, Ending, Zenon DEF CitationsExist, Ledger, vars
  <2>2. ASSUME pc # "done", NEW r \in Reasons, result' = Stopped(r)
        PROVE  FALSE
    <3>1. result'.hypotheses = <<>>
      BY <2>2, Stopping DEF TypeOK
    <3> QED
      BY <3>1
  <2>3. ASSUME pc # "done", NEW s \in Submissions, NEW g \in Ranks(s), Valid(s),
               result' = Conclusion(s, g)
        PROVE  result'.hypotheses[i].cites # {} /\ result'.hypotheses[i].cites \subseteq Ledger
    <3>1. g \in [DOMAIN s -> DOMAIN s] /\ \A k \in DOMAIN s : s[g[k]] \in Hypothesis
      BY Ranking
    <3>2. result'.hypotheses = [k \in DOMAIN s |-> IF Missing = {} THEN s[g[k]] ELSE Capped(s[g[k]])]
      BY <2>3, <3>1, Concluding
    <3>3. i \in DOMAIN s /\ g[i] \in DOMAIN s
      BY <3>1, <3>2
    <3>4. result'.hypotheses[i].cites = s[g[i]].cites
      BY <3>1, <3>2, <3>3, Capping
    <3> QED
      BY <2>3, <3>3, <3>4, Zenon DEF Valid
  <2>4. pc # "done" => Ledger' = Ledger
    <3>1. pc # "done" => baseline' = baseline /\ gathered' = gathered
      BY Ending
    <3> QED
      BY <3>1, Zenon DEF Ledger
  <2> QED
    BY <2>1, <2>2, <2>3, <2>4, Ending
<1> QED
  BY <1>1, <1>2, InvestigationTypeCorrect, PTL DEF Spec

\* A conclusion that lacks required evidence says so, says what, and presents
\* nothing as certain, whatever the model submits (accept, capConfidence).
THEOREM DegradedAlwaysCapped == Spec => []DegradedIsCapped
<1>1. Init => DegradedIsCapped
  BY DEF Init, DegradedIsCapped, Concluded
<1>2. TypeOK /\ DegradedIsCapped /\ [Next]_vars => DegradedIsCapped'
  <2> SUFFICES ASSUME TypeOK, DegradedIsCapped, [Next]_vars, pc' = "done", result'.reason = "concluded"
               PROVE  DegradedIsCapped'
    BY DEF DegradedIsCapped, Concluded
  <2>1. CASE pc = "done"
    BY <2>1, Ending, Zenon DEF DegradedIsCapped, Concluded, Missing, vars
  <2>2. ASSUME pc # "done", NEW r \in Reasons \ {"", "concluded"}, result' = Stopped(r)
        PROVE  FALSE
    BY <2>2, Stopping DEF TypeOK
  <2>3. ASSUME pc # "done", NEW s \in Submissions, NEW g \in Ranks(s), ~Gate,
               result' = Conclusion(s, g)
        PROVE  DegradedIsCapped'
    <3>1. g \in [DOMAIN s -> DOMAIN s] /\ \A k \in DOMAIN s : s[g[k]] \in Hypothesis
      BY Ranking
    <3>2. /\ result'.hypotheses = [k \in DOMAIN s |-> IF Missing = {} THEN s[g[k]] ELSE Capped(s[g[k]])]
          /\ result'.missing = Missing /\ result'.degraded = (Missing # {})
      BY <2>3, <3>1, Concluding
    <3>3. collected' = collected /\ lost' = lost
      BY <2>3, Ending
    <3>4. Missing' = Missing
      BY <3>3, Zenon DEF Missing
    <3>5. Missing # {} => \A k \in DOMAIN result'.hypotheses :
                            result'.hypotheses[k].confidence <= ConfidenceCap
      BY <3>1, <3>2, Capping
    <3> QED
      BY <3>2, <3>4, <3>5 DEF DegradedIsCapped
  <2> QED
    BY <2>1, <2>2, <2>3, Ending
<1> QED
  BY <1>1, <1>2, InvestigationTypeCorrect, PTL DEF Spec

-----------------------------------------------------------------------------
(* Budgets.                                                                *)

\* The model is asked only while no budget is spent; this makes BudgetsBounded
\* inductive.
AskedInBudget == pc = "generate" => ~TokensExhausted /\ ~CostExhausted

\* What a step does to the counters: nothing, one more turn, one more tool call,
\* or the usage of one answer.
LEMMA Counting ==
  ASSUME TypeOK, HandlesReply, [Next]_vars
  PROVE  \/ /\ f'.turns = f.turns /\ f'.toolCalls = f.toolCalls
            /\ f'.tokens = f.tokens /\ f'.cost = f.cost /\ spent' = spent
            /\ pc' = "generate" => pc = "generate"
            /\ pc = "generate" => pc' \in {"generate", "done", "failed"}
         \/ /\ pc = "head" /\ pc' = "generate" /\ f.turns < MaxTurns /\ Exhausted = ""
            /\ f'.turns = f.turns + 1 /\ f'.toolCalls = f.toolCalls
            /\ f'.tokens = f.tokens /\ f'.cost = f.cost /\ spent' = spent
         \/ /\ pc = "handle" /\ pc' \in {"head", "handle"} /\ f.toolCalls < MaxToolCalls
            /\ f'.turns = f.turns /\ f'.toolCalls = f.toolCalls + 1
            /\ f'.tokens = f.tokens /\ f'.cost = f.cost /\ spent' = spent
         \/ /\ pc = "generate" /\ pc' \in {"head", "handle"}
            /\ f'.turns = f.turns /\ f'.toolCalls = f.toolCalls
            /\ \E u \in Usages :
                 /\ f'.tokens = f.tokens + u.in + u.out
                 /\ f'.cost = f.cost + CallCost(u)
                 /\ spent' = spent + u.in * InPrice + u.out * OutPrice
<1>1. f \in Findings
  BY DEF TypeOK
<1>2. ASSUME NEW x \in Findings, x.turns = f.turns, x.toolCalls = f.toolCalls, x.tokens = f.tokens,
             x.cost = f.cost, Return(x), spent' = spent
      PROVE  /\ f'.turns = f.turns /\ f'.toolCalls = f.toolCalls
             /\ f'.tokens = f.tokens /\ f'.cost = f.cost /\ spent' = spent
             /\ pc' = "done"
  BY <1>2 DEF Return, Findings
<1>3. CASE LoopHead
  <2>1. Exhausted \in Reasons /\ "turns" \in Reasons
    BY DEF Exhausted, Reasons
  <2>2. CASE Return(Stopped("turns")) \/ Return(Stopped(Exhausted))
    BY <1>1, <1>2, <1>3, <2>1, <2>2, Stopping DEF LoopHead
  <2>3. CASE f.turns < MaxTurns /\ Exhausted = "" /\ f' = NextTurn /\ pc' = "generate"
    BY <1>1, <1>3, <2>3 DEF LoopHead, NextTurn, Findings
  <2> QED
    BY <1>3, <2>2, <2>3 DEF LoopHead
<1>4. CASE Generate
  <2>1. PICK u \in Usages : /\ f' = Account(u)
                            /\ spent' = spent + u.in * InPrice + u.out * OutPrice
                            /\ pc' \in {"head", "handle"}
    BY <1>4 DEF Generate
  <2> QED
    BY <1>1, <1>4, <2>1, Accounting DEF Generate
<1>5. CASE GenerateTimesOut
  <2>1. "wall clock" \in Reasons
    BY DEF Reasons
  <2> QED
    BY <1>1, <1>2, <1>5, <2>1, Stopping DEF GenerateTimesOut
<1>6. CASE Refuse \/ Reject
  BY <1>6, HandledTypes DEF Refuse, Reject
<1>7. CASE CallTool
  <2>1. f'.turns = f.turns /\ f'.toolCalls = f.toolCalls + 1 /\ f'.tokens = f.tokens /\ f'.cost = f.cost
    BY <1>1, <1>7 DEF CallTool, Findings
  <2> QED
    BY <1>7, <2>1, HandledTypes DEF CallTool
<1>8. CASE Conclude
  <2>1. PICK s \in Submissions : \E g \in Ranks(s) : Return(Conclusion(s, g))
    BY <1>8 DEF Conclude
  <2>2. PICK g \in [DOMAIN s -> DOMAIN s] : Return(Conclusion(s, g))
    BY <2>1 DEF Ranks
  <2> QED
    BY <1>2, <1>8, <2>2, Concluding DEF Conclude
<1>9. CASE GenerateFails \/ Deadline \/ Finished \/ UNCHANGED vars
  BY <1>9 DEF GenerateFails, Deadline, Finished, vars
<1> QED
  BY <1>3, <1>4, <1>5, <1>6, <1>7, <1>8, <1>9 DEF Next, Answer, Handle

\* Tool calls and turns stay within their limits, tokens and cost overrun
\* theirs by less than one answer of the model: for every budget and price.
THEOREM BudgetsAlwaysBounded == Spec => []BudgetsBounded
<1> DEFINE IInv == BudgetsBounded /\ AskedInBudget
<1>1. Init => IInv
  <2> SUFFICES ASSUME Init
               PROVE  IInv
    OBVIOUS
  <2>1. pc = "head" /\ f.toolCalls = 0 /\ f.turns = 0 /\ f.tokens = 0 /\ f.cost = 0
    BY DEF Init, NoFindings
  <2>2. ~TokensExhausted /\ ~CostExhausted
    BY <2>1, InvestigationAssumption DEF TokensExhausted, CostExhausted
  <2>3. MaxTurns \in Nat /\ MaxToolCalls \in Nat
    BY InvestigationAssumption DEF MaxTurns
  <2> QED
    BY <2>1, <2>2, <2>3 DEF BudgetsBounded, AskedInBudget
<1>2. TypeOK /\ HandlesReply /\ IInv /\ [Next]_vars => IInv'
  <2> SUFFICES ASSUME TypeOK, HandlesReply, IInv, [Next]_vars
               PROVE  IInv'
    OBVIOUS
  <2>1. /\ f.turns \in Nat /\ f.toolCalls \in Nat /\ f.tokens \in Nat /\ f.cost \in Nat
        /\ MaxTurns \in Nat /\ MaxToolCalls \in Nat /\ MaxTokens \in Nat /\ MaxCost \in Nat
    <3>1. f \in Findings
      BY DEF TypeOK
    <3>2. MaxTurns \in Nat /\ MaxToolCalls \in Nat /\ MaxTokens \in Nat /\ MaxCost \in Nat
      BY InvestigationAssumption DEF MaxTurns
    <3> QED
      BY <3>1, <3>2 DEF Findings
  <2>2. f.toolCalls <= MaxToolCalls /\ f.turns <= MaxTurns
    BY DEF BudgetsBounded
  <2>3. (f.toolCalls <= MaxToolCalls /\ f.turns <= MaxTurns)'
    <3> HIDE DEF IInv
    <3>1. \/ f'.turns = f.turns /\ f'.toolCalls = f.toolCalls
          \/ f.turns < MaxTurns /\ f'.turns = f.turns + 1 /\ f'.toolCalls = f.toolCalls
          \/ f.toolCalls < MaxToolCalls /\ f'.turns = f.turns /\ f'.toolCalls = f.toolCalls + 1
      BY Counting
    <3>2. MaxTurns' = MaxTurns
      BY DEF MaxTurns
    <3> QED
      BY <2>1, <2>2, <3>1, <3>2
  <2>4. CASE f'.tokens = f.tokens /\ f'.cost = f.cost
    <3>1. TokensExhausted' = TokensExhausted /\ CostExhausted' = CostExhausted
      BY <2>4 DEF TokensExhausted, CostExhausted, CostKnown
    <3>2. AskedInBudget'
      <4>1. CASE pc = "generate"
        BY <3>1, <4>1 DEF AskedInBudget
      <4>2. CASE pc # "generate" /\ pc' = "generate"
        <5>1. Exhausted = ""
          BY <4>2, Counting
        <5> QED
          BY <3>1, <5>1 DEF Exhausted, AskedInBudget
      <4> QED
        BY <4>1, <4>2 DEF AskedInBudget
    <3>3. TokensExhausted' => \E u \in Usages : f'.tokens - (u.in + u.out) < MaxTokens
      BY <2>4, <3>1 DEF BudgetsBounded
    <3>4. CostExhausted' => \E u \in Usages : f'.cost - CallCost(u) < MaxCost
      BY <2>4, <3>1 DEF BudgetsBounded
    <3> QED
      BY <2>3, <3>2, <3>3, <3>4 DEF BudgetsBounded, CallCost, CostKnown
  <2>5. ASSUME pc = "generate", pc' # "generate", NEW u \in Usages,
               f'.tokens = f.tokens + u.in + u.out, f'.cost = f.cost + CallCost(u)
        PROVE  IInv'
    <3>1. u.in \in Nat /\ u.out \in Nat /\ CallCost(u) \in Nat
      BY Accounting DEF TypeOK
    <3>2. ~TokensExhausted /\ ~CostExhausted
      BY <2>5 DEF AskedInBudget
    <3>3. TokensExhausted' => f'.tokens - (u.in + u.out) < MaxTokens
      BY <2>1, <2>5, <3>1, <3>2 DEF TokensExhausted
    <3>4. CostExhausted' => f'.cost - CallCost(u) < MaxCost
      BY <2>1, <2>5, <3>1, <3>2 DEF CostExhausted, CostKnown
    <3> QED
      BY <2>3, <2>5, <3>3, <3>4 DEF BudgetsBounded, AskedInBudget, CallCost, CostKnown
  <2> QED
    BY <2>4, <2>5, Counting
<1> HIDE DEF IInv
<1>3. IInv => BudgetsBounded
  BY DEF IInv
<1>4. TypeOK /\ HandlesReply /\ [Next]_vars => HandlesReply'
  BY StepTypes
<1> QED
  BY <1>1, <1>2, <1>3, <1>4, InitTypes, InvestigationTypeCorrect, PTL DEF Spec

-----------------------------------------------------------------------------
(* Cost.                                                                   *)

\* Rounding down loses less than one unit.
LEMMA Rounding ==
  ASSUME NEW a \in Nat, NEW p \in Nat \ {0}
  PROVE  /\ a \div p \in Nat
         /\ (a \div p) * p <= a
         /\ a <= (a \div p) * p + (p - 1)
<1>1. p \in Nat /\ p > 0
  OBVIOUS
<1>2. a \div p \in Nat
  BY <1>1
<1>3. (a \div p) * p <= a
  BY <1>1
<1>4. a < (a \div p) * p + p
  BY <1>1
<1>5. (a \div p) * p \in Nat
  BY <1>1, <1>2
<1> QED
  BY <1>1, <1>2, <1>3, <1>4, <1>5

\* One answer: the counted cost falls short of the real one by less than two
\* units.
LEMMA AnswerRounding ==
  ASSUME f \in Findings, NEW u \in Usages
  PROVE  /\ CallCost(u) * PriceUnit <= u.in * InPrice + u.out * OutPrice
         /\ u.in * InPrice + u.out * OutPrice <= CallCost(u) * PriceUnit + 2 * (PriceUnit - 1)
<1> DEFINE a == u.in * InPrice
           b == u.out * OutPrice
           p == PriceUnit
<1>1. u.in \in Nat /\ u.out \in Nat /\ InPrice \in Nat /\ OutPrice \in Nat /\ p \in Nat \ {0}
  BY Accounting, InvestigationAssumption
<1>2. a \in Nat /\ b \in Nat
  BY <1>1
<1>3. CASE CostKnown
  <2>1. CallCost(u) = a \div p + b \div p
    BY <1>3 DEF CallCost
  <2> HIDE DEF a, b, p
  <2>2. /\ a \div p \in Nat /\ (a \div p) * p <= a /\ a <= (a \div p) * p + (p - 1)
        /\ b \div p \in Nat /\ (b \div p) * p <= b /\ b <= (b \div p) * p + (p - 1)
    BY <1>1, <1>2, Rounding
  <2>3. (a \div p + b \div p) * p = (a \div p) * p + (b \div p) * p
    BY <1>1, <2>2
  <2>4. (a \div p) * p \in Nat /\ (b \div p) * p \in Nat
    BY <1>1, <2>2
  <2>5. /\ (a \div p + b \div p) * p <= a + b
        /\ a + b <= (a \div p + b \div p) * p + 2 * (p - 1)
    BY <1>1, <1>2, <2>2, <2>3, <2>4
  <2> QED
    BY <2>1, <2>5 DEF a, b, p
<1>4. CASE ~CostKnown
  <2>1. InPrice = 0 /\ OutPrice = 0 /\ CallCost(u) = 0
    BY <1>1, <1>4 DEF CostKnown, CallCost
  <2>2. a = 0 /\ b = 0 /\ CallCost(u) * PriceUnit = 0
    BY <1>1, <2>1
  <2> QED
    BY <1>1, <2>2
<1> QED
  BY <1>3, <1>4

\* Answers so far: the turn that is being asked for has none yet.
Answers == IF pc = "generate" THEN f.turns - 1 ELSE f.turns

\* Counted per answer the bound is inductive.
RoundingSoFar ==
  /\ Answers \in Nat /\ Answers <= f.turns
  /\ f.cost * PriceUnit <= spent
  /\ spent <= f.cost * PriceUnit + 2 * (Answers * (PriceUnit - 1))

\* The cost that is held against the budget is never more than the real one,
\* and less by under two units a turn: for all prices and usages.
THEOREM CostAlwaysWithinRounding == Spec => []CostWithinRounding
<1>1. Init => RoundingSoFar
  <2> SUFFICES ASSUME Init
               PROVE  RoundingSoFar
    OBVIOUS
  <2>1. f.turns = 0 /\ f.cost = 0 /\ spent = 0 /\ pc = "head"
    BY DEF Init, NoFindings
  <2>2. Answers = 0
    BY <2>1 DEF Answers
  <2>3. PriceUnit \in Nat \ {0}
    BY InvestigationAssumption
  <2>4. 0 * PriceUnit = 0 /\ 0 * (PriceUnit - 1) = 0
    BY <2>3
  <2> QED
    BY <2>1, <2>2, <2>4 DEF RoundingSoFar
<1>2. TypeOK /\ HandlesReply /\ RoundingSoFar /\ [Next]_vars => RoundingSoFar'
  <2> SUFFICES ASSUME TypeOK, HandlesReply, RoundingSoFar, [Next]_vars
               PROVE  RoundingSoFar'
    OBVIOUS
  <2>1. /\ f.turns \in Nat /\ f.cost \in Nat /\ spent \in Nat /\ PriceUnit \in Nat \ {0}
        /\ pc \in {"head", "generate", "handle", "done", "failed"}
    BY InvestigationAssumption DEF TypeOK, Findings
  <2>2. ASSUME Answers' \in Nat, Answers' >= Answers, Answers' <= f'.turns, f'.cost = f.cost, spent' = spent
        PROVE  RoundingSoFar'
    <3> DEFINE n == Answers
               m == Answers'
               q == PriceUnit - 1
               c == f.cost * PriceUnit
    <3>1. n \in Nat /\ m \in Nat /\ m >= n /\ q \in Nat /\ c \in Nat
      BY <2>1, <2>2 DEF RoundingSoFar
    <3>2. c <= spent /\ spent <= c + 2 * (n * q)
      BY DEF RoundingSoFar
    <3>3. spent <= c + 2 * (m * q)
      <4> HIDE DEF n, m, q, c
      <4>1. m * q = n * q + (m - n) * q /\ (m - n) * q \in Nat /\ n * q \in Nat
        BY <3>1
      <4> QED
        BY <2>1, <3>1, <3>2, <4>1
    <3> QED
      BY <2>2, <3>1, <3>2, <3>3 DEF RoundingSoFar
  <2>3. ASSUME pc = "generate", pc' # "generate", f'.turns = f.turns, NEW u \in Usages,
               f'.cost = f.cost + CallCost(u), spent' = spent + u.in * InPrice + u.out * OutPrice
        PROVE  RoundingSoFar'
    <3> DEFINE c == f.cost
               k == CallCost(u)
               x == u.in * InPrice + u.out * OutPrice
               p == PriceUnit
               n == Answers
    <3>1. Answers' = n + 1 /\ f'.turns = n + 1 /\ n \in Nat
      BY <2>1, <2>3 DEF Answers, RoundingSoFar
    <3>2. k \in Nat /\ k * p <= x /\ x <= k * p + 2 * (p - 1)
      BY AnswerRounding, Accounting DEF TypeOK
    <3>3. x \in Nat /\ spent' = spent + x
      <4>1. u.in \in Nat /\ u.out \in Nat /\ InPrice \in Nat /\ OutPrice \in Nat
        BY Accounting, InvestigationAssumption DEF TypeOK
      <4>2. u.in * InPrice \in Nat /\ u.out * OutPrice \in Nat
        BY <4>1
      <4> QED
        BY <2>1, <2>3, <4>2
    <3>4. c * p <= spent /\ spent <= c * p + 2 * (n * (p - 1))
      BY DEF RoundingSoFar
    <3> HIDE DEF c, k, x, p, n
    <3>5. c \in Nat /\ p \in Nat \ {0}
      BY <2>1 DEF c, p
    <3>6. (c + k) * p = c * p + k * p /\ (n + 1) * (p - 1) = n * (p - 1) + (p - 1)
      BY <3>1, <3>2, <3>5
    <3>7. c * p \in Nat /\ k * p \in Nat /\ n * (p - 1) \in Nat
      BY <3>1, <3>2, <3>5
    <3>8. /\ (c + k) * p <= spent'
          /\ spent' <= (c + k) * p + 2 * ((n + 1) * (p - 1))
      BY <2>1, <3>2, <3>3, <3>4, <3>5, <3>6, <3>7
    <3>9. f'.cost = c + k
      BY <2>3 DEF c, k
    <3> QED
      BY <3>1, <3>8, <3>9 DEF RoundingSoFar, p
  <2>4. \/ /\ Answers' \in Nat /\ Answers' >= Answers /\ Answers' <= f'.turns
           /\ f'.cost = f.cost /\ spent' = spent
        \/ /\ pc = "generate" /\ pc' # "generate" /\ f'.turns = f.turns
           /\ \E u \in Usages : /\ f'.cost = f.cost + CallCost(u)
                                /\ spent' = spent + u.in * InPrice + u.out * OutPrice
    <3>1. CASE /\ f'.turns = f.turns /\ f'.cost = f.cost /\ spent' = spent
               /\ pc' = "generate" => pc = "generate"
               /\ pc = "generate" => pc' \in {"generate", "done", "failed"}
      BY <2>1, <3>1 DEF Answers, RoundingSoFar
    <3>2. CASE /\ pc = "head" /\ pc' = "generate" /\ f'.turns = f.turns + 1
               /\ f'.cost = f.cost /\ spent' = spent
      BY <2>1, <3>2 DEF Answers, RoundingSoFar
    <3>3. CASE /\ pc = "handle" /\ pc' \in {"head", "handle"} /\ f'.turns = f.turns
               /\ f'.cost = f.cost /\ spent' = spent
      BY <2>1, <3>3 DEF Answers, RoundingSoFar
    <3>4. CASE /\ pc = "generate" /\ pc' \in {"head", "handle"} /\ f'.turns = f.turns
               /\ \E u \in Usages : /\ f'.cost = f.cost + CallCost(u)
                                    /\ spent' = spent + u.in * InPrice + u.out * OutPrice
      <4>1. pc' # "generate"
        BY <3>4
      <4> QED
        BY <3>4, <4>1, Zenon
    <3> QED
      BY <3>1, <3>2, <3>3, <3>4, Counting
  <2> QED
    BY <2>2, <2>3, <2>4
<1>3. TypeOK /\ RoundingSoFar => CostWithinRounding
  <2> SUFFICES ASSUME TypeOK, RoundingSoFar
               PROVE  CostWithinRounding
    OBVIOUS
  <2> DEFINE q == PriceUnit - 1
             n == Answers
             t == f.turns
             c == f.cost * PriceUnit
  <2>1. q \in Nat /\ n \in Nat /\ t \in Nat /\ n <= t /\ c \in Nat /\ spent \in Nat
    <3>1. PriceUnit \in Nat \ {0} /\ f \in Findings /\ spent \in Nat
      BY InvestigationAssumption DEF TypeOK
    <3>2. f.turns \in Nat /\ f.cost \in Nat
      BY <3>1 DEF Findings
    <3>3. f.cost * PriceUnit \in Nat
      BY <3>1, <3>2
    <3> QED
      BY <3>1, <3>2, <3>3 DEF RoundingSoFar
  <2>2. c <= spent /\ spent <= c + 2 * (n * q)
    BY DEF RoundingSoFar
  <2>3. CostWithinRounding <=> c <= spent /\ spent <= c + 2 * t * q
    BY DEF CostWithinRounding
  <2> HIDE DEF q, n, t, c
  <2>4. t * q = n * q + (t - n) * q /\ (t - n) * q \in Nat /\ n * q \in Nat
    BY <2>1
  <2>5. 2 * t * q = 2 * (t * q)
    BY <2>1
  <2> QED
    BY <2>1, <2>2, <2>3, <2>4, <2>5
<1>4. TypeOK /\ HandlesReply /\ [Next]_vars => HandlesReply'
  BY StepTypes
<1> QED
  BY <1>1, <1>2, <1>3, <1>4, InitTypes, InvestigationTypeCorrect, PTL DEF Spec

-----------------------------------------------------------------------------
(* Conclusion or reason.                                                   *)

\* Only stop reports a budget, and stop ends the run.
NotStopped == pc # "done" => ~f.exhausted

\* Every run that ends concludes with hypotheses, or names the budget that
\* ended it and offers none.
THEOREM AlwaysConclusionOrReason == Spec => []ConclusionOrReason
<1>1. Init => ConclusionOrReason /\ NotStopped
  <2> SUFFICES ASSUME Init
               PROVE  ConclusionOrReason /\ NotStopped
    OBVIOUS
  <2>1. pc = "head" /\ f.exhausted = FALSE
    BY DEF Init, NoFindings
  <2> QED
    BY <2>1 DEF ConclusionOrReason, NotStopped
<1>2. TypeOK /\ NotStopped /\ [Next]_vars => NotStopped'
  <2> SUFFICES ASSUME TypeOK, NotStopped, [Next]_vars, pc' # "done"
               PROVE  ~f'.exhausted
    BY DEF NotStopped
  <2>1. f \in Findings
    BY DEF TypeOK
  <2>2. pc # "done"
    BY Ending DEF vars
  <2>3. CASE Generate
    <3>1. PICK u \in Usages : f' = Account(u)
      BY <2>3 DEF Generate
    <3> QED
      BY <2>1, <2>2, <3>1 DEF Account, Findings, NotStopped
  <2>4. CASE LoopHead
    BY <2>1, <2>2, <2>4 DEF LoopHead, NextTurn, Return, Findings, NotStopped
  <2>5. CASE CallTool
    BY <2>1, <2>2, <2>5 DEF CallTool, Findings, NotStopped
  <2>6. CASE UNCHANGED f
    BY <2>2, <2>6 DEF NotStopped
  <2> QED
    BY <2>3, <2>4, <2>5, <2>6 DEF Next, Answer, Handle, GenerateTimesOut, GenerateFails, Return, Refuse,
                                  Conclude, Reject, Deadline, Finished, vars
<1>3. TypeOK /\ NotStopped /\ ConclusionOrReason /\ [Next]_vars => ConclusionOrReason'
  <2> SUFFICES ASSUME TypeOK, NotStopped, ConclusionOrReason, [Next]_vars, pc' = "done"
               PROVE  /\ result'.reason = "concluded" <=> result'.hypotheses # <<>>
                      /\ result'.exhausted <=> result'.reason # "concluded"
    BY DEF ConclusionOrReason
  <2>1. CASE pc = "done"
    BY <2>1, Ending DEF ConclusionOrReason, vars
  <2>2. ASSUME pc # "done", NEW r \in Reasons \ {"", "concluded"}, result' = Stopped(r)
        PROVE  /\ result'.reason = "concluded" <=> result'.hypotheses # <<>>
               /\ result'.exhausted <=> result'.reason # "concluded"
    BY <2>2, Stopping DEF TypeOK
  <2>3. ASSUME pc # "done", NEW s \in Submissions, NEW g \in Ranks(s), Valid(s),
               result' = Conclusion(s, g)
        PROVE  /\ result'.reason = "concluded" <=> result'.hypotheses # <<>>
               /\ result'.exhausted <=> result'.reason # "concluded"
    <3>1. g \in [DOMAIN s -> DOMAIN s]
      BY Ranking
    <3>2. /\ result'.reason = "concluded" /\ result'.exhausted = f.exhausted
          /\ result'.hypotheses = [k \in DOMAIN s |-> IF Missing = {} THEN s[g[k]] ELSE Capped(s[g[k]])]
      BY <2>3, <3>1, Concluding
    <3>3. DOMAIN s # {}
      <4>1. s \in Seq(Hypothesis) /\ MaxHypotheses \in Nat
        BY InvestigationAssumption
      <4>2. Len(s) \in 1 .. MaxHypotheses
        BY <2>3, Zenon DEF Valid
      <4>3. Len(s) \in Nat /\ Len(s) >= 1 /\ DOMAIN s = 1 .. Len(s)
        BY <4>1, <4>2
      <4>4. 1 \in DOMAIN s
        BY <4>3
      <4> QED
        BY <4>4
    <3>4. result'.hypotheses # <<>>
      BY <3>2, <3>3
    <3> QED
      BY <2>3, <3>2, <3>4 DEF NotStopped
  <2> QED
    BY <2>1, <2>2, <2>3, Ending
<1> QED
  BY <1>1, <1>2, <1>3, InvestigationTypeCorrect, PTL DEF Spec

-----------------------------------------------------------------------------
(* The length of a run.                                                    *)

\* The steps that a run can still take: for every turn left the question, the
\* answer and a call for each that fits a reply; what is left of this turn; the
\* deadline; and the end.
ThisTurn ==
  CASE pc = "generate" -> MaxReply + 1
    [] pc = "handle" -> Len(reply)
    [] OTHER -> 0
StepsLeft ==
  IF pc \in {"done", "failed"} THEN 0
  ELSE (MaxTurns - f.turns) * (MaxReply + 2) + ThisTurn + (IF expired THEN 1 ELSE 2)

\* One turn less is one turn's steps less.
LEMMA TurnsTimes ==
  ASSUME NEW a \in Nat, NEW k \in Nat
  PROVE  a * k \in Nat /\ (a > 0 => (a - 1) * k = a * k - k)
OBVIOUS

\* A sum falls with one of its terms.
LEMMA SumFalls ==
  ASSUME NEW x \in Nat, NEW y \in Nat, NEW z \in Nat, NEW e \in Nat, y < z
  PROVE  x + y + e < x + z + e
OBVIOUS

\* What is left of a turn is a number.
LEMMA ThisTurnTypes ==
  ASSUME TypeOK
  PROVE  ThisTurn \in Nat
<1>1. Len(reply) \in Nat /\ MaxReply + 1 \in Nat
  BY InvestigationAssumption DEF TypeOK
<1> QED
  BY <1>1 DEF ThisTurn

\* A step ends the run, begins a turn, uses up some of the turn, or is the deadline.
LEMMA StepProgresses ==
  ASSUME TypeOK, HandlesReply, Next
  PROVE  \/ UNCHANGED vars
         \/ pc \notin {"done", "failed"} /\ pc' \in {"done", "failed"}
         \/ /\ pc = "head" /\ pc' = "generate" /\ expired' = expired
            /\ f.turns < MaxTurns /\ f'.turns = f.turns + 1
         \/ /\ pc \in {"generate", "handle"} /\ pc' \in {"head", "handle"} /\ expired' = expired
            /\ f'.turns = f.turns /\ ThisTurn' < ThisTurn
         \/ /\ pc \notin {"done", "failed"} /\ ~expired /\ expired'
            /\ UNCHANGED <<pc, f, reply>>
<1>1. f \in Findings
  BY DEF TypeOK
<1>2. CASE LoopHead
  BY <1>1, <1>2 DEF LoopHead, Return, NextTurn, Findings
<1>3. CASE Generate
  <2>1. PICK u \in Usages, n \in 0 .. MaxReply : \E calls \in [1 .. n -> Calls \cup {Submit}] :
          /\ f' = Account(u) /\ reply' = calls /\ pc' = IF n = 0 THEN "head" ELSE "handle"
    BY <1>3 DEF Generate
  <2>2. n \in Nat /\ n <= MaxReply /\ MaxReply \in Nat /\ reply' \in [1 .. n -> Calls \cup {Submit}]
    BY <2>1, InvestigationAssumption
  <2>3. Len(reply') = n
    BY <2>2
  <2>4. f'.turns = f.turns
    BY <1>1, <2>1, Accounting
  <2>5. pc = "generate" /\ expired' = expired
    BY <1>3 DEF Generate
  <2>6. ThisTurn = MaxReply + 1
    BY <2>5 DEF ThisTurn
  <2>7. ThisTurn' <= n
    BY <2>1, <2>2, <2>3 DEF ThisTurn
  <2>8. ThisTurn' \in Nat
    BY StepTypes, ThisTurnTypes, <2>1, <2>2, <2>3 DEF ThisTurn
  <2>9. ThisTurn' < ThisTurn
    BY <2>2, <2>6, <2>7, <2>8
  <2> QED
    BY <2>1, <2>4, <2>5, <2>9
<1>4. ASSUME pc = "handle", Handled, f'.turns = f.turns, expired' = expired
      PROVE  /\ pc' \in {"head", "handle"} /\ ThisTurn' < ThisTurn
  <2>1. reply \in Seq(Calls \cup {Submit}) /\ reply # <<>>
    BY <1>4 DEF TypeOK, HandlesReply
  <2>2. Len(reply) \in Nat \ {0} /\ Len(Tail(reply)) = Len(reply) - 1
    BY <2>1
  <2>3. ThisTurn = Len(reply)
    BY <1>4 DEF ThisTurn
  <2>4. ThisTurn' = 0 \/ ThisTurn' = Len(Tail(reply))
    BY <1>4 DEF ThisTurn, Handled
  <2> QED
    BY <1>4, <2>2, <2>3, <2>4 DEF Handled
<1>5. CASE Refuse \/ Reject
  BY <1>4, <1>5 DEF Refuse, Reject
<1>6. CASE CallTool
  <2>1. f'.turns = f.turns
    BY <1>1, <1>6 DEF CallTool, Findings
  <2> QED
    BY <1>4, <1>6, <2>1 DEF CallTool
<1>7. CASE GenerateTimesOut \/ GenerateFails \/ Conclude
  BY <1>7 DEF GenerateTimesOut, GenerateFails, Conclude, Return
<1>8. CASE Deadline
  BY <1>8 DEF Deadline
<1>9. CASE Finished
  BY <1>9 DEF Finished
<1> QED
  BY <1>2, <1>3, <1>5, <1>6, <1>7, <1>8, <1>9 DEF Next, Answer, Handle

\* The steps left are a number.
LEMMA StepsLeftTypes ==
  ASSUME TypeOK, f.turns <= MaxTurns
  PROVE  /\ StepsLeft \in Nat
         /\ pc \notin {"done", "failed"} => StepsLeft > 0
<1> DEFINE a == MaxTurns - f.turns
           k == MaxReply + 2
<1>1. f.turns \in Nat /\ MaxTurns \in Nat /\ MaxReply \in Nat
  <2>1. f \in Findings
    BY DEF TypeOK
  <2>2. MaxTurns \in Nat /\ MaxReply \in Nat
    BY InvestigationAssumption DEF MaxTurns
  <2> QED
    BY <2>1, <2>2 DEF Findings
<1>2. a \in Nat /\ k \in Nat
  BY <1>1
<1>3. StepsLeft = IF pc \in {"done", "failed"} THEN 0 ELSE a * k + ThisTurn + (IF expired THEN 1 ELSE 2)
  BY DEF StepsLeft
<1> HIDE DEF a, k
<1>4. a * k \in Nat /\ ThisTurn \in Nat
  BY <1>2, TurnsTimes, ThisTurnTypes
<1> QED
  BY <1>3, <1>4

\* Every step leaves fewer.
LEMMA StepsDecrease ==
  ASSUME TypeOK, HandlesReply, f.turns <= MaxTurns, Next, ~UNCHANGED vars
  PROVE  StepsLeft' < StepsLeft
<1> DEFINE a == MaxTurns - f.turns
           k == MaxReply + 2
           d == IF expired THEN 1 ELSE 2
<1>1. f.turns \in Nat /\ MaxTurns \in Nat /\ MaxReply \in Nat
  <2>1. f \in Findings
    BY DEF TypeOK
  <2>2. MaxTurns \in Nat /\ MaxReply \in Nat
    BY InvestigationAssumption DEF MaxTurns
  <2> QED
    BY <2>1, <2>2 DEF Findings
<1>2. a \in Nat /\ k \in Nat /\ d \in Nat
  BY <1>1
<1>3. a * k \in Nat /\ ThisTurn \in Nat
  <2> HIDE DEF a, k
  <2> QED
    BY <1>2, TurnsTimes, ThisTurnTypes
<1>4. ThisTurn' \in Nat
  <2>1. reply' \in Seq(Calls \cup {Submit})
    BY StepTypes DEF TypeOK
  <2>2. Len(reply') \in Nat
    BY <2>1
  <2> QED
    BY <1>1, <2>2 DEF ThisTurn
<1>5. pc \notin {"done", "failed"} => StepsLeft = a * k + ThisTurn + d
  BY DEF StepsLeft
<1>6. CASE pc \notin {"done", "failed"} /\ pc' \in {"done", "failed"}
  <2>1. StepsLeft' = 0
    BY <1>6 DEF StepsLeft
  <2> QED
    BY <1>6, <2>1, StepsLeftTypes
<1>7. CASE /\ pc = "head" /\ pc' = "generate" /\ expired' = expired
           /\ f.turns < MaxTurns /\ f'.turns = f.turns + 1
  <2>1. StepsLeft' = (MaxTurns - (f.turns + 1)) * k + (MaxReply + 1) + d
    BY <1>7 DEF StepsLeft, ThisTurn, MaxTurns
  <2>2. MaxTurns - (f.turns + 1) = a - 1 /\ a > 0
    BY <1>1, <1>7
  <2>3. k = MaxReply + 2
    OBVIOUS
  <2>4. StepsLeft' = (a - 1) * k + (MaxReply + 1) + d
    BY <2>1, <2>2, Zenon
  <2>5. pc \notin {"done", "failed"}
    BY <1>7
  <2> HIDE DEF a, k, d
  <2>6. (a - 1) * k = a * k - k
    BY <1>2, <2>2, TurnsTimes
  <2> QED
    BY <1>1, <1>2, <1>3, <1>5, <2>3, <2>4, <2>5, <2>6
<1>8. CASE /\ pc \in {"generate", "handle"} /\ pc' \in {"head", "handle"} /\ expired' = expired
           /\ f'.turns = f.turns /\ ThisTurn' < ThisTurn
  <2>1. StepsLeft' = a * k + ThisTurn' + d
    BY <1>8 DEF StepsLeft, MaxTurns
  <2>2. pc \notin {"done", "failed"}
    BY <1>8
  <2>3. StepsLeft = a * k + ThisTurn + d
    BY <1>5, <2>2
  <2>4. ThisTurn' < ThisTurn
    BY <1>8
  <2> HIDE DEF a, k, d
  <2>5. a * k + ThisTurn' + d < a * k + ThisTurn + d
    BY <1>2, <1>3, <1>4, <2>4, SumFalls, Zenon
  <2> QED
    BY <2>1, <2>3, <2>5, Zenon
<1>9. CASE pc \notin {"done", "failed"} /\ ~expired /\ expired' /\ UNCHANGED <<pc, f, reply>>
  <2>1. StepsLeft' = a * k + ThisTurn + 1 /\ d = 2
    BY <1>9 DEF StepsLeft, ThisTurn, MaxTurns
  <2> HIDE DEF a, k, d
  <2> QED
    BY <1>2, <1>3, <1>5, <1>9, <2>1
<1> QED
  BY <1>6, <1>7, <1>8, <1>9, StepProgresses

\* A run cannot go on for ever, whatever the model answers: every step it takes
\* uses up one of the steps left, of which there are at first two more than its
\* turns times the length of a turn, and never fewer than none (Run, the bound on
\* turns).  With the fairness of FairSpec this is why it terminates.
THEOREM RunsAreBounded == Spec => [](StepsLeft \in Nat) /\ [][StepsLeft' < StepsLeft]_vars
<1>1. TypeOK /\ BudgetsBounded => StepsLeft \in Nat
  BY StepsLeftTypes DEF BudgetsBounded
<1>2. TypeOK /\ HandlesReply /\ BudgetsBounded /\ [Next]_vars => [StepsLeft' < StepsLeft]_vars
  BY StepsDecrease DEF BudgetsBounded
<1>3. TypeOK /\ HandlesReply /\ [Next]_vars => HandlesReply'
  BY StepTypes
<1> QED
  BY <1>1, <1>2, <1>3, InitTypes, InvestigationTypeCorrect, BudgetsAlwaysBounded, PTL DEF Spec
=============================================================================
