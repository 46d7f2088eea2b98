---------------------------- MODULE RecordProofs ----------------------------
(***************************************************************************)
(* The agent over its broker, and what is recorded, for every budget,      *)
(* headroom and limit of the record.                                       *)
(***************************************************************************)
EXTENDS InvestigationRecord, InvestigationProofs, FiniteSetTheorems, SequenceTheorems

\* The broker's list and the agent's counter, kept apart in the code, count the
\* same calls.
CountsAgree == Len(calls) = f.toolCalls

-----------------------------------------------------------------------------
\* Every step of the composition is one of the agent or leaves it alone.
LEMMA StepOfAgent ==
  ASSUME [RecordedNext]_recordVars
  PROVE  [Next]_vars
<1>1. CASE BrokerCall
  BY <1>1 DEF BrokerCall, Next, Handle
<1>2. CASE AgentStep
  BY <1>2 DEF AgentStep, Next, Answer, Handle
<1>3. CASE Record \/ Ended \/ UNCHANGED recordVars
  BY <1>3 DEF Record, Ended, recordVars
<1> QED
  BY <1>1, <1>2, <1>3 DEF RecordedNext

\* Binding a broker and recording its calls adds nothing to what the agent does:
\* all that is proved of the agent by itself holds of the composition (Reconcile,
\* BindTo, record).
THEOREM RecordedImplementsAgent == RecordedSpec => Spec
<1>1. RecordedInit => Init
  BY DEF RecordedInit
<1>2. [RecordedNext]_recordVars => [Next]_vars
  BY StepOfAgent
<1> QED
  BY <1>1, <1>2, PTL DEF RecordedSpec, Spec

\* What is recorded of an audit is a sequence of its entries.
LEMMA RecordedTypes ==
  ASSUME NEW audit \in Seq(Nat)
  PROVE  Recorded(audit) \in Seq(Nat)
<1>1. Len(audit) \in Nat /\ MaxRecordedToolCalls \in Nat
  BY RecordAssumption
<1> QED
  BY <1>1 DEF Recorded

\* A result for the call at hand keeps the types of the conversation.
LEMMA RepliesTypes ==
  ASSUME RecordTypeOK, HandlesReply, pc = "handle", NEW id \in Nat,
         Replies([name |-> Head(reply), id |-> id])
  PROVE  turn' \in Seq(Calls \cup {Submit}) /\ results' \in Seq(ToolResult) /\ shown' \subseteq Nat
<1> DEFINE r == [name |-> Head(reply), id |-> id]
<1>1. reply \in Seq(Calls \cup {Submit}) /\ reply # <<>>
  BY DEF RecordTypeOK, TypeOK, HandlesReply
<1>2. Head(reply) \in Calls \cup {Submit}
  BY <1>1
<1>3. r \in ToolResult
  BY <1>2 DEF ToolResult
<1>4. results' = Append(results, r) /\ UNCHANGED turn
  BY DEF Replies, Answered
<1> HIDE DEF r
<1>5. results' \in Seq(ToolResult)
  BY <1>3, <1>4 DEF RecordTypeOK
<1>6. \A i \in DOMAIN results' : results'[i].id \in Nat
  <2>1. \A i \in DOMAIN results' : results'[i] \in ToolResult
    BY <1>5
  <2>2. \A x \in ToolResult : x.id \in Nat
    BY DEF ToolResult
  <2> QED
    BY <2>1, <2>2
<1>7. Shown(results') \subseteq Nat
  BY <1>6 DEF Shown
<1>8. shown' = shown \/ shown' = shown \cup Shown(results')
  BY DEF Replies
<1>9. shown' \subseteq Nat
  BY <1>7, <1>8 DEF RecordTypeOK
<1> QED
  BY <1>4, <1>5, <1>9 DEF RecordTypeOK

\* Every step keeps the types of the audit, the conversation and the status.
LEMMA RecordStepTypes ==
  ASSUME RecordTypeOK, HandlesReply, [RecordedNext]_recordVars
  PROVE  RecordTypeOK' /\ HandlesReply'
<1>1. TypeOK' /\ HandlesReply'
  BY StepOfAgent, StepTypes DEF RecordTypeOK
<1>2. CASE BrokerCall
  <2> DEFINE id == IF gathered' > gathered THEN gathered' ELSE 0
  <2>1. id \in Nat
    BY <1>1 DEF TypeOK
  <2>2. /\ pc = "handle" /\ calls' = Append(calls, id) /\ UNCHANGED status
        /\ Replies([name |-> Head(reply), id |-> id])
    BY <1>2 DEF BrokerCall, CallTool
  <2> HIDE DEF id
  <2>3. calls' \in Seq(Nat)
    BY <2>1, <2>2 DEF RecordTypeOK
  <2> QED
    BY <1>1, <2>1, <2>2, <2>3, RepliesTypes DEF RecordTypeOK
<1>3. CASE AgentStep
  <2>1. UNCHANGED <<calls, status>>
    BY <1>3 DEF AgentStep
  <2>2. CASE (Refuse \/ Reject) /\ Replies([name |-> Head(reply), id |-> 0])
    <3>1. pc = "handle" /\ 0 \in Nat
      BY <2>2 DEF Refuse, Reject
    <3> QED
      BY <1>1, <2>1, <2>2, <3>1, RepliesTypes DEF RecordTypeOK
  <2>3. CASE Generate /\ turn' = reply' /\ UNCHANGED <<results, shown>>
    BY <1>1, <2>1, <2>3 DEF RecordTypeOK, TypeOK
  <2>4. CASE turn' = <<>> /\ results' = <<>> /\ UNCHANGED shown
    <3>1. turn' \in Seq(Calls \cup {Submit}) /\ results' \in Seq(ToolResult)
      BY <2>4
    <3> QED
      BY <1>1, <2>1, <2>4, <3>1 DEF RecordTypeOK
  <2>5. CASE UNCHANGED conversation
    BY <1>1, <2>1, <2>5 DEF conversation, RecordTypeOK
  <2> QED
    BY <1>3, <2>2, <2>3, <2>4, <2>5 DEF AgentStep
<1>4. CASE Record
  <2>1. [result EXCEPT !.missing = {}] \in Findings
    BY DEF RecordTypeOK, TypeOK, Findings
  <2>2. Recorded(calls) \in Seq(Nat)
    BY RecordedTypes DEF RecordTypeOK
  <2>3. UNCHANGED <<calls, turn, results, shown>>
    BY <1>4 DEF Record, conversation
  <2>4. status' \in [toolCalls: Seq(Nat), findings: Findings]
    BY <1>4, <2>1, <2>2 DEF Record
  <2> QED
    BY <1>1, <2>3, <2>4 DEF RecordTypeOK
<1>5. CASE Ended \/ UNCHANGED recordVars
  BY <1>1, <1>5 DEF Ended, recordVars, conversation, RecordTypeOK
<1> QED
  BY <1>2, <1>3, <1>4, <1>5 DEF RecordedNext

\* Nothing is recorded at the start.
LEMMA InitRecorded ==
  ASSUME RecordedInit
  PROVE  RecordTypeOK /\ HandlesReply
<1>1. TypeOK /\ HandlesReply
  BY InitTypes DEF RecordedInit
<1>2. NoFindings \in Findings
  BY <1>1, Zenon DEF RecordedInit, Init, TypeOK
<1>3. <<>> \in Seq(Nat) /\ <<>> \in Seq(Calls \cup {Submit}) /\ <<>> \in Seq(ToolResult)
  OBVIOUS
<1> QED
  BY <1>1, <1>2, <1>3 DEF RecordedInit, NoStatus, RecordTypeOK

\* The audit, the status and the agent's state keep their types.
THEOREM RecordTypeCorrect == RecordedSpec => []RecordTypeOK
<1>1. RecordTypeOK /\ HandlesReply /\ [RecordedNext]_recordVars => RecordTypeOK' /\ HandlesReply'
  BY RecordStepTypes
<1> QED
  BY <1>1, InitRecorded, PTL DEF RecordedSpec

-----------------------------------------------------------------------------
\* A call to the broker is counted by the agent; no other step of the agent
\* changes its counter.
LEMMA CountsKept ==
  ASSUME RecordTypeOK, HandlesReply, CountsAgree, [RecordedNext]_recordVars
  PROVE  CountsAgree'
<1>1. f \in Findings /\ f.toolCalls \in Nat /\ calls \in Seq(Nat)
  BY DEF RecordTypeOK, TypeOK, Findings
<1>2. CASE BrokerCall
  <2>1. f'.toolCalls = f.toolCalls + 1
    BY <1>1, <1>2 DEF BrokerCall, CallTool, Findings
  <2>2. Len(calls') = Len(calls) + 1
    BY <1>1, <1>2 DEF BrokerCall
  <2> QED
    BY <2>1, <2>2 DEF CountsAgree
<1>3. CASE AgentStep
  <2>1. UNCHANGED calls
    BY <1>3 DEF AgentStep
  <2>2. pc = "handle" => UNCHANGED f \/ pc' = "done"
    BY <1>3 DEF AgentStep, LoopHead, Answer, Generate, GenerateTimesOut, GenerateFails, Refuse,
                Conclude, Reject, Deadline, Return
  <2>3. \/ f'.toolCalls = f.toolCalls
        \/ pc = "handle" /\ pc' # "done" /\ f'.toolCalls = f.toolCalls + 1
    BY StepOfAgent, Counting DEF RecordTypeOK
  <2>4. f'.toolCalls = f.toolCalls
    BY <1>1, <2>2, <2>3
  <2> QED
    BY <2>1, <2>4 DEF CountsAgree
<1>4. CASE Record \/ Ended \/ UNCHANGED recordVars
  BY <1>4 DEF Record, Ended, recordVars, vars, CountsAgree
<1> QED
  BY <1>2, <1>3, <1>4 DEF RecordedNext

\* Whatever the budget, the broker's ceiling is never what stops an agent: the
\* agent has refused the call before (brokerHeadroom).
THEOREM BrokerAlwaysBackstop == RecordedSpec => BrokerIsBackstop
<1> DEFINE IInv == RecordTypeOK /\ HandlesReply /\ CountsAgree
           Backstopped == Len(calls') > Len(calls) => Len(calls) < BrokerCeiling
<1>1. RecordedInit => IInv
  <2>1. RecordedInit => Len(calls) = 0
    BY DEF RecordedInit
  <2>2. RecordedInit => f = NoFindings
    BY Zenon DEF RecordedInit, Init
  <2>3. NoFindings.toolCalls = 0
    BY DEF NoFindings
  <2> QED
    BY <2>1, <2>2, <2>3, InitRecorded DEF CountsAgree
<1>2. IInv /\ [RecordedNext]_recordVars => IInv'
  BY CountsKept, RecordStepTypes
<1>3. IInv /\ [RecordedNext]_recordVars => Backstopped
  <2> SUFFICES ASSUME IInv, [RecordedNext]_recordVars, Len(calls') > Len(calls)
               PROVE  Len(calls) < BrokerCeiling
    OBVIOUS
  <2>1. Len(calls) \in Nat
    BY DEF RecordTypeOK
  <2>2. BrokerCall
    BY <2>1 DEF RecordedNext, AgentStep, Record, Ended, recordVars
  <2>3. f.toolCalls < MaxToolCalls
    BY <2>2 DEF BrokerCall, CallTool
  <2> QED
    BY <2>1, <2>3, InvestigationAssumption, RecordAssumption, SMTT(30) DEF CountsAgree, BrokerCeiling
<1> QED
  BY <1>1, <1>2, <1>3, PTL DEF RecordedSpec, BrokerIsBackstop

-----------------------------------------------------------------------------
(* The conversation.                                                       *)

\* A turn is what was answered and what is still to be answered, in its order; the
\* model is asked when nothing is left.
Answering ==
  /\ pc = "generate" => turn = <<>> /\ results = <<>>
  /\ pc \in {"head", "generate"} => reply = <<>>
  /\ pc \in {"head", "handle"} =>
       /\ Len(turn) = Len(results) + Len(reply)
       /\ \A i \in 1 .. Len(results) : results[i].name = turn[i]
       /\ \A i \in 1 .. Len(reply) : reply[i] = turn[Len(results) + i]

\* What a turn has brought so far is in its results.
LedgerKept ==
  /\ pc \in {"head", "generate"} => shown = 1 .. gathered
  /\ pc = "handle" => shown \cup Shown(results) = 1 .. gathered

\* A result more shows its evidence, if it has any.
LEMMA ShownAppend ==
  ASSUME results \in Seq(ToolResult), NEW r \in ToolResult
  PROVE  Shown(Append(results, r)) = Shown(results) \cup ({r.id} \ {0})
<1>1. DOMAIN Append(results, r) = DOMAIN results \cup {Len(results) + 1}
  OBVIOUS
<1>2. /\ Append(results, r)[Len(results) + 1] = r
      /\ \A i \in DOMAIN results : Append(results, r)[i] = results[i]
  OBVIOUS
<1> QED
  BY <1>1, <1>2, Zenon DEF Shown

\* Answering the call at hand keeps the turn in step, and its evidence in the
\* results or in the messages.
LEMMA RepliesInStep ==
  ASSUME RecordTypeOK, HandlesReply, Answering, LedgerKept, pc = "handle", Handled,
         NEW id \in Nat, Replies([name |-> Head(reply), id |-> id]),
         \/ id = 0 /\ gathered' = gathered
         \/ id = gathered + 1 /\ gathered' = gathered + 1
  PROVE  Answering' /\ LedgerKept'
<1> DEFINE r == [name |-> Head(reply), id |-> id]
<1>1. /\ reply \in Seq(Calls \cup {Submit}) /\ reply # <<>>
      /\ results \in Seq(ToolResult) /\ turn \in Seq(Calls \cup {Submit}) /\ gathered \in Nat
  BY DEF RecordTypeOK, TypeOK, HandlesReply
<1>2. r \in ToolResult /\ r.name = reply[1] /\ r.id = id
  BY <1>1 DEF ToolResult
<1>3. /\ results' = Append(results, r) /\ UNCHANGED turn
      /\ shown' = IF pc' = "head" THEN shown \cup Shown(results') ELSE shown
      /\ reply' = Tail(reply) /\ pc' = IF Tail(reply) = <<>> THEN "head" ELSE "handle"
  BY DEF Replies, Answered, Handled
<1> HIDE DEF r
<1>4. /\ Len(turn) = Len(results) + Len(reply)
      /\ \A i \in 1 .. Len(results) : results[i].name = turn[i]
      /\ \A i \in 1 .. Len(reply) : reply[i] = turn[Len(results) + i]
  BY DEF Answering
<1>5. /\ Len(results') = Len(results) + 1 /\ Len(reply') = Len(reply) - 1
      /\ \A i \in 1 .. Len(results) : results'[i] = results[i]
      /\ results'[Len(results) + 1] = r
      /\ \A i \in 1 .. Len(reply') : reply'[i] = reply[i + 1]
  BY <1>1, <1>2, <1>3
<1>6. Len(reply) \in Nat /\ Len(reply) > 0 /\ Len(results) \in Nat
  BY <1>1
<1>7. Len(turn') = Len(results') + Len(reply')
  <2>1. Len(turn') = Len(turn) /\ Len(turn) = Len(results) + Len(reply)
    BY <1>3, <1>4
  <2>2. Len(results') = Len(results) + 1 /\ Len(reply') = Len(reply) - 1
    BY <1>5
  <2> QED
    BY <1>6, <2>1, <2>2
<1>8. \A i \in 1 .. Len(results') : results'[i].name = turn'[i]
  <2>1. r.name = turn[Len(results) + 1]
    BY <1>2, <1>4, <1>6
  <2> QED
    BY <1>3, <1>4, <1>5, <1>6, <2>1
<1>9. \A i \in 1 .. Len(reply') : reply'[i] = turn'[Len(results') + i]
  <2> TAKE i \in 1 .. Len(reply')
  <2>1. i + 1 \in 1 .. Len(reply) /\ Len(results') + i = Len(results) + (i + 1)
    <3>1. Len(results') = Len(results) + 1 /\ Len(reply') = Len(reply) - 1
      BY <1>5
    <3> QED
      BY <1>6, <3>1
  <2>2. reply[i + 1] = turn[Len(results) + (i + 1)]
    BY <1>4, <2>1
  <2> QED
    BY <1>3, <1>5, <2>1, <2>2
<1>10. Answering'
  BY <1>3, <1>7, <1>8, <1>9 DEF Answering
<1>11. shown \cup Shown(results') = 1 .. gathered'
  <2>1. Shown(results') = Shown(results) \cup ({id} \ {0})
    BY <1>1, <1>2, <1>3, ShownAppend
  <2>2. shown \cup Shown(results) = 1 .. gathered
    BY DEF LedgerKept
  <2>3. CASE id = 0 /\ gathered' = gathered
    BY <2>1, <2>2, <2>3
  <2>4. CASE id = gathered + 1 /\ gathered' = gathered + 1
    <3>1. 1 .. gathered' = (1 .. gathered) \cup {gathered + 1} /\ gathered + 1 # 0
      BY <1>1, <2>4
    <3> QED
      BY <2>1, <2>2, <2>4, <3>1
  <2> QED
    BY <2>3, <2>4
<1>12. LedgerKept'
  BY <1>3, <1>11 DEF LedgerKept
<1> QED
  BY <1>10, <1>12

\* What the broker's answer is, for the agent's counter of evidence.
LEMMA BrokerAnswers ==
  ASSUME RecordTypeOK, BrokerCall
  PROVE  \E id \in Nat :
           /\ calls' = Append(calls, id)
           /\ Replies([name |-> Head(reply), id |-> id])
           /\ \/ id = 0 /\ gathered' = gathered
              \/ id = gathered + 1 /\ gathered' = gathered + 1
<1> DEFINE id == IF gathered' > gathered THEN gathered' ELSE 0
<1>1. calls' = Append(calls, id) /\ Replies([name |-> Head(reply), id |-> id])
  BY DEF BrokerCall
<1>2. gathered \in Nat /\ (gathered' = gathered \/ gathered' = gathered + 1)
  BY DEF BrokerCall, CallTool, RecordTypeOK, TypeOK
<1>3. id \in Nat /\ ((id = 0 /\ gathered' = gathered) \/ (id = gathered + 1 /\ gathered' = gathered + 1))
  <2>1. CASE gathered' = gathered
    <3>1. ~(gathered' > gathered)
      BY <1>2, <2>1
    <3>2. id = 0
      BY <3>1, Zenon
    <3> HIDE DEF id
    <3> QED
      BY <2>1, <3>2
  <2>2. CASE gathered' = gathered + 1
    <3>1. gathered' > gathered /\ gathered + 1 \in Nat
      BY <1>2, <2>2
    <3>2. id = gathered'
      BY <3>1, Zenon
    <3> HIDE DEF id
    <3> QED
      BY <2>2, <3>1, <3>2
  <2> QED
    BY <1>2, <2>1, <2>2
<1> HIDE DEF id
<1> QED
  BY <1>1, <1>3, Zenon

\* Every step keeps the conversation in step.
LEMMA ConversationKept ==
  ASSUME RecordTypeOK, HandlesReply, Answering, LedgerKept, [RecordedNext]_recordVars
  PROVE  Answering' /\ LedgerKept'
<1>1. CASE BrokerCall
  <2>1. pc = "handle" /\ Handled
    BY <1>1 DEF BrokerCall, CallTool
  <2> QED
    BY <1>1, <2>1, BrokerAnswers, RepliesInStep
<1>2. CASE (Refuse \/ Reject) /\ Replies([name |-> Head(reply), id |-> 0])
  <2>1. pc = "handle" /\ Handled /\ gathered' = gathered
    BY <1>2 DEF Refuse, Reject
  <2> QED
    BY <1>2, <2>1, RepliesInStep
<1>3. CASE Generate /\ turn' = reply' /\ UNCHANGED <<results, shown>>
  <2>1. pc = "generate" /\ gathered' = gathered /\ results = <<>>
    BY <1>3 DEF Generate, Answering
  <2>2. PICK n \in 0 .. MaxReply : /\ reply' \in [1 .. n -> Calls \cup {Submit}]
                                   /\ pc' = IF n = 0 THEN "head" ELSE "handle"
    BY <1>3 DEF Generate
  <2>3. n \in Nat /\ reply' \in Seq(Calls \cup {Submit}) /\ Len(reply') = n
    BY <2>2, InvestigationAssumption
  <2>4. n = 0 => reply' = <<>>
    BY <2>3
  <2>5. Len(results) = 0 /\ Shown(results) = {}
    BY <2>1 DEF Shown
  <2>6. Answering'
    BY <1>3, <2>2, <2>3, <2>4, <2>5 DEF Answering
  <2>7. LedgerKept'
    BY <1>3, <2>1, <2>2, <2>5 DEF LedgerKept, Shown
  <2> QED
    BY <2>6, <2>7
<1>4. CASE (LoopHead \/ Conclude) /\ turn' = <<>> /\ results' = <<>> /\ UNCHANGED shown
  <2>1. pc' = "done" \/ (pc = "head" /\ pc' = "generate" /\ UNCHANGED <<reply, gathered>>)
    BY <1>4 DEF LoopHead, Conclude, Return
  <2> QED
    BY <1>4, <2>1 DEF Answering, LedgerKept
<1>5. CASE (GenerateTimesOut \/ GenerateFails \/ Deadline) /\ UNCHANGED conversation
  <2>1. pc' \in {"done", "failed"} \/ UNCHANGED <<pc, reply, gathered>>
    BY <1>5 DEF GenerateTimesOut, GenerateFails, Deadline, Return
  <2> QED
    BY <1>5, <2>1 DEF Answering, LedgerKept, Shown, conversation
<1>6. CASE Record \/ Ended \/ UNCHANGED recordVars
  BY <1>6 DEF Record, Ended, recordVars, vars, conversation, Answering, LedgerKept, Shown
<1> QED
  BY <1>1, <1>2, <1>3, <1>4, <1>5, <1>6 DEF RecordedNext, AgentStep

\* Two messages, one after the other.
LEMMA Pair ==
  ASSUME NEW a, NEW b
  PROVE  Len(<<a>> \o <<b>>) = 2 /\ (<<a>> \o <<b>>)[2] = b
<1> DEFINE s == <<a>>
           t == <<b>>
<1>1. s \in Seq({a, b}) /\ t \in Seq({a, b}) /\ Len(s) = 1 /\ Len(t) = 1 /\ t[1] = b
  OBVIOUS
<1> HIDE DEF s, t
<1>2. Len(s \o t) = Len(s) + Len(t)
  BY <1>1, ConcatProperties, Zenon
<1>3. (s \o t)[2] = t[2 - Len(s)]
  <2>1. \A i \in 1 .. Len(s) + Len(t) :
          (s \o t)[i] = IF i <= Len(s) THEN s[i] ELSE t[i - Len(s)]
    BY <1>1, ConcatProperties, Zenon
  <2> QED
    BY <1>1, <2>1
<1>4. Len(s \o t) = 2 /\ (s \o t)[2] = b
  BY <1>1, <1>2, <1>3
<1> QED
  BY <1>4 DEF s, t

\* A turn with a result for each of its calls becomes two messages.
LEMMA TwoMessages ==
  ASSUME RecordTypeOK, Answering
  PROVE  EveryCallAnswered
<1> SUFFICES ASSUME pc = "head", turn # <<>>
             PROVE  /\ Len(Contents) = 2
                    /\ Len(Contents[2].parts) = Len(turn)
                    /\ \A i \in DOMAIN turn : Contents[2].parts[i].name = turn[i]
  BY DEF EveryCallAnswered
<1> DEFINE key(i) == IF results[i].id = 0 THEN "error" ELSE "output"
           answer == [i \in DOMAIN results |-> [name |-> results[i].name, key |-> key(i)]]
           asked == [role |-> "model", parts |-> turn]
           told == [role |-> "user", parts |-> answer]
<1>1. turn \in Seq(Calls \cup {Submit}) /\ results \in Seq(ToolResult)
  BY DEF RecordTypeOK
<1>2. Len(turn) = Len(results) /\ \A i \in 1 .. Len(results) : results[i].name = turn[i]
  <2>1. reply = <<>> /\ Len(reply) = 0
    BY DEF Answering
  <2> QED
    BY <1>1, <2>1 DEF Answering
<1>3. DOMAIN results = 1 .. Len(turn) /\ DOMAIN turn = 1 .. Len(turn) /\ Len(turn) \in Nat \ {0}
  BY <1>1, <1>2
<1>4. DOMAIN answer = 1 .. Len(turn) /\ \A i \in DOMAIN turn : answer[i].name = turn[i]
  BY <1>2, <1>3
<1>5. Len(answer) = Len(turn) /\ answer # <<>>
  BY <1>3, SMTT(30)
<1>6. Contents = <<asked>> \o (IF answer = <<>> THEN <<>> ELSE <<told>>)
  BY Zenon DEF Contents
<1> HIDE DEF answer
<1> HIDE DEF asked, told
<1>7. Len(Contents) = 2 /\ Contents[2] = told
  <2>1. Contents = <<asked>> \o <<told>>
    BY <1>5, <1>6, Zenon
  <2> QED
    BY <2>1, Pair, Zenon
<1>8. told.parts = answer
  BY DEF told
<1> QED
  BY <1>4, <1>5, <1>7, <1>8

\* Nothing was asked or shown at the start.
LEMMA InitConversation ==
  ASSUME RecordedInit
  PROVE  Answering /\ LedgerKept
<1>1. pc = "head" /\ reply = <<>> /\ gathered = 0 /\ turn = <<>> /\ results = <<>> /\ shown = {}
  BY Zenon DEF RecordedInit, Init
<1> QED
  BY <1>1 DEF Answering, LedgerKept

\* However long the turns of the model, and whatever becomes of their calls, the
\* provider never sees a turn of calls without its responses (handleCalls,
\* toContents).
THEOREM CallsAlwaysAnswered == RecordedSpec => []EveryCallAnswered
<1> DEFINE IInv == RecordTypeOK /\ HandlesReply /\ Answering /\ LedgerKept
<1>1. RecordedInit => IInv
  BY InitRecorded, InitConversation
<1>2. IInv /\ [RecordedNext]_recordVars => IInv'
  BY RecordStepTypes, ConversationKept
<1>3. IInv => EveryCallAnswered
  BY TwoMessages
<1> QED
  BY <1>1, <1>2, <1>3, PTL DEF RecordedSpec

\* What the model may cite is what it has been shown, whenever it is asked
\* (handleCalls, the ledger and wrapEvidence).
THEOREM LedgerAlwaysShown == RecordedSpec => []LedgerIsShown
<1> DEFINE IInv == RecordTypeOK /\ HandlesReply /\ Answering /\ LedgerKept
<1>1. RecordedInit => IInv
  BY InitRecorded, InitConversation
<1>2. IInv /\ [RecordedNext]_recordVars => IInv'
  BY RecordStepTypes, ConversationKept
<1>3. IInv => LedgerIsShown
  BY DEF LedgerKept, LedgerIsShown
<1> QED
  BY <1>1, <1>2, <1>3, PTL DEF RecordedSpec

-----------------------------------------------------------------------------
(* The audit.                                                              *)

\* The calls among the first k that brought evidence.
Fruitful(audit, k) == {j \in 1 .. k : audit[j] # 0}

\* The broker's list numbers the evidence as the agent's ledger does: the calls
\* that brought something, counted in their order, and none is missing.
AuditNumbers ==
  /\ gathered = Cardinality(Fruitful(calls, Len(calls)))
  /\ \A k \in DOMAIN calls : calls[k] # 0 => calls[k] = Cardinality(Fruitful(calls, k))
  /\ \A n \in 1 .. gathered : \E k \in DOMAIN calls : calls[k] = n

\* The status that has hypotheses was made of the findings and the audit that the
\* investigation ended with.
StatusOfEnd ==
  \/ status.findings.hypotheses = <<>>
  \/ /\ pc = "done"
     /\ status.toolCalls = Recorded(calls)
     /\ status.findings.hypotheses = result.hypotheses

\* One call more is counted when it brought evidence.
LEMMA FruitfulAppend ==
  ASSUME NEW audit \in Seq(Nat), NEW id \in Nat
  PROVE  LET longer == Append(audit, id)
         IN  /\ \A k \in 1 .. Len(audit) : Fruitful(longer, k) = Fruitful(audit, k)
             /\ Cardinality(Fruitful(longer, Len(longer)))
                  = Cardinality(Fruitful(audit, Len(audit))) + (IF id = 0 THEN 0 ELSE 1)
<1> DEFINE longer == Append(audit, id)
           n == Len(audit)
<1>1. /\ n \in Nat /\ Len(longer) = n + 1 /\ longer[n + 1] = id
      /\ \A j \in 1 .. n : longer[j] = audit[j]
  OBVIOUS
<1> HIDE DEF longer, n
<1>2. \A k \in 1 .. n : Fruitful(longer, k) = Fruitful(audit, k)
  BY <1>1 DEF Fruitful
<1>3. Fruitful(longer, n + 1) = Fruitful(audit, n) \cup (IF id = 0 THEN {} ELSE {n + 1})
  <2>1. 1 .. n + 1 = (1 .. n) \cup {n + 1}
    BY <1>1
  <2> QED
    BY <1>1, <2>1 DEF Fruitful
<1>4. IsFiniteSet(Fruitful(audit, n)) /\ Cardinality(Fruitful(audit, n)) \in Nat
  <2>1. IsFiniteSet(1 .. n)
    BY <1>1, FS_Interval
  <2>2. Fruitful(audit, n) \in SUBSET (1 .. n)
    BY DEF Fruitful
  <2> QED
    BY <2>1, <2>2, FS_Subset, FS_CardinalityType
<1>5. n + 1 \notin Fruitful(audit, n)
  BY <1>1 DEF Fruitful
<1>6. Cardinality(Fruitful(longer, n + 1)) = Cardinality(Fruitful(audit, n)) + (IF id = 0 THEN 0 ELSE 1)
  <2>1. CASE id = 0
    BY <1>3, <1>4, <2>1
  <2>2. CASE id # 0
    <3>1. Fruitful(longer, n + 1) = Fruitful(audit, n) \cup {n + 1}
      BY <1>3, <2>2
    <3> QED
      BY <1>4, <1>5, <2>2, <3>1, FS_AddElement
  <2> QED
    BY <2>1, <2>2
<1> QED
  BY <1>1, <1>2, <1>6 DEF longer, n

\* Every step keeps the numbers of the audit.
LEMMA NumbersKept ==
  ASSUME RecordTypeOK, AuditNumbers, [RecordedNext]_recordVars
  PROVE  AuditNumbers'
<1>1. calls \in Seq(Nat) /\ gathered \in Nat
  BY DEF RecordTypeOK, TypeOK
<1>2. CASE BrokerCall
  <2>1. PICK id \in Nat : /\ calls' = Append(calls, id)
                          /\ \/ id = 0 /\ gathered' = gathered
                             \/ id = gathered + 1 /\ gathered' = gathered + 1
    BY <1>2, BrokerAnswers
  <2>2. /\ Len(calls') = Len(calls) + 1 /\ calls'[Len(calls) + 1] = id /\ Len(calls) \in Nat
        /\ DOMAIN calls = 1 .. Len(calls) /\ DOMAIN calls' = 1 .. Len(calls) + 1
        /\ \A k \in DOMAIN calls : calls'[k] = calls[k]
    BY <1>1, <2>1
  <2>3. /\ \A k \in 1 .. Len(calls) : Fruitful(calls', k) = Fruitful(calls, k)
        /\ Cardinality(Fruitful(calls', Len(calls')))
             = Cardinality(Fruitful(calls, Len(calls))) + (IF id = 0 THEN 0 ELSE 1)
    BY <1>1, <2>1, FruitfulAppend, Zenon
  <2>4. gathered' = Cardinality(Fruitful(calls', Len(calls')))
    <3>1. gathered = Cardinality(Fruitful(calls, Len(calls)))
      BY Zenon DEF AuditNumbers
    <3> QED
      BY <1>1, <2>1, <2>3, <3>1
  <2>5. ASSUME NEW k \in DOMAIN calls', calls'[k] # 0
        PROVE  calls'[k] = Cardinality(Fruitful(calls', k))
    <3>1. CASE k \in DOMAIN calls
      <4>1. Fruitful(calls', k) = Fruitful(calls, k) /\ calls'[k] = calls[k]
        BY <2>2, <2>3, <3>1
      <4>2. calls[k] # 0 => calls[k] = Cardinality(Fruitful(calls, k))
        BY <3>1, Zenon DEF AuditNumbers
      <4> QED
        BY <2>5, <4>1, <4>2
    <3>2. CASE k = Len(calls')
      <4>1. calls'[k] = gathered'
        BY <2>1, <2>2, <2>5, <3>2
      <4> QED
        BY <2>4, <3>2, <4>1
    <3> QED
      BY <2>2, <3>1, <3>2
  <2>6. ASSUME NEW n \in 1 .. gathered'
        PROVE  \E k \in DOMAIN calls' : calls'[k] = n
    <3>1. CASE n \in 1 .. gathered
      <4>1. PICK k \in DOMAIN calls : calls[k] = n
        BY <3>1, Zenon DEF AuditNumbers
      <4> QED
        BY <2>2, <4>1
    <3>2. CASE n \notin 1 .. gathered
      <4>1. n = id
        BY <1>1, <2>1, <2>6, <3>2
      <4> QED
        BY <2>2, <4>1
    <3> QED
      BY <3>1, <3>2
  <2> QED
    BY <2>4, <2>5, <2>6, Zenon DEF AuditNumbers
<1>3. CASE AgentStep
  <2>1. UNCHANGED <<calls, gathered>>
    BY <1>3 DEF AgentStep, LoopHead, Generate, GenerateTimesOut, GenerateFails, Refuse, Conclude,
                Reject, Deadline
  <2> QED
    BY <2>1, Zenon DEF AuditNumbers
<1>4. CASE Record \/ Ended \/ UNCHANGED recordVars
  <2>1. UNCHANGED <<calls, gathered>>
    BY <1>4 DEF Record, Ended, recordVars, vars
  <2> QED
    BY <2>1, Zenon DEF AuditNumbers
<1> QED
  BY <1>2, <1>3, <1>4 DEF RecordedNext

\* Nothing happens to an investigation that is recorded.
LEMMA StatusKept ==
  ASSUME RecordTypeOK, StatusOfEnd, [RecordedNext]_recordVars
  PROVE  StatusOfEnd'
<1>1. pc = "done" => UNCHANGED vars
  BY StepOfAgent, Ending DEF RecordTypeOK
<1>2. CASE BrokerCall
  <2>1. pc = "handle" /\ UNCHANGED status
    BY <1>2 DEF BrokerCall, CallTool
  <2> QED
    BY <2>1 DEF StatusOfEnd
<1>3. CASE AgentStep
  <2>1. UNCHANGED <<calls, status>>
    BY <1>3 DEF AgentStep
  <2>2. pc = "done" => UNCHANGED <<pc, result>>
    BY <1>1 DEF vars
  <2> QED
    BY <2>1, <2>2, Zenon DEF StatusOfEnd
<1>4. CASE Record
  <2>1. pc = "done" /\ UNCHANGED <<pc, result, calls>>
    BY <1>4 DEF Record, vars
  <2>2. status' = [toolCalls |-> Recorded(calls), findings |-> [result EXCEPT !.missing = {}]]
    BY <1>4 DEF Record
  <2>3. status'.toolCalls = Recorded(calls)
    BY <2>2
  <2>4. status'.findings.hypotheses = result.hypotheses
    BY <2>2 DEF RecordTypeOK, TypeOK, Findings
  <2> QED
    BY <2>1, <2>3, <2>4, Zenon DEF StatusOfEnd
<1>5. CASE Ended \/ UNCHANGED recordVars
  <2>1. UNCHANGED <<pc, result, calls, status>>
    BY <1>5 DEF Ended, recordVars, vars
  <2> QED
    BY <2>1, Zenon DEF StatusOfEnd
<1> QED
  BY <1>2, <1>3, <1>4, <1>5 DEF RecordedNext

\* What is recorded is the start of the audit, up to the limit.
LEMMA RecordedIsPrefix ==
  ASSUME NEW audit \in Seq(Nat), NEW k \in 1 .. Len(audit), k <= MaxRecordedToolCalls
  PROVE  /\ k \in DOMAIN Recorded(audit)
         /\ \A j \in 1 .. k : Recorded(audit)[j] = audit[j]
<1> DEFINE n == IF Len(audit) > MaxRecordedToolCalls THEN MaxRecordedToolCalls ELSE Len(audit)
<1>1. Len(audit) \in Nat /\ MaxRecordedToolCalls \in Nat
  BY RecordAssumption
<1>2. n \in Nat /\ n <= Len(audit) /\ k <= n
  BY <1>1
<1>3. Recorded(audit) = SubSeq(audit, 1, n)
  BY DEF Recorded
<1> HIDE DEF n
<1>4. Len(SubSeq(audit, 1, n)) = n /\ \A j \in 1 .. n : SubSeq(audit, 1, n)[j] = audit[j]
  BY <1>1, <1>2
<1>5. DOMAIN SubSeq(audit, 1, n) = 1 .. n
  BY <1>1, <1>2
<1> QED
  BY <1>2, <1>3, <1>4, <1>5

\* From the numbers of the audit and the ledger, the citations of the status.
LEMMA CitedIsAudited ==
  ASSUME RecordTypeOK, AuditNumbers, StatusOfEnd, CitationsExist
  PROVE  CitationsAudited
<1> SUFFICES ASSUME NEW i \in DOMAIN status.findings.hypotheses,
                    NEW c \in status.findings.hypotheses[i].cites, c.src = "E"
             PROVE  \/ \E k \in DOMAIN status.toolCalls :
                         /\ status.toolCalls[k] = c.id
                         /\ Cardinality({j \in 1 .. k : status.toolCalls[j] # 0}) = c.id
                    \/ \E k \in DOMAIN calls : k > MaxRecordedToolCalls /\ calls[k] = c.id
  BY Zenon DEF CitationsAudited
<1>1. status.findings.hypotheses # <<>>
  OBVIOUS
<1>2. /\ pc = "done" /\ status.toolCalls = Recorded(calls)
      /\ status.findings.hypotheses = result.hypotheses
  BY <1>1, Zenon DEF StatusOfEnd
<1>3. c \in Ledger
  BY <1>2 DEF CitationsExist
<1>4. c.id \in 1 .. gathered
  BY <1>3 DEF Ledger
<1>5. PICK k \in DOMAIN calls : calls[k] = c.id
  BY <1>4, Zenon DEF AuditNumbers
<1>6. calls \in Seq(Nat) /\ gathered \in Nat
  BY DEF RecordTypeOK, TypeOK
<1>7. c.id # 0
  BY <1>4, <1>6
<1>8. Cardinality(Fruitful(calls, k)) = c.id
  BY <1>5, <1>7, Zenon DEF AuditNumbers
<1>9. CASE k > MaxRecordedToolCalls
  BY <1>5, <1>9, Zenon
<1>10. CASE k <= MaxRecordedToolCalls
  <2>1. k \in 1 .. Len(calls)
    BY <1>6
  <2>2. k \in DOMAIN status.toolCalls /\ \A j \in 1 .. k : status.toolCalls[j] = calls[j]
    BY <1>2, <1>6, <1>10, <2>1, RecordedIsPrefix, Zenon
  <2>3. status.toolCalls[k] = c.id
    BY <1>5, <1>6, <2>1, <2>2
  <2>4. {j \in 1 .. k : status.toolCalls[j] # 0} = Fruitful(calls, k)
    BY <2>2 DEF Fruitful
  <2> QED
    BY <1>8, <2>2, <2>3, <2>4, Zenon
<1>11. k > MaxRecordedToolCalls \/ k <= MaxRecordedToolCalls
  BY <1>6, RecordAssumption
<1> QED
  BY <1>9, <1>10, <1>11, Zenon

\* Whatever the limits, whoever reads the status finds the call behind each of its
\* citations, by its number, or it was made after the record was full (record).
THEOREM CitationsAlwaysAudited == RecordedSpec => []CitationsAudited
<1> DEFINE IInv == RecordTypeOK /\ HandlesReply /\ AuditNumbers /\ StatusOfEnd
<1>1. RecordedInit => IInv
  <2> SUFFICES ASSUME RecordedInit
               PROVE  AuditNumbers /\ StatusOfEnd
    BY InitRecorded
  <2>1. gathered = 0 /\ calls = <<>> /\ status = NoStatus
    BY Zenon DEF RecordedInit, Init
  <2>2. Fruitful(calls, Len(calls)) = {} /\ DOMAIN calls = {}
    BY <2>1 DEF Fruitful
  <2>3. Cardinality({}) = 0
    BY FS_EmptySet
  <2>4. 1 .. gathered = {}
    BY <2>1
  <2>5. AuditNumbers
    BY <2>1, <2>2, <2>3, <2>4, Zenon DEF AuditNumbers
  <2>6. status.findings.hypotheses = <<>>
    BY <2>1, Zenon DEF NoStatus, NoFindings
  <2> QED
    BY <2>5, <2>6, Zenon DEF StatusOfEnd
<1>2. IInv /\ [RecordedNext]_recordVars => IInv'
  BY RecordStepTypes, NumbersKept, StatusKept
<1>3. IInv /\ CitationsExist => CitationsAudited
  BY CitedIsAudited
<1> QED
  BY <1>1, <1>2, <1>3, RecordedImplementsAgent, CitationsAlwaysExist, PTL DEF RecordedSpec
=============================================================================
