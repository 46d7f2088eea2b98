------------------------- MODULE InvestigationRecord -------------------------
(***************************************************************************)
(* An investigation with what surrounds the agent (Investigation): the     *)
(* broker that the investigator binds for it (investigator_controller.go,  *)
(* Reconcile; broker.go, Call), the conversation with the model            *)
(* (handleCalls; gemini.go, toContents), and the status that record makes  *)
(* of the findings and of the broker's audit.  How the status is written   *)
(* is the matter of InvestigatorController.                                *)
(***************************************************************************)
EXTENDS Investigation

CONSTANTS BrokerHeadroom,        \* 2
          DefaultMaxCalls,       \* of a broker without a limit, 25
          MaxRecordedToolCalls   \* 30

VARIABLES calls,    \* Broker.calls: the evidence each call brought, 0 for none
          turn,     \* the calls of the model's last message, while handled
          results,  \* the ToolResults for them
          shown,    \* the evidence that the messages show the model
          status    \* the Investigation and the Hypotheses of the Diagnosis

conversation == <<turn, results, shown>>
recordVars == <<vars, calls, conversation, status>>

\* id: the evidence in the result, E<id>; 0 in an error.
ToolResult == [name: Calls \cup {Submit}, id: Nat]
NoStatus == [toolCalls |-> <<>>, findings |-> NoFindings]

ASSUME RecordAssumption ==
  {BrokerHeadroom, DefaultMaxCalls, MaxRecordedToolCalls} \subseteq Nat \ {0}

RecordTypeOK ==
  /\ TypeOK
  /\ calls \in Seq(Nat)
  /\ turn \in Seq(Calls \cup {Submit})
  /\ results \in Seq(ToolResult)
  /\ shown \subseteq Nat
  /\ status \in [toolCalls: Seq(Nat), findings: Findings]

RecordedInit ==
  /\ Init
  /\ calls = <<>>
  /\ turn = <<>>
  /\ results = <<>>
  /\ shown = {}
  /\ status = NoStatus

-----------------------------------------------------------------------------
(* The conversation.                                                       *)

\* Mutation: what went wrong is not told.
AnsweredWhenRight(r) == IF r.id = 0 THEN results ELSE Append(results, r)

\* handleCalls: every call gets a result, an error too.
Answered(r) == Append(results, r)

\* Mutation: the last result of a turn is not among the messages.
ShownInMessage(rs) == {rs[i].id : i \in 1 .. Len(rs) - 1} \ {0}

\* After the last call of a turn the results are the next message.
Shown(rs) == {rs[i].id : i \in DOMAIN rs} \ {0}
Replies(r) ==
  /\ results' = Answered(r)
  /\ shown' = IF pc' = "head" THEN shown \cup Shown(results') ELSE shown
  /\ UNCHANGED turn

\* toContents, of the model's message and of the one that answers it, without
\* their text: a message without parts is left out.
Contents ==
  LET answer == [i \in DOMAIN results |->
                   [name |-> results[i].name, key |-> IF results[i].id = 0 THEN "error" ELSE "output"]]
  IN  <<[role |-> "model", parts |-> turn]>>
        \o IF answer = <<>> THEN <<>> ELSE <<[role |-> "user", parts |-> answer]>>

-----------------------------------------------------------------------------
(* The steps.                                                              *)

\* Mutation: the broker is bound without a limit of its own.
BrokerCeilingDefault == DefaultMaxCalls

\* Reconcile binds the broker; BindTo takes the default for 0.
BrokerCeiling ==
  IF MaxToolCalls + BrokerHeadroom <= 0 THEN DefaultMaxCalls ELSE MaxToolCalls + BrokerHeadroom

\* Broker.Call: at the ceiling it denies, and every outcome is recorded.
BrokerCall ==
  /\ CallTool
  /\ Len(calls) >= BrokerCeiling => UNCHANGED <<collected, lost, gathered>>
  /\ LET id == IF gathered' > gathered THEN gathered' ELSE 0
     IN  /\ calls' = Append(calls, id)
         /\ Replies([name |-> Head(reply), id |-> id])
  /\ UNCHANGED status

\* The steps without the broker.  The next request takes the messages with it.
AgentStep ==
  /\ \/ (Refuse \/ Reject) /\ Replies([name |-> Head(reply), id |-> 0])
     \/ Generate /\ turn' = reply' /\ UNCHANGED <<results, shown>>
     \/ (LoopHead \/ Conclude) /\ turn' = <<>> /\ results' = <<>> /\ UNCHANGED shown
     \/ (GenerateTimesOut \/ GenerateFails \/ Deadline) /\ UNCHANGED conversation
  /\ UNCHANGED <<calls, status>>

\* Mutation: the end of the audit is kept.
RecordedLast(audit) ==
  SubSeq(audit, IF Len(audit) > MaxRecordedToolCalls THEN Len(audit) - MaxRecordedToolCalls + 1
                ELSE 1, Len(audit))

Recorded(audit) ==
  SubSeq(audit, 1, IF Len(audit) > MaxRecordedToolCalls THEN MaxRecordedToolCalls ELSE Len(audit))

\* record, toAPIHypotheses: the missing kinds are not among what is stored.
Record ==
  /\ pc = "done" /\ status = NoStatus
  /\ status' = [toolCalls |-> Recorded(calls), findings |-> [result EXCEPT !.missing = {}]]
  /\ UNCHANGED <<vars, calls, conversation>>

Ended == (status # NoStatus \/ pc = "failed") /\ UNCHANGED recordVars

RecordedNext == BrokerCall \/ AgentStep \/ Record \/ Ended

RecordedSpec == RecordedInit /\ [][RecordedNext]_recordVars

FairRecordedSpec ==
  RecordedSpec /\ WF_recordVars(BrokerCall) /\ WF_recordVars(AgentStep) /\ WF_recordVars(Record)

-----------------------------------------------------------------------------
(* Properties.                                                             *)

\* The broker never refuses a call that the agent's own budget allows: its
\* ceiling is the backstop, not the limit (brokerHeadroom).
BrokerIsBackstop ==
  [][Len(calls') > Len(calls) => Len(calls) < BrokerCeiling]_recordVars

\* What the model has asked is answered, call by call and in its order, before it
\* is asked again, whatever became of each call: the provider refuses a turn of
\* function calls without its responses (handleCalls, toContents).
EveryCallAnswered ==
  pc = "head" /\ turn # <<>> =>
    /\ Len(Contents) = 2
    /\ Len(Contents[2].parts) = Len(turn)
    /\ \A i \in DOMAIN turn : Contents[2].parts[i].name = turn[i]

\* Whenever the model is asked, it has been shown the evidence behind every
\* identifier that it may cite, and no identifier that it may not (handleCalls,
\* the ledger and wrapEvidence).
LedgerIsShown == pc \in {"head", "generate"} => shown = 1 .. gathered

\* What a conclusion cites was shown to the model before it concluded
\* (findings.go:82, "Cite only identifiers that appear in the evidence.").
CitedWasShown ==
  pc = "done" =>
    \A i \in DOMAIN result.hypotheses :
      \A c \in result.hypotheses[i].cites : c.src = "E" => c.id \in shown

\* Whoever reads the status finds the call behind every citation: E<n> is the
\* n-th recorded call that was answered, unless it was made after the record's
\* limit was used up; the audit of a long investigation lacks its end (record;
\* diagnosis_types.go, ToolCall "forms the audit trail").
CitationsAudited ==
  \A i \in DOMAIN status.findings.hypotheses :
    \A c \in status.findings.hypotheses[i].cites :
      c.src = "E" =>
        \/ \E k \in DOMAIN status.toolCalls :
             /\ status.toolCalls[k] = c.id
             /\ Cardinality({j \in 1 .. k : status.toolCalls[j] # 0}) = c.id
        \/ \E k \in DOMAIN calls : k > MaxRecordedToolCalls /\ calls[k] = c.id
=============================================================================
