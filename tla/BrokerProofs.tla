---------------------------- MODULE BrokerProofs ----------------------------
(***************************************************************************)
(* The broker for any number of callers, any ceiling and any cluster: its  *)
(* ceiling is passed by less than the number of its callers, and no change *)
(* of the cluster during a call takes it out of its scope.                 *)
(***************************************************************************)
EXTENDS ToolBroker, FiniteSetTheorems, TLAPS

\* What a call holds before it has an outcome, and before it has a pod.
CallsInOrder ==
  \A c \in Callers :
    /\ call[c].pc \in {"get", "list", "check", "read"} => call[c].outcome = Unset
    /\ call[c].pc \in {"get", "list", "check"} => call[c].pod = NoPod
    /\ call[c].pc = "record" => call[c].outcome # Unset

-----------------------------------------------------------------------------
(* Types.                                                                  *)

\* The diagnosed workload is a scope, with or without an owner.
LEMMA ScopeTypes ==
  ASSUME NEW t \in Targets
  PROVE  ScopeForDiagnosis(t) \in Scope
<1>1. t.pod \in Pods /\ t.owner \in Refs \cup {Nil}
  BY BrokerAssumption
<1> QED
  BY <1>1 DEF ScopeForDiagnosis, Scope

\* A call that goes on to something well-typed stays so, and no other is touched.
LEMMA GoesTypes ==
  ASSUME TypeOK, NEW c \in Callers, NEW w \in Work, Goes(c, w)
  PROVE  /\ call' \in [Callers -> Work]
         /\ call'[c] = w
         /\ \A d \in Callers \ {c} : call'[d] = call[d]
BY DEF TypeOK, Goes

\* The two ways in which a call goes on are well-typed.
LEMMA WorkTypes ==
  ASSUME TypeOK, NEW c \in Callers
  PROVE  /\ \A o \in Outcomes :
              [call[c] EXCEPT !.pc = "record", !.outcome = o, !.todo = {}] \in Work
         /\ \A p \in Pods : [call[c] EXCEPT !.pc = "read", !.pod = p, !.todo = {}] \in Work
         /\ \A t \in SUBSET (Pods \X (Refs \cup {Nil})) :
              [call[c] EXCEPT !.pc = "check", !.todo = t] \in Work
         /\ [call[c] EXCEPT !.pc = "list"] \in Work
<1>1. call[c] \in Work
  BY DEF TypeOK
<1> QED
  BY <1>1 DEF Work

\* What each step of a call does to it: the ways a call can go on.
LEMMA StepOfCall ==
  ASSUME TypeOK, NEW c \in Callers, Step(c)
  PROVE  /\ call' \in [Callers -> Work]
         /\ \A d \in Callers \ {c} : call'[d] = call[d]
         /\ UNCHANGED <<scope, live, owner, rs, upsets>>
         /\ \/ /\ call[c].pc = "record" /\ call'[c] = Idle
               /\ audit' = Append(audit, call[c].outcome)
               /\ had' = [had EXCEPT ![c] = {}] /\ kept' = [kept EXCEPT ![c] = {}]
            \/ /\ UNCHANGED <<audit, had, kept>>
               /\ call[c].pc \in {"get", "list", "check", "read"}
               /\ \/ \E o \in Outcomes \ {Unset, "refused"} :
                       call'[c] = [call[c] EXCEPT !.pc = "record", !.outcome = o, !.todo = {}]
                  \/ \E p \in Pods :
                       /\ call[c].pc \in {"get", "check"}
                       /\ call'[c] = [call[c] EXCEPT !.pc = "read", !.pod = p, !.todo = {}]
                  \/ \E t \in SUBSET (Pods \X (Refs \cup {Nil})) :
                       /\ call[c].pc \in {"get", "list", "check"}
                       /\ call'[c] = [call[c] EXCEPT !.pc = "check", !.todo = t]
                  \/ call[c].pc = "get" /\ call'[c] = [call[c] EXCEPT !.pc = "list"]
<1> DEFINE T == Pods \X (Refs \cup {Nil})
<1>1. CASE Record(c)
  <2>1. Idle \in Work
    BY DEF Idle, Work, Outcomes
  <2> QED
    BY <1>1, <2>1, GoesTypes DEF Record, UnchangedCluster, clusterVars
<1>2. ASSUME Get(c) \/ List(c) \/ Check(c) \/ Read(c) \/ Fails(c)
      PROVE  /\ UNCHANGED <<audit, had, kept>> /\ UNCHANGED <<scope, live, owner, rs, upsets>>
             /\ call[c].pc \in {"get", "list", "check", "read"}
  BY <1>2 DEF Get, List, Check, Read, Fails, UnchangedCluster, clusterVars
<1>3. ASSUME NEW o \in Outcomes \ {Unset, "refused"}, Ends(c, o)
      PROVE  /\ call' \in [Callers -> Work]
             /\ call'[c] = [call[c] EXCEPT !.pc = "record", !.outcome = o, !.todo = {}]
             /\ \A d \in Callers \ {c} : call'[d] = call[d]
  BY <1>3, WorkTypes, GoesTypes DEF Ends
<1>4. ASSUME NEW p \in Pods, Reads(c, p)
      PROVE  /\ call' \in [Callers -> Work]
             /\ call'[c] = [call[c] EXCEPT !.pc = "read", !.pod = p, !.todo = {}]
             /\ \A d \in Callers \ {c} : call'[d] = call[d]
  BY <1>4, WorkTypes, GoesTypes DEF Reads
<1>5. ASSUME NEW t \in SUBSET T, Goes(c, [call[c] EXCEPT !.pc = "check", !.todo = t])
      PROVE  /\ call' \in [Callers -> Work]
             /\ call'[c] = [call[c] EXCEPT !.pc = "check", !.todo = t]
             /\ \A d \in Callers \ {c} : call'[d] = call[d]
  BY <1>5, WorkTypes, GoesTypes
<1>6. ASSUME Goes(c, [call[c] EXCEPT !.pc = "list"])
      PROVE  /\ call' \in [Callers -> Work]
             /\ call'[c] = [call[c] EXCEPT !.pc = "list"]
             /\ \A d \in Callers \ {c} : call'[d] = call[d]
  BY <1>6, WorkTypes, GoesTypes
<1>7. {"denied", "failed", "answered"} \subseteq Outcomes \ {Unset, "refused"}
  BY DEF Outcomes, Unset
<1>8. live \subseteq Pods /\ \A p \in Pods : owner[p] \in Refs \cup {Nil}
  BY DEF TypeOK
<1>9. CASE Get(c)
  <2>1. CASE Goes(c, [call[c] EXCEPT !.pc = "check", !.todo = {<<call[c].req.pod, owner[call[c].req.pod]>>}])
             /\ call[c].req.pod \in live
    <3>1. {<<call[c].req.pod, owner[call[c].req.pod]>>} \in SUBSET T
      BY <2>1, <1>8
    <3> QED
      BY <1>2, <1>5, <1>9, <2>1, <3>1 DEF Get
  <2>2. CASE Ends(c, "denied")
    BY <1>2, <1>3, <1>7, <1>9, <2>2
  <2>3. CASE Reads(c, scope.target)
    <3>1. scope.target \in Pods
      BY DEF TypeOK, Scope
    <3> QED
      BY <1>2, <1>4, <1>9, <2>3, <3>1 DEF Get
  <2>4. CASE Goes(c, [call[c] EXCEPT !.pc = "list"])
    BY <1>2, <1>6, <1>9, <2>4 DEF Get
  <2> QED
    BY <1>9, <2>1, <2>2, <2>3, <2>4 DEF Get
<1>10. CASE List(c)
  <2>1. {<<p, owner[p]>> : p \in live} \in SUBSET T
    BY <1>8
  <2> QED
    BY <1>2, <1>5, <1>10, <2>1 DEF List
<1>11. CASE Check(c)
  <2>1. CASE Ends(c, "denied")
    BY <1>2, <1>3, <1>7, <1>11, <2>1
  <2>2. call[c].todo \in SUBSET T
    BY DEF TypeOK, Work
  <2>3. ASSUME NEW t \in call[c].todo, Reads(c, t[1])
        PROVE  \E p \in Pods : Reads(c, p)
    BY <2>2, <2>3
  <2>4. ASSUME NEW t \in call[c].todo, Goes(c, [call[c] EXCEPT !.todo = @ \ {t}])
        PROVE  Goes(c, [call[c] EXCEPT !.pc = "check", !.todo = call[c].todo \ {t}])
    <3>1. call[c].pc = "check" /\ call[c] \in Work
      BY <1>11 DEF Check, TypeOK
    <3>2. [call[c] EXCEPT !.todo = @ \ {t}] = [call[c] EXCEPT !.pc = "check", !.todo = call[c].todo \ {t}]
      BY <3>1 DEF Work
    <3> QED
      BY <2>4, <3>2 DEF Goes
  <2>5. CASE \E p \in Pods : Reads(c, p)
    BY <1>2, <1>4, <1>11, <2>5 DEF Check
  <2>6. CASE \E t \in call[c].todo : Goes(c, [call[c] EXCEPT !.pc = "check", !.todo = call[c].todo \ {t}])
    <3>1. PICK t \in SUBSET T : Goes(c, [call[c] EXCEPT !.pc = "check", !.todo = t])
      BY <2>2, <2>6
    <3> QED
      BY <1>2, <1>5, <1>11, <3>1 DEF Check
  <2> QED
    BY <1>11, <2>1, <2>3, <2>4, <2>5, <2>6 DEF Check
<1>12. CASE Read(c) \/ Fails(c)
  <2>1. \E o \in {"denied", "failed", "answered"} : Ends(c, o)
    BY <1>12 DEF Read, Fails
  <2> QED
    BY <1>2, <1>3, <1>7, <1>12, <2>1
<1> QED
  BY <1>1, <1>9, <1>10, <1>11, <1>12 DEF Step

\* What the start of a call does: it is refused for the ceiling, denied, or let in.
LEMMA StartOfCall ==
  ASSUME TypeOK, NEW c \in Callers, NEW req \in Requests, Admit(c, req)
  PROVE  /\ call' \in [Callers -> Work]
         /\ \A d \in Callers \ {c} : call'[d] = call[d]
         /\ UNCHANGED <<scope, live, owner, rs, upsets, audit>>
         /\ had' = [had EXCEPT ![c] = Members] /\ kept' = [kept EXCEPT ![c] = Members]
         /\ call[c].pc = "idle"
         /\ call'[c].req = req /\ call'[c].pod = NoPod /\ call'[c].todo = {}
         /\ \/ call'[c].pc = "record" /\ call'[c].outcome = "refused"
            \/ /\ call'[c].pc = "record" /\ call'[c].outcome = "denied"
               /\ req.tool \notin PodTools \/ ~req.sound
               /\ ~CeilingReached
            \/ call'[c].pc \in {"get", "read"} /\ call'[c].outcome = Unset /\ ~CeilingReached
<1> DEFINE new == [Idle EXCEPT !.req = req]
           work == CASE CeilingReached -> [new EXCEPT !.pc = "record", !.outcome = "refused"]
                     [] ~CeilingReached /\ (req.tool \notin PodTools \cup OtherTools \/ ~req.sound) ->
                          [new EXCEPT !.pc = "record", !.outcome = "denied"]
                     [] ~CeilingReached /\ req.tool \in PodTools /\ req.sound -> [new EXCEPT !.pc = "get"]
                     [] OTHER -> [new EXCEPT !.pc = "read"]
<1>1. Goes(c, work)
  BY Zenon DEF Admit
<1>2. /\ UNCHANGED <<scope, live, owner, rs, upsets, audit>> /\ call[c].pc = "idle"
      /\ had' = [had EXCEPT ![c] = Members] /\ kept' = [kept EXCEPT ![c] = Members]
  BY DEF Admit, UnchangedCluster, clusterVars
<1>3. new = [pc |-> "idle", req |-> req, todo |-> {}, pod |-> NoPod, outcome |-> Unset]
  BY DEF Idle
<1>4. req \in Request
  BY BrokerAssumption
<1> HIDE DEF new
<1>5. /\ work \in Work /\ work.req = req /\ work.pod = NoPod /\ work.todo = {}
      /\ \/ work.pc = "record" /\ work.outcome = "refused"
         \/ /\ work.pc = "record" /\ work.outcome = "denied"
            /\ req.tool \notin PodTools \/ ~req.sound
            /\ ~CeilingReached
         \/ work.pc \in {"get", "read"} /\ work.outcome = Unset /\ ~CeilingReached
  <2>1. CASE CeilingReached
    BY <1>3, <1>4, <2>1 DEF Work, Outcomes
  <2>2. CASE ~CeilingReached /\ (req.tool \notin PodTools \cup OtherTools \/ ~req.sound)
    BY <1>3, <1>4, <2>2 DEF Work, Outcomes
  <2>3. CASE ~CeilingReached /\ req.tool \in PodTools /\ req.sound
    BY <1>3, <1>4, <2>3 DEF Work, Outcomes
  <2>4. CASE ~CeilingReached /\ req.tool \in OtherTools \ PodTools /\ req.sound
    BY <1>3, <1>4, <2>4 DEF Work, Outcomes
  <2> QED
    BY <2>1, <2>2, <2>3, <2>4
<1> HIDE DEF work
<1>6. /\ call' \in [Callers -> Work] /\ call'[c] = work
      /\ \A d \in Callers \ {c} : call'[d] = call[d]
  BY <1>1, <1>5, GoesTypes
<1> QED
  BY <1>2, <1>5, <1>6

\* A change of the cluster touches no call, and is seen by the histories.
LEMMA ChangeOfCluster ==
  ASSUME TypeOK, ClusterNext
  PROVE  /\ UNCHANGED <<scope, audit, call>>
         /\ live' \subseteq Pods
         /\ owner' \in [Pods -> Refs \cup {Nil}]
         /\ rs' \in [ReplicaSets -> Refs \cup {Nil}]
         /\ upsets' \in Nat
         /\ had' = [c \in Callers |-> IF call[c].pc = "idle" THEN {} ELSE had[c] \cup Members']
         /\ kept' = [c \in Callers |-> kept[c] \cap Members']
<1>1. Observed
  BY DEF ClusterNext, PodGoes, PodComes, PodReleased, ReplicaSetPruned
<1>2. /\ UNCHANGED <<scope, audit, call>>
      /\ had' = [c \in Callers |-> IF call[c].pc = "idle" THEN {} ELSE had[c] \cup Members']
      /\ kept' = [c \in Callers |-> kept[c] \cap Members']
      /\ upsets' = upsets + 1
  BY <1>1, Zenon DEF Observed
<1>3. upsets' \in Nat
  BY <1>2 DEF TypeOK
<1>4. CASE \E p \in Pods : PodGoes(p)
  BY <1>2, <1>3, <1>4 DEF PodGoes, TypeOK
<1>5. CASE \E p \in Pods : PodComes(p)
  <2>1. \A p \in Pods : OwnerOf[p] \in Refs \cup {Nil}
    BY BrokerAssumption
  <2> QED
    BY <1>2, <1>3, <1>5, <2>1 DEF PodComes, TypeOK
<1>6. CASE \E p \in Pods : PodReleased(p)
  BY <1>2, <1>3, <1>6 DEF PodReleased, TypeOK
<1>7. CASE \E r \in ReplicaSets : ReplicaSetPruned(r)
  BY <1>2, <1>3, <1>7 DEF ReplicaSetPruned, TypeOK
<1> QED
  BY <1>4, <1>5, <1>6, <1>7 DEF ClusterNext

\* Every step keeps the types and the order of a call.
LEMMA NextTypes ==
  ASSUME TypeOK, CallsInOrder, [Next]_vars
  PROVE  TypeOK' /\ CallsInOrder'
<1>1. ASSUME NEW c \in Callers, NEW req \in Requests, Admit(c, req)
      PROVE  TypeOK' /\ CallsInOrder'
  <2>1. Members \subseteq Pods
    BY DEF TypeOK, Members
  <2>2. /\ call' \in [Callers -> Work]
        /\ UNCHANGED <<scope, live, owner, rs, upsets, audit>>
        /\ had' = [had EXCEPT ![c] = Members] /\ kept' = [kept EXCEPT ![c] = Members]
    BY <1>1, StartOfCall, Zenon
  <2>3. had' \in [Callers -> SUBSET Pods] /\ kept' \in [Callers -> SUBSET Pods]
    BY <2>1, <2>2 DEF TypeOK
  <2>4. TypeOK'
    BY <2>2, <2>3 DEF TypeOK
  <2>5. \A d \in Callers \ {c} : call'[d] = call[d]
    BY <1>1, StartOfCall, Zenon
  <2>6. /\ call'[c].pc \in {"get", "read"} => call'[c].outcome = Unset
        /\ call'[c].pc \in {"get", "read", "record"}
        /\ call'[c].pc = "record" => call'[c].outcome # Unset
        /\ call'[c].pod = NoPod
    BY <1>1, StartOfCall DEF Unset
  <2>7. CallsInOrder'
    BY <2>5, <2>6 DEF CallsInOrder
  <2> QED
    BY <2>4, <2>7
<1>2. ASSUME NEW c \in Callers, Step(c)
      PROVE  TypeOK' /\ CallsInOrder'
  <2>1. call[c] \in Work /\ call' \in [Callers -> Work]
    BY <1>2, StepOfCall DEF TypeOK
  <2>2. \A d \in Callers \ {c} : call'[d] = call[d]
    BY <1>2, StepOfCall, Zenon
  <2>3. UNCHANGED <<scope, live, owner, rs, upsets>>
    BY <1>2, StepOfCall, Zenon
  <2>4. CASE /\ call[c].pc = "record" /\ call'[c] = Idle
             /\ audit' = Append(audit, call[c].outcome)
             /\ had' = [had EXCEPT ![c] = {}] /\ kept' = [kept EXCEPT ![c] = {}]
    <3>1. call[c].outcome \in Outcomes \ {Unset}
      BY <2>1, <2>4 DEF CallsInOrder, Work
    <3>2. audit' \in Seq(Outcomes \ {Unset})
      BY <2>4, <3>1 DEF TypeOK
    <3>3. had' \in [Callers -> SUBSET Pods] /\ kept' \in [Callers -> SUBSET Pods]
      BY <2>4 DEF TypeOK
    <3>4. TypeOK'
      BY <2>1, <2>3, <3>2, <3>3 DEF TypeOK
    <3>5. call'[c].pc = "idle"
      BY <2>4 DEF Idle
    <3>6. CallsInOrder'
      BY <2>2, <3>5 DEF CallsInOrder
    <3> QED
      BY <3>4, <3>6
  <2>5. CASE /\ UNCHANGED <<audit, had, kept>>
             /\ call[c].pc \in {"get", "list", "check", "read"}
             /\ \/ \E o \in Outcomes \ {Unset, "refused"} :
                     call'[c] = [call[c] EXCEPT !.pc = "record", !.outcome = o, !.todo = {}]
                \/ \E p \in Pods :
                     /\ call[c].pc \in {"get", "check"}
                     /\ call'[c] = [call[c] EXCEPT !.pc = "read", !.pod = p, !.todo = {}]
                \/ \E t \in SUBSET (Pods \X (Refs \cup {Nil})) :
                     /\ call[c].pc \in {"get", "list", "check"}
                     /\ call'[c] = [call[c] EXCEPT !.pc = "check", !.todo = t]
                \/ call[c].pc = "get" /\ call'[c] = [call[c] EXCEPT !.pc = "list"]
    <3>1. TypeOK'
      BY <2>1, <2>3, <2>5 DEF TypeOK
    <3>2. /\ call[c].outcome = Unset
          /\ call[c].pc \in {"get", "list", "check"} => call[c].pod = NoPod
      BY <2>5 DEF CallsInOrder
    <3>3. /\ call'[c].pc \in {"get", "list", "check", "read"} => call'[c].outcome = Unset
          /\ call'[c].pc \in {"get", "list", "check"} => call'[c].pod = NoPod
          /\ call'[c].pc = "record" => call'[c].outcome # Unset
      BY <2>1, <2>5, <3>2 DEF Work
    <3>4. CallsInOrder'
      BY <2>2, <3>3 DEF CallsInOrder
    <3> QED
      BY <3>1, <3>4
  <2> QED
    BY <1>2, <2>4, <2>5, StepOfCall, Zenon
<1>3. CASE ClusterNext
  <2>1. Members' \subseteq Pods
    BY <1>3, ChangeOfCluster DEF Members
  <2>2. TypeOK'
    BY <1>3, <2>1, ChangeOfCluster DEF TypeOK
  <2>3. CallsInOrder'
    BY <1>3, ChangeOfCluster DEF CallsInOrder
  <2> QED
    BY <2>2, <2>3
<1>4. CASE UNCHANGED vars
  BY <1>4 DEF vars, clusterVars, TypeOK, CallsInOrder
<1> QED
  BY <1>1, <1>2, <1>3, <1>4 DEF Next

\* At the start no call is under way.
LEMMA InitTypes == Init => TypeOK /\ CallsInOrder
<1> SUFFICES ASSUME Init
             PROVE  TypeOK /\ CallsInOrder
  OBVIOUS
<1>1. scope \in Scope
  BY ScopeTypes DEF Init
<1>2. Idle \in Work /\ Idle.pc = "idle"
  BY DEF Idle, Work, Outcomes
<1>3. \A c \in Callers : call[c] = Idle
  BY DEF Init
<1>4. TypeOK
  BY <1>1, <1>2, BrokerAssumption DEF Init, TypeOK
<1>5. CallsInOrder
  BY <1>2, <1>3 DEF CallsInOrder
<1> QED
  BY <1>4, <1>5

\* The broker's state keeps its types, and its scope is always a workload or a
\* pod of the namespace (ScopeForDiagnosis, BindTo, Call).
THEOREM BrokerTypeCorrect == Spec => []TypeOK
<1>1. TypeOK /\ CallsInOrder /\ [Next]_vars => TypeOK' /\ CallsInOrder'
  BY NextTypes
<1> QED
  BY <1>1, InitTypes, PTL DEF Spec

-----------------------------------------------------------------------------
(* The ceiling.                                                            *)

Counted(s) == {i \in DOMAIN s : s[i] # "refused"}
Busy == {c \in Callers : call[c].pc # "idle" /\ call[c].outcome # "refused"}

\* The recorded calls that were not refused are at most all of them, and a
\* further record counts unless it is a refusal.
LEMMA CountedAppend ==
  ASSUME NEW s \in Seq(Outcomes), NEW x \in Outcomes
  PROVE  /\ IsFiniteSet(Counted(s))
         /\ Cardinality(Counted(s)) <= Len(s)
         /\ Cardinality(Counted(Append(s, x))) =
              IF x = "refused" THEN Cardinality(Counted(s)) ELSE Cardinality(Counted(s)) + 1
<1>1. DOMAIN s = 1 .. Len(s) /\ Len(s) \in Nat
  OBVIOUS
<1>2. IsFiniteSet(1 .. Len(s)) /\ Cardinality(1 .. Len(s)) = Len(s)
  BY <1>1, FS_Interval, SMTT(30)
<1>3. Counted(s) \in SUBSET (1 .. Len(s))
  BY <1>1 DEF Counted
<1>4. IsFiniteSet(Counted(s)) /\ Cardinality(Counted(s)) <= Len(s)
  BY <1>2, <1>3, FS_Subset
<1>5. CASE x = "refused"
  <2>1. Counted(Append(s, x)) = Counted(s)
    BY <1>5 DEF Counted
  <2> QED
    BY <1>4, <1>5, <2>1
<1>6. CASE x # "refused"
  <2>1. Counted(Append(s, x)) = Counted(s) \cup {Len(s) + 1}
    BY <1>6 DEF Counted
  <2>2. Len(s) + 1 \notin Counted(s)
    BY <1>1, <1>3
  <2> QED
    BY <1>4, <1>6, <2>1, <2>2, FS_AddElement
<1> QED
  BY <1>4, <1>5, <1>6

\* The callers are finitely many, and all sets of them are.
LEMMA BusyFinite ==
  ASSUME NEW S \in SUBSET Callers
  PROVE  IsFiniteSet(S) /\ Cardinality(S) \in Nat /\ Cardinality(S) <= Cardinality(Callers)
BY FS_Subset, FS_CardinalityType, BrokerAssumption

\* However many callers race for it, the ceiling is passed by fewer calls than
\* there are callers; with one caller it is exact (Broker.Call, which looks at the
\* audit at the start of a call and adds to it at the end).
THEOREM CeilingAlwaysHolds == Spec => []CeilingOvershoot
<1>1. Init => CeilingOvershoot
  <2> SUFFICES ASSUME Init
               PROVE  CeilingOvershoot
    OBVIOUS
  <2>1. Counted(audit) = {} /\ Busy = {}
    BY DEF Init, Counted, Busy, Idle
  <2>2. Cardinality(Callers) \in Nat \ {0}
    BY FS_EmptySet, FS_CardinalityType, BrokerAssumption
  <2>3. MaxCalls \in Nat
    BY BrokerAssumption DEF MaxCalls
  <2>4. Admitted = Cardinality(Counted(audit)) + Cardinality(Busy)
    BY DEF Admitted, Counted, Busy
  <2>5. Cardinality(Counted(audit)) = 0 /\ Cardinality(Busy) = 0
    BY <2>1, FS_EmptySet, Zenon
  <2> QED
    BY <2>2, <2>3, <2>4, <2>5 DEF CeilingOvershoot
<1>2. TypeOK /\ CallsInOrder /\ CeilingOvershoot /\ [Next]_vars => CeilingOvershoot'
  <2> SUFFICES ASSUME TypeOK, CallsInOrder, CeilingOvershoot, [Next]_vars
               PROVE  CeilingOvershoot'
    OBVIOUS
  <2>1. Cardinality(Callers) \in Nat /\ MaxCalls \in Nat /\ MaxCalls' = MaxCalls
    BY FS_CardinalityType, BrokerAssumption DEF MaxCalls
  <2>2. audit \in Seq(Outcomes) /\ Len(audit) \in Nat
    BY DEF TypeOK
  <2>3. /\ IsFiniteSet(Counted(audit)) /\ Cardinality(Counted(audit)) \in Nat
        /\ Cardinality(Counted(audit)) <= Len(audit)
    BY <2>2, CountedAppend, FS_CardinalityType DEF Outcomes
  <2>4. /\ IsFiniteSet(Busy) /\ Cardinality(Busy) \in Nat
        /\ IsFiniteSet(Busy') /\ Cardinality(Busy') \in Nat /\ Cardinality(Busy') <= Cardinality(Callers)
    <3>1. Busy \in SUBSET Callers /\ Busy' \in SUBSET Callers
      BY DEF Busy
    <3> QED
      BY <3>1, BusyFinite
  <2>5. Cardinality(Counted(audit)) + Cardinality(Busy) <= MaxCalls + Cardinality(Callers) - 1
    BY DEF CeilingOvershoot, Admitted, Counted, Busy
  <2> SUFFICES Cardinality(Counted(audit')) + Cardinality(Busy') <= MaxCalls + Cardinality(Callers) - 1
    BY <2>1 DEF CeilingOvershoot, Admitted, Counted, Busy
  <2>6. ASSUME UNCHANGED audit, Busy' \subseteq Busy
        PROVE  Cardinality(Counted(audit')) + Cardinality(Busy') <= MaxCalls + Cardinality(Callers) - 1
    <3>1. Cardinality(Busy') <= Cardinality(Busy)
      BY <2>4, <2>6, FS_Subset
    <3> QED
      BY <2>1, <2>3, <2>4, <2>5, <2>6, <3>1
  <2>7. ASSUME NEW c \in Callers, NEW req \in Requests, Admit(c, req)
        PROVE  Cardinality(Counted(audit')) + Cardinality(Busy') <= MaxCalls + Cardinality(Callers) - 1
    <3>1. /\ UNCHANGED audit
          /\ \A d \in Callers \ {c} : call'[d] = call[d]
          /\ \/ call'[c].pc = "record" /\ call'[c].outcome = "refused"
             \/ ~CeilingReached
      BY <2>7, StartOfCall
    <3>2. CASE call'[c].outcome = "refused"
      BY <2>6, <3>1, <3>2 DEF Busy
    <3>3. CASE ~CeilingReached
      BY <2>1, <2>2, <2>3, <2>4, <3>1, <3>3 DEF CeilingReached
    <3> QED
      BY <3>1, <3>2, <3>3
  <2>8. ASSUME NEW c \in Callers, Step(c)
        PROVE  Cardinality(Counted(audit')) + Cardinality(Busy') <= MaxCalls + Cardinality(Callers) - 1
    <3>1. call[c] \in Work /\ \A d \in Callers \ {c} : call'[d] = call[d]
      BY <2>8, StepOfCall DEF TypeOK
    <3>2. CASE call[c].pc = "record" /\ call'[c] = Idle /\ audit' = Append(audit, call[c].outcome)
      <4>1. call'[c].pc = "idle"
        BY <3>2 DEF Idle
      <4>2. Busy' = Busy \ {c}
        BY <3>1, <4>1 DEF Busy
      <4>3. c \in Busy <=> call[c].outcome # "refused"
        BY <3>2 DEF Busy
      <4>4. Cardinality(Busy') = IF c \in Busy THEN Cardinality(Busy) - 1 ELSE Cardinality(Busy)
        BY <2>4, <4>2, FS_RemoveElement
      <4>5. call[c].outcome \in Outcomes
        BY <3>1 DEF Work
      <4>6. Cardinality(Counted(audit')) =
              IF call[c].outcome = "refused" THEN Cardinality(Counted(audit))
              ELSE Cardinality(Counted(audit)) + 1
        BY <2>2, <3>2, <4>5, CountedAppend
      <4> QED
        BY <2>1, <2>3, <2>4, <2>5, <4>3, <4>4, <4>6
    <3>3. CASE UNCHANGED audit /\ call[c].pc \in {"get", "list", "check", "read"}
      <4>1. c \in Busy
        BY <3>3 DEF Busy, CallsInOrder, Unset
      <4>2. Busy' \subseteq Busy
        BY <3>1, <4>1 DEF Busy
      <4> QED
        BY <2>6, <3>3, <4>2
    <3> QED
      BY <2>8, <3>2, <3>3, StepOfCall, Zenon
  <2>9. CASE ClusterNext \/ UNCHANGED vars
    <3>1. UNCHANGED <<audit, call>>
      BY <2>9, ChangeOfCluster DEF vars
    <3> QED
      BY <2>6, <3>1 DEF Busy
  <2> QED
    BY <2>7, <2>8, <2>9 DEF Next
<1>3. TypeOK /\ CallsInOrder /\ [Next]_vars => TypeOK' /\ CallsInOrder'
  BY NextTypes
<1> QED
  BY <1>1, <1>2, <1>3, InitTypes, PTL DEF Spec

-----------------------------------------------------------------------------
(* The scope.  The pod is fetched first and its ReplicaSet later: what     *)
(* carries the argument is that a ReplicaSet never changes its controller. *)

\* Whatever is found to belong to the workload among the pods still to be
\* examined belonged to it at some time of the call.
Examined(c) ==
  /\ call[c].pc # "idle" => Members \subseteq had[c]
  /\ call[c].pc = "check" => \A t \in call[c].todo : InWorkload(t[1], t[2]) => t[1] \in had[c]
ScopeKept == ReadsInScope /\ \A c \in Callers : Examined(c)

\* A pod that exists belongs to the workload if its reference says so now.
LEMMA FoundIsMember ==
  ASSUME TypeOK, NEW p \in live, InWorkload(p, owner[p])
  PROVE  p \in Members
<1>1. p \in Pods /\ owner[p] \in Refs \cup {Nil}
  BY DEF TypeOK
<1> QED
  BY <1>1 DEF InWorkload, Members, Controllers

\* A change of the cluster brings nothing into the workload that was fetched
\* before.
LEMMA FoundEarlier ==
  ASSUME TypeOK, ClusterNext, NEW p \in Pods, NEW ref \in Refs \cup {Nil}, InWorkload(p, ref)'
  PROVE  InWorkload(p, ref)
<1>1. UNCHANGED scope
  BY ChangeOfCluster
<1>2. CASE UNCHANGED rs
  BY <1>1, <1>2 DEF InWorkload
<1>3. CASE \E r \in ReplicaSets : ReplicaSetPruned(r)
  <2>1. PICK r \in ReplicaSets : rs' = [rs EXCEPT ![r] = Nil]
    BY <1>3 DEF ReplicaSetPruned
  <2>2. ref.kind = "ReplicaSet" => ref.name \in ReplicaSets
    BY DEF ReplicaSets, Nil, Unset
  <2>3. Nil # [kind |-> "Deployment", name |-> scope.name]
    BY DEF Nil, Unset
  <2>4. ref.kind = "ReplicaSet" => rs'[ref.name] = Nil \/ rs'[ref.name] = rs[ref.name]
    BY <2>1, <2>2 DEF TypeOK
  <2> QED
    BY <1>1, <2>3, <2>4 DEF InWorkload
<1> QED
  BY <1>2, <1>3 DEF ClusterNext, PodGoes, PodComes, PodReleased

\* Membership is a matter of the scope and the cluster only.
LEMMA MembersKept ==
  ASSUME UNCHANGED <<scope, live, owner, rs>>
  PROVE  Members' = Members /\ \A p, ref : InWorkload(p, ref)' = InWorkload(p, ref)
BY DEF Members, Controllers, InWorkload

\* How a call ends, and how it comes to read.
LEMMA EndsAndReads ==
  ASSUME TypeOK, NEW c \in Callers
  PROVE  /\ \A o : Ends(c, o) => /\ call'[c].pc = "record" /\ call'[c].outcome = o
                                 /\ call'[c].pod = call[c].pod /\ call'[c].req = call[c].req
         /\ \A p : Reads(c, p) => call'[c].pc = "read" /\ call'[c].pod = p /\ call'[c].req = call[c].req
<1>1. call[c] \in Work /\ call \in [Callers -> Work]
  BY DEF TypeOK
<1>2. ASSUME NEW w, Goes(c, w)
      PROVE  call'[c] = w
  BY <1>1, <1>2 DEF Goes
<1>3. ASSUME NEW o, Ends(c, o)
      PROVE  /\ call'[c].pc = "record" /\ call'[c].outcome = o
             /\ call'[c].pod = call[c].pod /\ call'[c].req = call[c].req
  BY <1>1, <1>2, <1>3 DEF Ends, Work
<1>4. ASSUME NEW p, Reads(c, p)
      PROVE  call'[c].pc = "read" /\ call'[c].pod = p /\ call'[c].req = call[c].req
  BY <1>1, <1>2, <1>4 DEF Reads, Work
<1> QED
  BY <1>3, <1>4, Zenon

\* What the steps of a call examine and read.
LEMMA StepExamines ==
  ASSUME TypeOK, CallsInOrder, NEW c \in Callers, Examined(c), Step(c)
  PROVE  /\ call'[c].req = call[c].req \/ call'[c] = Idle
         /\ call'[c].pc = "check" => \A t \in call'[c].todo : InWorkload(t[1], t[2]) => t[1] \in had[c]
         /\ call'[c].pod # NoPod =>
              \/ call'[c].pod = call[c].pod /\ call[c].pc \in {"read", "record"}
              \/ call'[c].pod \in had[c]
              \/ call[c].req.pod = Unnamed /\ call'[c].pod = scope.target
<1>1. call[c] \in Work /\ call \in [Callers -> Work]
  BY DEF TypeOK
<1>2. call[c].pc \in {"get", "list", "check"} => call[c].pod = NoPod
  BY DEF CallsInOrder
<1>3. CASE Record(c)
  BY <1>1, <1>3 DEF Record, Goes, Idle
<1>4. CASE \E o : Ends(c, o) /\ call[c].pc \in {"get", "list", "check", "read"}
  BY <1>2, <1>4, EndsAndReads
<1>5. CASE List(c)
  BY <1>1, <1>5, FoundIsMember DEF List, Goes, CallsInOrder, Work, Examined
<1>6. CASE Get(c)
  <2>1. CASE /\ call[c].req.pod \in live
             /\ Goes(c, [call[c] EXCEPT !.pc = "check", !.todo = {<<call[c].req.pod, owner[call[c].req.pod]>>}])
    <3>1. InWorkload(call[c].req.pod, owner[call[c].req.pod]) => call[c].req.pod \in had[c]
      BY <1>6, <2>1, FoundIsMember DEF Examined, Get
    <3>2. /\ call'[c].todo = {<<call[c].req.pod, owner[call[c].req.pod]>>}
          /\ call'[c].pod = call[c].pod /\ call'[c].req = call[c].req
      BY <1>1, <2>1 DEF Goes, Work
    <3> QED
      BY <1>2, <1>6, <3>1, <3>2 DEF Get
  <2>2. CASE call[c].req.pod = Unnamed /\ Reads(c, scope.target)
    BY <2>2, EndsAndReads
  <2>3. CASE Goes(c, [call[c] EXCEPT !.pc = "list"])
    BY <1>1, <1>2, <1>6, <2>3 DEF Goes, Get, Work
  <2> QED
    BY <1>4, <1>6, <2>1, <2>2, <2>3 DEF Get
<1>7. CASE Check(c)
  <2>1. ASSUME NEW t \in call[c].todo, InWorkload(t[1], t[2]), Reads(c, t[1])
        PROVE  call'[c].pc = "read" /\ call'[c].req = call[c].req /\ call'[c].pod \in had[c]
    <3>1. t[1] \in had[c]
      BY <1>7, <2>1 DEF Check, Examined
    <3> QED
      BY <2>1, <3>1, EndsAndReads
  <2>2. ASSUME NEW t \in call[c].todo, Goes(c, [call[c] EXCEPT !.todo = @ \ {t}])
        PROVE  /\ call'[c].pod = call[c].pod /\ call'[c].req = call[c].req
               /\ call'[c].todo \subseteq call[c].todo
    BY <1>1, <2>2 DEF Goes, Work
  <2>3. call[c].pc = "check"
    BY <1>7 DEF Check
  <2> QED
    BY <1>2, <1>4, <1>7, <2>1, <2>2, <2>3 DEF Check, Examined
<1> QED
  BY <1>3, <1>4, <1>5, <1>6, <1>7 DEF Step, Read, Fails

\* No pod is ever read that was outside the workload for the whole of the call,
\* but the diagnosed one: not in any order of the reads and of the changes of the
\* cluster between them (inWorkload, resolvePod, defaultPod).
THEOREM ReadsAlwaysInScope == Spec => []ReadsInScope
<1>1. Init => ScopeKept
  BY DEF Init, ScopeKept, ReadsInScope, Examined, Idle
<1>2. TypeOK /\ CallsInOrder /\ ScopeKept /\ [Next]_vars => ScopeKept'
  <2> SUFFICES ASSUME TypeOK, CallsInOrder, ScopeKept, [Next]_vars, NEW c \in Callers
               PROVE  /\ Examined(c)'
                      /\ call'[c].pc \in {"read", "record"} /\ call'[c].pod # NoPod =>
                           \/ call'[c].pod \in had'[c]
                           \/ call'[c].req.pod = Unnamed /\ call'[c].pod = scope'.target
    BY DEF ScopeKept, ReadsInScope
  <2>1. /\ Examined(c)
        /\ call[c].pc \in {"read", "record"} /\ call[c].pod # NoPod =>
             \/ call[c].pod \in had[c]
             \/ call[c].req.pod = Unnamed /\ call[c].pod = scope.target
    BY DEF ScopeKept, ReadsInScope
  <2>2. call[c] \in Work /\ had \in [Callers -> SUBSET Pods]
    BY DEF TypeOK
  <2>3. ASSUME UNCHANGED <<scope, live, owner, rs>>, call'[c] = call[c], had'[c] = had[c]
        PROVE  Examined(c)'
    BY <2>1, <2>3, MembersKept DEF Examined
  <2>4. ASSUME NEW d \in Callers, NEW req \in Requests, Admit(d, req)
        PROVE  /\ Examined(c)'
               /\ call'[c].pc \in {"read", "record"} /\ call'[c].pod # NoPod =>
                    \/ call'[c].pod \in had'[c]
                    \/ call'[c].req.pod = Unnamed /\ call'[c].pod = scope'.target
    <3>1. /\ UNCHANGED <<scope, live, owner, rs>>
          /\ had' = [had EXCEPT ![d] = Members]
          /\ c # d => call'[c] = call[c]
          /\ c = d => call'[c].pod = NoPod /\ call'[c].pc \in {"get", "read", "record"}
      BY <2>4, StartOfCall
    <3>2. CASE c = d
      BY <2>2, <3>1, <3>2, MembersKept DEF Examined
    <3>3. CASE c # d
      BY <2>1, <2>2, <2>3, <3>1, <3>3
    <3> QED
      BY <3>2, <3>3
  <2>5. ASSUME NEW d \in Callers, Step(d)
        PROVE  /\ Examined(c)'
               /\ call'[c].pc \in {"read", "record"} /\ call'[c].pod # NoPod =>
                    \/ call'[c].pod \in had'[c]
                    \/ call'[c].req.pod = Unnamed /\ call'[c].pod = scope'.target
    <3>1. UNCHANGED <<scope, live, owner, rs>> /\ (c # d => call'[c] = call[c])
      BY <2>5, StepOfCall, Zenon
    <3>2. \/ call'[d] = Idle /\ had' = [had EXCEPT ![d] = {}]
          \/ UNCHANGED had /\ call[d].pc \in {"get", "list", "check", "read"}
      BY <2>5, StepOfCall, Zenon
    <3>3. CASE c # d
      BY <2>1, <2>2, <2>3, <3>1, <3>2, <3>3
    <3>4. CASE c = d /\ call'[c] = Idle
      BY <3>4 DEF Idle, Examined
    <3>5. CASE c = d /\ UNCHANGED had /\ call[c].pc # "idle" /\ call'[c] # Idle
      <4>1. /\ call'[c].req = call[c].req
            /\ call'[c].pc = "check" => \A t \in call'[c].todo : InWorkload(t[1], t[2]) => t[1] \in had[c]
            /\ call'[c].pod # NoPod =>
                 \/ call'[c].pod = call[c].pod /\ call[c].pc \in {"read", "record"}
                 \/ call'[c].pod \in had[c]
                 \/ call[c].req.pod = Unnamed /\ call'[c].pod = scope.target
        BY <2>1, <2>5, <3>5, StepExamines
      <4>2. Examined(c)'
        BY <2>1, <3>1, <3>5, <4>1, MembersKept DEF Examined
      <4> QED
        BY <2>1, <3>1, <3>5, <4>1, <4>2
    <3> QED
      BY <3>2, <3>3, <3>4, <3>5
  <2>6. CASE ClusterNext
    <3>1. UNCHANGED <<scope, call>>
      BY <2>6, ChangeOfCluster
    <3>2. call[c].pc # "idle" => had'[c] = had[c] \cup Members'
      BY <2>6, ChangeOfCluster
    <3>3. call[c].pc = "check" =>
            \A t \in call[c].todo : InWorkload(t[1], t[2])' => InWorkload(t[1], t[2])
      <4>1. call[c].todo \subseteq Pods \X (Refs \cup {Nil})
        BY <2>2 DEF Work
      <4> QED
        BY <2>6, <4>1, FoundEarlier
    <3>4. Examined(c)'
      BY <2>1, <3>1, <3>2, <3>3 DEF Examined
    <3> QED
      BY <2>1, <3>1, <3>2, <3>4
  <2>7. CASE UNCHANGED vars
    BY <2>1, <2>3, <2>7 DEF vars, clusterVars
  <2> QED
    BY <2>4, <2>5, <2>6, <2>7 DEF Next
<1>3. TypeOK /\ CallsInOrder /\ [Next]_vars => TypeOK' /\ CallsInOrder'
  BY NextTypes
<1>4. ScopeKept => ReadsInScope
  BY DEF ScopeKept
<1> QED
  BY <1>1, <1>2, <1>3, <1>4, InitTypes, PTL DEF Spec

-----------------------------------------------------------------------------
(* Replacements.                                                           *)

\* The pods that inWorkload does not recognise, of a controller that is neither a
\* Deployment nor a ReplicaSet.
Unrecognised(p) ==
  /\ scope.kind \notin {"Pod", "Deployment", "ReplicaSet"}
  /\ owner[p].kind = "ReplicaSet"

\* A pod that belonged to the workload throughout is still to be examined, with the
\* reference it has now; and when none is left, there was none to be recognised.
Waiting(c) ==
  /\ kept[c] \subseteq Members
  /\ call[c].pc = "check" /\ call[c].req.pod = Unnamed =>
       \A p \in kept[c] :
         \/ Unrecognised(p)
         \/ \E t \in call[c].todo : t[1] = p /\ (scope.kind = "Pod" \/ t[2] = owner[p])
  /\ /\ call[c].pc = "record" /\ call[c].outcome = "denied"
     /\ call[c].req.pod = Unnamed /\ call[c].req.sound /\ call[c].req.container
     /\ call[c].req.tool \in PodTools
     => \A p \in kept[c] : Unrecognised(p)
ControllersFixed == \A r \in ReplicaSets : rs[r] \in {RSOwner[r], Nil}
ReplacementsFound == ControllersFixed /\ \A c \in Callers : Waiting(c)

\* A member that its reference does not show to be one is of such a controller.
LEMMA MissedIsUnrecognised ==
  ASSUME TypeOK, ControllersFixed, NEW p \in Members, NEW ref, ~InWorkload(p, ref),
         scope.kind = "Pod" \/ ref = owner[p]
  PROVE  Unrecognised(p)
<1>1. p \in Pods /\ owner[p] \in Refs \cup {Nil}
  BY DEF Members, TypeOK
<1>2. scope.kind # "Pod" /\ ref = owner[p]
  BY DEF Members, InWorkload
<1>3. [kind |-> scope.kind, name |-> scope.name] \in Controllers(p)
  BY <1>2 DEF Members
<1>4. owner[p].kind = "ReplicaSet" /\ rs[owner[p].name] = [kind |-> scope.kind, name |-> scope.name]
  BY <1>2, <1>3 DEF Controllers, InWorkload
<1>5. owner[p].name \in ReplicaSets
  BY <1>1, <1>4 DEF ReplicaSets, Nil, Unset
<1>6. rs[owner[p].name].kind # "ReplicaSet"
  BY <1>5, BrokerAssumption DEF ControllersFixed, Nil, Unset
<1>7. scope.kind # "ReplicaSet"
  BY <1>4, <1>6
<1>8. scope.kind # "Deployment"
  BY <1>2, <1>4 DEF InWorkload
<1> QED
  BY <1>2, <1>4, <1>7, <1>8 DEF Unrecognised

\* As long as a pod belongs to the workload it keeps its controller.
LEMMA MemberKeepsOwner ==
  ASSUME TypeOK, ClusterNext, NEW p \in Members, p \in Members'
  PROVE  scope.kind = "Pod" \/ owner'[p] = owner[p]
<1>1. p \in live /\ p \in Pods /\ UNCHANGED scope
  BY ChangeOfCluster DEF Members, TypeOK
<1>2. CASE UNCHANGED owner
  BY <1>2
<1>3. ASSUME NEW q \in Pods, PodComes(q)
      PROVE  owner'[p] = owner[p]
  BY <1>1, <1>3 DEF PodComes, TypeOK
<1>4. ASSUME NEW q \in Pods, PodReleased(q)
      PROVE  scope.kind = "Pod" \/ owner'[p] = owner[p]
  <2>1. CASE q # p
    BY <1>1, <1>4, <2>1 DEF PodReleased, TypeOK
  <2>2. CASE q = p
    <3>1. owner'[p] = Nil /\ Nil.kind # "ReplicaSet"
      BY <1>1, <1>4, <2>2 DEF PodReleased, TypeOK, Nil, Unset
    <3>2. Controllers(p)' = {Nil}
      BY <3>1 DEF Controllers
    <3>3. scope.kind # "Pod" => [kind |-> scope.kind, name |-> scope.name] = Nil
      BY <1>1, <3>2 DEF Members
    <3>4. scope.kind # Unset
      BY BrokerAssumption DEF TypeOK, Scope, Unset
    <3> QED
      BY <3>3, <3>4 DEF Nil
  <2> QED
    BY <2>1, <2>2
<1> QED
  BY <1>2, <1>3, <1>4 DEF ClusterNext, PodGoes, ReplicaSetPruned

\* What is still to be examined after a step of a call, and what a denial means.
LEMMA StepWaits ==
  ASSUME TypeOK, CallsInOrder, ControllersFixed, NEW c \in Callers, Waiting(c), Step(c),
         call[c].pc # "record"
  PROVE  Waiting(c)'
<1>1. call[c] \in Work /\ call \in [Callers -> Work]
  BY DEF TypeOK
<1>2. UNCHANGED <<scope, live, owner, rs, kept>>
  BY StepOfCall, Zenon
<1>3. Members' = Members /\ kept'[c] = kept[c]
  BY <1>2, MembersKept
<1>4. \A p : Unrecognised(p)' = Unrecognised(p)
  BY <1>2 DEF Unrecognised
<1>5. kept'[c] \subseteq Members'
  BY <1>3 DEF Waiting
<1>6. CASE call'[c].pc \notin {"check", "record"}
  BY <1>5, <1>6 DEF Waiting
<1>7. CASE \E o \in {"failed", "answered"} : Ends(c, o)
  <2>1. call'[c].pc = "record" /\ call'[c].outcome # "denied"
    BY <1>7, EndsAndReads
  <2> QED
    BY <1>5, <2>1 DEF Waiting
<1>8. CASE Read(c) \/ Fails(c)
  <2>1. \/ \E o \in {"failed", "answered"} : Ends(c, o)
        \/ Ends(c, "denied") /\ ~call[c].req.container
    BY <1>8 DEF Read, Fails
  <2>2. CASE Ends(c, "denied") /\ ~call[c].req.container
    <3>1. call'[c].pc = "record" /\ ~call'[c].req.container
      BY <2>2, EndsAndReads
    <3> QED
      BY <1>5, <3>1 DEF Waiting
  <2> QED
    BY <1>7, <2>1, <2>2
<1>9. CASE List(c)
  <2>1. call'[c].pc = "check" /\ call'[c].todo = {<<p, owner[p]>> : p \in live}
    BY <1>1, <1>9 DEF List, Goes, Work
  <2>2. \A p \in kept[c] : \E t \in call'[c].todo : t[1] = p /\ t[2] = owner[p]
    <3> TAKE p \in kept[c]
    <3>1. p \in live
      BY DEF Waiting, Members
    <3>2. <<p, owner[p]>> \in call'[c].todo
      BY <2>1, <3>1
    <3> QED
      BY <3>2
  <2> QED
    BY <1>2, <1>3, <1>5, <2>1, <2>2 DEF Waiting
<1>10. CASE Get(c)
  <2>1. CASE call[c].req.pod # Unnamed /\ call'[c].req = call[c].req
    BY <1>5, <2>1 DEF Waiting
  <2>2. call[c].req.pod # Unnamed => call'[c].req = call[c].req
    <3>1. CASE Ends(c, "denied")
      BY <3>1, EndsAndReads
    <3>2. CASE Goes(c, [call[c] EXCEPT !.pc = "check", !.todo = {<<call[c].req.pod, owner[call[c].req.pod]>>}])
      BY <1>1, <3>2 DEF Goes, Work
    <3> QED
      BY <1>10, <3>1, <3>2 DEF Get
  <2>3. call[c].req.pod = Unnamed => call'[c].pc \in {"read", "list"}
    <3>1. CASE Reads(c, scope.target)
      BY <3>1, EndsAndReads
    <3>2. CASE Goes(c, [call[c] EXCEPT !.pc = "list"])
      BY <1>1, <3>2 DEF Goes, Work
    <3> QED
      BY <1>10, <3>1, <3>2 DEF Get
  <2> QED
    BY <1>6, <2>1, <2>2, <2>3
<1>11. CASE Check(c)
  <2>1. CASE call[c].todo = {} /\ Ends(c, "denied")
    <3>1. call'[c].pc = "record" /\ call'[c].req = call[c].req
      BY <2>1, EndsAndReads
    <3>2. call[c].req.pod = Unnamed => \A p \in kept[c] : Unrecognised(p)
      BY <1>11, <2>1 DEF Waiting, Check
    <3> QED
      BY <1>3, <1>4, <1>5, <3>1, <3>2 DEF Waiting
  <2>2. CASE \E t \in call[c].todo : Reads(c, t[1])
    BY <1>6, <2>2, EndsAndReads
  <2>3. ASSUME NEW t \in call[c].todo, ~InWorkload(t[1], t[2]),
               Goes(c, [call[c] EXCEPT !.todo = @ \ {t}])
        PROVE  Waiting(c)'
    <3>1. /\ call'[c].pc = "check" /\ call[c].pc = "check"
          /\ call'[c].req = call[c].req /\ call'[c].todo = call[c].todo \ {t}
      BY <1>1, <1>11, <2>3 DEF Goes, Work, Check
    <3>2. ASSUME NEW p \in kept[c], call[c].req.pod = Unnamed, ~Unrecognised(p)
          PROVE  \E u \in call'[c].todo : u[1] = p /\ (scope.kind = "Pod" \/ u[2] = owner[p])
      <4>1. PICK u \in call[c].todo : u[1] = p /\ (scope.kind = "Pod" \/ u[2] = owner[p])
        BY <3>1, <3>2 DEF Waiting
      <4>2. p \in Members
        BY DEF Waiting
      <4>3. u # t
        BY <2>3, <3>2, <4>1, <4>2, MissedIsUnrecognised
      <4> QED
        BY <3>1, <4>1, <4>3
    <3> QED
      BY <1>2, <1>3, <1>4, <1>5, <3>1, <3>2 DEF Waiting
  <2> QED
    BY <1>11, <2>1, <2>2, <2>3 DEF Check
<1> QED
  BY <1>8, <1>9, <1>10, <1>11 DEF Step, Record

\* A change of the cluster keeps what is still to be examined, for the pods that
\* remain in the workload.
LEMMA ClusterWaits ==
  ASSUME TypeOK, ReplacementsFound, ClusterNext, NEW c \in Callers
  PROVE  Waiting(c)'
<1>1. UNCHANGED <<scope, call>> /\ kept'[c] = kept[c] \cap Members'
  BY ChangeOfCluster
<1>2. Waiting(c)
  BY DEF ReplacementsFound
<1>3. ASSUME NEW p \in kept'[c]
      PROVE  p \in kept[c] /\ (scope.kind = "Pod" \/ owner'[p] = owner[p])
  <2>1. p \in kept[c] /\ p \in Members /\ p \in Members'
    BY <1>1, <1>2 DEF Waiting
  <2> QED
    BY <2>1, MemberKeepsOwner
<1>4. ASSUME NEW p \in kept'[c], Unrecognised(p)
      PROVE  Unrecognised(p)'
  BY <1>1, <1>3, <1>4 DEF Unrecognised
<1>5. kept'[c] \subseteq Members'
  BY <1>1
<1>6. ASSUME call[c].pc = "check", call[c].req.pod = Unnamed, NEW p \in kept'[c]
      PROVE  \/ Unrecognised(p)'
             \/ \E t \in call[c].todo : t[1] = p /\ (scope.kind = "Pod" \/ t[2] = owner'[p])
  BY <1>2, <1>3, <1>4, <1>6 DEF Waiting
<1>7. ASSUME call[c].pc = "record", call[c].outcome = "denied", call[c].req.pod = Unnamed,
             call[c].req.sound, call[c].req.container, call[c].req.tool \in PodTools,
             NEW p \in kept'[c]
      PROVE  Unrecognised(p)'
  BY <1>2, <1>3, <1>4, <1>7 DEF Waiting
<1> QED
  BY <1>1, <1>5, <1>6, <1>7 DEF Waiting

\* While some pod of the workload lives through the whole call, a call that names
\* no pod finds one, however the others are replaced meanwhile; the one exception
\* are workloads behind ReplicaSets that are not Deployments (defaultPod,
\* inWorkload).
THEOREM AlwaysUsableAfterRollout == Spec => []UsableAfterRollout
<1>1. Init => ReplacementsFound
  BY DEF Init, ReplacementsFound, ControllersFixed, Waiting, Idle
<1>2. TypeOK /\ CallsInOrder /\ ReplacementsFound /\ [Next]_vars => ReplacementsFound'
  <2> SUFFICES ASSUME TypeOK, CallsInOrder, ReplacementsFound, [Next]_vars
               PROVE  ReplacementsFound'
    OBVIOUS
  <2>1. ASSUME UNCHANGED <<scope, live, owner, rs>>, NEW c \in Callers,
               call'[c] = call[c], kept'[c] = kept[c]
        PROVE  Waiting(c)'
    BY <2>1, MembersKept DEF ReplacementsFound, Waiting, Unrecognised
  <2>2. kept \in [Callers -> SUBSET Pods]
    BY DEF TypeOK
  <2>3. ASSUME NEW d \in Callers, NEW req \in Requests, Admit(d, req)
        PROVE  ReplacementsFound'
    <3>1. /\ UNCHANGED <<scope, live, owner, rs>>
          /\ kept' = [kept EXCEPT ![d] = Members]
          /\ \A c \in Callers \ {d} : call'[c] = call[c]
          /\ call'[d].req = req
          /\ call'[d].pc # "check"
          /\ call'[d].pc = "record" /\ call'[d].outcome = "denied" =>
               req.tool \notin PodTools \/ ~req.sound
      BY <2>3, StartOfCall
    <3>2. Waiting(d)'
      BY <2>2, <3>1, MembersKept DEF Waiting
    <3> QED
      BY <2>1, <2>2, <3>1, <3>2 DEF ReplacementsFound, ControllersFixed
  <2>4. ASSUME NEW d \in Callers, Step(d)
        PROVE  ReplacementsFound'
    <3>1. UNCHANGED <<scope, live, owner, rs>> /\ \A c \in Callers \ {d} : call'[c] = call[c]
      BY <2>4, StepOfCall, Zenon
    <3>2. \/ call[d].pc = "record" /\ call'[d] = Idle /\ kept' = [kept EXCEPT ![d] = {}]
          \/ UNCHANGED kept /\ call[d].pc # "record"
      BY <2>4, StepOfCall
    <3>3. Waiting(d)'
      <4>1. CASE call'[d] = Idle /\ kept' = [kept EXCEPT ![d] = {}]
        BY <2>2, <4>1 DEF Waiting, Idle
      <4>2. CASE call[d].pc # "record"
        BY <2>4, <4>2, StepWaits DEF ReplacementsFound
      <4> QED
        BY <3>2, <4>1, <4>2
    <3> QED
      BY <2>1, <2>2, <3>1, <3>2, <3>3 DEF ReplacementsFound, ControllersFixed
  <2>5. CASE ClusterNext
    <3>1. ControllersFixed'
      BY <2>5 DEF ReplacementsFound, ControllersFixed, ClusterNext, PodGoes, PodComes, PodReleased,
                  ReplicaSetPruned, TypeOK
    <3> QED
      BY <2>5, <3>1, ClusterWaits DEF ReplacementsFound
  <2>6. CASE UNCHANGED vars
    BY <2>1, <2>6 DEF vars, clusterVars, ReplacementsFound, ControllersFixed
  <2> QED
    BY <2>3, <2>4, <2>5, <2>6 DEF Next
<1>3. TypeOK /\ CallsInOrder /\ [Next]_vars => TypeOK' /\ CallsInOrder'
  BY NextTypes
<1>4. ReplacementsFound => UsableAfterRollout
  BY DEF ReplacementsFound, Waiting, Unrecognised, UsableAfterRollout
<1> QED
  BY <1>1, <1>2, <1>3, <1>4, InitTypes, PTL DEF Spec
=============================================================================
