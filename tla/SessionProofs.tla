----------------------------- MODULE SessionProofs -----------------------------
(***************************************************************************)
(* Proofs about the governed session, for every set of actions, every      *)
(* configuration and every bound.                                          *)
(***************************************************************************)
EXTENDS GovernedSession, MicroEngineProofs

(* Among numbers up to n there is a greatest. *)
LEMMA HasGreatest ==
  ASSUME NEW n \in Nat, NEW S \in SUBSET (1..n), S # {}
  PROVE  \E i \in S : \A k \in S : k <= i
<1> DEFINE Above(i) == {j \in S : j > i}
           T == {Above(i) : i \in S}
<1>1. T \subseteq FiniteSubsetsOf(1..n)
  <2>1. IsFiniteSet(1..n)
    BY FS_Interval
  <2>2. \A i \in S : Above(i) \in SUBSET (1..n)
    OBVIOUS
  <2>3. \A i \in S : IsFiniteSet(Above(i))
    BY <2>1, <2>2, FS_Subset
  <2> QED
    BY <2>2, <2>3 DEF FiniteSubsetsOf
<1>2. T # {}
  OBVIOUS
<1>3. \E x \in T : \A y \in T : ~(<<y, x>> \in StrictSubsetOrdering(1..n))
  <2> HIDE DEF T
  <2> QED
    BY <1>1, <1>2, WFMin, FS_StrictSubsetOrderingWellFounded
<1>4. PICK i \in S : \A y \in T : ~(<<y, Above(i)>> \in StrictSubsetOrdering(1..n))
  BY <1>3
<1>5. ASSUME NEW k \in S, k > i PROVE FALSE
  <2>1. Above(k) \subseteq Above(i) /\ Above(k) # Above(i)
    <3>1. k \in Above(i) /\ k \notin Above(k)
      BY <1>5
    <3>2. \A j \in Above(k) : j \in Above(i)
      BY <1>5
    <3> HIDE DEF Above
    <3> QED
      BY <3>1, <3>2
  <2>2. <<Above(k), Above(i)>> \in StrictSubsetOrdering(1..n)
    BY <2>1 DEF StrictSubsetOrdering
  <2> QED
    BY <1>4, <2>2
<1> QED
  BY <1>5

(* Each rule names itself in its answer. *)
LEMMA CheckRule ==
  ASSUME NEW a \in Action, NEW i \in 1..7
  PROVE  Check(i, a).rule \in RuleName
<1> USE DEF Result, Permit, RuleName
<1>1. CheckInvariants(a).rule \in RuleName
  <2>1. CASE Violations(a) = {}
    BY <2>1 DEF CheckInvariants
  <2>2. CASE Violations(a) # {}
    <3> DEFINE First(i1) == /\ ViolationOrder[i1] \in Violations(a)
                            /\ \A j \in 1..(i1-1) : ViolationOrder[j] \notin Violations(a)
    <3>1. \E i1 \in 1..5 : First(i1)
      <4>1. Violations(a) \subseteq {ViolationOrder[1], ViolationOrder[2],
              ViolationOrder[3], ViolationOrder[4], ViolationOrder[5]}
        BY DEF Violations, InvariantRule, ViolationOrder
      <4>2. CASE ViolationOrder[1] \in Violations(a)
        <5>1. First(1)
          BY <4>2
        <5> QED
          BY <5>1
      <4>3. CASE /\ ViolationOrder[1] \notin Violations(a)
                 /\ ViolationOrder[2] \in Violations(a)
        <5>1. First(2)
          BY <4>3
        <5> QED
          BY <5>1
      <4>4. CASE /\ \A j \in 1..2 : ViolationOrder[j] \notin Violations(a)
                 /\ ViolationOrder[3] \in Violations(a)
        <5>1. First(3)
          BY <4>4
        <5> QED
          BY <5>1
      <4>5. CASE /\ \A j \in 1..3 : ViolationOrder[j] \notin Violations(a)
                 /\ ViolationOrder[4] \in Violations(a)
        <5>1. First(4)
          BY <4>5
        <5> QED
          BY <5>1
      <4>6. CASE /\ \A j \in 1..4 : ViolationOrder[j] \notin Violations(a)
                 /\ ViolationOrder[5] \in Violations(a)
        <5>1. First(5)
          BY <4>6
        <5> QED
          BY <5>1
      <4>7. (\A j \in 1..2 : ViolationOrder[j] \notin Violations(a))
              <=> (ViolationOrder[1] \notin Violations(a) /\ ViolationOrder[2] \notin Violations(a))
        OBVIOUS
      <4>8. /\ (\A j \in 1..3 : ViolationOrder[j] \notin Violations(a))
                 <=> ((\A j \in 1..2 : ViolationOrder[j] \notin Violations(a))
                        /\ ViolationOrder[3] \notin Violations(a))
            /\ (\A j \in 1..4 : ViolationOrder[j] \notin Violations(a))
                 <=> ((\A j \in 1..3 : ViolationOrder[j] \notin Violations(a))
                        /\ ViolationOrder[4] \notin Violations(a))
        OBVIOUS
      <4> QED
        BY <2>2, <4>1, <4>2, <4>3, <4>4, <4>5, <4>6, <4>7, <4>8
    <3>2. DOMAIN ViolationOrder = 1..5
      BY DEF ViolationOrder
    <3>3. FirstViolation(a) \in Violations(a)
      BY <3>1, <3>2 DEF FirstViolation
    <3> QED
      BY <2>2, <3>3 DEF CheckInvariants, Violations
  <2> QED
    BY <2>1, <2>2
<1>2. CheckProtectedResources(a).rule \in RuleName
  BY DEF CheckProtectedResources
<1>3. CheckRetryLoops(a).rule \in RuleName
  BY DEF CheckRetryLoops
<1>4. CheckScopeDrift(a).rule \in RuleName
  BY DEF CheckScopeDrift
<1>5. CheckDestructiveActions(a).rule \in RuleName
  BY DEF CheckDestructiveActions
<1>6. CheckTokenBudget.rule \in RuleName
  BY DEF CheckTokenBudget
<1>7. CheckSessionHealth.rule \in RuleName
  BY DEF CheckSessionHealth
<1> HIDE DEF Result, Permit, RuleName
<1> QED
  BY <1>1, <1>2, <1>3, <1>4, <1>5, <1>6, <1>7 DEF Check

(* The decision names the rule that gave it. *)
LEMMA DecideRule ==
  ASSUME NEW a \in Action
  PROVE  Decide(a).rule \in RuleName
<1> DEFINE V == Decide(a).verdict
           First(i) == /\ Check(i, a).verdict = V
                       /\ \A j \in 1..(i-1) : Check(j, a).verdict # V
<1>1. \E i \in 1..7 : Check(i, a).verdict = V
  BY DecideIsWorst DEF Verdicts
<1>2. \E i \in 1..7 : First(i)
  <2> DEFINE S == {i \in 1..7 : Check(i, a).verdict = V}
  <2>1. S # {} /\ S \subseteq 1..7
    BY <1>1
  <2>2. \E i \in S : \A j \in S : i <= j
    <3> DEFINE R == {8 - i : i \in S}
    <3>1. R \in SUBSET (1..7) /\ R # {}
      BY <2>1
    <3> HIDE DEF R
    <3>2. PICK m \in R : \A k \in R : k <= m
      BY <3>1, HasGreatest
    <3>3. PICK i \in S : m = 8 - i
      BY <3>2 DEF R
    <3>4. \A j \in S : 8 - j \in R
      BY DEF R
    <3>5. \A j \in S : i <= j
      BY <2>1, <3>2, <3>3, <3>4
    <3> QED
      BY <3>5
  <2> QED
    BY <2>1, <2>2
<1>3. PICK i \in 1..7 : i = CHOOSE k \in 1..7 : First(k)
  BY <1>2
<1>4. Decide(a).rule = Check(i, a).rule
  BY <1>3 DEF Decide
<1> QED
  BY <1>4, CheckRule

-----------------------------------------------------------------------------
(* The session without contracts.  Every step of it is a step of the engine
   or leaves the engine alone.                                             *)
LEMMA SessionStepOfEngine == [SNext]_allVars => [Next]_engineVars
BY DEF SNext, Next, allVars, Ask, Propose, Finish, Abandon, Engine

(* Trace, counters and the caller's account start well typed. *)
LEMMA InitSessionTypeOK == SInit => SessionTypeOK
<1> SUFFICES ASSUME SInit PROVE SessionTypeOK
  OBVIOUS
<1>1. TypeOK
  BY InitTypeOK DEF SInit
<1>2. actions = <<>> /\ escalation_count = 0 /\ overlapped = FALSE
  BY DEF SInit, SessionInit
<1>3. running \in [Action -> Nat]
  BY DEF SInit, SessionInit, Idle
<1>4. actions \in Seq(SessionAction)
  BY <1>2
<1> QED
  BY <1>1, <1>2, <1>3, <1>4 DEF SessionTypeOK

(* A completion changes nothing in the trace, or completes one open record. *)
LEMMA CompletesOne ==
  ASSUME NEW a \in Action, actions \in Seq(SessionAction), RecordCompletion(a)
  PROVE  \/ actions' = actions
         \/ \E i \in OpenRecords(a) : actions' = [actions EXCEPT ![i].completed = TRUE]
<1>1. CASE OpenRecords(a) = {}
  BY <1>1 DEF RecordCompletion
<1>2. CASE OpenRecords(a) # {}
  <2>1. OpenRecords(a) \in SUBSET (1..Len(actions)) /\ Len(actions) \in Nat
    BY DEF OpenRecords
  <2>2. \E i \in OpenRecords(a) : \A k \in OpenRecords(a) : k <= i
    BY <1>2, <2>1, HasGreatest
  <2> QED
    BY <1>2, <2>2 DEF RecordCompletion
<1> QED
  BY <1>1, <1>2

(* The record a proposal appends. *)
LEMMA ProposeAppends ==
  ASSUME NEW a \in Action, Propose(a)
  PROVE  \E r \in SessionAction :
           /\ actions' = Append(actions, r)
           /\ r.action = a /\ ~r.completed /\ r.verdict = Decide(a).verdict
<1> DEFINE r == [action |-> Decide(a).action, verdict |-> Decide(a).verdict,
                 rule |-> Decide(a).rule, completed |-> FALSE]
<1>1. actions' = Append(actions, r)
  BY DEF Propose, Trace
<1>2. r \in SessionAction /\ r.action = a
  BY DecideIsWorst, DecideRule DEF SessionAction
<1> QED
  BY <1>1, <1>2

(* So does a proposal of the caller. *)
LEMMA AskAppends ==
  ASSUME NEW a \in Action, Ask(a)
  PROVE  \E r \in SessionAction :
           /\ actions' = Append(actions, r)
           /\ r.action = a /\ ~r.completed /\ r.verdict = Decide(a).verdict
BY ProposeAppends DEF Ask

(* Every step of the session keeps them so. *)
LEMMA SessionTypeStep == SessionTypeOK /\ [SNext]_allVars => SessionTypeOK'
<1> SUFFICES ASSUME SessionTypeOK, [SNext]_allVars PROVE SessionTypeOK'
  OBVIOUS
<1>1. TypeOK'
  BY SessionStepOfEngine, TypeStep DEF SessionTypeOK
<1>2. ASSUME NEW a \in Action, Ask(a) PROVE SessionTypeOK'
  <2>1. actions' \in Seq(SessionAction)
    BY <1>2, AskAppends DEF SessionTypeOK
  <2>2. escalation_count' \in Nat
    BY <1>2 DEF Ask, Propose, Trace, SessionTypeOK
  <2>3. running' \in [Action -> Nat] /\ overlapped' \in BOOLEAN
    BY <1>2 DEF Ask, SessionTypeOK
  <2> QED
    BY <1>1, <2>1, <2>2, <2>3 DEF SessionTypeOK
<1>3. ASSUME NEW a \in Action, Finish(a) PROVE SessionTypeOK'
  <2>1. actions' \in Seq(SessionAction)
    <3>1. CASE actions' = actions
      BY <3>1 DEF SessionTypeOK
    <3>2. ASSUME NEW i \in OpenRecords(a),
                 actions' = [actions EXCEPT ![i].completed = TRUE]
          PROVE  actions' \in Seq(SessionAction)
      <4>1. i \in DOMAIN actions /\ actions[i] \in SessionAction
        BY DEF OpenRecords, SessionTypeOK
      <4>2. [actions[i] EXCEPT !.completed = TRUE] \in SessionAction
        BY <4>1 DEF SessionAction
      <4> QED
        BY <3>2, <4>1, <4>2 DEF SessionTypeOK
    <3> QED
      BY <1>3, <3>1, <3>2, CompletesOne DEF Finish, SessionTypeOK
  <2>2. running' \in [Action -> Nat]
    BY <1>3 DEF Finish, SessionTypeOK
  <2> QED
    BY <1>1, <1>3, <2>1, <2>2 DEF Finish, RecordCompletion, SessionTypeOK
<1>4. ASSUME NEW a \in Action, Abandon(a) PROVE SessionTypeOK'
  BY <1>1, <1>4 DEF Abandon, SessionTypeOK
<1>5. CASE Engine \/ UNCHANGED allVars
  BY <1>1, <1>5 DEF Engine, allVars, sessionVars, SessionTypeOK
<1> QED
  BY <1>2, <1>3, <1>4, <1>5 DEF SNext

(* Trace, counters and the caller's account keep their types. *)
THEOREM SessionTypeCorrect == SSpec => []SessionTypeOK
<1> QED
  BY InitSessionTypeOK, SessionTypeStep, PTL DEF SSpec

(* No step drops, reorders or rewrites a record or takes a completion back. *)
THEOREM TraceKept == SSpec => TraceIsHistory
<1> DEFINE Kept == /\ Len(actions) <= Len(actions')
                   /\ \A i \in DOMAIN actions :
                        /\ [actions'[i] EXCEPT !.completed = TRUE]
                             = [actions[i] EXCEPT !.completed = TRUE]
                        /\ actions[i].completed => actions'[i].completed
<1>1. ASSUME SessionTypeOK, [SNext]_allVars PROVE [Kept]_allVars
  <2> USE <1>1
  <2>0. actions \in Seq(SessionAction)
    BY DEF SessionTypeOK
  <2>1. ASSUME NEW a \in Action, Ask(a) PROVE Kept
    <3>1. PICK r \in SessionAction : actions' = Append(actions, r)
      BY <2>1, AskAppends
    <3>2. /\ Len(actions) <= Len(actions')
          /\ \A i \in DOMAIN actions : actions'[i] = actions[i]
      BY <2>0, <3>1
    <3> QED
      BY <3>2, Zenon
  <2>2. ASSUME actions' = actions PROVE Kept
    BY <2>0, <2>2
  <2>3. ASSUME NEW a \in Action, Finish(a) PROVE Kept
    <3>1. ASSUME NEW i \in OpenRecords(a),
                 actions' = [actions EXCEPT ![i].completed = TRUE]
          PROVE  Kept
      <4>1. i \in DOMAIN actions /\ actions[i] \in SessionAction
        BY <2>0 DEF OpenRecords
      <4>2. /\ actions'[i] = [actions[i] EXCEPT !.completed = TRUE]
            /\ \A j \in DOMAIN actions : j # i => actions'[j] = actions[j]
            /\ Len(actions') = Len(actions)
        BY <2>0, <3>1, <4>1
      <4>3. actions'[i].completed
        BY <4>1, <4>2 DEF SessionAction
      <4>4. [actions'[i] EXCEPT !.completed = TRUE] = [actions[i] EXCEPT !.completed = TRUE]
        BY <4>1, <4>2 DEF SessionAction
      <4>5. Len(actions) <= Len(actions')
        BY <2>0, <4>2
      <4>6. ASSUME NEW j \in DOMAIN actions
            PROVE  /\ [actions'[j] EXCEPT !.completed = TRUE]
                        = [actions[j] EXCEPT !.completed = TRUE]
                   /\ actions[j].completed => actions'[j].completed
        <5>1. CASE j = i
          BY <5>1, <4>3, <4>4, Zenon
        <5>2. CASE j # i
          BY <5>2, <4>2, Zenon
        <5> QED
          BY <5>1, <5>2
      <4> QED
        BY <4>5, <4>6, Zenon
    <3>2. RecordCompletion(a)
      BY <2>3 DEF Finish
    <3>3. \/ actions' = actions
          \/ \E i \in OpenRecords(a) : actions' = [actions EXCEPT ![i].completed = TRUE]
      BY <2>0, <3>2, CompletesOne
    <3> HIDE DEF Kept
    <3> QED
      BY <2>2, <3>1, <3>3
  <2> QED
    BY <2>1, <2>2, <2>3 DEF SNext, Abandon, Engine, allVars, sessionVars
<1> QED
  BY <1>1, SessionTypeCorrect, PTL DEF SSpec, TraceIsHistory

-----------------------------------------------------------------------------
(* Completions.  What is under way of a text bounds how many of its records
   may still be completed.                                                 *)
Done(a)   == {i \in DOMAIN actions : actions[i].action = a /\ actions[i].completed}
Passed(a) == {i \in DOMAIN actions :
                actions[i].action = a /\ OutcomeOf(actions[i].verdict) = "proceed"}

EarnedInv ==
  /\ SessionTypeOK
  /\ \A a \in Action : Cardinality(Done(a)) + running[a] <= Cardinality(Passed(a))

(* The records that may proceed, and those completed, are finitely many. *)
LEMMA RecordsAreFinite ==
  ASSUME SessionTypeOK, NEW a \in Action
  PROVE  /\ IsFiniteSet(Done(a)) /\ Cardinality(Done(a)) \in Nat
         /\ IsFiniteSet(Passed(a)) /\ Cardinality(Passed(a)) \in Nat
<1>1. IsFiniteSet(1..Len(actions)) /\ DOMAIN actions = 1..Len(actions)
  BY FS_Interval DEF SessionTypeOK
<1>2. Done(a) \in SUBSET (1..Len(actions)) /\ Passed(a) \in SUBSET (1..Len(actions))
  BY <1>1 DEF Done, Passed
<1> QED
  BY <1>1, <1>2, FS_Subset, FS_CardinalityType

(* Before the first proposal nothing is completed or under way. *)
LEMMA InitEarned == SInit => EarnedInv
<1> SUFFICES ASSUME SInit PROVE EarnedInv
  OBVIOUS
<1>1. SessionTypeOK /\ actions = <<>> /\ running = Idle
  BY InitSessionTypeOK DEF SInit, SessionInit
<1>2. \A a \in Action : Done(a) = {} /\ Passed(a) = {} /\ running[a] = 0
  BY <1>1 DEF Done, Passed, Idle
<1> QED
  BY <1>1, <1>2, FS_EmptySet DEF EarnedInv

(* What may proceed is what the caller carries out. *)
LEMMA ProceedsIfLetThrough ==
  ASSUME NEW v \in Verdict
  PROVE  OutcomeOf(v) = "proceed" <=> LetsThrough(v)
BY DEF OutcomeOf, LetsThrough, Verdict

(* A proposal let through adds a passed record with the running call. *)
LEMMA AskKeepsEarned ==
  ASSUME EarnedInv, NEW b \in Action, Ask(b)
  PROVE  EarnedInv'
<1>1. SessionTypeOK /\ SessionTypeOK'
  BY SessionTypeStep DEF EarnedInv, SNext
<1>2. PICK r \in SessionAction :
        /\ actions' = Append(actions, r)
        /\ r.action = b /\ ~r.completed /\ r.verdict = Decide(b).verdict
  BY AskAppends
<1>3. last'.verdict = r.verdict /\ r.verdict \in Verdict
  BY <1>2, DecideIsWorst DEF Ask, Propose, Evaluate, Record
<1> DEFINE n == Len(actions) + 1
<1>4. /\ n \in Nat /\ n \notin DOMAIN actions
      /\ DOMAIN actions' = DOMAIN actions \union {n}
      /\ actions'[n] = r
      /\ \A i \in DOMAIN actions : actions'[i] = actions[i]
  BY <1>1, <1>2 DEF SessionTypeOK
<1> HIDE DEF n
<1>5. ASSUME NEW a \in Action
      PROVE  Cardinality(Done(a)') + running'[a] <= Cardinality(Passed(a)')
  <2>1. Done(a)' = Done(a)
    BY <1>2, <1>4 DEF Done
  <2>2. Cardinality(Done(a)) + running[a] <= Cardinality(Passed(a))
    BY DEF EarnedInv
  <2>3. /\ IsFiniteSet(Passed(a)) /\ Cardinality(Passed(a)) \in Nat
        /\ Cardinality(Done(a)) \in Nat /\ running[a] \in Nat
    BY <1>1, RecordsAreFinite DEF SessionTypeOK
  <2>4. CASE a = b /\ LetsThrough(r.verdict)
    <3>1. Passed(a)' = Passed(a) \union {n}
      BY <1>2, <1>3, <1>4, <2>4, ProceedsIfLetThrough DEF Passed
    <3>2. n \notin Passed(a)
      BY <1>4 DEF Passed
    <3>3. Cardinality(Passed(a)') = Cardinality(Passed(a)) + 1
      BY <2>3, <3>1, <3>2, FS_AddElement
    <3>4. running'[a] = running[a] + 1
      BY <1>1, <1>3, <2>4 DEF Ask, SessionTypeOK
    <3> QED
      BY <2>1, <2>2, <2>3, <3>3, <3>4
  <2>5. CASE ~(a = b /\ LetsThrough(r.verdict))
    <3>1. Passed(a)' = Passed(a)
      BY <1>2, <1>3, <1>4, <2>5, ProceedsIfLetThrough DEF Passed
    <3>2. running'[a] = running[a]
      BY <1>1, <1>3, <2>5 DEF Ask, SessionTypeOK
    <3> QED
      BY <2>1, <2>2, <3>1, <3>2
  <2> QED
    BY <2>4, <2>5
<1> QED
  BY <1>1, <1>5 DEF EarnedInv

(* A completion marks one more record and ends one running call. *)
LEMMA FinishKeepsEarned ==
  ASSUME EarnedInv, NEW b \in Action, Finish(b)
  PROVE  EarnedInv'
<1>1. SessionTypeOK /\ SessionTypeOK'
  BY SessionTypeStep DEF EarnedInv, SNext
<1>2. running[b] > 0 /\ running' = [running EXCEPT ![b] = @ - 1]
  BY DEF Finish
<1>3. ASSUME NEW a \in Action
      PROVE  Cardinality(Done(a)') + running'[a] <= Cardinality(Passed(a)')
  <2>1. /\ Cardinality(Done(a)) + running[a] <= Cardinality(Passed(a))
        /\ IsFiniteSet(Done(a)) /\ Cardinality(Done(a)) \in Nat
        /\ Cardinality(Passed(a)) \in Nat /\ running[a] \in Nat
    BY <1>1, RecordsAreFinite DEF EarnedInv, SessionTypeOK
  <2>2. running'[a] = IF a = b THEN running[a] - 1 ELSE running[a]
    BY <1>1, <1>2 DEF SessionTypeOK
  <2>3. ASSUME actions' = actions
        PROVE  Cardinality(Done(a)') + running'[a] <= Cardinality(Passed(a)')
    <3>1. Done(a)' = Done(a) /\ Passed(a)' = Passed(a)
      BY <2>3 DEF Done, Passed
    <3> QED
      BY <2>1, <2>2, <3>1
  <2>4. ASSUME NEW i \in OpenRecords(b), actions' = [actions EXCEPT ![i].completed = TRUE]
        PROVE  Cardinality(Done(a)') + running'[a] <= Cardinality(Passed(a)')
    <3>1. /\ i \in DOMAIN actions /\ actions[i] \in SessionAction
          /\ actions[i].action = b /\ ~actions[i].completed
      BY <1>1 DEF OpenRecords, SessionTypeOK
    <3>2. /\ DOMAIN actions' = DOMAIN actions
          /\ actions'[i] = [actions[i] EXCEPT !.completed = TRUE]
          /\ \A j \in DOMAIN actions : j # i => actions'[j] = actions[j]
      BY <1>1, <2>4, <3>1 DEF SessionTypeOK
    <3>3. /\ actions'[i].action = b /\ actions'[i].completed
          /\ actions'[i].verdict = actions[i].verdict
      BY <3>1, <3>2 DEF SessionAction
    <3>4. Passed(a)' = Passed(a)
      <4>1. \A j \in DOMAIN actions :
              actions'[j].action = actions[j].action /\ actions'[j].verdict = actions[j].verdict
        BY <3>1, <3>2, <3>3
      <4> QED
        BY <3>2, <4>1 DEF Passed
    <3>5. CASE a = b
      <4>1. Done(a)' = Done(a) \union {i} /\ i \notin Done(a)
        BY <3>1, <3>2, <3>3, <3>5 DEF Done
      <4>2. Cardinality(Done(a)') = Cardinality(Done(a)) + 1
        BY <2>1, <4>1, FS_AddElement
      <4> QED
        BY <2>1, <2>2, <3>4, <3>5, <4>2
    <3>6. CASE a # b
      <4>1. Done(a)' = Done(a)
        BY <3>1, <3>2, <3>3, <3>6 DEF Done
      <4> QED
        BY <2>1, <2>2, <3>4, <3>6, <4>1
    <3> QED
      BY <3>5, <3>6
  <2>5. RecordCompletion(b) /\ actions \in Seq(SessionAction)
    BY <1>1 DEF Finish, SessionTypeOK
  <2>6. \/ actions' = actions
        \/ \E i \in OpenRecords(b) : actions' = [actions EXCEPT ![i].completed = TRUE]
    BY <2>5, CompletesOne
  <2> QED
    BY <2>3, <2>4, <2>6
<1> QED
  BY <1>1, <1>3 DEF EarnedInv

(* Every step keeps completed plus running within what was let through. *)
LEMMA EarnedStep == EarnedInv /\ [SNext]_allVars => EarnedInv'
<1> SUFFICES ASSUME EarnedInv, [SNext]_allVars PROVE EarnedInv'
  OBVIOUS
<1>1. SessionTypeOK /\ SessionTypeOK'
  BY SessionTypeStep DEF EarnedInv
<1>2. ASSUME NEW b \in Action, Abandon(b) PROVE EarnedInv'
  <2>1. \A a \in Action : Done(a)' = Done(a) /\ Passed(a)' = Passed(a)
    BY <1>2 DEF Abandon, Done, Passed
  <2>2. \A a \in Action : running'[a] <= running[a] /\ running'[a] \in Nat /\ running[a] \in Nat
    BY <1>1, <1>2 DEF Abandon, SessionTypeOK
  <2>3. \A a \in Action : Cardinality(Done(a)) \in Nat /\ Cardinality(Passed(a)) \in Nat
    BY <1>1, RecordsAreFinite
  <2>4. \A a \in Action : Cardinality(Done(a)') + running'[a] <= Cardinality(Passed(a)')
    BY <2>1, <2>2, <2>3 DEF EarnedInv
  <2> QED
    BY <1>1, <2>4 DEF EarnedInv
<1>3. ASSUME actions' = actions, running' = running PROVE EarnedInv'
  BY <1>1, <1>3 DEF EarnedInv, Done, Passed
<1> QED
  BY <1>2, <1>3, AskKeepsEarned, FinishKeepsEarned DEF SNext, Engine, allVars, sessionVars

(* With calls of one text under way at once, no text is marked as completed
   more often than the engine let it through.                              *)
THEOREM CompletionsAreEarned == SSpec => []CompletionsEarned
<1>1. EarnedInv => CompletionsEarned
  <2> SUFFICES ASSUME EarnedInv, NEW a \in Action
               PROVE  Cardinality(Done(a)) <= Cardinality(Passed(a))
    BY DEF CompletionsEarned, Count, Done, Passed
  <2>1. /\ Cardinality(Done(a)) \in Nat /\ Cardinality(Passed(a)) \in Nat
        /\ running[a] \in Nat
    BY RecordsAreFinite DEF EarnedInv, SessionTypeOK
  <2> QED
    BY <2>1 DEF EarnedInv
<1> QED
  BY <1>1, InitEarned, EarnedStep, PTL DEF SSpec

-----------------------------------------------------------------------------
(* The trace as a second account of what the engine counts.  Many(S) is the
   number of records in S.                                                 *)
Where(S) == {i \in DOMAIN actions : actions[i] \in S}
Many(S)  == Cardinality(Where(S))

Blocked   == {r \in SessionAction : r.verdict = "block"}
Cautioned == {r \in SessionAction : r.verdict = "warn"}
Escalated == {r \in SessionAction : r.verdict = "escalate"}
LetBy     == {r \in SessionAction : OutcomeOf(r.verdict) = "proceed"}
Tried(p)  == {r \in SessionAction : Mutating(r.action) /\ NormalForm[r.action] = p}

TraceInv ==
  /\ SessionTypeOK
  /\ Len(actions) = action_count
  /\ escalation_count = Many(Escalated)
  /\ allowed = Many(LetBy)
  /\ blocks_issued <= Many(Blocked) /\ warnings_issued <= Many(Cautioned)
  /\ \A p \in Pattern : retries[p] <= Many(Tried(p))
  /\ stage = 0 =>
       /\ blocks_issued = Many(Blocked) /\ warnings_issued = Many(Cautioned)
       /\ \A p \in Pattern : retries[p] = Many(Tried(p))

(* The records of any kind can be counted. *)
LEMMA ManyIsNatural ==
  ASSUME SessionTypeOK, NEW S
  PROVE  IsFiniteSet(Where(S)) /\ Many(S) \in Nat
<1>1. IsFiniteSet(1..Len(actions)) /\ DOMAIN actions = 1..Len(actions)
  BY FS_Interval DEF SessionTypeOK
<1>2. Where(S) \in SUBSET (1..Len(actions))
  BY <1>1 DEF Where
<1> QED
  BY <1>1, <1>2, FS_Subset, FS_CardinalityType DEF Many

(* A record more is counted once, where it belongs. *)
LEMMA ManyAppended ==
  ASSUME SessionTypeOK, NEW r \in SessionAction, actions' = Append(actions, r), NEW S
  PROVE  Many(S)' = Many(S) + (IF r \in S THEN 1 ELSE 0)
<1> DEFINE n == Len(actions) + 1
<1>1. /\ actions \in Seq(SessionAction) /\ n \in Nat /\ n \notin DOMAIN actions
      /\ DOMAIN actions' = DOMAIN actions \union {n}
      /\ actions'[n] = r
      /\ \A i \in DOMAIN actions : actions'[i] = actions[i]
  BY DEF SessionTypeOK
<1>2. n \notin Where(S)
  BY <1>1 DEF Where
<1>3. Where(S)' = IF r \in S THEN Where(S) \union {n} ELSE Where(S)
  BY <1>1 DEF Where
<1> HIDE DEF n
<1>4. CASE r \in S
  BY <1>2, <1>3, <1>4, ManyIsNatural, FS_AddElement DEF Many
<1>5. CASE r \notin S
  BY <1>3, <1>5, ManyIsNatural DEF Many
<1> QED
  BY <1>4, <1>5

(* A completion does not change which records belong to a kind that does not
   ask whether they are completed.                                         *)
LEMMA ManyCompleted ==
  ASSUME SessionTypeOK, NEW a \in Action, RecordCompletion(a), NEW S,
         \A r \in SessionAction : r \in S <=> [r EXCEPT !.completed = TRUE] \in S
  PROVE  Many(S)' = Many(S)
<1>0. actions \in Seq(SessionAction)
  BY DEF SessionTypeOK
<1>1. CASE actions' = actions
  BY <1>1 DEF Many, Where
<1>2. ASSUME NEW i \in OpenRecords(a), actions' = [actions EXCEPT ![i].completed = TRUE]
      PROVE  Many(S)' = Many(S)
  <2>1. i \in DOMAIN actions /\ actions[i] \in SessionAction
    BY <1>0 DEF OpenRecords
  <2>2. /\ DOMAIN actions' = DOMAIN actions
        /\ actions'[i] = [actions[i] EXCEPT !.completed = TRUE]
        /\ \A j \in DOMAIN actions : j # i => actions'[j] = actions[j]
    BY <1>0, <1>2, <2>1
  <2>3. actions'[i] \in S <=> actions[i] \in S
    BY <2>1, <2>2
  <2>4. Where(S)' = Where(S)
    BY <2>1, <2>2, <2>3 DEF Where
  <2> QED
    BY <2>4 DEF Many
<1> QED
  BY <1>0, <1>1, <1>2, CompletesOne

(* A new session has an empty trace and counters at zero. *)
LEMMA InitTraceInv ==
  ASSUME SessionTypeOK, FreshSession, actions = <<>>, escalation_count = 0
  PROVE  TraceInv
<1>1. \A S : Where(S) = {}
  BY DEF Where
<1>2. \A S : Many(S) = 0
  BY <1>1, FS_EmptySet DEF Many
<1> QED
  BY <1>2 DEF TraceInv, FreshSession

(* A proposal is counted by the engine as it is traced. *)
LEMMA ProposeKeepsTrace ==
  ASSUME TraceInv, SessionTypeOK', NEW a \in Action, Propose(a)
  PROVE  TraceInv'
<1> DEFINE r == [action |-> Decide(a).action, verdict |-> Decide(a).verdict,
                 rule |-> Decide(a).rule, completed |-> FALSE]
<1>0. SessionTypeOK /\ TypeOK
  BY DEF TraceInv, SessionTypeOK
<1>1. actions' = Append(actions, r) /\ r \in SessionAction
  BY DecideIsWorst, DecideRule DEF Propose, Trace, SessionAction
<1>2. /\ r.action = a /\ r.verdict \in Verdict
      /\ r.verdict = Decide(a).verdict /\ NormalForm[a] \in Pattern
  BY DecideIsWorst, ActionsAssumption
<1>3. \A S : Many(S) \in Nat /\ Many(S)' = Many(S) + (IF r \in S THEN 1 ELSE 0)
  BY <1>0, <1>1, ManyIsNatural, ManyAppended
<1> HIDE DEF r
<1>4. Len(actions') = Len(actions) + 1 /\ action_count' = action_count + 1
  BY <1>0, <1>1 DEF Propose, Evaluate, Record, SessionTypeOK
<1>5. /\ escalation_count' = escalation_count + (IF r \in Escalated THEN 1 ELSE 0)
      /\ allowed' = allowed + (IF r \in LetBy THEN 1 ELSE 0)
      /\ blocks_issued' = blocks_issued + (IF r \in Blocked THEN 1 ELSE 0)
      /\ warnings_issued' = warnings_issued + (IF r \in Cautioned THEN 1 ELSE 0)
      /\ stage' = stage
  BY <1>1, <1>2 DEF Propose, Trace, Evaluate, Record, OutcomeOf, LetsThrough, Verdict,
     Escalated, LetBy, Blocked, Cautioned
<1>6. \A p \in Pattern : retries'[p] = retries[p] + (IF r \in Tried(p) THEN 1 ELSE 0)
  BY <1>0, <1>1, <1>2 DEF Propose, Evaluate, CountAttempt, Tried, TypeOK
<1>7. \A p \in Pattern : retries[p] \in Nat
  BY <1>0 DEF TypeOK
<1>8. \A p \in Pattern : /\ Many(Tried(p)) \in Nat
                         /\ Many(Tried(p))' = Many(Tried(p)) + (IF r \in Tried(p) THEN 1 ELSE 0)
  BY <1>3 DEF Tried
<1>9. /\ Many(Escalated)' = Many(Escalated) + (IF r \in Escalated THEN 1 ELSE 0)
      /\ Many(LetBy)' = Many(LetBy) + (IF r \in LetBy THEN 1 ELSE 0)
      /\ Many(Blocked)' = Many(Blocked) + (IF r \in Blocked THEN 1 ELSE 0)
      /\ Many(Cautioned)' = Many(Cautioned) + (IF r \in Cautioned THEN 1 ELSE 0)
      /\ Many(Blocked) \in Nat /\ Many(Cautioned) \in Nat
  BY <1>3 DEF Escalated, LetBy, Blocked, Cautioned
<1>10. Len(actions') = action_count' /\ escalation_count' = Many(Escalated)'
  BY <1>4, <1>5, <1>9 DEF TraceInv
<1>11. allowed' = Many(LetBy)'
  BY <1>5, <1>9 DEF TraceInv
<1>c. /\ blocks_issued \in Nat /\ warnings_issued \in Nat
      /\ blocks_issued <= Many(Blocked) /\ warnings_issued <= Many(Cautioned)
      /\ stage = 0 => blocks_issued = Many(Blocked) /\ warnings_issued = Many(Cautioned)
  BY <1>0 DEF TraceInv, TypeOK
<1>12. /\ blocks_issued' <= Many(Blocked)' /\ warnings_issued' <= Many(Cautioned)'
       /\ stage' = 0 => blocks_issued' = Many(Blocked)' /\ warnings_issued' = Many(Cautioned)'
  <2>1. blocks_issued' <= Many(Blocked)' /\ (stage' = 0 => blocks_issued' = Many(Blocked)')
    BY <1>5, <1>9, <1>c
  <2>2. warnings_issued' <= Many(Cautioned)' /\ (stage' = 0 => warnings_issued' = Many(Cautioned)')
    BY <1>5, <1>9, <1>c
  <2> QED
    BY <2>1, <2>2
<1>13. \A p \in Pattern : /\ retries'[p] <= Many(Tried(p))'
                          /\ stage' = 0 => retries'[p] = Many(Tried(p))'
  BY <1>5, <1>6, <1>7, <1>8 DEF TraceInv
<1> QED
  BY <1>10, <1>11, <1>12, <1>13 DEF TraceInv

(* A completion leaves both accounts as they are. *)
LEMMA FinishKeepsTrace ==
  ASSUME TraceInv, SessionTypeOK', NEW a \in Action, RecordCompletion(a),
         UNCHANGED engineVars
  PROVE  TraceInv'
<1>0. SessionTypeOK /\ actions \in Seq(SessionAction)
  BY DEF TraceInv, SessionTypeOK
<1>1. \A r \in SessionAction :
        LET s == [r EXCEPT !.completed = TRUE]
        IN  s \in SessionAction /\ s.action = r.action /\ s.verdict = r.verdict
  BY DEF SessionAction
<1>2. /\ Many(Escalated)' = Many(Escalated) /\ Many(LetBy)' = Many(LetBy)
      /\ Many(Blocked)' = Many(Blocked) /\ Many(Cautioned)' = Many(Cautioned)
  BY <1>0, <1>1, ManyCompleted DEF Escalated, LetBy, Blocked, Cautioned
<1>3. \A p \in Pattern : Many(Tried(p))' = Many(Tried(p))
  BY <1>0, <1>1, ManyCompleted DEF Tried
<1>4. Len(actions') = Len(actions)
  <2>1. ASSUME NEW i \in OpenRecords(a), actions' = [actions EXCEPT ![i].completed = TRUE]
        PROVE  Len(actions') = Len(actions)
    BY <1>0, <2>1 DEF OpenRecords
  <2> QED
    BY <1>0, <2>1, CompletesOne
<1>5. UNCHANGED <<action_count, retries, warnings_issued, blocks_issued, stage,
                  allowed, escalation_count>>
  BY DEF engineVars, counters, history, RecordCompletion
<1> QED
  BY <1>2, <1>3, <1>4, <1>5 DEF TraceInv

(* Whatever moves neither trace nor counters keeps them in agreement. *)
LEMMA TraceUntouched ==
  ASSUME TraceInv, SessionTypeOK', UNCHANGED <<actions, escalation_count, action_count,
         retries, warnings_issued, blocks_issued, stage, allowed>>
  PROVE  TraceInv'
<1>1. \A S : Many(S)' = Many(S)
  BY DEF Many, Where
<1>2. /\ Many(Escalated)' = Many(Escalated) /\ Many(LetBy)' = Many(LetBy)
      /\ Many(Blocked)' = Many(Blocked) /\ Many(Cautioned)' = Many(Cautioned)
      /\ \A p \in Pattern : Many(Tried(p))' = Many(Tried(p))
  BY <1>1 DEF Escalated, LetBy, Blocked, Cautioned, Tried
<1> QED
  BY <1>2 DEF TraceInv

(* Every step of the session keeps the two accounts in agreement. *)
LEMMA TraceStep == TraceInv /\ [SNext]_allVars => TraceInv'
<1> SUFFICES ASSUME TraceInv, [SNext]_allVars PROVE TraceInv'
  OBVIOUS
<1>0. SessionTypeOK /\ SessionTypeOK'
  BY SessionTypeStep DEF TraceInv
<1>1. ASSUME NEW a \in Action, Ask(a) PROVE TraceInv'
  BY <1>0, <1>1, ProposeKeepsTrace DEF Ask
<1>2. ASSUME NEW a \in Action, Finish(a) PROVE TraceInv'
  BY <1>0, <1>2, FinishKeepsTrace DEF Finish
<1>3. ASSUME NEW a \in Action, Abandon(a) PROVE TraceInv'
  BY <1>0, <1>3, TraceUntouched DEF Abandon, engineVars, counters, history
<1>4. CASE ResetStageCounters /\ UNCHANGED sessionVars
  <2>1. \A S : Many(S)' = Many(S) /\ Many(S) \in Nat
    BY <1>0, <1>4, ManyIsNatural DEF Many, Where, sessionVars
  <2>2. /\ Many(Escalated)' = Many(Escalated) /\ Many(LetBy)' = Many(LetBy)
        /\ Many(Blocked)' \in Nat /\ Many(Cautioned)' \in Nat
        /\ \A p \in Pattern : Many(Tried(p))' \in Nat
    BY <2>1 DEF Escalated, LetBy, Blocked, Cautioned, Tried
  <2>3. /\ blocks_issued' = 0 /\ warnings_issued' = 0
        /\ retries' = [p \in Pattern |-> 0]
        /\ stage' # 0
        /\ UNCHANGED <<actions, escalation_count, action_count, allowed>>
    BY <1>0, <1>4 DEF ResetStageCounters, sessionVars, SessionTypeOK, TypeOK
  <2> QED
    BY <1>0, <2>2, <2>3 DEF TraceInv
<1>5. ASSUME Engine, ~ResetStageCounters PROVE TraceInv'
  <2>1. UNCHANGED <<action_count, retries, warnings_issued, blocks_issued, stage, allowed>>
    BY <1>5 DEF Engine, RecordFileModified, RecordToolUsed, RecordTokens,
       RecordUndeclaredAssumption, counters, history
  <2> QED
    BY <1>0, <1>5, <2>1, TraceUntouched DEF Engine, sessionVars
<1>6. CASE UNCHANGED allVars
  BY <1>0, <1>6, TraceUntouched DEF allVars, engineVars, counters, history, sessionVars
<1> QED
  BY <1>1, <1>2, <1>3, <1>4, <1>5, <1>6 DEF SNext, Engine

(* The sets the proof counts are those the property counts. *)
LEMMA TraceInvMatches == TraceInv => TraceMatchesEngine
<1> SUFFICES ASSUME TraceInv PROVE TraceMatchesEngine
  OBVIOUS
<1>0. actions \in Seq(SessionAction)
  BY DEF TraceInv, SessionTypeOK
<1>1. /\ Count(LAMBDA r : r.verdict = "block") = Many(Blocked)
      /\ Count(LAMBDA r : r.verdict = "warn") = Many(Cautioned)
      /\ Count(LAMBDA r : r.verdict = "escalate") = Many(Escalated)
      /\ Count(LAMBDA r : OutcomeOf(r.verdict) = "proceed") = Many(LetBy)
  <2>1. \A i \in DOMAIN actions : actions[i] \in SessionAction
    BY <1>0
  <2> QED
    BY <2>1 DEF Count, Many, Where, Blocked, Cautioned, Escalated, LetBy
<1>2. ASSUME NEW p \in Pattern
      PROVE  Count(LAMBDA r : Mutating(r.action) /\ NormalForm[r.action] = p) = Many(Tried(p))
  <2>1. \A i \in DOMAIN actions : actions[i] \in SessionAction
    BY <1>0
  <2> QED
    BY <2>1 DEF Count, Many, Where, Tried
<1> QED
  BY <1>1, <1>2 DEF TraceMatchesEngine, TraceInv

(* The trace and the counters are two accounts of one session, up to what a
   reset between stages takes from the counters.                           *)
THEOREM TraceMatches == SSpec => []TraceMatchesEngine
<1>1. SInit => TraceInv
  BY InitSessionTypeOK, InitTraceInv DEF SInit, Init, SessionInit
<1> QED
  BY <1>1, TraceStep, TraceInvMatches, PTL DEF SSpec

-----------------------------------------------------------------------------
(* One call at a time: the call under way is the last record of the trace,
   so the latest open record of its text is its own.                       *)
Latest(a) ==
  /\ running = [Idle EXCEPT ![a] = 1]
  /\ actions # <<>>
  /\ LET r == actions[Len(actions)]
     IN  r.action = a /\ ~r.completed /\ OutcomeOf(r.verdict) = "proceed"

OrderInv ==
  /\ SessionTypeOK
  /\ CompletedProceeded
  /\ ~overlapped => running = Idle \/ \E a \in Action : Latest(a)

(* A call proposed while nothing is under way becomes the latest record. *)
LEMMA AskKeepsOrder ==
  ASSUME OrderInv, SessionTypeOK', NEW a \in Action, Ask(a)
  PROVE  OrderInv'
<1>0. actions \in Seq(SessionAction) /\ running \in [Action -> Nat] /\ overlapped \in BOOLEAN
  BY DEF OrderInv, SessionTypeOK
<1> SUFFICES ASSUME ~overlapped'
             PROVE  /\ \A i \in DOMAIN actions' :
                         actions'[i].completed => OutcomeOf(actions'[i].verdict) = "proceed"
                    /\ running' = Idle \/ \E b \in Action : Latest(b)'
  BY DEF OrderInv, CompletedProceeded
<1>1. ~overlapped /\ running = Idle
  BY DEF Ask
<1>2. PICK r \in SessionAction :
        /\ actions' = Append(actions, r)
        /\ r.action = a /\ ~r.completed /\ r.verdict = Decide(a).verdict
  BY AskAppends
<1>3. /\ DOMAIN actions' = DOMAIN actions \union {Len(actions) + 1}
      /\ actions'[Len(actions) + 1] = r
      /\ \A i \in DOMAIN actions : actions'[i] = actions[i]
      /\ Len(actions') = Len(actions) + 1
      /\ actions' # <<>>
  BY <1>0, <1>2
<1>4. \A i \in DOMAIN actions' :
        actions'[i].completed => OutcomeOf(actions'[i].verdict) = "proceed"
  BY <1>1, <1>2, <1>3 DEF OrderInv, CompletedProceeded
<1>5. last'.verdict = r.verdict
  BY <1>2 DEF Ask, Propose, Evaluate, Record
<1>6. CASE LetsThrough(r.verdict)
  <2>1. running' = [Idle EXCEPT ![a] = 1]
    BY <1>1, <1>5, <1>6 DEF Ask, Idle
  <2>2. OutcomeOf(r.verdict) = "proceed"
    BY <1>6, ProceedsIfLetThrough DEF SessionAction
  <2> QED
    BY <1>2, <1>3, <1>4, <2>1, <2>2 DEF Latest, Idle
<1>7. CASE ~LetsThrough(r.verdict)
  BY <1>1, <1>4, <1>5, <1>7 DEF Ask, Idle
<1> QED
  BY <1>6, <1>7

(* A completion finds the record of the call that is under way. *)
LEMMA FinishKeepsOrder ==
  ASSUME OrderInv, SessionTypeOK', NEW a \in Action, Finish(a)
  PROVE  OrderInv'
<1>0. actions \in Seq(SessionAction) /\ running \in [Action -> Nat]
  BY DEF OrderInv, SessionTypeOK
<1> SUFFICES ASSUME ~overlapped
             PROVE  /\ \A i \in DOMAIN actions' :
                         actions'[i].completed => OutcomeOf(actions'[i].verdict) = "proceed"
                    /\ running' = Idle \/ \E b \in Action : Latest(b)'
  BY DEF OrderInv, CompletedProceeded, Finish
<1>1. running[a] > 0 /\ running' = [running EXCEPT ![a] = @ - 1]
  BY DEF Finish
<1>2. Latest(a)
  BY <1>0, <1>1 DEF OrderInv, Latest, Idle
<1>3. running' = Idle
  BY <1>1, <1>2 DEF Latest, Idle
<1> DEFINE n == Len(actions)
<1>4. /\ n \in OpenRecords(a) /\ n \in DOMAIN actions
      /\ \A k \in OpenRecords(a) : k <= n
  BY <1>0, <1>2 DEF Latest, OpenRecords
<1>5. actions' = [actions EXCEPT ![n].completed = TRUE]
  <2>1. \A i \in OpenRecords(a) : (\A k \in OpenRecords(a) : k <= i) => i = n
    BY <1>0, <1>4 DEF OpenRecords
  <2> HIDE DEF n
  <2>2. (CHOOSE j \in OpenRecords(a) : \A k \in OpenRecords(a) : k <= j) = n
    BY <1>4, <2>1
  <2> QED
    BY <1>4, <2>2 DEF Finish, RecordCompletion
<1>6. /\ DOMAIN actions' = DOMAIN actions
      /\ actions'[n].verdict = actions[n].verdict
      /\ \A i \in DOMAIN actions : i # n => actions'[i] = actions[i]
  <2>1. actions[n] \in SessionAction
    BY <1>0, <1>4
  <2> QED
    BY <1>0, <1>4, <1>5, <2>1 DEF SessionAction
<1>7. OutcomeOf(actions[n].verdict) = "proceed"
  BY <1>2 DEF Latest
<1> HIDE DEF n
<1> QED
  BY <1>3, <1>6, <1>7 DEF OrderInv, CompletedProceeded

(* Every step keeps the call under way last in the trace. *)
LEMMA OrderStep == OrderInv /\ [SNext]_allVars => OrderInv'
<1> SUFFICES ASSUME OrderInv, [SNext]_allVars PROVE OrderInv'
  OBVIOUS
<1>0. SessionTypeOK /\ SessionTypeOK'
  BY SessionTypeStep DEF OrderInv
<1>1. ASSUME NEW a \in Action, Ask(a) PROVE OrderInv'
  BY <1>0, <1>1, AskKeepsOrder
<1>2. ASSUME NEW a \in Action, Finish(a) PROVE OrderInv'
  BY <1>0, <1>2, FinishKeepsOrder
<1>3. ASSUME NEW a \in Action, Abandon(a) PROVE OrderInv'
  <2>1. ~overlapped => running' = Idle
    <3>1. running[a] > 0 /\ running' = [running EXCEPT ![a] = @ - 1]
      BY <1>3 DEF Abandon
    <3>2. ASSUME NEW b \in Action, running = [Idle EXCEPT ![b] = 1] PROVE running' = Idle
      BY <3>1, <3>2 DEF Idle
    <3>3. running # Idle
      BY <3>1 DEF Idle
    <3>4. ~overlapped => \E b \in Action : running = [Idle EXCEPT ![b] = 1]
      BY <3>3 DEF OrderInv, Latest
    <3> QED
      BY <3>2, <3>4
  <2> QED
    BY <1>0, <1>3, <2>1 DEF Abandon, OrderInv, CompletedProceeded
<1>4. CASE Engine \/ UNCHANGED allVars
  BY <1>0, <1>4 DEF Engine, allVars, sessionVars, OrderInv, CompletedProceeded, Latest
<1> QED
  BY <1>1, <1>2, <1>3, <1>4 DEF SNext

(* While calls are made one at a time, no refused record is ever marked as
   completed.                                                              *)
THEOREM CompletedHadProceeded == SSpec => []CompletedProceeded
<1>1. SInit => OrderInv
  <2> SUFFICES ASSUME SInit PROVE OrderInv
    OBVIOUS
  <2>1. actions = <<>> /\ running = Idle /\ SessionTypeOK
    BY InitSessionTypeOK DEF SInit, SessionInit
  <2> QED
    BY <2>1 DEF OrderInv, CompletedProceeded
<1>2. OrderInv => CompletedProceeded
  BY DEF OrderInv
<1> QED
  BY <1>1, <1>2, OrderStep, PTL DEF SSpec

=============================================================================
