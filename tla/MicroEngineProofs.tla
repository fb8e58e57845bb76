-------------------------- MODULE MicroEngineProofs --------------------------
(***************************************************************************)
(* Proofs about the micro-decision engine, for every set of actions and    *)
(* patterns, every configuration and every bound.                          *)
(***************************************************************************)
EXTENDS MicroEngine, FiniteSetTheorems, TLAPS

(* MostSevere picks a maximum: the dictionary of severities in evaluate()
   orders the four verdicts.                                               *)
LEMMA MostSevereIsMax ==
  ASSUME NEW S \in SUBSET Verdict, S # {}
  PROVE  /\ MostSevere(S) \in S
         /\ \A w \in S : Severity[w] <= Severity[MostSevere(S)]
<1>1. \E v \in S : \A w \in S : Severity[w] <= Severity[v]
  <2>1. CASE "block" \in S
    BY <2>1 DEF Verdict, Severity
  <2>2. CASE "block" \notin S /\ "escalate" \in S
    BY <2>2 DEF Verdict, Severity
  <2>3. CASE "block" \notin S /\ "escalate" \notin S /\ "warn" \in S
    BY <2>3 DEF Verdict, Severity
  <2>4. CASE S = {"permit"}
    BY <2>4 DEF Severity
  <2> QED
    BY <2>1, <2>2, <2>3, <2>4 DEF Verdict
<1> QED
  BY <1>1 DEF MostSevere

(* Every rule of the engine answers with one of the four verdicts. *)
LEMMA CheckVerdict ==
  ASSUME NEW a \in Action, NEW i \in 1..7
  PROVE  Check(i, a).verdict \in Verdict
<1>1. CheckInvariants(a).verdict \in Verdict
  BY DEF CheckInvariants, Result, Permit, Verdict
<1>2. CheckProtectedResources(a).verdict \in Verdict
  BY DEF CheckProtectedResources, Result, Permit, Verdict
<1>3. CheckRetryLoops(a).verdict \in Verdict
  BY DEF CheckRetryLoops, Result, Permit, Verdict
<1>4. CheckScopeDrift(a).verdict \in Verdict
  BY DEF CheckScopeDrift, Result, Permit, Verdict
<1>5. CheckDestructiveActions(a).verdict \in Verdict
  BY DEF CheckDestructiveActions, Result, Permit, Verdict
<1>6. CheckTokenBudget.verdict \in Verdict
  BY DEF CheckTokenBudget, Result, Permit, Verdict
<1>7. CheckSessionHealth.verdict \in Verdict
  BY DEF CheckSessionHealth, Result, Permit, Verdict
<1> QED
  BY <1>1, <1>2, <1>3, <1>4, <1>5, <1>6, <1>7 DEF Check

(* The decision is one of the rules' verdicts and no rule is more severe. *)
LEMMA DecideIsWorst ==
  ASSUME NEW a \in Action
  PROVE  /\ Decide(a).action = a
         /\ Decide(a).verdict \in Verdicts(a)
         /\ Decide(a).verdict \in Verdict
         /\ \A i \in 1..7 : Severity[Check(i, a).verdict]
                              <= Severity[Decide(a).verdict]
<1>1. Verdicts(a) \in SUBSET Verdict /\ Verdicts(a) # {}
  BY CheckVerdict DEF Verdicts
<1>2. Decide(a).action = a /\ Decide(a).verdict = MostSevere(Verdicts(a))
  BY DEF Decide
<1> QED
  BY <1>1, <1>2, MostSevereIsMax DEF Verdicts

(* An action let through was neither over the retry limit, nor proposed to
   an engine that had warned too often or seen too many actions.           *)
LEMMA LetThroughMeans ==
  ASSUME NEW a \in Action, LetsThrough(Decide(a).verdict)
  PROVE  /\ Mutating(a) => ~(CountAttempt(a)[NormalForm[a]] > eng.limits.max_retries)
         /\ ~(warnings_issued > eng.limits.max_warnings)
         /\ ~(action_count > eng.limits.max_actions)
<1>1. \A i \in 1..7 : Check(i, a).verdict \notin {"block", "escalate"}
  BY DecideIsWorst, CheckVerdict DEF LetsThrough, Severity, Verdict
<1>2. CheckRetryLoops(a).verdict # "block"
  BY <1>1 DEF Check
<1>3. CheckSessionHealth.verdict # "escalate"
  BY <1>1 DEF Check
<1>4. Mutating(a) => ~(CountAttempt(a)[NormalForm[a]] > eng.limits.max_retries)
  BY <1>2 DEF CheckRetryLoops, Result
<1> QED
  BY <1>3, <1>4 DEF CheckSessionHealth, Result

-----------------------------------------------------------------------------
(* A configuration has the fields the constructor is given. *)
LEMMA ConfigTypes ==
  ASSUME eng \in EngineConfig
  PROVE  /\ eng.limits.max_retries \in Nat
         /\ eng.limits.max_warnings \in Nat
         /\ eng.limits.max_actions \in Nat
         /\ eng.limits.max_files_modified \in Nat
         /\ eng.limits.max_unique_tools \in Nat
         /\ eng.limits.max_undeclared_assumptions \in Nat
BY DEF EngineConfig, Limits

(* What an evaluation does to the counters. *)
LEMMA EvaluateCounts ==
  ASSUME TypeOK, NEW a \in Action, Evaluate(a)
  PROVE  /\ action_count' = action_count + 1
         /\ warnings_issued' \in {warnings_issued, warnings_issued + 1}
         /\ blocks_issued' \in {blocks_issued, blocks_issued + 1}
         /\ allowed' \in {allowed, allowed + 1}
         /\ retries' \in [Pattern -> Nat]
         /\ passed' \in [Pattern -> Nat]
         /\ \A p \in Pattern : /\ retries'[p] \in {retries[p], retries[p] + 1}
                               /\ passed'[p] \in {passed[p], passed[p] + 1}
         /\ last'.verdict \in Verdict
<1>1. NormalForm[a] \in Pattern
  BY ActionsAssumption
<1>2. Decide(a).action = a /\ Decide(a).verdict \in Verdict
  BY DecideIsWorst
<1>3. retries \in [Pattern -> Nat] /\ passed \in [Pattern -> Nat]
  BY DEF TypeOK
<1>4. retries' = CountAttempt(a)
  BY DEF Evaluate
<1>5. /\ retries' \in [Pattern -> Nat]
      /\ \A p \in Pattern : retries'[p] \in {retries[p], retries[p] + 1}
  BY <1>1, <1>3, <1>4 DEF CountAttempt
<1>6. \/ passed' = passed
      \/ passed' = [passed EXCEPT ![NormalForm[a]] = @ + 1]
  BY <1>2 DEF Evaluate, Record
<1>7. /\ passed' \in [Pattern -> Nat]
      /\ \A p \in Pattern : passed'[p] \in {passed[p], passed[p] + 1}
  BY <1>1, <1>3, <1>6
<1> QED
  BY <1>2, <1>5, <1>7 DEF Evaluate, Record, TypeOK

(* No call on the engine takes a counter out of its type. *)
LEMMA TypeStep == TypeOK /\ [Next]_engineVars => TypeOK'
<1> SUFFICES ASSUME TypeOK, [Next]_engineVars
             PROVE  TypeOK'
  OBVIOUS
<1> USE DEF TypeOK
<1>1. ASSUME NEW a \in Action, Evaluate(a)
      PROVE  TypeOK'
  BY <1>1, EvaluateCounts DEF Evaluate, recorded
<1>2. ASSUME NEW f \in File, RecordFileModified(f)
      PROVE  TypeOK'
  BY <1>2 DEF RecordFileModified, counters, history
<1>3. ASSUME NEW t \in Tool, RecordToolUsed(t)
      PROVE  TypeOK'
  BY <1>3 DEF RecordToolUsed, counters, history
<1>4. ASSUME NEW n \in 1..MaxTokens, RecordTokens(n)
      PROVE  TypeOK'
  <2>1. token_spend' \in Nat
    BY <1>4, BoundsAssumption DEF RecordTokens
  <2> QED
    BY <2>1, <1>4 DEF RecordTokens, counters, history
<1>5. CASE RecordUndeclaredAssumption
  BY <1>5 DEF RecordUndeclaredAssumption, counters, history
<1>6. CASE ResetStageCounters
  BY <1>6 DEF ResetStageCounters, recorded
<1>7. CASE UNCHANGED engineVars
  BY <1>7 DEF engineVars, counters, recorded, history
<1> QED
  BY <1>1, <1>2, <1>3, <1>4, <1>5, <1>6, <1>7 DEF Next

(* A new session state has the declared types. *)
LEMMA InitTypeOK == Init => TypeOK
<1> SUFFICES ASSUME Init PROVE TypeOK
  OBVIOUS
<1>1. eng \in EngineConfig
  BY ConfigAssumption DEF Init
<1>2. last.verdict \in Verdict
  BY DEF Init, FreshSession, NoDecision, Verdict
<1> QED
  BY <1>1, <1>2 DEF Init, FreshSession, TypeOK

(* The counters of the engine keep their types in every behaviour. *)
THEOREM TypeCorrect == Spec => []TypeOK
<1> QED
  BY InitTypeOK, TypeStep, PTL DEF Spec

-----------------------------------------------------------------------------
(* The inductive invariant.  Let-through actions are among the attempts and
   among the actions counted, so a bound on what is counted bounds them.   *)
SafetyInv ==
  /\ TypeOK
  /\ IsFiniteSet(files_modified)
  /\ IsFiniteSet(tools_used)
  /\ \A p \in Pattern : passed[p] <= retries[p]
  /\ allowed <= action_count
  /\ RetryCap
  /\ WarnCap
  /\ ActionCap

(* A new session satisfies the invariant. *)
LEMMA InitSafetyInv == Init => SafetyInv
<1> SUFFICES ASSUME Init PROVE SafetyInv
  OBVIOUS
<1>1. TypeOK
  BY InitTypeOK
<1>2. eng \in EngineConfig
  BY <1>1 DEF TypeOK
<1>3. IsFiniteSet({})
  BY FS_EmptySet
<1> QED
  BY <1>1, <1>2, <1>3, ConfigTypes
  DEF SafetyInv, Init, FreshSession, RetryCap, WarnCap, ActionCap

(* An evaluation lets nothing through over a limit. *)
LEMMA EvaluateSafe ==
  ASSUME SafetyInv, NEW a \in Action, Evaluate(a)
  PROVE  SafetyInv'
<1> USE DEF SafetyInv
<1>1. TypeOK'
  BY TypeStep DEF Next
<1>2. /\ eng' = eng
      /\ files_modified' = files_modified
      /\ tools_used' = tools_used
  BY DEF Evaluate, recorded
<1>3. NormalForm[a] \in Pattern
  BY ActionsAssumption
<1>4. /\ eng.limits.max_retries \in Nat
      /\ eng.limits.max_warnings \in Nat
      /\ eng.limits.max_actions \in Nat
  BY ConfigTypes DEF TypeOK
<1>5. Decide(a).action = a
  BY DecideIsWorst
<1>6. \A p \in Pattern : /\ passed'[p] <= retries'[p]
                         /\ passed'[p] <= eng.limits.max_retries
  <2> SUFFICES ASSUME NEW p \in Pattern
               PROVE  /\ passed'[p] <= retries'[p]
                      /\ passed'[p] <= eng.limits.max_retries
    OBVIOUS
  <2>1. CASE passed'[p] = passed[p]
    BY <2>1, <1>4, EvaluateCounts DEF RetryCap, TypeOK
  <2>2. CASE passed'[p] # passed[p]
    <3>1. LetsThrough(Decide(a).verdict) /\ Mutating(a) /\ p = NormalForm[a]
      BY <2>2, <1>3, <1>5 DEF Evaluate, Record, TypeOK
    <3>2. retries'[p] = retries[p] + 1
      BY <3>1 DEF Evaluate, CountAttempt, TypeOK
    <3>3. retries'[p] <= eng.limits.max_retries
      BY <3>1, <3>2, LetThroughMeans, <1>4 DEF Evaluate, TypeOK
    <3>4. passed'[p] = passed[p] + 1
      BY <2>2, EvaluateCounts
    <3> QED
      BY <3>2, <3>3, <3>4, <1>4 DEF TypeOK
  <2> QED
    BY <2>1, <2>2
<1>7. warnings_issued' <= eng.limits.max_warnings + 1
  <2>1. CASE warnings_issued' = warnings_issued
    BY <2>1 DEF WarnCap
  <2>2. CASE warnings_issued' # warnings_issued
    <3>1. LetsThrough(Decide(a).verdict)
      BY <2>2 DEF Evaluate, Record, LetsThrough, TypeOK
    <3> QED
      BY <3>1, LetThroughMeans, EvaluateCounts, <1>4 DEF TypeOK
  <2> QED
    BY <2>1, <2>2
<1>8. allowed' <= action_count' /\ allowed' <= eng.limits.max_actions + 1
  <2>1. CASE allowed' = allowed
    BY <2>1, EvaluateCounts DEF ActionCap, TypeOK
  <2>2. CASE allowed' # allowed
    <3>1. LetsThrough(Decide(a).verdict)
      BY <2>2 DEF Evaluate, Record, TypeOK
    <3> QED
      BY <3>1, LetThroughMeans, EvaluateCounts, <1>4 DEF TypeOK
  <2> QED
    BY <2>1, <2>2
<1> QED
  BY <1>1, <1>2, <1>6, <1>7, <1>8 DEF RetryCap, WarnCap, ActionCap

(* Every call on the engine preserves the invariant. *)
LEMMA SafetyStep == SafetyInv /\ [Next]_engineVars => SafetyInv'
<1> SUFFICES ASSUME SafetyInv, [Next]_engineVars
             PROVE  SafetyInv'
  OBVIOUS
<1> USE DEF SafetyInv, RetryCap, WarnCap, ActionCap
<1>0. TypeOK'
  BY TypeStep
<1>1. ASSUME NEW a \in Action, Evaluate(a)
      PROVE  SafetyInv'
  BY <1>1, EvaluateSafe
<1>2. ASSUME NEW f \in File, RecordFileModified(f)
      PROVE  SafetyInv'
  <2>1. IsFiniteSet(files_modified')
    BY <1>2, FS_AddElement DEF RecordFileModified
  <2> QED
    BY <1>0, <1>2, <2>1 DEF RecordFileModified, counters, history
<1>3. ASSUME NEW t \in Tool, RecordToolUsed(t)
      PROVE  SafetyInv'
  <2>1. IsFiniteSet(tools_used')
    BY <1>3, FS_AddElement DEF RecordToolUsed
  <2> QED
    BY <1>0, <1>3, <2>1 DEF RecordToolUsed, counters, history
<1>4. ASSUME NEW n \in 1..MaxTokens, RecordTokens(n)
      PROVE  SafetyInv'
  BY <1>0, <1>4 DEF RecordTokens, counters, history
<1>5. CASE RecordUndeclaredAssumption
  BY <1>0, <1>5 DEF RecordUndeclaredAssumption, counters, history
<1>6. CASE ResetStageCounters
  <2>1. eng.limits.max_retries \in Nat /\ eng.limits.max_warnings \in Nat
    BY ConfigTypes DEF TypeOK
  <2> QED
    BY <1>0, <1>6, <2>1 DEF ResetStageCounters, recorded
<1>7. CASE UNCHANGED engineVars
  BY <1>0, <1>7 DEF engineVars, counters, recorded, history
<1> QED
  BY <1>1, <1>2, <1>3, <1>4, <1>5, <1>6, <1>7 DEF Next

(* At most max_retries mutating actions of a pattern get through in a stage. *)
THEOREM RetriesCapped == Spec => []RetryCap
<1>1. SafetyInv => RetryCap
  BY DEF SafetyInv
<1> QED
  BY <1>1, InitSafetyInv, SafetyStep, PTL DEF Spec

(* At most max_warnings + 1 warnings are given in a stage. *)
THEOREM WarningsCapped == Spec => []WarnCap
<1>1. SafetyInv => WarnCap
  BY DEF SafetyInv
<1> QED
  BY <1>1, InitSafetyInv, SafetyStep, PTL DEF Spec

(* At most max_actions + 1 actions get through in a session. *)
THEOREM ActionsCapped == Spec => []ActionCap
<1>1. SafetyInv => ActionCap
  BY DEF SafetyInv
<1> QED
  BY <1>1, InitSafetyInv, SafetyStep, PTL DEF Spec

-----------------------------------------------------------------------------
(* What a step that stays in its stage leaves of the state the rules read:
   the configuration is the same and every counter is at least as high.    *)
Grown ==
  /\ eng' = eng
  /\ \A p \in Pattern : retries[p] <= retries'[p]
  /\ Cardinality(files_modified) <= Cardinality(files_modified')
  /\ Cardinality(tools_used) <= Cardinality(tools_used')
  /\ action_count <= action_count'
  /\ warnings_issued <= warnings_issued'
  /\ assumptions_undeclared <= assumptions_undeclared'

(* Within a stage every call leaves the counters the rules read at least as large. *)
LEMMA StageStepGrows ==
  ASSUME SafetyInv, Next, stage' = stage
  PROVE  Grown
<1>0. TypeOK
  BY DEF SafetyInv
<1>1. Cardinality(files_modified) \in Nat /\ Cardinality(tools_used) \in Nat
  BY FS_CardinalityType DEF SafetyInv
<1>2. ASSUME NEW a \in Action, Evaluate(a)
      PROVE  Grown
  BY <1>0, <1>2, <1>1, EvaluateCounts DEF Grown, Evaluate, recorded, TypeOK
<1>3. ASSUME NEW f \in File, RecordFileModified(f)
      PROVE  Grown
  <2>1. IsFiniteSet(files_modified')
    BY <1>3, FS_AddElement DEF RecordFileModified, SafetyInv
  <2>2. Cardinality(files_modified) <= Cardinality(files_modified')
    BY <1>3, <2>1, FS_Subset DEF RecordFileModified
  <2> QED
    BY <1>0, <1>3, <1>1, <2>2
    DEF Grown, RecordFileModified, counters, history, TypeOK
<1>4. ASSUME NEW t \in Tool, RecordToolUsed(t)
      PROVE  Grown
  <2>1. IsFiniteSet(tools_used')
    BY <1>4, FS_AddElement DEF RecordToolUsed, SafetyInv
  <2>2. Cardinality(tools_used) <= Cardinality(tools_used')
    BY <1>4, <2>1, FS_Subset DEF RecordToolUsed
  <2> QED
    BY <1>0, <1>4, <1>1, <2>2
    DEF Grown, RecordToolUsed, counters, history, TypeOK
<1>5. ASSUME NEW n \in 1..MaxTokens, RecordTokens(n)
      PROVE  Grown
  BY <1>0, <1>1, <1>5 DEF Grown, RecordTokens, counters, history, TypeOK
<1>6. CASE RecordUndeclaredAssumption
  BY <1>0, <1>1, <1>6
  DEF Grown, RecordUndeclaredAssumption, counters, history, TypeOK
<1>7. CASE ResetStageCounters
  BY <1>0, <1>7 DEF ResetStageCounters, TypeOK
<1> QED
  BY <1>2, <1>3, <1>4, <1>5, <1>6, <1>7 DEF Next

(* Each rule is at least as severe after such a step. *)
LEMMA RulesNeverMilder ==
  ASSUME SafetyInv, SafetyInv', Grown, NEW a \in Action, NEW i \in 1..7
  PROVE  Severity[Check(i, a).verdict] <= Severity[Check(i, a)'.verdict]
<1> DEFINE Le(r, s) == Severity[r.verdict] <= Severity[s.verdict]
<1>0. /\ TypeOK /\ TypeOK'
      /\ Cardinality(files_modified) \in Nat /\ Cardinality(files_modified') \in Nat
      /\ Cardinality(tools_used) \in Nat /\ Cardinality(tools_used') \in Nat
  BY FS_CardinalityType DEF SafetyInv
<1>1. Le(CheckInvariants(a), CheckInvariants(a)')
  <2>1. Violations(a)' = Violations(a)
    BY DEF Grown, Violations, Spent
  <2> QED
    BY <2>1 DEF CheckInvariants, Result, Permit, Severity
<1>2. Le(CheckProtectedResources(a), CheckProtectedResources(a)')
  BY DEF Grown, CheckProtectedResources, Result, Permit, Severity
<1>3. Le(CheckRetryLoops(a), CheckRetryLoops(a)')
  <2>1. NormalForm[a] \in Pattern
    BY ActionsAssumption
  <2>2. /\ eng' = eng
        /\ eng.limits.max_retries \in Nat
    BY <1>0, ConfigTypes DEF Grown, TypeOK
  <2>3. CASE ~Mutating(a)
    BY <2>3 DEF CheckRetryLoops, Mutating, Permit, Result, Severity
  <2>4. CASE Mutating(a)
    <3> DEFINE c == CountAttempt(a)[NormalForm[a]]
               d == CountAttempt(a)'[NormalForm[a]]
    <3>1. c = retries[NormalForm[a]] + 1 /\ d = retries'[NormalForm[a]] + 1
      BY <1>0, <2>1, <2>4 DEF CountAttempt, Mutating, TypeOK
    <3>2. c \in Nat /\ d \in Nat /\ c <= d
      BY <1>0, <2>1, <3>1 DEF Grown, TypeOK
    <3>3. /\ CheckRetryLoops(a).verdict =
               IF c > eng.limits.max_retries THEN "block"
               ELSE IF c > 1 /\ c > eng.limits.max_retries \div 2 THEN "warn"
               ELSE "permit"
          /\ CheckRetryLoops(a)'.verdict =
               IF d > eng.limits.max_retries THEN "block"
               ELSE IF d > 1 /\ d > eng.limits.max_retries \div 2 THEN "warn"
               ELSE "permit"
      BY <2>2, <2>4 DEF CheckRetryLoops, Mutating, Permit, Result
    <3>4. eng.limits.max_retries \div 2 \in Nat
      BY <2>2
    <3> HIDE DEF c, d
    <3> QED
      BY <2>2, <3>2, <3>3, <3>4 DEF Severity
  <2> QED
    BY <2>3, <2>4
<1>4. Le(CheckScopeDrift(a), CheckScopeDrift(a)')
  <2>1. /\ eng.limits.max_files_modified \in Nat
        /\ eng.limits.max_unique_tools \in Nat
    BY <1>0, ConfigTypes DEF TypeOK
  <2> QED
    BY <1>0, <2>1 DEF Grown, CheckScopeDrift, Permit, Result, Severity
<1>5. Le(CheckDestructiveActions(a), CheckDestructiveActions(a)')
  BY DEF Grown, CheckDestructiveActions, Result, Permit, Severity
<1>6. Le(CheckTokenBudget, CheckTokenBudget')
  BY DEF Grown, CheckTokenBudget, Spent, RunLow, Result, Permit, Severity
<1>7. Le(CheckSessionHealth, CheckSessionHealth')
  <2>1. /\ eng.limits.max_warnings \in Nat
        /\ eng.limits.max_actions \in Nat
        /\ eng.limits.max_undeclared_assumptions \in Nat
    BY <1>0, ConfigTypes DEF TypeOK
  <2> QED
    BY <1>0, <2>1 DEF Grown, CheckSessionHealth, Permit, Result, Severity, TypeOK
<1> QED
  BY <1>1, <1>2, <1>3, <1>4, <1>5, <1>6, <1>7 DEF Check

(* Within a stage no rule gets milder on any action, whatever is called in
   between, and so no verdict does.                                        *)
THEOREM VerdictsNeverMilder == Spec => NeverMilder
<1>1. ASSUME SafetyInv, [Next]_engineVars
      PROVE  [stage' = stage =>
                \A a \in Action : \A i \in 1..7 :
                  Severity[Check(i, a).verdict]
                    <= Severity[Check(i, a)'.verdict]]_engineVars
  <2> SUFFICES ASSUME Next, stage' = stage, NEW a \in Action,
                      NEW i \in 1..7
               PROVE  Severity[Check(i, a).verdict] <= Severity[Check(i, a)'.verdict]
    BY <1>1
  <2>1. SafetyInv'
    BY <1>1, SafetyStep
  <2> QED
    BY <1>1, <2>1, StageStepGrows, RulesNeverMilder
<1> QED
  BY <1>1, InitSafetyInv, SafetyStep, PTL DEF Spec, NeverMilder

-----------------------------------------------------------------------------
(* The engine implements the gate. *)
LEMMA InitGate == Init => Gate!Init
<1> SUFFICES ASSUME Init PROVE Gate!Init
  OBVIOUS
<1>1. /\ eng.limits.max_retries \in Nat
      /\ eng.limits.max_actions \in Nat
      /\ eng.limits.max_warnings \in Nat
  BY InitTypeOK, ConfigTypes DEF TypeOK
<1>2. Worn = {}
  BY <1>1 DEF Worn, Init, FreshSession
<1>3. Closed = {}
  BY <1>1 DEF Closed, Init, FreshSession
<1> QED
  BY <1>1, <1>2, <1>3 DEF Gate!Init, Init, FreshSession

(* Steps that leave the decision counters alone change nothing at the gate. *)
LEMMA GateUntouched ==
  ASSUME eng' = eng, UNCHANGED <<counters, history>>
  PROVE  UNCHANGED Gate!gateVars
BY DEF counters, history, Gate!gateVars, Worn, Closed

(* When counters grow, the gate only gets tighter. *)
LEMMA GrowthTightens ==
  ASSUME SafetyInv, Grown, SafetyInv'
  PROVE  Gate!Tighten
<1>1. /\ TypeOK /\ TypeOK'
      /\ eng.limits.max_retries \in Nat
      /\ eng.limits.max_actions \in Nat
      /\ eng.limits.max_warnings \in Nat
  BY ConfigTypes DEF SafetyInv, TypeOK
<1>2. Worn' \in SUBSET Pattern /\ Worn \subseteq Worn'
  BY <1>1 DEF Worn, Grown, TypeOK
<1>3. Closed' \in SUBSET Gate!Reason /\ Closed \subseteq Closed'
  BY <1>1 DEF Closed, Grown, TypeOK, Gate!Reason
<1> QED
  BY <1>2, <1>3 DEF Gate!Tighten, Grown

(* An evaluation admits, admits a read or refuses at the gate. *)
LEMMA EvaluateIsGateStep ==
  ASSUME SafetyInv, NEW a \in Action, Evaluate(a)
  PROVE  Gate!Next
<1>1. SafetyInv' /\ Grown
  BY EvaluateSafe, StageStepGrows DEF Evaluate, Next
<1>2. Gate!Tighten
  BY <1>1, GrowthTightens
<1>3. /\ TypeOK
      /\ NormalForm[a] \in Pattern
      /\ eng.limits.max_retries \in Nat
      /\ eng.limits.max_actions \in Nat
      /\ eng.limits.max_warnings \in Nat
  BY ConfigTypes, ActionsAssumption DEF SafetyInv, TypeOK
<1>4. Decide(a).action = a
  BY DecideIsWorst
<1>5. CASE ~LetsThrough(Decide(a).verdict)
  <2>1. passed' = passed /\ allowed' = allowed
    BY <1>3, <1>5 DEF Evaluate, Record, TypeOK
  <2> QED
    BY <1>2, <2>1 DEF Gate!Next, Gate!Refuse
<1>6. CASE LetsThrough(Decide(a).verdict)
  <2>1. Closed = {}
    BY <1>6, LetThroughMeans DEF Closed
  <2>2. allowed <= eng.limits.max_actions
    BY <1>3, <1>6, LetThroughMeans DEF SafetyInv, TypeOK
  <2>3. allowed' = allowed + 1
    BY <1>6 DEF Evaluate, Record
  <2>4. CASE ~Mutating(a)
    <3>1. passed' = passed
      BY <1>4, <2>4 DEF Evaluate, Record
    <3> QED
      BY <1>2, <2>1, <2>2, <2>3, <3>1 DEF Gate!Next, Gate!AdmitRead, Gate!Open
  <2>5. CASE Mutating(a)
    <3> DEFINE p == NormalForm[a]
    <3>1. passed' = [passed EXCEPT ![p] = @ + 1]
      BY <1>4, <1>6, <2>5 DEF Evaluate, Record
    <3>2. CountAttempt(a)[p] = retries[p] + 1
      BY <1>3, <2>5 DEF CountAttempt, TypeOK
    <3>3. retries[p] + 1 <= eng.limits.max_retries
      BY <1>3, <1>6, <2>5, <3>2, LetThroughMeans DEF TypeOK
    <3>4. p \notin Worn /\ passed[p] < eng.limits.max_retries
      BY <1>3, <3>3 DEF Worn, SafetyInv, TypeOK
    <3>5. Gate!Admit(p)
      BY <1>2, <2>1, <2>2, <2>3, <3>1, <3>4 DEF Gate!Admit, Gate!Open
    <3> QED
      BY <1>3, <3>5 DEF Gate!Next
  <2> QED
    BY <2>4, <2>5
<1> QED
  BY <1>5, <1>6

(* A stage reset is a new stage at the gate. *)
LEMMA ResetIsGateStep ==
  ASSUME SafetyInv, ResetStageCounters
  PROVE  Gate!NewStage
<1>1. /\ eng.limits.max_retries \in Nat
      /\ eng.limits.max_actions \in Nat
      /\ eng.limits.max_warnings \in Nat
  BY ConfigTypes DEF SafetyInv, TypeOK
<1>2. /\ eng' = eng
      /\ action_count' = action_count
      /\ allowed' = allowed
      /\ retries' = [p \in Pattern |-> 0]
      /\ passed' = [p \in Pattern |-> 0]
      /\ warnings_issued' = 0
  BY DEF ResetStageCounters
<1>3. Worn' = {}
  BY <1>1, <1>2 DEF Worn
<1>4. Closed' = Closed \ {"stage"}
  BY <1>1, <1>2 DEF Closed
<1> QED
  BY <1>2, <1>3, <1>4 DEF Gate!NewStage

(* Every step of the engine is a step of the gate or leaves it alone, so the
   engine keeps what ActionGate promises to its caller.                    *)
THEOREM EngineImplementsGate == Spec => ImplementsGate
<1>1. ASSUME SafetyInv, [Next]_engineVars
      PROVE  [Gate!Next]_(Gate!gateVars)
  <2>1. ASSUME NEW a \in Action, Evaluate(a)
        PROVE  Gate!Next
    BY <1>1, <2>1, EvaluateIsGateStep
  <2>2. ASSUME NEW f \in File, RecordFileModified(f)
        PROVE  UNCHANGED Gate!gateVars
    BY <2>2, GateUntouched DEF RecordFileModified
  <2>3. ASSUME NEW t \in Tool, RecordToolUsed(t)
        PROVE  UNCHANGED Gate!gateVars
    BY <2>3, GateUntouched DEF RecordToolUsed
  <2>4. ASSUME NEW n \in 1..MaxTokens, RecordTokens(n)
        PROVE  UNCHANGED Gate!gateVars
    BY <2>4, GateUntouched DEF RecordTokens
  <2>5. CASE RecordUndeclaredAssumption
    BY <2>5, GateUntouched DEF RecordUndeclaredAssumption
  <2>6. CASE ResetStageCounters
    BY <1>1, <2>6, ResetIsGateStep DEF Gate!Next
  <2>7. CASE UNCHANGED engineVars
    BY <2>7, GateUntouched DEF engineVars
  <2> QED
    BY <1>1, <2>1, <2>2, <2>3, <2>4, <2>5, <2>6, <2>7 DEF Next
<1> QED
  BY <1>1, InitGate, InitSafetyInv, SafetyStep, PTL
  DEF Spec, ImplementsGate, Gate!Spec
=============================================================================
