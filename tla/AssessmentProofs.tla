--------------------------- MODULE AssessmentProofs ---------------------------
(***************************************************************************)
(* Proofs about the assessment of a situation: the risk mode it gets, the  *)
(* scenarios its options are tested against, and the readiness made of the *)
(* results, for any bound on the options tested and any choice of the      *)
(* situations they are tested in.                                          *)
(***************************************************************************)
EXTENDS MC_Assessment, FiniteSetTheorems, TLAPS

(* The inductive invariant: options are tested against the scenarios that
   apply, and fail some of those they are tested against.                  *)
Outcome == [tested : SUBSET UNION {DefaultScenarios[m] : m \in RiskMode},
            failed : SUBSET UNION {DefaultScenarios[m] : m \in RiskMode},
            named : BOOLEAN]

Tested ==
  /\ s \in Situation
  /\ results \in Seq(Outcome)
  /\ \A i \in DOMAIN results : results[i].tested = Applicable(s) /\ results[i].failed \subseteq Applicable(s)

-----------------------------------------------------------------------------
(* Every factor that makes a situation riskier adds to its score, so that two
   situations of which one is riskier have the same score only when they are
   the same.                                                               *)
LEMMA ScoreRises ==
  ASSUME NEW r \in Situation, NEW t \in Situation, Riskier(r, t)
  PROVE  /\ Score(r) \in Int /\ Score(t) \in Int
         /\ Score(r) <= Score(t)
         /\ Score(r) = Score(t) => r = t
<1> DEFINE A(x) == EnvironmentWeight[x.environment]
           B(x) == Flag(x.protected, 20)
           C(x) == Flag(x.budget_low, 10)
           D(x) == ReversibilityWeight[x.reversibility]
           E(x) == QualityWeight[x.quality]
           F(x) == IntentWeight[x.intent]
           G(x) == Flag(x.critical, 5)
<1>0. /\ {r.environment, t.environment} \subseteq {"development", "staging", "production"}
      /\ {r.protected, t.protected, r.budget_low, t.budget_low, r.critical, t.critical} \subseteq BOOLEAN
      /\ {r.reversibility, t.reversibility} \subseteq {"high", "medium", "low", "irreversible"}
      /\ {r.quality, t.quality} \subseteq {"prototype", "draft", "production", "critical"}
      /\ {r.intent, t.intent} \subseteq {"other", "exploration", "recovery"}
  BY DEF Situation
<1>1. /\ A(r) \in Int /\ A(t) \in Int /\ A(r) <= A(t)
      /\ A(r) = A(t) => r.environment = t.environment
  BY <1>0 DEF Riskier, EnvironmentRank, EnvironmentWeight
<1>2. /\ B(r) \in Int /\ B(t) \in Int /\ B(r) <= B(t)
      /\ B(r) = B(t) => r.protected = t.protected
  BY <1>0 DEF Riskier, Flag
<1>3. /\ C(r) \in Int /\ C(t) \in Int /\ C(r) <= C(t)
      /\ C(r) = C(t) => r.budget_low = t.budget_low
  BY <1>0 DEF Riskier, Flag
<1>4. /\ D(r) \in Int /\ D(t) \in Int /\ D(r) <= D(t)
      /\ D(r) = D(t) => r.reversibility = t.reversibility
  BY <1>0 DEF Riskier, ReversibilityRank, ReversibilityWeight
<1>5. /\ E(r) \in Int /\ E(t) \in Int /\ E(r) <= E(t)
      /\ E(r) = E(t) => r.quality = t.quality
  BY <1>0 DEF Riskier, QualityRank, QualityWeight
<1>6. /\ F(r) \in Int /\ F(t) \in Int /\ F(r) <= F(t)
      /\ F(r) = F(t) => r.intent = t.intent
  BY <1>0 DEF Riskier, IntentRank, IntentWeight
<1>7. /\ G(r) \in Int /\ G(t) \in Int /\ G(t) <= G(r)
      /\ G(r) = G(t) => r.critical = t.critical
  BY <1>0 DEF Riskier, Flag
<1>8. /\ Score(r) = A(r) + B(r) + C(r) + D(r) + E(r) + F(r) - G(r)
      /\ Score(t) = A(t) + B(t) + C(t) + D(t) + E(t) + F(t) - G(t)
  BY DEF Score
<1> HIDE DEF A, B, C, D, E, F, G
<1>9. Score(r) \in Int /\ Score(t) \in Int /\ Score(r) <= Score(t)
  BY <1>1, <1>2, <1>3, <1>4, <1>5, <1>6, <1>7, <1>8
<1>10. ASSUME Score(r) = Score(t) PROVE r = t
  <2>1. /\ A(r) = A(t) /\ B(r) = B(t) /\ C(r) = C(t) /\ D(r) = D(t)
        /\ E(r) = E(t) /\ F(r) = F(t) /\ G(r) = G(t)
    BY <1>1, <1>2, <1>3, <1>4, <1>5, <1>6, <1>7, <1>8, <1>10
  <2> QED
    BY <1>1, <1>2, <1>3, <1>4, <1>5, <1>6, <1>7, <2>1 DEF Situation
<1> QED
  BY <1>9, <1>10

(* The sum of doubles is never further from the exact one than the next score,
   so a riskier situation keeps its mode or gets a stricter one.           *)
LEMMA ModeRises ==
  ASSUME NEW r \in Situation, NEW t \in Situation, Riskier(r, t)
  PROVE  /\ AssignRiskMode(r) \in RiskMode /\ AssignRiskMode(t) \in RiskMode
         /\ ModeRank[AssignRiskMode(r)] <= ModeRank[AssignRiskMode(t)]
<1> DEFINE X(p) == IF FallsShort(p) THEN Score(p) - 1 ELSE Score(p)
<1>1. X(r) \in Int /\ X(t) \in Int /\ X(r) <= X(t)
  BY ScoreRises
<1> DEFINE M(x) == CASE x < 20 -> "permissive"
                     [] 20 <= x /\ x < 45 -> "standard"
                     [] 45 <= x /\ x < 70 -> "guarded"
                     [] 70 <= x -> "restricted"
<1>2. \A x \in Int : \/ x < 20 /\ M(x) = "permissive"
                     \/ 20 <= x /\ x < 45 /\ M(x) = "standard"
                     \/ 45 <= x /\ x < 70 /\ M(x) = "guarded"
                     \/ 70 <= x /\ M(x) = "restricted"
  OBVIOUS
<1>3. AssignRiskMode(r) = M(X(r)) /\ AssignRiskMode(t) = M(X(t))
  BY DEF AssignRiskMode
<1> HIDE DEF X, M
<1> QED
  BY <1>1, <1>2, <1>3 DEF RiskMode, ModeRank

(* Every situation is as risky as itself, so its mode is one. *)
LEMMA ModeIsMode == \A r \in Situation : AssignRiskMode(r) \in RiskMode
<1> SUFFICES ASSUME NEW r \in Situation PROVE AssignRiskMode(r) \in RiskMode
  OBVIOUS
<1>1. Riskier(r, r)
  BY DEF Riskier, Situation, EnvironmentRank, ReversibilityRank, QualityRank, IntentRank
<1> QED
  BY <1>1, ModeRises

-----------------------------------------------------------------------------
(* The lists of scenarios are finite, none is without tool_failure, which no
   context suppresses, and a stricter mode only adds to them, but for the
   missing data of the permissive one.                                     *)
LEMMA ListsGrow ==
  /\ \A m \in RiskMode : IsFiniteSet(DefaultScenarios[m]) /\ "tool_failure" \in DefaultScenarios[m]
  /\ \A m, n \in RiskMode : ModeRank[m] <= ModeRank[n] =>
       DefaultScenarios[m] \ {"missing_data"} \subseteq DefaultScenarios[n]
<1>1. IsFiniteSet(DefaultScenarios["restricted"] \cup {"missing_data"})
  <2>1. \A S, x : IsFiniteSet(S) => IsFiniteSet(S \cup {x})
    BY FS_AddElement
  <2>2. DefaultScenarios["restricted"] \cup {"missing_data"} =
          {} \cup {"tool_failure"} \cup {"stale_context"} \cup {"deceptive_completion"}
             \cup {"hidden_dependency"} \cup {"conflicting_instruction"} \cup {"cascading_failure"}
             \cup {"irreversible_action"} \cup {"permission_escalation"} \cup {"missing_data"}
    BY DEF DefaultScenarios, Core
  <2> QED
    BY <2>1, <2>2, FS_EmptySet
<1>2. ASSUME NEW m \in RiskMode
      PROVE  /\ DefaultScenarios[m] \subseteq DefaultScenarios["restricted"] \cup {"missing_data"}
             /\ "tool_failure" \in DefaultScenarios[m]
  BY DEF DefaultScenarios, RiskMode, Core
<1>3. ASSUME NEW m \in RiskMode, NEW n \in RiskMode, ModeRank[m] <= ModeRank[n]
      PROVE  DefaultScenarios[m] \ {"missing_data"} \subseteq DefaultScenarios[n]
  <2>1. /\ m = n \/ m = "permissive" \/ n = "restricted" \/ (m = "standard" /\ n = "guarded")
        /\ m = "permissive" \/ "missing_data" \notin DefaultScenarios[m]
    BY <1>3 DEF RiskMode, ModeRank, DefaultScenarios, Core
  <2>2. \A k \in RiskMode : /\ DefaultScenarios["permissive"] \ {"missing_data"} \subseteq DefaultScenarios[k]
                            /\ DefaultScenarios[k] \ {"missing_data"} \subseteq DefaultScenarios["restricted"]
    BY DEF RiskMode, DefaultScenarios, Core
  <2>3. DefaultScenarios["standard"] \subseteq DefaultScenarios["guarded"]
    BY DEF DefaultScenarios
  <2> QED
    BY <2>1, <2>2, <2>3
<1> QED
  BY <1>1, <1>2, <1>3, FS_Subset

(* So tool_failure is left whatever the context, and the floor of the filter is
   never needed for the default lists.                                     *)
LEMMA AlwaysTested ==
  ASSUME NEW r \in Situation
  PROVE  /\ IsFiniteSet(Applicable(r)) /\ Applicable(r) # {}
         /\ Applicable(r) = Listed(r) \ UNION Suppressing(r)
         /\ Applicable(r) \subseteq UNION {DefaultScenarios[m] : m \in RiskMode}
<1>1. AssignRiskMode(r) \in RiskMode
  BY ModeIsMode
<1>2. IsFiniteSet(Listed(r)) /\ "tool_failure" \in Listed(r)
      /\ Listed(r) \subseteq UNION {DefaultScenarios[m] : m \in RiskMode}
  BY <1>1, ListsGrow DEF Listed
<1>3. "tool_failure" \notin UNION Suppressing(r)
  BY DEF Suppressing, OutOfScope
<1>4. Left(Listed(r), r) = Listed(r) \ UNION Suppressing(r)
  BY DEF Left
<1>5. Applicable(r) = Listed(r) \ UNION Suppressing(r) /\ Applicable(r) # {}
  BY <1>2, <1>3, <1>4 DEF Applicable, Filtered
<1> QED
  BY <1>2, <1>5, FS_Subset

(* A riskier situation suppresses no more. *)
LEMMA SuppressesLess ==
  ASSUME NEW r \in Situation, NEW t \in Situation, Riskier(r, t)
  PROVE  Applicable(r) \ {"missing_data"} \subseteq Applicable(t)
<1>1. Suppressing(t) \subseteq Suppressing(r)
  <2>1. t.intent = "exploration" => r.intent = "exploration"
    BY DEF Riskier, IntentRank, Situation
  <2>2. t.environment = "development" => r.environment = "development"
    BY DEF Riskier, EnvironmentRank, Situation
  <2>3. t.reversibility \in {"high", "medium"} => r.reversibility \in {"high", "medium"}
    BY DEF Riskier, ReversibilityRank, Situation
  <2> QED
    BY <2>1, <2>2, <2>3 DEF Suppressing
<1>2. Listed(r) \ {"missing_data"} \subseteq Listed(t)
  BY ModeRises, ListsGrow DEF Listed
<1>3. /\ Applicable(r) = Listed(r) \ UNION Suppressing(r)
      /\ Applicable(t) = Listed(t) \ UNION Suppressing(t)
  BY AlwaysTested
<1> QED
  BY <1>1, <1>2, <1>3

(* Three sets of more than two fifths of a finite set do not fit into it without
   meeting.                                                                *)
LEMMA ThreeMeet ==
  ASSUME NEW T, IsFiniteSet(T), NEW A \in SUBSET T, NEW B \in SUBSET T, NEW C \in SUBSET T,
         5 * Cardinality(A) > 2 * Cardinality(T),
         5 * Cardinality(B) > 2 * Cardinality(T),
         5 * Cardinality(C) > 2 * Cardinality(T)
  PROVE  A \cap B # {} \/ A \cap C # {} \/ B \cap C # {}
<1> SUFFICES ASSUME A \cap B = {}, A \cap C = {}, B \cap C = {} PROVE FALSE
  OBVIOUS
<1>1. IsFiniteSet(A) /\ IsFiniteSet(B) /\ IsFiniteSet(C) /\ IsFiniteSet(A \cup B)
  BY FS_Subset
<1>2. /\ Cardinality(A) \in Nat /\ Cardinality(B) \in Nat /\ Cardinality(C) \in Nat
      /\ Cardinality(T) \in Nat /\ Cardinality(A \cup B) \in Nat
  BY <1>1, FS_CardinalityType
<1>a. Cardinality({}) = 0
  BY FS_EmptySet
<1>3. Cardinality(A \cup B) = Cardinality(A) + Cardinality(B)
  <2>1. Cardinality(A \cup B) = Cardinality(A) + Cardinality(B) - Cardinality(A \cap B)
    BY <1>1, FS_Union
  <2> QED
    BY <1>2, <1>a, <2>1
<1>4. PICK D : D = A \cup B
  OBVIOUS
<1>5. Cardinality(D \cup C) = Cardinality(D) + Cardinality(C)
  <2>1. Cardinality(D \cup C) = Cardinality(D) + Cardinality(C) - Cardinality(D \cap C)
    BY <1>1, <1>4, FS_Union
  <2>2. D \cap C = {} /\ Cardinality(D) \in Nat
    BY <1>2, <1>4
  <2>3. Cardinality(D \cap C) = 0
    BY <1>a, <2>2
  <2> QED
    BY <1>2, <2>1, <2>2, <2>3
<1>6. Cardinality(D \cup C) <= Cardinality(T)
  BY <1>4, FS_Subset
<1> QED
  BY <1>2, <1>3, <1>4, <1>5, <1>6

(* A set of three or more has three members. *)
LEMMA ThreeOf ==
  ASSUME NEW S, IsFiniteSet(S), Cardinality(S) >= 3
  PROVE  \E i, j, k \in S : i # j /\ i # k /\ j # k
<1>1. S # {} /\ Cardinality(S) \in Nat
  BY FS_EmptySet, FS_CardinalityType
<1>2. PICK i \in S : TRUE
  BY <1>1
<1>3. IsFiniteSet(S \ {i}) /\ Cardinality(S \ {i}) = Cardinality(S) - 1
  BY FS_RemoveElement
<1>4. PICK j \in S \ {i} : TRUE
  BY <1>1, <1>3, FS_EmptySet
<1>5. Cardinality((S \ {i}) \ {j}) = Cardinality(S \ {i}) - 1
  BY <1>3, FS_RemoveElement
<1>6. PICK k \in (S \ {i}) \ {j} : TRUE
  <2>1. Cardinality((S \ {i}) \ {j}) >= 1
    BY <1>1, <1>3, <1>5
  <2> QED
    BY <2>1, FS_EmptySet
<1> QED
  BY <1>2, <1>4, <1>6

-----------------------------------------------------------------------------
(* What a situation's options were tested against stays what applies to it:
   the situation changes only before the first test.                       *)
LEMMA TestedStep == Tested /\ [Next]_<<readinessVars, layerVars>> => Tested'
<1> SUFFICES ASSUME Tested, [Next]_<<readinessVars, layerVars>> PROVE Tested'
  OBVIOUS
<1>1. ASSUME UNCHANGED readinessVars PROVE Tested'
  <2>1. s' = s /\ results' = results
    BY <1>1 DEF readinessVars
  <2>2. Applicable(s)' = Applicable(s)
    BY <2>1
  <2> QED
    BY <2>1, <2>2 DEF Tested
<1>2. ASSUME NEW f \in Factor, Reassess(f) PROVE Tested'
  <2>1. s' \in Situation /\ results' = <<>>
    BY <1>2 DEF Reassess
  <2>2. <<>> \in Seq(Outcome) /\ DOMAIN <<>> = {}
    OBVIOUS
  <2> QED
    BY <2>1, <2>2 DEF Tested
<1>3. CASE TestOption
  <2>1. PICK F \in SUBSET Applicable(s), b \in BOOLEAN :
          results' = Append(results, [tested |-> Applicable(s), failed |-> F, named |-> b])
    BY <1>3 DEF TestOption
  <2> DEFINE o == [tested |-> Applicable(s), failed |-> F, named |-> b]
  <2>2. s' = s
    BY <1>3 DEF TestOption
  <2>3. Applicable(s)' = Applicable(s)
    BY <2>2
  <2>4. o \in Outcome /\ o.tested = Applicable(s) /\ o.failed \subseteq Applicable(s)
    BY AlwaysTested DEF Tested, Outcome
  <2> HIDE DEF o
  <2>5. results \in Seq(Outcome) /\ results' = Append(results, o)
    BY <2>1 DEF Tested, o
  <2>6. /\ results' \in Seq(Outcome)
        /\ \A i \in DOMAIN results' : results'[i] = o \/ (i \in DOMAIN results /\ results'[i] = results[i])
    BY <2>4, <2>5
  <2> QED
    BY <2>2, <2>3, <2>4, <2>6 DEF Tested
<1> QED
  BY <1>1, <1>2, <1>3 DEF Next

(* It holds from the start, where nothing has been tested. *)
LEMMA TestedHolds == Spec => []Tested
<1>1. Init => Tested
  <2>1. <<>> \in Seq(Outcome) /\ DOMAIN <<>> = {}
    OBVIOUS
  <2> QED
    BY <2>1 DEF Init, Tested
<1> QED
  BY <1>1, TestedStep, PTL DEF Spec

(* What the invariant says of an option. *)
LEMMA OptionTested ==
  ASSUME Tested, NEW r \in Options
  PROVE  /\ r.tested = Applicable(s) /\ r.failed \subseteq Applicable(s)
         /\ IsFiniteSet(r.tested) /\ r.tested # {}
         /\ Cardinality(r.tested) \in Nat \ {0} /\ Cardinality(r.failed) \in Nat
         /\ Survived(r) \in Int
<1>1. r.tested = Applicable(s) /\ r.failed \subseteq Applicable(s)
  BY DEF Tested, Options
<1>2. IsFiniteSet(Applicable(s)) /\ Applicable(s) # {}
  BY AlwaysTested DEF Tested
<1>3. IsFiniteSet(r.tested) /\ IsFiniteSet(r.failed)
  BY <1>1, <1>2, FS_Subset
<1>4. Cardinality(r.tested) \in Nat /\ Cardinality(r.failed) \in Nat
  BY <1>3, FS_CardinalityType
<1>5. Cardinality(r.tested) # 0
  BY <1>1, <1>2, FS_EmptySet
<1> QED
  BY <1>1, <1>2, <1>3, <1>4, <1>5 DEF Survived

-----------------------------------------------------------------------------
(* No combination of the factors that lower the score, exploration and urgency,
   brings irreversible production work below the guarded mode
   (assign_risk_mode).                                                     *)
THEOREM ProductionIsGuarded == Spec => []IrreversibleProductionGuarded
<1>1. Tested => IrreversibleProductionGuarded
  <2> SUFFICES ASSUME s \in Situation, s.environment = "production", s.reversibility = "irreversible"
               PROVE  ModeRank[AssignRiskMode(s)] >= ModeRank["guarded"]
    BY DEF Tested, IrreversibleProductionGuarded
  <2>1. /\ EnvironmentWeight[s.environment] = 40 /\ ReversibilityWeight[s.reversibility] = 40
        /\ QualityWeight[s.quality] \in 0..30
        /\ IntentWeight[s.intent] \in -15..10
        /\ Flag(s.protected, 20) \in 0..20 /\ Flag(s.budget_low, 10) \in 0..10 /\ Flag(s.critical, 5) \in 0..5
    BY DEF Situation, EnvironmentWeight, ReversibilityWeight, QualityWeight, IntentWeight, Flag
  <2>2. Score(s) \in Int /\ Score(s) >= 60
    BY <2>1, SMTT(20) DEF Score
  <2>3. AssignRiskMode(s) \in {"guarded", "restricted"}
    BY <2>2 DEF AssignRiskMode
  <2> QED
    BY <2>3 DEF ModeRank
<1> QED
  BY <1>1, TestedHolds, PTL

(* A level without boundary statement is given only when every option was tested
   against all the scenarios its mode lists (the suppression log between
   scenarios.py and readiness.py).                                         *)
THEOREM NoStatementNoSuppression == Spec => []UnscopedMeansUnfiltered
<1>1. Tested => UnscopedMeansUnfiltered
  <2> SUFFICES ASSUME Tested, Level(Scoped(s)) \in {"ready", "caution"}, NEW r \in Options
               PROVE  r.tested = Listed(s)
    BY DEF UnscopedMeansUnfiltered
  <2>1. ~Scoped(s)
    BY DEF Level
  <2>2. \A S \in Suppressing(s) : S \cap Listed(s) = {}
    BY <2>1 DEF Scoped, SuppressionLogged
  <2>3. Applicable(s) = Listed(s) \ UNION Suppressing(s)
    BY AlwaysTested DEF Tested
  <2> QED
    BY <2>2, <2>3, OptionTested
<1> QED
  BY <1>1, TestedHolds, PTL

(* When three options or more were tested under their names and none of the
   results survived, some scenario failed two of the named ones, so that the
   verdict comes with a constraint to go on with (assess_readiness and
   extract_failure_lessons, which skips a result without its option).      *)
THEOREM FailureAlwaysTeaches == Spec => []FailureTeaches
<1>1. Tested => FailureTeaches
  <2> SUFFICES ASSUME Tested, Cardinality(Named) >= 3,
                      Level(Scoped(s)) \in {"not_ready", "blocked"}
               PROVE  Lessons # {}
    BY DEF FailureTeaches
  <2>1. IsFiniteSet(Named) /\ Named \subseteq DOMAIN results /\ results \in Seq(Outcome)
    <3>1. DOMAIN results = 1..Len(results) /\ Len(results) \in Nat
      BY DEF Tested
    <3>2. IsFiniteSet(1..Len(results))
      BY <3>1, FS_Interval
    <3> QED
      BY <3>1, <3>2, FS_Subset DEF Named, Tested
  <2>2. PICK i, j, k \in Named : i # j /\ i # k /\ j # k
    BY <2>1, ThreeOf
  <2>3. \A r \in Options : ~Resilient(r, 6)
    BY <2>1, <2>2 DEF Level
  <2> DEFINE T == Applicable(s)
             F(n) == results[n].failed
  <2>4. ASSUME NEW n \in DOMAIN results
        PROVE  F(n) \subseteq T /\ results[n].tested = T /\ 5 * Cardinality(F(n)) > 2 * Cardinality(T)
    <3>1. results[n] \in Options
      BY DEF Options
    <3>2. 10 * Survived(results[n]) < 6 * Cardinality(results[n].tested)
      BY <2>3, <3>1, OptionTested DEF Resilient
    <3> QED
      BY <3>1, <3>2, OptionTested DEF Survived
  <2>5. IsFiniteSet(T)
    BY AlwaysTested DEF Tested
  <2>6. PICK m, n \in {i, j, k} : m # n /\ F(m) \cap F(n) # {}
    <3>1. {i, j, k} \subseteq DOMAIN results
      BY <2>1
    <3> HIDE DEF F, T
    <3>2. F(i) \cap F(j) # {} \/ F(i) \cap F(k) # {} \/ F(j) \cap F(k) # {}
      BY <2>4, <2>5, <3>1, ThreeMeet
    <3> QED
      BY <2>2, <3>2
  <2>7. PICK sc : sc \in F(m) /\ sc \in F(n)
    BY <2>6
  <2>8. {m, n} \subseteq FailedBy(sc)
    BY <2>6, <2>7 DEF FailedBy
  <2>9. Cardinality(FailedBy(sc)) >= 2
    <3>1. IsFiniteSet(FailedBy(sc))
      BY <2>1, FS_Subset DEF FailedBy
    <3>2. Cardinality({m, n}) = 2
      <4>1. IsFiniteSet({m}) /\ Cardinality({m}) = 1
        BY FS_Singleton
      <4>2. Cardinality({m} \cup {n}) = Cardinality({m}) + 1
        BY <2>6, <4>1, FS_AddElement
      <4>3. {m, n} = {m} \cup {n}
        OBVIOUS
      <4> QED
        BY <4>1, <4>2, <4>3
    <3>3. Cardinality({m, n}) <= Cardinality(FailedBy(sc)) /\ Cardinality(FailedBy(sc)) \in Nat
      BY <2>8, <3>1, FS_Subset, FS_CardinalityType
    <3> QED
      BY <3>2, <3>3
  <2>10. sc \in UNION {r.tested : r \in Options}
    <3>1. m \in DOMAIN results /\ sc \in results[m].tested
      BY <2>1, <2>4, <2>6, <2>7
    <3> QED
      BY <3>1 DEF Options
  <2> QED
    BY <2>9, <2>10 DEF Lessons
<1> QED
  BY <1>1, TestedHolds, PTL

(* The mode a situation gets is never relaxed by a change that makes it riskier,
   the rounding of the doubles included (assign_risk_mode).                *)
THEOREM RiskierIsNeverRelaxed == Spec => RiskNeverLowersMode
<1>1. Tested /\ Tested' /\ [Next]_<<readinessVars, layerVars>>
        => [Riskier(s, s') => ModeRank[AssignRiskMode(s)] <= ModeRank[AssignRiskMode(s')]]_s
  BY ModeRises DEF Tested
<1> QED
  BY <1>1, TestedHolds, PTL DEF Spec, RiskNeverLowersMode

(* Nor does it take a scenario off the list the options are tested against, but
   for the missing data of the permissive mode (DEFAULT_SCENARIOS,
   SCENARIO_SUPPRESSION_RULES).                                            *)
THEOREM RiskierIsTestedAsWidely == Spec => RiskNeverNarrowsTesting
<1>1. Tested /\ Tested' /\ [Next]_<<readinessVars, layerVars>>
        => [Riskier(s, s') => Applicable(s) \ {"missing_data"} \subseteq Applicable(s')]_s
  BY SuppressesLess DEF Tested
<1> QED
  BY <1>1, TestedHolds, PTL DEF Spec, RiskNeverNarrowsTesting

(* Testing one more option, a good one or one that fails everything, never takes
   readiness away (assess_readiness).                                      *)
THEOREM AnotherOptionNeverLowers == Spec => MoreOptionsNeverLower
<1>1. ASSUME Tested, Next, s' = s
      PROVE  LevelRank[Level(Scoped(s))] <= LevelRank[Level(Scoped(s))']
  <2>1. Scoped(s)' = Scoped(s)
    BY <1>1
  <2>2. results' = results \/ TestOption
    BY <1>1 DEF Next, Reassess, readinessVars
  <2>3. ASSUME results' = results PROVE Level(Scoped(s))' = Level(Scoped(s))
    BY <2>1, <2>3 DEF Level, Options
  <2>4. /\ Level(Scoped(s)) \in {"blocked", "not_ready", "caution", "bounded", "ready"}
        /\ Level(Scoped(s))' \in {"blocked", "not_ready", "caution", "bounded", "ready"}
    BY DEF Level
  <2>5. ASSUME TestOption
        PROVE  LevelRank[Level(Scoped(s))] <= LevelRank[Level(Scoped(s))']
    <3>1. PICK o : results' = Append(results, o)
      BY <2>5 DEF TestOption
    <3>2. results' # <<>> /\ Options \subseteq Options'
      <4>1. results \in Seq(Outcome)
        BY <1>1 DEF Tested
      <4>2. /\ DOMAIN results \subseteq DOMAIN results'
            /\ \A i \in DOMAIN results : results'[i] = results[i]
            /\ DOMAIN results' # {}
        BY <3>1, <4>1
      <4> QED
        BY <4>2 DEF Options
    <3>3. CASE results = <<>>
      BY <2>4, <3>3 DEF Level, LevelRank
    <3>4. CASE results # <<>>
      <4>1. \A n : (\E r \in Options : Resilient(r, n)) => \E r \in Options' : Resilient(r, n)
        BY <3>2
      <4>2. (\A r \in Options' : Survived(r) = 0) => \A r \in Options : Survived(r) = 0
        BY <3>2
      <4> QED
        BY <2>1, <2>4, <3>2, <3>4, <4>1, <4>2 DEF Level, LevelRank
    <3> QED
      BY <3>3, <3>4
  <2> QED
    BY <2>2, <2>3, <2>4, <2>5 DEF LevelRank
<1>2. Tested /\ [Next]_<<readinessVars, layerVars>>
        => [UNCHANGED s => LevelRank[Level(Scoped(s))] <= LevelRank[Level(Scoped(s))']]_readinessVars
  BY <1>1 DEF readinessVars
<1> QED
  BY <1>2, TestedHolds, PTL DEF Spec, MoreOptionsNeverLower

=============================================================================
