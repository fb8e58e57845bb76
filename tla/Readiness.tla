------------------------------ MODULE Readiness ------------------------------
(***************************************************************************)
(* The way from a situation to a readiness level: the failure scenarios    *)
(* the mode of the situation asks for, less those its context suppresses   *)
(* (runtime/viveka/scenarios.py), the options tested against them          *)
(* (StressTestResult), and what assess_readiness and                       *)
(* extract_failure_lessons (runtime/viveka/readiness.py) make of the       *)
(* results.  Descriptions, reasons, and the degradation, which only sorts  *)
(* and grades the lessons, are left out.                                   *)
(***************************************************************************)
EXTENDS RiskAssessment, FiniteSets, Sequences

CONSTANTS
  MaxOptions,  \* bound on the options tested
  Assessed     \* the situations in which options are tested, a bound

ASSUME ReadinessAssumption == MaxOptions \in Nat /\ Assessed \subseteq Situation

Core == {"tool_failure", "stale_context", "deceptive_completion", "hidden_dependency"}

(* DEFAULT_SCENARIOS *)
DefaultScenarios ==
  [permissive |-> {"tool_failure", "missing_data"},
   standard   |-> Core,
   guarded    |-> Core \union {"conflicting_instruction", "cascading_failure"},
   restricted |-> Core \union {"conflicting_instruction", "cascading_failure",
                               "irreversible_action", "permission_escalation"}]

OutOfScope == {"irreversible_action", "cascading_failure", "permission_escalation"}

(* Mutant: the condition on reversibility is the wrong way round. *)
Suppressing_Inverted(s) ==
  (IF s.environment = "development" /\ s.reversibility \in {"low", "irreversible"}
   THEN {OutOfScope} ELSE {})
    \union (IF s.intent = "exploration" THEN {OutOfScope \union {"stale_context"}} ELSE {})

(* SCENARIO_SUPPRESSION_RULES: what the rules that apply suppress. *)
Suppressing(s) ==
  (IF s.environment = "development" /\ s.reversibility \in {"high", "medium"}
   THEN {OutOfScope} ELSE {})
    \union (IF s.intent = "exploration" THEN {OutOfScope \union {"stale_context"}} ELSE {})

Left(S, s) == S \ UNION Suppressing(s)

(* filter_scenarios_for_context: what stays active, never nothing, *)
Filtered(S, s) == IF Left(S, s) = {} THEN {"tool_failure"} ELSE Left(S, s)

(* Mutant: only what empties the list is logged. *)
SuppressionLogged_Floor(S, s) == Left(S, s) = {}

(* and whether the suppression log has an entry. *)
SuppressionLogged(S, s) ==
  Left(S, s) = {} \/ \E r \in Suppressing(s) : r \intersect S # {}

(* get_applicable_scenarios, with environment and context. *)
Listed(s)     == DefaultScenarios[AssignRiskMode(s)]
Applicable(s) == Filtered(Listed(s), s)
Scoped(s)     == SuppressionLogged(Listed(s), s)

-----------------------------------------------------------------------------
VARIABLES
  s,        \* the situation being assessed
  results   \* StressTestResult of each option: the scenarios it was tested
            \* against, those it failed, and whether it says which option

readinessVars == <<s, results>>

Survived(r) == Cardinality(r.tested) - Cardinality(r.failed)

(* compute_resilience against a threshold in tenths; nothing to test is    *)
(* full resilience.                                                        *)
Resilient(r, tenths) ==
  r.tested = {} \/ 10 * Survived(r) >= tenths * Cardinality(r.tested)

Options == {results[i] : i \in DOMAIN results}

(* Mutant: every option has to be a survivor. *)
Level_All(scoped) ==
  IF results = <<>> THEN "blocked"
  ELSE IF \A r \in Options : Resilient(r, 6)
  THEN IF scoped THEN "bounded"
       ELSE IF \E r \in Options : Resilient(r, 8) THEN "ready" ELSE "caution"
  ELSE IF \A r \in Options : Survived(r) = 0 THEN "blocked" ELSE "not_ready"

(* assess_readiness with the default threshold. *)
Level(scoped) ==
  IF results = <<>> THEN "blocked"
  ELSE IF \E r \in Options : Resilient(r, 6)
  THEN IF scoped THEN "bounded"
       ELSE IF \E r \in Options : Resilient(r, 8) THEN "ready" ELSE "caution"
  ELSE IF \A r \in Options : Survived(r) = 0 THEN "blocked" ELSE "not_ready"

(* The results whose option is not None. *)
Named == {i \in DOMAIN results : results[i].named}

FailedBy(sc) == {i \in Named : sc \in results[i].failed}

(* Mutant: three options have to fail for a lesson. *)
Lessons_Three == {sc \in UNION {r.tested : r \in Options} : Cardinality(FailedBy(sc)) > 2}

(* extract_failure_lessons: a lesson per scenario that two options failed;
   a result without its option is skipped.                                 *)
Lessons == {sc \in UNION {r.tested : r \in Options} : Cardinality(FailedBy(sc)) >= 2}

(* One more option is tested against the scenarios that apply; naming it in
   the result is left to the caller, the field defaults to None.           *)
TestOption ==
  /\ Len(results) < MaxOptions
  /\ s \in Assessed
  /\ \E failed \in SUBSET Applicable(s), named \in BOOLEAN :
       results' = Append(results, [tested |-> Applicable(s), failed |-> failed,
                                   named |-> named])
  /\ UNCHANGED s

-----------------------------------------------------------------------------
LevelRank == [blocked |-> 0, not_ready |-> 1, caution |-> 2, bounded |-> 2, ready |-> 3]

(* MoreOptionsNeverLower: testing one more option, a good one or one that
   fails everything, never takes readiness away (assess_readiness).        *)
MoreOptionsNeverLower ==
  [][UNCHANGED s =>
       LevelRank[Level(Scoped(s))] <= LevelRank[Level(Scoped(s))']]_readinessVars

(* FailureTeaches: when three options or more were tested under their names
   and none of the results survived, some scenario failed two of the named,
   so that the verdict comes with a constraint to go on with.  For two it
   may not: they can fail halves of the scenarios that do not meet.  And
   results without their option teach nothing, however many fail.          *)
FailureTeaches ==
  Cardinality(Named) >= 3 /\ Level(Scoped(s)) \in {"not_ready", "blocked"} =>
    Lessons # {}

(* UnscopedMeansUnfiltered: a level without boundary statement is given
   only when every option was tested against all the scenarios its mode
   lists (the suppression log between scenarios.py and readiness.py).      *)
UnscopedMeansUnfiltered ==
  Level(Scoped(s)) \in {"ready", "caution"} => \A r \in Options : r.tested = Listed(s)
=============================================================================
