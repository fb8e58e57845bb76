----------------------------- MODULE MicroEngine -----------------------------
(***************************************************************************)
(* The micro-decision engine (runtime/viveka/micro.py): seven rules are    *)
(* evaluated on every action an agent proposes, the most severe result is  *)
(* the verdict, and counters kept in SessionState make later verdicts      *)
(* depend on earlier ones.                                                 *)
(*                                                                         *)
(* An action string is a member of Action.  What the code reads off the    *)
(* text is given by two functions: NormalForm, the key used for retry      *)
(* detection, and Trait, the keyword lists the text matches.  The list of  *)
(* decisions is kept as what the properties need of it: how often each     *)
(* pattern was let through in the current stage, how many decisions of the *)
(* session let an action through, and the decision returned last.          *)
(***************************************************************************)
EXTENDS Integers, FiniteSets

CONSTANTS
  Action,          \* action strings an agent may propose
  Pattern,         \* normal forms of action strings
  NormalForm,      \* [Action -> Pattern]
  Trait,           \* [Action -> SUBSET TraitName]
  File,            \* paths an agent may modify
  Tool,            \* tools an agent may use
  Configs,         \* the engine configurations the constructor is given
  MaxDecisions,    \* bound on evaluations in a behaviour
  MaxTokens,       \* bound on recorded tokens
  MaxAssumptions,  \* bound on undeclared assumptions
  MaxStages        \* bound on stages

RiskMode  == {"permissive", "standard", "guarded", "restricted"}
Verdict   == {"permit", "warn", "escalate", "block"}
TraitName == {"readOnly", "secret", "fileEdit", "destructive", "rewrite",
              "deploy", "gitPush"}
InvariantRule == {"invariant:budget", "invariant:deploy_permission",
                  "invariant:protected_branch", "invariant:blocked_path",
                  "invariant:blocked_tool"}
RuleName == InvariantRule \union
  {"", "protected:secrets", "behavior:retry_loop", "behavior:retry_warning",
   "behavior:scope_creep_files", "behavior:tool_thrashing",
   "destructive:blocked", "destructive:low_reversibility",
   "destructive:warning", "budget:exhausted", "budget:warning",
   "session:warning_accumulation", "session:action_limit",
   "session:undeclared_assumptions"}

Limits == [max_retries : Nat, max_files_modified : Nat, max_unique_tools : Nat,
           max_warnings : Nat, max_actions : Nat,
           max_undeclared_assumptions : Nat]

Budget == [set : BOOLEAN, max_tokens : Nat, used_tokens : Nat]

(* What the constructor receives: risk mode and limits, the environment    *)
(* invariants, the permissions granted, and whether the task context       *)
(* counts as reversible.                                                   *)
EngineConfig ==
  [mode : RiskMode, limits : Limits, production : BOOLEAN,
   protected : BOOLEAN, granted : SUBSET {"deploy", "git", "secrets"},
   blocked_paths : SUBSET Action, blocked_tools : SUBSET Action,
   budget : Budget, reversible : BOOLEAN]

ASSUME ActionsAssumption ==
  /\ NormalForm \in [Action -> Pattern]
  /\ Trait \in [Action -> SUBSET TraitName]
  \* the protected-branch keywords are all destructive patterns as well
  /\ \A a \in Action : "rewrite" \in Trait[a] => "destructive" \in Trait[a]

ASSUME BoundsAssumption ==
  /\ MaxDecisions \in Nat /\ MaxTokens \in Nat
  /\ MaxAssumptions \in Nat /\ MaxStages \in Nat

ASSUME ConfigAssumption == Configs \subseteq EngineConfig

VARIABLES
  eng,                     \* self.risk_mode, _limits, env, ctx
  action_count,            \* len(actions_taken)
  retries,                 \* attempts per pattern (0: not in the dict)
  files_modified,
  tools_used,
  token_spend,
  assumptions_undeclared,
  warnings_issued,
  blocks_issued,
  stage,                   \* stages begun, a history variable
  passed,                  \* decisions of this stage that let a pattern through
  allowed,                 \* decisions of the session that let an action through
  last                     \* the decision returned last

counters == <<action_count, retries, warnings_issued, blocks_issued>>
history  == <<stage, passed, allowed, last>>
recorded == <<files_modified, tools_used, token_spend, assumptions_undeclared>>
engineVars == <<eng, counters, recorded, history>>

-----------------------------------------------------------------------------
Result(v, r) == [verdict |-> v, rule |-> r]
Permit == Result("permit", "")
LetsThrough(v) == v \in {"permit", "warn"}
Mutating(a) == "readOnly" \notin Trait[a]

Spent(b)   == b.set /\ b.max_tokens <= b.used_tokens
RunLow(b)  == b.set /\ 5 * b.used_tokens >= 4 * b.max_tokens   \* warn_at = 0.8

(* Environment invariants an action violates, by rule tag. *)
Violations(a) ==
  {r \in InvariantRule :
     \/ r = "invariant:budget" /\ Spent(eng.budget)
     \/ /\ r = "invariant:deploy_permission"
        /\ eng.production
        /\ \/ "deploy" \in Trait[a] /\ "deploy" \notin eng.granted
           \/ "gitPush" \in Trait[a] /\ "git" \notin eng.granted
     \/ /\ r = "invariant:protected_branch"
        /\ eng.protected
        /\ "rewrite" \in Trait[a]
     \/ r = "invariant:blocked_path" /\ a \in eng.blocked_paths
     \/ r = "invariant:blocked_tool" /\ a \in eng.blocked_tools}

(* The violations are appended in this order; the first one is reported.   *)
ViolationOrder == <<"invariant:budget", "invariant:deploy_permission",
                    "invariant:protected_branch", "invariant:blocked_path",
                    "invariant:blocked_tool">>

FirstViolation(a) ==
  ViolationOrder[CHOOSE i \in DOMAIN ViolationOrder :
                   /\ ViolationOrder[i] \in Violations(a)
                   /\ \A j \in 1..(i-1) : ViolationOrder[j] \notin Violations(a)]

CheckInvariants(a) ==
  IF Violations(a) # {} THEN Result("block", FirstViolation(a)) ELSE Permit

CheckProtectedResources(a) ==
  IF "secret" \in Trait[a] /\ "secrets" \notin eng.granted
  THEN Result("warn", "protected:secrets") ELSE Permit

(* Mutant: a pattern that was blocked once starts over. *)
CountAttempt_StartOver(a) ==
  IF ~Mutating(a) THEN retries
  ELSE [retries EXCEPT ![NormalForm[a]] =
          IF @ > eng.limits.max_retries THEN 0 ELSE @ + 1]

(* retries after the attempt is counted: a read-only action is not.        *)
CountAttempt(a) ==
  IF Mutating(a) THEN [retries EXCEPT ![NormalForm[a]] = @ + 1] ELSE retries

(* Mutant: the limit is compared before the attempt is counted. *)
CheckRetryLoops_BeforeCounting(a) ==
  IF Mutating(a) /\ retries[NormalForm[a]] > eng.limits.max_retries
  THEN Result("block", "behavior:retry_loop") ELSE Permit

CheckRetryLoops(a) ==
  LET count == CountAttempt(a)[NormalForm[a]]
      max   == eng.limits.max_retries
  IN  IF ~Mutating(a) THEN Permit
      ELSE IF count > max THEN Result("block", "behavior:retry_loop")
      ELSE IF count > 1 /\ count > max \div 2
      THEN Result("warn", "behavior:retry_warning")
      ELSE Permit

CheckScopeDrift(a) ==
  IF /\ Cardinality(files_modified) > eng.limits.max_files_modified
     /\ "fileEdit" \in Trait[a]
  THEN Result("warn", "behavior:scope_creep_files")
  ELSE IF Cardinality(tools_used) > eng.limits.max_unique_tools
  THEN Result("warn", "behavior:tool_thrashing")
  ELSE Permit

CheckDestructiveActions(a) ==
  IF "destructive" \notin Trait[a] THEN Permit
  ELSE IF eng.mode \in {"guarded", "restricted"}
  THEN Result("block", "destructive:blocked")
  ELSE IF ~eng.reversible THEN Result("escalate", "destructive:low_reversibility")
  ELSE Result("warn", "destructive:warning")

CheckTokenBudget ==
  IF Spent(eng.budget) THEN Result("block", "budget:exhausted")
  ELSE IF RunLow(eng.budget) THEN Result("warn", "budget:warning")
  ELSE Permit

(* Mutant: too many warnings are answered by a warning. *)
CheckSessionHealth_WarnsOnly ==
  IF warnings_issued > eng.limits.max_warnings
  THEN Result("warn", "session:warning_accumulation") ELSE Permit

(* Mutant: the action limit is held against a counter of the stage. *)
CheckSessionHealth_StageCount ==
  IF warnings_issued > eng.limits.max_warnings
  THEN Result("escalate", "session:warning_accumulation")
  ELSE IF warnings_issued + blocks_issued > eng.limits.max_actions
  THEN Result("escalate", "session:action_limit") ELSE Permit

CheckSessionHealth ==
  IF warnings_issued > eng.limits.max_warnings
  THEN Result("escalate", "session:warning_accumulation")
  ELSE IF action_count > eng.limits.max_actions
  THEN Result("escalate", "session:action_limit")
  ELSE IF assumptions_undeclared > eng.limits.max_undeclared_assumptions
  THEN Result("warn", "session:undeclared_assumptions")
  ELSE Permit

(* The rule categories, in the order evaluate() runs them. *)
Check(i, a) ==
  CASE i = 1 -> CheckInvariants(a)
    [] i = 2 -> CheckProtectedResources(a)
    [] i = 3 -> CheckRetryLoops(a)
    [] i = 4 -> CheckScopeDrift(a)
    [] i = 5 -> CheckDestructiveActions(a)
    [] i = 6 -> CheckTokenBudget
    [] i = 7 -> CheckSessionHealth

Verdicts(a) == {Check(i, a).verdict : i \in 1..7}

Warned(a) == {Check(i, a).rule : i \in {j \in 1..7 : Check(j, a).verdict = "warn"}}

Severity == [permit |-> 0, warn |-> 1, escalate |-> 2, block |-> 3]

MostSevere(S) == CHOOSE v \in S : \A w \in S : Severity[w] <= Severity[v]

(* evaluate(): the first of the most severe results is returned.  Only     *)
(* when that result is a permit does the code go on to gather warnings, so *)
(* the other warnings of a warned action are not in its suggestions.       *)
Decide(a) ==
  LET v     == MostSevere(Verdicts(a))
      first == CHOOSE i \in 1..7 : /\ Check(i, a).verdict = v
                                   /\ \A j \in 1..(i-1) : Check(j, a).verdict # v
  IN  [action |-> a, verdict |-> v, rule |-> Check(first, a).rule,
       suggested |-> IF v = "permit" THEN Warned(a) ELSE {}]

(* Mutant: a permitted action takes a warning back. *)
Record_Decay(d) ==
  /\ action_count' = action_count + 1
  /\ warnings_issued' = warnings_issued + (IF d.verdict = "warn" THEN 1 ELSE -1)
  /\ last' = d
  /\ UNCHANGED <<blocks_issued, passed, allowed>>

(* SessionState.record *)
Record(d) ==
  /\ action_count' = action_count + 1
  /\ warnings_issued' = warnings_issued + (IF d.verdict = "warn" THEN 1 ELSE 0)
  /\ blocks_issued' = blocks_issued + (IF d.verdict = "block" THEN 1 ELSE 0)
  /\ passed' = IF LetsThrough(d.verdict) /\ Mutating(d.action)
               THEN [passed EXCEPT ![NormalForm[d.action]] = @ + 1] ELSE passed
  /\ allowed' = allowed + (IF LetsThrough(d.verdict) THEN 1 ELSE 0)
  /\ last' = d

-----------------------------------------------------------------------------
NoDecision == [action |-> CHOOSE a \in Action : TRUE, verdict |-> "permit",
               rule |-> "", suggested |-> {}]

(* A new SessionState() inside a new engine. *)
FreshSession ==
  /\ action_count = 0
  /\ retries = [p \in Pattern |-> 0]
  /\ files_modified = {}
  /\ tools_used = {}
  /\ token_spend = 0
  /\ assumptions_undeclared = 0
  /\ warnings_issued = 0
  /\ blocks_issued = 0
  /\ stage = 0
  /\ passed = [p \in Pattern |-> 0]
  /\ allowed = 0
  /\ last = NoDecision

Init == eng \in Configs /\ FreshSession

Evaluate(a) ==
  /\ action_count < MaxDecisions
  /\ retries' = CountAttempt(a)
  /\ Record(Decide(a))
  /\ UNCHANGED <<eng, recorded, stage>>

RecordFileModified(f) ==
  /\ files_modified' = files_modified \union {f}
  /\ UNCHANGED <<eng, counters, tools_used, token_spend,
                 assumptions_undeclared, history>>

RecordToolUsed(t) ==
  /\ tools_used' = tools_used \union {t}
  /\ UNCHANGED <<eng, counters, files_modified, token_spend,
                 assumptions_undeclared, history>>

(* The spend is added to the session; env.budget is not touched.           *)
RecordTokens(n) ==
  /\ token_spend + n <= MaxTokens
  /\ token_spend' = token_spend + n
  /\ UNCHANGED <<eng, counters, files_modified, tools_used,
                 assumptions_undeclared, history>>

RecordUndeclaredAssumption ==
  /\ assumptions_undeclared < MaxAssumptions
  /\ assumptions_undeclared' = assumptions_undeclared + 1
  /\ UNCHANGED <<eng, counters, files_modified, tools_used, token_spend,
                 history>>

(* Mutant: the reset between stages also forgets the session's actions. *)
ResetStageCounters_Session ==
  /\ stage < MaxStages
  /\ stage' = stage + 1
  /\ retries' = [p \in Pattern |-> 0]
  /\ warnings_issued' = 0
  /\ blocks_issued' = 0
  /\ passed' = [p \in Pattern |-> 0]
  /\ action_count' = 0
  /\ UNCHANGED <<eng, recorded, allowed, last>>

ResetStageCounters ==
  /\ stage < MaxStages
  /\ stage' = stage + 1
  /\ retries' = [p \in Pattern |-> 0]
  /\ warnings_issued' = 0
  /\ blocks_issued' = 0
  /\ passed' = [p \in Pattern |-> 0]
  /\ UNCHANGED <<eng, action_count, recorded, allowed, last>>

Next ==
  \/ \E a \in Action : Evaluate(a)
  \/ \E f \in File : RecordFileModified(f)
  \/ \E t \in Tool : RecordToolUsed(t)
  \/ \E n \in 1..MaxTokens : RecordTokens(n)
  \/ RecordUndeclaredAssumption
  \/ ResetStageCounters

Spec == Init /\ [][Next]_engineVars

-----------------------------------------------------------------------------
(* TypeOK: the counters of SessionState and of an engine stay in the ranges
   the rules of micro.py compare them in.                                  *)
TypeOK ==
  /\ eng \in EngineConfig
  /\ action_count \in Nat
  /\ retries \in [Pattern -> Nat]
  /\ files_modified \subseteq File
  /\ tools_used \subseteq Tool
  /\ token_spend \in Nat
  /\ assumptions_undeclared \in Nat
  /\ warnings_issued \in Nat
  /\ blocks_issued \in Nat
  /\ stage \in Nat
  /\ passed \in [Pattern -> Nat]
  /\ allowed \in Nat
  /\ last.verdict \in Verdict

(* RetryCap: however calls are ordered, no more than max_retries mutating
   actions of one normalized pattern are let through in a stage, although
   refused attempts count as well and other rules decide some attempts
   (_check_retry_loops, evaluate, reset_stage_counters).                   *)
RetryCap == \A p \in Pattern : passed[p] <= eng.limits.max_retries

(* WarnCap: an agent that ignores warnings is warned at most max_warnings + 1
   times in a stage; every later action is escalated or blocked
   (_check_session_health against record).                                 *)
WarnCap == warnings_issued <= eng.limits.max_warnings + 1

(* ActionCap: over the whole session, resets included, at most
   max_actions + 1 actions are let through: the health rule reads the
   counter before the action is recorded, hence the one more.              *)
ActionCap == allowed <= eng.limits.max_actions + 1

(* NeverMilder: within a stage each rule's answer on an action, were the
   action proposed now, only becomes more severe, and so does the verdict,
   the most severe of them; nothing but reset_stage_counters relaxes the
   engine.                                                                 *)
NeverMilder ==
  [][stage' = stage =>
       \A a \in Action : \A i \in 1..7 :
         Severity[Check(i, a).verdict] <= Severity[Check(i, a)'.verdict]]_engineVars

(* What the engine promises its caller, with the counters mapped to the
   reasons for which it is closed to every action.                         *)
Closed ==
  (IF warnings_issued > eng.limits.max_warnings THEN {"stage"} ELSE {})
    \union
  (IF action_count > eng.limits.max_actions THEN {"session"} ELSE {})

Worn == {p \in Pattern : retries[p] > eng.limits.max_retries}

Gate == INSTANCE ActionGate WITH
  cap <- eng.limits.max_retries, quota <- eng.limits.max_actions,
  passes <- passed, total <- allowed, closed <- Closed, worn <- Worn

(* ImplementsGate: every behaviour of the engine is one of the gate. *)
ImplementsGate == Gate!Spec

-----------------------------------------------------------------------------
(* The next says of the engine what its documents say, and fails.          *)

(* TokensExhaustBudget: docs/how-viveka-governs.md:81, a session with a
   budget is blocked once the tokens recorded have used it up.             *)
TokensExhaustBudget ==
  [][/\ action_count' # action_count
     /\ eng.budget.set
     /\ eng.budget.used_tokens + token_spend >= eng.budget.max_tokens
     => last'.verdict = "block"]_engineVars

=============================================================================
