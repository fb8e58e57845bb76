---------------------------- MODULE RiskAssessment ----------------------------
(***************************************************************************)
(* assign_risk_mode (runtime/viveka/layers/assessor.py): a weighted sum    *)
(* over a situation decides the enforcement mode.  Weights are in          *)
(* hundredths; the code adds doubles, and for nine situations the sum of   *)
(* doubles falls just short of the threshold that the exact sum reaches.   *)
(***************************************************************************)
EXTENDS Integers

RiskMode == {"permissive", "standard", "guarded", "restricted"}

(* The intents that carry no weight are one: "other". *)
Situation ==
  [environment : {"development", "staging", "production"},
   protected : BOOLEAN,                        \* git_state is_protected_branch
   budget_low : BOOLEAN,                       \* fraction_used > 0.8
   reversibility : {"high", "medium", "low", "irreversible"},
   quality : {"prototype", "draft", "production", "critical"},
   intent : {"other", "exploration", "recovery"},
   critical : BOOLEAN]                         \* urgency is critical

EnvironmentWeight   == [development |-> 0, staging |-> 20, production |-> 40]

(* Mutant: low and medium reversibility exchanged. *)
ReversibilityWeight_Swapped ==
  [high |-> 0, medium |-> 25, low |-> 10, irreversible |-> 40]

ReversibilityWeight == [high |-> 0, medium |-> 10, low |-> 25, irreversible |-> 40]
QualityWeight       == [prototype |-> 0, draft |-> 5, production |-> 20, critical |-> 30]
IntentWeight        == [other |-> 0, exploration |-> -15, recovery |-> 10]
Flag(b, w)          == IF b THEN w ELSE 0

Score(s) ==
  EnvironmentWeight[s.environment] + Flag(s.protected, 20)
    + Flag(s.budget_low, 10) + ReversibilityWeight[s.reversibility]
    + QualityWeight[s.quality] + IntentWeight[s.intent] - Flag(s.critical, 5)

(* The situations whose doubles add up to less than the exact sum, by
   environment, protected, reversibility, quality, intent, critical; all of
   them have a low budget.                                                 *)
RoundedDown ==
  { <<"development", FALSE, "low",    "prototype", "exploration", FALSE>>,
    <<"development", FALSE, "low",    "prototype", "recovery",    FALSE>>,
    <<"development", FALSE, "low",    "draft",     "exploration", TRUE>>,
    <<"development", FALSE, "low",    "critical",  "exploration", TRUE>>,
    <<"development", FALSE, "low",    "critical",  "recovery",    TRUE>>,
    <<"staging",     TRUE,  "medium", "prototype", "exploration", FALSE>>,
    <<"staging",     TRUE,  "medium", "critical",  "exploration", TRUE>>,
    <<"production",  FALSE, "medium", "prototype", "exploration", FALSE>>,
    <<"production",  FALSE, "medium", "critical",  "exploration", TRUE>> }

FallsShort(s) ==
  /\ s.budget_low
  /\ <<s.environment, s.protected, s.reversibility, s.quality, s.intent,
       s.critical>> \in RoundedDown

(* Mutant: the guarded mode starts later. *)
AssignRiskMode_Lenient(s) ==
  CASE Score(s) < 20                    -> "permissive"
    [] 20 <= Score(s) /\ Score(s) < 65  -> "standard"
    [] 65 <= Score(s) /\ Score(s) < 70  -> "guarded"
    [] 70 <= Score(s)                   -> "restricted"

(* Clamping to 0..100 does not move a score across a threshold. *)
AssignRiskMode(s) ==
  LET x == IF FallsShort(s) THEN Score(s) - 1 ELSE Score(s)
  IN  CASE x < 20             -> "permissive"
        [] 20 <= x /\ x < 45  -> "standard"
        [] 45 <= x /\ x < 70  -> "guarded"
        [] 70 <= x            -> "restricted"

ModeRank == [permissive |-> 0, standard |-> 1, guarded |-> 2, restricted |-> 3]

(* What the daemon passes: development, no budget, high reversibility,
   production quality, medium urgency.                                     *)
DaemonSituation(protected, intent) ==
  [environment |-> "development", protected |-> protected,
   budget_low |-> FALSE, reversibility |-> "high", quality |-> "production",
   intent |-> intent, critical |-> FALSE]
=============================================================================
