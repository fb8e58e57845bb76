---------------------------- MODULE MC_Assessment ----------------------------
(* Every situation there is, and every change of one factor of it; in four
   of them, whose lists of scenarios differ in length, up to three options
   with every outcome of their tests; and, from one situation, since merging
   reads none, every way to layer three of the built-in packs, three packs
   of a user and an unknown name.                                          *)
EXTENDS Policies, Readiness

Factor == {"environment", "protected", "budget_low", "reversibility",
           "quality", "intent", "critical"}

Calm == DaemonSituation(FALSE, "other")
Spike == DaemonSituation(FALSE, "exploration")
MCAssessed ==
  { Calm, Spike,
    [Spike EXCEPT !.protected = TRUE],
    [Calm EXCEPT !.protected = TRUE, !.quality = "critical"] }

Init == s \in Situation /\ LayerInit /\ results = <<>>

(* One factor of the situation changes. *)
Reassess(f) ==
  /\ calls = 0 /\ results = <<>>
  /\ \E t \in Situation :
       /\ \A g \in Factor \ {f} : t[g] = s[g]
       /\ s' = t
  /\ UNCHANGED <<layerVars, results>>

Next ==
  \/ \E f \in Factor : Reassess(f)
  \/ s = Calm /\ results = <<>> /\ LayerNext /\ UNCHANGED readinessVars
  \/ calls = 0 /\ TestOption /\ UNCHANGED layerVars
Spec == Init /\ [][Next]_<<readinessVars, layerVars>>

(* The shapes a user's pack may have: nothing but a limit, a mode with a
   limit looser than the mode's, and one that takes a built-in name.       *)
MCUserPacks ==
  [loose      |-> [Limited(5, NoLimit, 0) EXCEPT !.risk_mode = "guarded",
                     !.urgency = "low", !.blocked_paths = {"infra"}],
   slow       |-> [Plain EXCEPT !.max_actions = 40, !.reversibility = "irreversible",
                     !.environment = "staging", !.intent = "recovery"],
   cleanup    |-> [Limited(0, 0, 0) EXCEPT !.risk_mode = "restricted"]]
NoUserPacks == [n \in {} |-> Plain]

Table(r, f, n) == [max_retries |-> r, max_files_modified |-> f, max_actions |-> n]
MCModeLimits ==
  [permissive |-> Table(5, 30, 200), standard |-> Table(3, 15, 100),
   guarded |-> Table(2, 8, 50), restricted |-> Table(1, 3, 20)]

EnvironmentRank   == [development |-> 0, staging |-> 1, production |-> 2]
ReversibilityRank == [high |-> 0, medium |-> 1, low |-> 2, irreversible |-> 3]
QualityRank       == [prototype |-> 0, draft |-> 1, production |-> 2, critical |-> 3]
IntentRank        == [exploration |-> 0, other |-> 1, recovery |-> 2]

(* t is no less risky than r in any factor. *)
Riskier(r, t) ==
  /\ EnvironmentRank[r.environment] <= EnvironmentRank[t.environment]
  /\ r.protected => t.protected
  /\ r.budget_low => t.budget_low
  /\ ReversibilityRank[r.reversibility] <= ReversibilityRank[t.reversibility]
  /\ QualityRank[r.quality] <= QualityRank[t.quality]
  /\ IntentRank[r.intent] <= IntentRank[t.intent]
  /\ t.critical => r.critical

(* RiskNeverLowersMode: making a situation riskier never relaxes the mode
   assign_risk_mode gives it, the rounding of doubles included.            *)
RiskNeverLowersMode ==
  [][Riskier(s, s') =>
       ModeRank[AssignRiskMode(s)] <= ModeRank[AssignRiskMode(s')]]_s

(* IrreversibleProductionGuarded: no combination of the factors that lower
   the score brings irreversible production work below the guarded mode.   *)
IrreversibleProductionGuarded ==
  s.environment = "production" /\ s.reversibility = "irreversible" =>
    ModeRank[AssignRiskMode(s)] >= ModeRank["guarded"]

(* RiskNeverNarrowsTesting: making a situation riskier may raise its mode,
   which lists more, and end a suppression; it never takes a scenario off
   the list options are tested against, but for the missing data only the
   permissive mode lists (DEFAULT_SCENARIOS, SCENARIO_SUPPRESSION_RULES).  *)
RiskNeverNarrowsTesting ==
  [][Riskier(s, s') =>
       Applicable(s) \ {"missing_data"} \subseteq Applicable(s')]_s

=============================================================================
