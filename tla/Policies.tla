------------------------------- MODULE Policies -------------------------------
(***************************************************************************)
(* Policy packs (runtime/viveka/policies.py): the built-in packs, the      *)
(* lookup by name and the layering of several packs into one.  A list of   *)
(* constraints, paths or tools is the set of its members; names and        *)
(* descriptions are left out.                                              *)
(***************************************************************************)
EXTENDS RiskAssessment, FiniteSets

CONSTANTS
  UserPacks,   \* packs of ~/.viveka/policies, by name
  Unknown,     \* names nobody defined
  Text,        \* constraints, paths and tools a user's pack may hold
  ModeLimits,  \* micro._LIMITS, the limits a pack can override
  MaxLayers    \* bound on the packs of one call

Unset == "unset"    \* an enumeration a pack does not set
NoLimit == -1       \* a limit a pack does not set

EnvSeverity           == [development |-> 0, staging |-> 1, production |-> 2]
UrgencySeverity       == [low |-> 0, medium |-> 1, high |-> 2, critical |-> 3]
ReversibilitySeverity == [high |-> 0, medium |-> 1, low |-> 2, irreversible |-> 3]
PackIntent == {"fix", "improvement", "feature", "exploration", "maintenance", "recovery"}

Limit == Nat \union {NoLimit}
BuiltinText ==
  {"keep it working", "keep the radius", "deploy alone", "roll back at once",
   "same behavior", "tests pass", "no references", "no reflection", "back up",
   "validate", "rollback script", "window", "contain first", "no speculation",
   "log all", "escalate early", "DROP", "TRUNCATE"}
AnyText == Text \union BuiltinText

PolicyPack ==
  [environment : DOMAIN EnvSeverity \union {Unset},
   risk_mode : RiskMode \union {Unset},
   intent : PackIntent \union {Unset},
   urgency : DOMAIN UrgencySeverity \union {Unset},
   reversibility : DOMAIN ReversibilitySeverity \union {Unset},
   max_retries : Limit, max_files_modified : Limit, max_actions : Limit,
   constraints : SUBSET AnyText,
   blocked_paths : SUBSET AnyText, blocked_tools : SUBSET AnyText,
   human : BOOLEAN, backup : BOOLEAN, tests : BOOLEAN]   \* require_*

(* The defaults of the data class. *)
Plain ==
  [environment |-> Unset, risk_mode |-> Unset, intent |-> Unset,
   urgency |-> Unset, reversibility |-> Unset,
   max_retries |-> NoLimit, max_files_modified |-> NoLimit, max_actions |-> NoLimit,
   constraints |-> {}, blocked_paths |-> {}, blocked_tools |-> {},
   human |-> FALSE, backup |-> FALSE, tests |-> FALSE]

Limited(r, f, n) ==
  [Plain EXCEPT !.max_retries = r, !.max_files_modified = f, !.max_actions = n]

BuiltinPacks ==
  [production_hotfix |->
     [Limited(1, 3, 20) EXCEPT
        !.environment = "production", !.risk_mode = "restricted", !.intent = "fix",
        !.urgency = "critical", !.reversibility = "low", !.human = TRUE,
        !.constraints = {"keep it working", "keep the radius", "deploy alone",
                         "roll back at once"}],
   refactor_safe |->
     [Limited(NoLimit, 15, NoLimit) EXCEPT
        !.environment = "development", !.risk_mode = "standard",
        !.intent = "improvement", !.reversibility = "high", !.tests = TRUE,
        !.constraints = {"same behavior", "tests pass"}],
   cleanup |->
     [Plain EXCEPT
        !.environment = "development", !.risk_mode = "standard",
        !.intent = "maintenance", !.reversibility = "high",
        !.constraints = {"no references", "no reflection"}],
   data_migration |->
     [Limited(1, NoLimit, NoLimit) EXCEPT
        !.risk_mode = "guarded", !.reversibility = "low", !.backup = TRUE,
        !.human = TRUE, !.blocked_tools = {"DROP", "TRUNCATE"},
        !.constraints = {"back up", "validate", "rollback script", "window"}],
   incident_response |->
     [Limited(1, 2, 10) EXCEPT
        !.environment = "production", !.risk_mode = "restricted",
        !.urgency = "critical", !.reversibility = "low", !.human = TRUE,
        !.constraints = {"contain first", "no speculation", "log all",
                         "escalate early"}]]

EnforcedLimit == {"max_retries", "max_files_modified", "max_actions"}

ASSUME PoliciesAssumption ==
  /\ \A n \in DOMAIN UserPacks : UserPacks[n] \in PolicyPack
  /\ Unknown \intersect (DOMAIN UserPacks \union DOMAIN BuiltinPacks) = {}
  /\ ModeLimits \in [RiskMode -> [EnforcedLimit -> Nat]]
  /\ MaxLayers \in Nat

PackName == DOMAIN BuiltinPacks \union DOMAIN UserPacks \union Unknown

(* get_policy: a built-in pack hides a user's pack of its name.            *)
GetPolicy(n) == IF n \in DOMAIN BuiltinPacks THEN BuiltinPacks[n] ELSE UserPacks[n]

-----------------------------------------------------------------------------
(* Mutant: the later pack takes precedence. *)
Stricter_Later(severity, a, b) == IF b = Unset THEN a ELSE b

(* _stricter_env, _stricter_risk, _stricter_urgency, _lower_reversibility  *)
Stricter(severity, a, b) ==
  IF a = Unset THEN b
  ELSE IF b = Unset THEN a
  ELSE IF severity[a] >= severity[b] THEN a ELSE b

MinOr(a, b) ==
  IF a = NoLimit THEN b
  ELSE IF b = NoLimit THEN a
  ELSE IF a <= b THEN a ELSE b

(* Every field takes the stricter value, None giving way; only the intent is
   the other's whenever the other sets one.                                *)
Merge(p, q) ==
  [environment   |-> Stricter(EnvSeverity, p.environment, q.environment),
   risk_mode     |-> Stricter(ModeRank, p.risk_mode, q.risk_mode),
   intent        |-> IF q.intent = Unset THEN p.intent ELSE q.intent,
   urgency       |-> Stricter(UrgencySeverity, p.urgency, q.urgency),
   reversibility |-> Stricter(ReversibilitySeverity, p.reversibility, q.reversibility),
   max_retries        |-> MinOr(p.max_retries, q.max_retries),
   max_files_modified |-> MinOr(p.max_files_modified, q.max_files_modified),
   max_actions        |-> MinOr(p.max_actions, q.max_actions),
   constraints   |-> p.constraints \union q.constraints,
   blocked_paths |-> p.blocked_paths \union q.blocked_paths,
   blocked_tools |-> p.blocked_tools \union q.blocked_tools,
   human  |-> p.human \/ q.human,
   backup |-> p.backup \/ q.backup,
   tests  |-> p.tests \/ q.tests]

-----------------------------------------------------------------------------
VARIABLES
  layers,    \* the packs merged so far
  calls,     \* how many there were, repetitions counted
  merged,    \* their merge
  refused    \* was a name not found?

layerVars == <<layers, calls, merged, refused>>

LayerInit == layers = {} /\ calls = 0 /\ merged = Plain /\ refused = FALSE

(* merge_policies, one name at a time.  A name nobody defined makes the    *)
(* whole call return None.                                                 *)
Layer(n) ==
  /\ ~refused
  /\ calls < MaxLayers
  /\ calls' = calls + 1
  /\ IF n \in Unknown
     THEN refused' = TRUE /\ UNCHANGED <<layers, merged>>
     ELSE /\ layers' = layers \union {GetPolicy(n)}
          /\ merged' = IF calls = 0 THEN GetPolicy(n) ELSE Merge(merged, GetPolicy(n))
          /\ UNCHANGED refused

LayerNext == \E n \in PackName : Layer(n)
LayerSpec == LayerInit /\ [][LayerNext]_layerVars

-----------------------------------------------------------------------------
(* What the strictest value among several is, without any order. *)
Lowest(v, V) ==
  IF V \subseteq {NoLimit} THEN v = NoLimit
  ELSE v \in V \ {NoLimit} /\ \A w \in V \ {NoLimit} : v <= w

Highest(severity, v, V) ==
  IF V \subseteq {Unset} THEN v = Unset
  ELSE /\ v \in V \ {Unset}
       /\ \A w \in V \ {Unset} : severity[w] <= severity[v]

(* One of the values set, whichever, and unset only when none is. *)
SomeSet(v, V) == IF V \subseteq {Unset} THEN v = Unset ELSE v \in V \ {Unset}

(* MergeIsStrictest: in whatever order packs are layered, and however often
   one is repeated, the result holds for every field that has a strictest
   value the strictest one any of them sets.  An intent has none: the merge
   holds an intent one of the layers sets, that of the last one that sets
   any, so which one does depend on the order (PolicyPack.merge,
   merge_policies).                                                        *)
MergeIsStrictest ==
  /\ Highest(EnvSeverity, merged.environment, {p.environment : p \in layers})
  /\ Highest(ModeRank, merged.risk_mode, {p.risk_mode : p \in layers})
  /\ Highest(UrgencySeverity, merged.urgency, {p.urgency : p \in layers})
  /\ Highest(ReversibilitySeverity, merged.reversibility,
             {p.reversibility : p \in layers})
  /\ SomeSet(merged.intent, {p.intent : p \in layers})
  /\ Lowest(merged.max_retries, {p.max_retries : p \in layers})
  /\ Lowest(merged.max_files_modified, {p.max_files_modified : p \in layers})
  /\ Lowest(merged.max_actions, {p.max_actions : p \in layers})
  /\ merged.constraints = UNION {p.constraints : p \in layers}
  /\ merged.blocked_paths = UNION {p.blocked_paths : p \in layers}
  /\ merged.blocked_tools = UNION {p.blocked_tools : p \in layers}
  /\ merged.human = (\E p \in layers : p.human)
  /\ merged.backup = (\E p \in layers : p.backup)
  /\ merged.tests = (\E p \in layers : p.tests)

-----------------------------------------------------------------------------
(* What an engine enforces of a pack whose mode, if it sets none, is the
   standard one: the table of the mode with the overrides of the pack.     *)
Enforced(p) ==
  LET mode == IF p.risk_mode = Unset THEN "standard" ELSE p.risk_mode
  IN  [l \in EnforcedLimit |->
         IF p[l] = NoLimit THEN ModeLimits[mode][l] ELSE p[l]]

(* MostRestrictiveWins: policies.py:9, packs compose and the most
   restrictive policy wins for each parameter; it fails, because a limit one
   pack sets overrides the stricter one another pack gets from its mode.   *)
MostRestrictiveWins ==
  \A p \in layers : \A l \in EnforcedLimit : Enforced(merged)[l] <= Enforced(p)[l]
=============================================================================
