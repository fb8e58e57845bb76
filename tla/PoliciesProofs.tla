---------------------------- MODULE PoliciesProofs ----------------------------
(***************************************************************************)
(* Proofs about the layering of policy packs, for every library of packs   *)
(* and any number of layers.                                               *)
(***************************************************************************)
EXTENDS Policies, TLAPS

(* Merging two limits keeps the lower of those set (_min_or). *)
LEMMA LowestStep ==
  ASSUME NEW V \in SUBSET Limit, NEW v \in Limit, NEW w \in Limit, Lowest(v, V)
  PROVE  Lowest(MinOr(v, w), V \union {w})
<1>1. CASE V \subseteq {NoLimit}
  BY <1>1 DEF Lowest, MinOr, Limit, NoLimit
<1>2. CASE ~(V \subseteq {NoLimit})
  <2>1. v \in V \ {NoLimit} /\ \A u \in V \ {NoLimit} : v <= u
    BY <1>2 DEF Lowest
  <2>2. MinOr(v, w) \in (V \union {w}) \ {NoLimit}
    BY <2>1 DEF MinOr, Limit, NoLimit
  <2>3. \A u \in (V \union {w}) \ {NoLimit} : MinOr(v, w) <= u
    BY <2>1 DEF MinOr, Limit, NoLimit
  <2> QED BY <1>2, <2>2, <2>3 DEF Lowest
<1> QED BY <1>1, <1>2

(* One value is the lowest of itself. *)
LEMMA LowestOne == ASSUME NEW w \in Limit PROVE Lowest(w, {w})
BY DEF Lowest, Limit, NoLimit

(* Merging two enumerations keeps the more severe of those set (_stricter_env
   and its likes).                                                         *)
LEMMA HighestStep ==
  ASSUME NEW D, Unset \notin D, NEW severity \in [D -> Nat],
         NEW V \in SUBSET (D \union {Unset}), NEW v \in D \union {Unset},
         NEW w \in D \union {Unset}, Highest(severity, v, V)
  PROVE  Highest(severity, Stricter(severity, v, w), V \union {w})
<1>1. CASE V \subseteq {Unset}
  BY <1>1 DEF Highest, Stricter
<1>2. CASE ~(V \subseteq {Unset})
  <2>1. v \in V \ {Unset} /\ \A u \in V \ {Unset} : severity[u] <= severity[v]
    BY <1>2 DEF Highest
  <2>2. Stricter(severity, v, w) \in (V \union {w}) \ {Unset}
    BY <2>1 DEF Stricter
  <2>3. \A u \in (V \union {w}) \ {Unset} : severity[u] <= severity[Stricter(severity, v, w)]
    BY <2>1 DEF Stricter
  <2> QED BY <1>2, <2>2, <2>3 DEF Highest
<1> QED BY <1>1, <1>2

(* One value is the most severe of itself. *)
LEMMA HighestOne ==
  ASSUME NEW D, Unset \notin D, NEW severity \in [D -> Nat], NEW w \in D \union {Unset}
  PROVE  Highest(severity, w, {w})
BY DEF Highest

(* The tables of the module rank the enumerations. *)
LEMMA Severities ==
  /\ EnvSeverity \in [DOMAIN EnvSeverity -> Nat]
  /\ UrgencySeverity \in [DOMAIN UrgencySeverity -> Nat]
  /\ ReversibilitySeverity \in [DOMAIN ReversibilitySeverity -> Nat]
  /\ ModeRank \in [RiskMode -> Nat]
  /\ Unset \notin DOMAIN EnvSeverity /\ Unset \notin DOMAIN UrgencySeverity
  /\ Unset \notin DOMAIN ReversibilitySeverity /\ Unset \notin RiskMode
BY DEF EnvSeverity, UrgencySeverity, ReversibilitySeverity, ModeRank, RiskMode, Unset

(* Two packs merge into a pack. *)
LEMMA MergeType ==
  ASSUME NEW p \in PolicyPack, NEW q \in PolicyPack
  PROVE  Merge(p, q) \in PolicyPack
BY DEF Merge, PolicyPack, Stricter, MinOr

(* Every name but an unknown one has a pack. *)
LEMMA GetPolicyType ==
  ASSUME NEW n \in PackName \ Unknown
  PROVE  GetPolicy(n) \in PolicyPack
<1>1. CASE n \in DOMAIN BuiltinPacks
  <2> USE DEF PolicyPack, Plain, Limited, EnvSeverity, RiskMode, PackIntent,
              UrgencySeverity, ReversibilitySeverity, Limit, NoLimit, Unset
  <2>1. BuiltinText \subseteq AnyText
    BY DEF AnyText
  <2>2. BuiltinPacks.production_hotfix \in PolicyPack
    BY <2>1, ZenonT(30) DEF BuiltinPacks, BuiltinText
  <2>3. BuiltinPacks.refactor_safe \in PolicyPack
    BY <2>1, ZenonT(30) DEF BuiltinPacks, BuiltinText
  <2>4. BuiltinPacks.cleanup \in PolicyPack
    BY <2>1, ZenonT(30) DEF BuiltinPacks, BuiltinText
  <2>5. BuiltinPacks.data_migration \in PolicyPack
    BY <2>1, ZenonT(30) DEF BuiltinPacks, BuiltinText
  <2>6. BuiltinPacks.incident_response \in PolicyPack
    BY <2>1, ZenonT(30) DEF BuiltinPacks, BuiltinText
  <2>7. DOMAIN BuiltinPacks = {"production_hotfix", "refactor_safe", "cleanup",
                               "data_migration", "incident_response"}
    BY DEF BuiltinPacks
  <2> HIDE DEF PolicyPack
  <2> QED BY <1>1, <2>2, <2>3, <2>4, <2>5, <2>6, <2>7 DEF GetPolicy
<1>2. CASE n \notin DOMAIN BuiltinPacks
  BY <1>2, PoliciesAssumption DEF GetPolicy, PackName
<1> QED BY <1>1, <1>2

-----------------------------------------------------------------------------
(* The inductive invariant: types, and nothing layered before a first call. *)
LayerInv ==
  /\ layers \subseteq PolicyPack
  /\ merged \in PolicyPack
  /\ calls \in Nat
  /\ calls = 0 => layers = {}
  /\ MergeIsStrictest

(* MergeIsStrictest of a pack r and a set S, so that both sides of a step can
   be spoken of.                                                           *)
Enums(r, S) ==
  /\ Highest(EnvSeverity, r.environment, {p.environment : p \in S})
  /\ Highest(ModeRank, r.risk_mode, {p.risk_mode : p \in S})
  /\ Highest(UrgencySeverity, r.urgency, {p.urgency : p \in S})
  /\ Highest(ReversibilitySeverity, r.reversibility, {p.reversibility : p \in S})
Numbers(r, S) ==
  /\ Lowest(r.max_retries, {p.max_retries : p \in S})
  /\ Lowest(r.max_files_modified, {p.max_files_modified : p \in S})
  /\ Lowest(r.max_actions, {p.max_actions : p \in S})
Lists(r, S) ==
  /\ r.constraints = UNION {p.constraints : p \in S}
  /\ r.blocked_paths = UNION {p.blocked_paths : p \in S}
  /\ r.blocked_tools = UNION {p.blocked_tools : p \in S}
Flags(r, S) ==
  /\ r.human = (\E p \in S : p.human)
  /\ r.backup = (\E p \in S : p.backup)
  /\ r.tests = (\E p \in S : p.tests)
Intents(r, S) == SomeSet(r.intent, {p.intent : p \in S})
IsStrictest(r, S) ==
  Enums(r, S) /\ Numbers(r, S) /\ Lists(r, S) /\ Flags(r, S) /\ Intents(r, S)

(* The property says that the merge is the strictest of the layers. *)
LEMMA Unfolded == MergeIsStrictest <=> IsStrictest(merged, layers)
BY DEF MergeIsStrictest, IsStrictest, Enums, Numbers, Lists, Flags, Intents

(* One pack is the strictest of itself. *)
LEMMA OneLayer ==
  ASSUME NEW q \in PolicyPack
  PROVE  IsStrictest(q, {q})
<1>1. Enums(q, {q})
  <2>1. /\ {p.environment : p \in {q}} = {q.environment}
        /\ {p.risk_mode : p \in {q}} = {q.risk_mode}
        /\ {p.urgency : p \in {q}} = {q.urgency}
        /\ {p.reversibility : p \in {q}} = {q.reversibility}
    OBVIOUS
  <2>2. /\ q.environment \in DOMAIN EnvSeverity \union {Unset}
        /\ q.risk_mode \in RiskMode \union {Unset}
        /\ q.urgency \in DOMAIN UrgencySeverity \union {Unset}
        /\ q.reversibility \in DOMAIN ReversibilitySeverity \union {Unset}
    BY DEF PolicyPack
  <2> QED BY <2>1, <2>2, HighestOne, Severities DEF Enums
<1>2. Numbers(q, {q})
  <2>1. /\ {p.max_retries : p \in {q}} = {q.max_retries}
        /\ {p.max_files_modified : p \in {q}} = {q.max_files_modified}
        /\ {p.max_actions : p \in {q}} = {q.max_actions}
    OBVIOUS
  <2>2. q.max_retries \in Limit /\ q.max_files_modified \in Limit /\ q.max_actions \in Limit
    BY DEF PolicyPack
  <2> QED BY <2>1, <2>2, LowestOne DEF Numbers
<1>3. Lists(q, {q})
  BY DEF Lists
<1>4. Flags(q, {q})
  BY DEF Flags, PolicyPack
<1>5. Intents(q, {q})
  <2>1. {p.intent : p \in {q}} = {q.intent}
    OBVIOUS
  <2> QED BY <2>1 DEF Intents, SomeSet
<1> QED BY <1>1, <1>2, <1>3, <1>4, <1>5 DEF IsStrictest

(* One more layer keeps the merge the strictest. *)
LEMMA OneMoreLayer ==
  ASSUME NEW S \in SUBSET PolicyPack, NEW r \in PolicyPack, NEW q \in PolicyPack,
         IsStrictest(r, S)
  PROVE  IsStrictest(Merge(r, q), S \union {q})
<1> DEFINE T == S \union {q}
<1>1. Enums(Merge(r, q), T)
  <2>1. /\ {p.environment : p \in T} = {p.environment : p \in S} \union {q.environment}
        /\ {p.risk_mode : p \in T} = {p.risk_mode : p \in S} \union {q.risk_mode}
        /\ {p.urgency : p \in T} = {p.urgency : p \in S} \union {q.urgency}
        /\ {p.reversibility : p \in T} = {p.reversibility : p \in S} \union {q.reversibility}
    OBVIOUS
  <2>2. /\ \A p \in S \union {q, r} : p.environment \in DOMAIN EnvSeverity \union {Unset}
        /\ \A p \in S \union {q, r} : p.risk_mode \in RiskMode \union {Unset}
        /\ \A p \in S \union {q, r} : p.urgency \in DOMAIN UrgencySeverity \union {Unset}
        /\ \A p \in S \union {q, r} :
             p.reversibility \in DOMAIN ReversibilitySeverity \union {Unset}
    BY DEF PolicyPack
  <2>3. Highest(EnvSeverity, Merge(r, q).environment, {p.environment : p \in T})
    BY <2>1, <2>2, HighestStep, Severities DEF IsStrictest, Enums, Merge
  <2>4. Highest(ModeRank, Merge(r, q).risk_mode, {p.risk_mode : p \in T})
    BY <2>1, <2>2, HighestStep, Severities DEF IsStrictest, Enums, Merge
  <2>5. Highest(UrgencySeverity, Merge(r, q).urgency, {p.urgency : p \in T})
    BY <2>1, <2>2, HighestStep, Severities DEF IsStrictest, Enums, Merge
  <2>6. Highest(ReversibilitySeverity, Merge(r, q).reversibility,
                {p.reversibility : p \in T})
    BY <2>1, <2>2, HighestStep, Severities DEF IsStrictest, Enums, Merge
  <2> QED BY <2>3, <2>4, <2>5, <2>6 DEF Enums
<1>2. Numbers(Merge(r, q), T)
  <2>1. /\ {p.max_retries : p \in T} = {p.max_retries : p \in S} \union {q.max_retries}
        /\ {p.max_files_modified : p \in T}
             = {p.max_files_modified : p \in S} \union {q.max_files_modified}
        /\ {p.max_actions : p \in T} = {p.max_actions : p \in S} \union {q.max_actions}
    OBVIOUS
  <2>2. \A p \in S \union {q, r} :
          p.max_retries \in Limit /\ p.max_files_modified \in Limit /\ p.max_actions \in Limit
    BY DEF PolicyPack
  <2>3. Lowest(Merge(r, q).max_retries, {p.max_retries : p \in T})
    BY <2>1, <2>2, LowestStep DEF IsStrictest, Numbers, Merge
  <2>4. Lowest(Merge(r, q).max_files_modified, {p.max_files_modified : p \in T})
    BY <2>1, <2>2, LowestStep DEF IsStrictest, Numbers, Merge
  <2>5. Lowest(Merge(r, q).max_actions, {p.max_actions : p \in T})
    BY <2>1, <2>2, LowestStep DEF IsStrictest, Numbers, Merge
  <2> QED BY <2>3, <2>4, <2>5 DEF Numbers
<1>3. Lists(Merge(r, q), T)
  BY DEF IsStrictest, Lists, Merge
<1>4. Flags(Merge(r, q), T)
  BY DEF IsStrictest, Flags, Merge, PolicyPack
<1>5. Intents(Merge(r, q), T)
  <2>1. {p.intent : p \in T} = {p.intent : p \in S} \union {q.intent}
    OBVIOUS
  <2>2. Merge(r, q).intent = IF q.intent = Unset THEN r.intent ELSE q.intent
    BY DEF Merge
  <2>3. SomeSet(r.intent, {p.intent : p \in S})
    BY DEF IsStrictest, Intents
  <2> QED BY <2>1, <2>2, <2>3 DEF Intents, SomeSet
<1> QED BY <1>1, <1>2, <1>3, <1>4, <1>5 DEF IsStrictest

(* Nothing layered: the defaults of the data class. *)
LEMMA InitLayerInv == LayerInit => LayerInv
<1> SUFFICES ASSUME LayerInit PROVE LayerInv
  OBVIOUS
<1>1. Plain \in PolicyPack
  BY DEF Plain, PolicyPack, Limit, NoLimit
<1>2. IsStrictest(Plain, {})
  BY DEF IsStrictest, Enums, Numbers, Lists, Flags, Intents, SomeSet, Plain, Highest, Lowest
<1>3. IsStrictest(merged, layers)
  BY <1>2 DEF LayerInit
<1>4. MergeIsStrictest
  BY <1>3, Unfolded
<1>5. layers \subseteq PolicyPack /\ (calls = 0 => layers = {})
  BY DEF LayerInit
<1>6. calls \in Nat /\ merged \in PolicyPack
  BY <1>1 DEF LayerInit
<1> QED BY <1>4, <1>5, <1>6 DEF LayerInv

(* A further name preserves the invariant, found or not. *)
LEMMA LayerStep == LayerInv /\ [LayerNext]_layerVars => LayerInv'
<1> SUFFICES ASSUME LayerInv, [LayerNext]_layerVars PROVE LayerInv'
  OBVIOUS
<1>1. CASE UNCHANGED layerVars
  BY <1>1 DEF LayerInv, layerVars, MergeIsStrictest
<1>2. ASSUME NEW n \in PackName, Layer(n) PROVE LayerInv'
  <2>1. CASE n \in Unknown
    <3>1. UNCHANGED <<layers, merged>> /\ calls' = calls + 1
      BY <1>2, <2>1 DEF Layer
    <3>2. MergeIsStrictest'
      BY <3>1 DEF LayerInv, MergeIsStrictest
    <3>3. calls' \in Nat /\ calls' # 0
      BY <3>1 DEF LayerInv
    <3> QED BY <3>1, <3>2, <3>3 DEF LayerInv
  <2>2. CASE n \notin Unknown
    <3>1. GetPolicy(n) \in PolicyPack
      BY <2>2, GetPolicyType
    <3>2. /\ calls' = calls + 1
          /\ layers' = layers \union {GetPolicy(n)}
          /\ merged' = IF calls = 0 THEN GetPolicy(n) ELSE Merge(merged, GetPolicy(n))
      BY <1>2, <2>2 DEF Layer
    <3>3. merged' \in PolicyPack /\ IsStrictest(merged', layers')
      <4>1. CASE calls = 0
        BY <3>1, <3>2, <4>1, OneLayer DEF LayerInv
      <4>2. CASE calls # 0
        BY <3>1, <3>2, <4>2, OneMoreLayer, MergeType, Unfolded DEF LayerInv
      <4> QED BY <4>1, <4>2
    <3>4. MergeIsStrictest'
      BY <3>3 DEF MergeIsStrictest, IsStrictest, Enums, Numbers, Lists, Flags, Intents
    <3> QED BY <3>1, <3>2, <3>3, <3>4 DEF LayerInv
  <2> QED BY <2>1, <2>2
<1> QED BY <1>1, <1>2 DEF LayerNext

(* However packs are layered, the merge is the strictest of them in every
   field that has a strictest value: no order and no repetition weakens it.
   Its intent is one a layer sets, which one being a matter of order.      *)
THEOREM LayeringIsStrictest == LayerSpec => []MergeIsStrictest
<1>1. LayerInv => MergeIsStrictest
  BY DEF LayerInv
<1> QED BY <1>1, InitLayerInv, LayerStep, PTL DEF LayerSpec
=============================================================================
