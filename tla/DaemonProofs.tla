----------------------------- MODULE DaemonProofs -----------------------------
(***************************************************************************)
(* Proofs about the daemon's request handlers, for every library of packs, *)
(* every set of actions, payloads and files, and any number of sessions.   *)
(***************************************************************************)
EXTENDS Daemon, SessionProofs

(* A name that stands for a pack names one with the fields of a pack. *)
LEMMA NamedPack ==
  ASSUME NEW n \in DOMAIN Packs \union {NoName}, IsPack(n)
  PROVE  /\ n \in DOMAIN Packs /\ Packs[n] \in Pack
         /\ Packs[n].mode \in RiskMode \union {NoName}
         /\ Packs[n].max_retries \in Nat \union {None}
         /\ Packs[n].max_files_modified \in Nat \union {None}
         /\ Packs[n].max_actions \in Nat \union {None}
         /\ Packs[n].blocked_paths \in SUBSET Action
         /\ Packs[n].blocked_tools \in SUBSET Action
<1>1. n \in DOMAIN Packs /\ Packs[n].kind = "pack"
  BY DEF IsPack
<1>2. Packs[n] \in Pack \union {Broken, Absent}
  BY <1>1, DaemonAssumption
<1>3. Packs[n] \in Pack
  BY <1>1, <1>2 DEF Broken, Absent
<1> QED
  BY <1>1, <1>3 DEF Pack

(* What a payload carries. *)
LEMMA PayloadFields ==
  ASSUME NEW p \in Payloads
  PROVE  p.intent \in Intent /\ p.posture \in Posture /\ p.policy \in DOMAIN Packs \union {NoName}
BY DaemonAssumption DEF Payload

(* A posture asks for a mode or for none. *)
LEMMA PostureModes ==
  ASSUME NEW q \in Posture
  PROVE  PostureMode(q) \in RiskMode \union {NoName}
BY DEF PostureMode, Posture, RiskMode, NoName

(* The assessment of the daemon's situation gives one of the four modes. *)
LEMMA AssessedMode ==
  ASSUME NEW protected \in BOOLEAN, NEW intent \in Intent
  PROVE  Risk!AssignRiskMode(Risk!DaemonSituation(protected, intent)) \in RiskMode
<1> DEFINE s == Risk!DaemonSituation(protected, intent)
<1>1. /\ s.environment = "development" /\ s.reversibility = "high"
      /\ s.quality = "production" /\ s.intent = intent /\ s.budget_low = FALSE
  BY DEF Risk!DaemonSituation
<1>2. /\ Risk!EnvironmentWeight[s.environment] = 0
      /\ Risk!ReversibilityWeight[s.reversibility] = 0
      /\ Risk!QualityWeight[s.quality] = 20
      /\ Risk!IntentWeight[s.intent] \in Int
  BY <1>1 DEF Risk!EnvironmentWeight, Risk!ReversibilityWeight, Risk!QualityWeight,
     Risk!IntentWeight, Intent
<1>3. \A b : Risk!Flag(b, 20) \in Int /\ Risk!Flag(b, 10) \in Int /\ Risk!Flag(b, 5) \in Int
  BY DEF Risk!Flag
<1> HIDE DEF s
<1>4. Risk!Score(s) \in Int
  BY <1>2, <1>3 DEF Risk!Score
<1>5. ~Risk!FallsShort(s)
  BY <1>1 DEF Risk!FallsShort
<1>6. Risk!AssignRiskMode(s) \in RiskMode
  BY <1>4, <1>5 DEF Risk!AssignRiskMode, RiskMode
<1> QED
  BY <1>6 DEF s

(* The names and the mode a session start comes to. *)
LEMMA StartNames ==
  ASSUME DaemonTypeOK, NEW p \in Payloads
  PROVE  /\ Wanted(p) \in DOMAIN Packs \union {NoName}
         /\ NameLeft(p) \in DOMAIN Packs \union {NoName}
         /\ InitialMode(p) \in RiskMode
<1>1. /\ p.policy \in DOMAIN Packs \union {NoName}
      /\ policy_file \in DOMAIN Packs \union {NoName}
      /\ branch \in BOOLEAN /\ p.intent \in Intent /\ p.posture \in Posture
  BY PayloadFields DEF DaemonTypeOK
<1>2. Wanted(p) \in DOMAIN Packs \union {NoName} /\ NameLeft(p) \in DOMAIN Packs \union {NoName}
  BY <1>1 DEF Wanted, NameLeft
<1>3. IsPack(Wanted(p)) => Packs[Wanted(p)].mode \in RiskMode \union {NoName}
  BY <1>2, NamedPack
<1> QED
  BY <1>1, <1>2, <1>3, PostureModes, AssessedMode DEF InitialMode

(* The limits a session starts with are the mode's, but for what the pack
   sets; the retry limit is one of the mode or of the pack.                *)
LEMMA StartLimits ==
  ASSUME DaemonTypeOK, NEW p \in Payloads
  PROVE  InitialLimits(p) \in Limits /\ InitialLimits(p).max_retries \in RetryLimits
<1> DEFINE limits == ModeLimits[InitialMode(p)]
           pack   == Packs[Wanted(p)]
<1>1. Wanted(p) \in DOMAIN Packs \union {NoName} /\ InitialMode(p) \in RiskMode
  BY StartNames
<1>2. limits \in Limits /\ limits.max_retries \in RetryLimits
  BY <1>1, DaemonAssumption DEF RetryLimits
<1>3. CASE ~IsPack(Wanted(p))
  BY <1>2, <1>3 DEF InitialLimits
<1>4. CASE IsPack(Wanted(p))
  <2>1. /\ Wanted(p) \in DOMAIN Packs
        /\ pack.max_retries \in Nat \union {None}
        /\ pack.max_files_modified \in Nat \union {None}
        /\ pack.max_actions \in Nat \union {None}
    BY <1>1, <1>4, NamedPack
  <2>2. pack.max_retries \in RetryLimits
    BY <1>4, <2>1 DEF RetryLimits
  <2> DEFINE r == Override(pack.max_retries, limits.max_retries)
             f == Override(pack.max_files_modified, limits.max_files_modified)
             m == Override(pack.max_actions, limits.max_actions)
  <2>3. r \in Nat /\ f \in Nat /\ m \in Nat /\ r \in RetryLimits
    BY <1>2, <2>1, <2>2 DEF Override, Limits
  <2>4. InitialLimits(p) = [limits EXCEPT !.max_retries = r, !.max_files_modified = f,
                                          !.max_actions = m]
    <3>1. /\ limits.max_retries = limits["max_retries"]
          /\ limits.max_files_modified = limits["max_files_modified"]
      OBVIOUS
    <3> QED
      BY <1>2, <1>4 DEF InitialLimits, Limits
  <2> HIDE DEF limits, pack, r, f, m
  <2> QED
    BY <1>2, <2>3, <2>4 DEF Limits
<1> QED
  BY <1>3, <1>4

(* So the engine built at a session start has a configuration of the kind
   the constructor takes.                                                  *)
LEMMA StartEngine ==
  ASSUME DaemonTypeOK, NEW p \in Payloads
  PROVE  BuiltEngine(p) \in EngineConfig
<1>1. /\ InitialMode(p) \in RiskMode /\ InitialLimits(p) \in Limits
      /\ branch \in BOOLEAN /\ Wanted(p) \in DOMAIN Packs \union {NoName}
  BY StartNames, StartLimits DEF DaemonTypeOK
<1>2. /\ (IF IsPack(Wanted(p)) THEN Packs[Wanted(p)].blocked_paths ELSE {}) \in SUBSET Action
      /\ (IF IsPack(Wanted(p)) THEN Packs[Wanted(p)].blocked_tools ELSE {}) \in SUBSET Action
  BY <1>1, NamedPack
<1>3. [set |-> FALSE, max_tokens |-> 0, used_tokens |-> 0] \in Budget
  BY DEF Budget
<1>4. {"git"} \in SUBSET {"deploy", "git", "secrets"}
  OBVIOUS
<1> QED
  BY <1>1, <1>2, <1>3, <1>4 DEF BuiltEngine, EngineConfig

(* So has the engine a posture update leaves. *)
LEMMA PosturedEngine ==
  ASSUME DaemonTypeOK, NEW q \in Posture
  PROVE  /\ ModeUnder(q) \in RiskMode
         /\ [eng EXCEPT !.mode = ModeUnder(q), !.limits = ModeLimits[ModeUnder(q)]] \in EngineConfig
<1>1. eng \in EngineConfig
  BY DEF DaemonTypeOK, SessionTypeOK, TypeOK
<1>2. ModeUnder(q) \in RiskMode
  BY <1>1, PostureModes DEF ModeUnder, EngineConfig
<1>3. ModeLimits[ModeUnder(q)] \in Limits
  BY <1>2, DaemonAssumption
<1> QED
  BY <1>1, <1>2, <1>3 DEF EngineConfig

-----------------------------------------------------------------------------
(* A new session has counters of their types. *)
LEMMA NewSessionTypes ==
  ASSUME NewSession, eng' \in EngineConfig
  PROVE  SessionTypeOK'
<1>1. TypeOK'
  BY DEF NewSession, TypeOK, NoDecision, Verdict
<1>2. actions' \in Seq(SessionAction)
  <2>1. actions' = <<>>
    BY DEF NewSession
  <2> QED
    BY <2>1
<1> QED
  BY <1>1, <1>2 DEF NewSession, SessionTypeOK, Idle

(* A verdict is answered as a permission. *)
LEMMA Permissions ==
  ASSUME NEW v \in Verdict
  PROVE  PermissionFor(v) \in {"allow", "deny", "ask"}
BY DEF PermissionFor, Verdict

(* What answers nobody allows, and a list of no checkpoint is empty. *)
LEMMA AnswersNobody == NoReply.permission \in {"allow", "deny", "ask"} /\ Len(<<>>) <= 1
BY DEF NoReply

(* What a proposal of the hook does to the counters. *)
LEMMA HookProposes ==
  ASSUME SessionTypeOK, NEW a \in Action, Propose(a), UNCHANGED <<running, overlapped>>
  PROVE  SessionTypeOK' /\ last'.verdict = Decide(a).verdict /\ last'.verdict \in Verdict
<1>1. TypeOK'
  BY TypeStep DEF Propose, Next, SessionTypeOK
<1>2. actions' \in Seq(SessionAction)
  BY ProposeAppends DEF SessionTypeOK
<1>3. escalation_count' \in Nat
  BY DEF Propose, Trace, SessionTypeOK
<1>4. last'.verdict = Decide(a).verdict /\ last'.verdict \in Verdict
  BY DecideIsWorst DEF Propose, Evaluate, Record
<1> QED
  BY <1>1, <1>2, <1>3, <1>4 DEF SessionTypeOK

(* A step that leaves engine and trace alone keeps their types. *)
LEMMA SessionUntouched ==
  ASSUME SessionTypeOK, UNCHANGED allVars
  PROVE  SessionTypeOK'
BY SessionTypeStep

(* The process starts with an engine nobody reads and an empty session. *)
LEMMA InitDaemonTypeOK == DInit => DaemonTypeOK
<1> SUFFICES ASSUME DInit PROVE DaemonTypeOK
  OBVIOUS
<1>1. NoEngine \in EngineConfig
  <2>1. ModeLimits["standard"] \in Limits
    BY DaemonAssumption DEF RiskMode
  <2>2. [set |-> FALSE, max_tokens |-> 0, used_tokens |-> 0] \in Budget
    BY DEF Budget
  <2> QED
    BY <2>1, <2>2 DEF NoEngine, EngineConfig, RiskMode
<1>2. TypeOK
  BY <1>1 DEF DInit, FreshSession, TypeOK, NoDecision, Verdict
<1>3. SessionTypeOK
  <2>1. actions = <<>> /\ escalation_count = 0 /\ running = Idle /\ overlapped = FALSE
    BY DEF DInit, SessionInit
  <2>2. actions \in Seq(SessionAction)
    BY <2>1
  <2>3. running \in [Action -> Nat]
    BY <2>1 DEF Idle
  <2> QED
    BY <1>2, <2>1, <2>2, <2>3 DEF SessionTypeOK
<1>4. policy_file \in DOMAIN Packs \union {NoName}
  BY DaemonAssumption DEF DInit
<1>5. /\ alive = TRUE /\ booted = FALSE /\ branch \in BOOLEAN
      /\ posture = "standard" /\ policy_name = NoName /\ applied = NoName
      /\ reply = NoReply /\ written = <<>>
  BY DEF DInit
<1> QED
  BY <1>3, <1>4, <1>5, AnswersNobody DEF DaemonTypeOK, Posture

(* Every request leaves the daemon's state well-typed. *)
LEMMA DaemonTypeStep == DaemonTypeOK /\ [DNext]_vars => DaemonTypeOK'
<1> SUFFICES ASSUME DaemonTypeOK, [DNext]_vars PROVE DaemonTypeOK'
  OBVIOUS
<1>0. SessionTypeOK
  BY DEF DaemonTypeOK
<1>1. ASSUME NEW p \in Payloads, SessionStart(p) PROVE DaemonTypeOK'
  <2>1. SessionTypeOK'
    <3>1. CASE Fails(p)
      BY <1>0, <1>1, <3>1, SessionUntouched DEF SessionStart
    <3>2. CASE ~Fails(p)
      BY <1>1, <3>2, StartEngine, NewSessionTypes DEF SessionStart
    <3> QED
      BY <3>1, <3>2
  <2>2. /\ p.posture \in Posture /\ p.policy \in DOMAIN Packs \union {NoName}
        /\ Wanted(p) \in DOMAIN Packs \union {NoName}
        /\ NameLeft(p) \in DOMAIN Packs \union {NoName}
    BY PayloadFields, StartNames
  <2> QED
    <3>1. /\ posture' \in Posture
          /\ {policy_name', policy_file', applied'} \subseteq DOMAIN Packs \union {NoName}
      BY <1>1, <2>2 DEF SessionStart, DaemonTypeOK, outside
    <3>2. alive' \in BOOLEAN /\ booted' \in BOOLEAN /\ branch' \in BOOLEAN
      BY <1>1 DEF SessionStart, DaemonTypeOK, outside
    <3>3. reply' = NoReply /\ written' = <<>>
      BY <1>1 DEF SessionStart
    <3> QED
      BY <2>1, <3>1, <3>2, <3>3, AnswersNobody DEF DaemonTypeOK
<1>2. ASSUME NEW a \in Action, HookEvent(a) PROVE DaemonTypeOK'
  <2>1. CASE booted
    <3>1. SessionTypeOK' /\ last'.verdict \in Verdict
      BY <1>0, <1>2, <2>1, HookProposes DEF HookEvent
    <3> QED
      BY <1>2, <2>1, <3>1, Permissions DEF HookEvent, DaemonTypeOK, daemonVars, outside
  <2>2. CASE ~booted
    <3>1. SessionTypeOK'
      BY <1>0, <1>2, <2>2, SessionUntouched DEF HookEvent, allVars, sessionVars
    <3> QED
      BY <1>2, <2>2, <3>1 DEF HookEvent, DaemonTypeOK, daemonVars, outside
  <2> QED
    BY <2>1, <2>2
<1>3. ASSUME NEW a \in Action, Check_Tool(a) PROVE DaemonTypeOK'
  BY <1>0, <1>3, SessionUntouched DEF Check_Tool, DaemonTypeOK, daemonVars, outside
<1>4. ASSUME NEW f \in File, AfterFileEdit(f) PROVE DaemonTypeOK'
  <2>1. TypeOK'
    BY <1>0, <1>4, TypeStep DEF AfterFileEdit, Next, SessionTypeOK
  <2>2. SessionTypeOK'
    BY <1>0, <1>4, <2>1 DEF AfterFileEdit, sessionVars, SessionTypeOK
  <2> QED
    BY <1>4, <2>2 DEF AfterFileEdit, DaemonTypeOK, daemonVars, outside
<1>5. ASSUME NEW q \in Posture, UpdatePosture(q) PROVE DaemonTypeOK'
  <2>1. eng' \in EngineConfig
    BY <1>5, PosturedEngine DEF UpdatePosture, Repostured
  <2>2. SessionTypeOK'
    BY <1>0, <1>5, <2>1 DEF UpdatePosture, Repostured, SessionTypeOK, TypeOK, counters,
       recorded, history, sessionVars
  <2> QED
    BY <1>5, <2>2 DEF UpdatePosture, Repostured, DaemonTypeOK, outside
<1>6. ASSUME Shutdown \/ StopUnheard PROVE DaemonTypeOK'
  <2>1. SessionTypeOK'
    BY <1>0, <1>6, SessionUntouched DEF Shutdown, StopUnheard
  <2>2. Len(written') <= 1
    <3>1. \A c : Len(<<c>>) <= 1
      OBVIOUS
    <3>2. \/ written' = <<[trace |-> actions, mode |-> eng.mode, learned |-> Learned]>>
          \/ written' = <<>>
      BY <1>6 DEF Shutdown, StopUnheard, WriteSessionCheckpoint
    <3> QED
      BY <3>1, <3>2, AnswersNobody, Zenon
  <2> QED
    BY <1>6, <2>1, <2>2, AnswersNobody DEF Shutdown, StopUnheard, DaemonTypeOK, daemonVars, outside
<1>7. CASE Checkout
  BY <1>0, <1>7, SessionUntouched DEF Checkout, DaemonTypeOK, daemonVars
<1>8. CASE UNCHANGED vars
  BY <1>0, <1>8, SessionUntouched DEF vars, DaemonTypeOK, daemonVars, outside
<1> QED
  BY <1>1, <1>2, <1>3, <1>4, <1>5, <1>6, <1>7, <1>8 DEF DNext

(* Between any two requests the daemon's state is well-typed. *)
THEOREM DaemonTypeCorrect == DSpec => []DaemonTypeOK
<1> QED
  BY InitDaemonTypeOK, DaemonTypeStep, PTL DEF DSpec

-----------------------------------------------------------------------------
(* What a pattern gets through is among its attempts, and attempts are held
   against the limit in force, which is some mode's or some pack's.        *)
CapInv ==
  /\ DaemonTypeOK
  /\ PatternCapped
  /\ eng.limits.max_retries \in RetryLimits
  /\ \A p \in Pattern : passed[p] <= retries[p]

(* An action let through was within the limit, the attempt counted. *)
LEMMA ProposeKeepsCap ==
  ASSUME CapInv, DaemonTypeOK', NEW a \in Action, Propose(a)
  PROVE  CapInv'
<1>1. /\ TypeOK /\ NormalForm[a] \in Pattern
      /\ eng.limits.max_retries \in Nat
  BY ConfigTypes, ActionsAssumption DEF CapInv, DaemonTypeOK, SessionTypeOK, TypeOK
<1>2. eng' = eng /\ retries' = CountAttempt(a) /\ Record(Decide(a))
  BY DEF Propose, Evaluate
<1>3. Decide(a).action = a
  BY DecideIsWorst
<1> DEFINE k == NormalForm[a]
<1>4. CASE LetsThrough(Decide(a).verdict) /\ Mutating(a)
  <2>1. retries' = [retries EXCEPT ![k] = @ + 1] /\ passed' = [passed EXCEPT ![k] = @ + 1]
    BY <1>2, <1>3, <1>4 DEF CountAttempt, Record
  <2>2. retries'[k] <= eng.limits.max_retries
    <3>1. ~(retries'[k] > eng.limits.max_retries)
      BY <1>2, <1>4, LetThroughMeans
    <3>2. retries'[k] \in Nat
      BY <1>1, <2>1 DEF TypeOK
    <3> QED
      BY <1>1, <3>1, <3>2
  <2>3. \A p \in Pattern : passed'[p] <= retries'[p]
    BY <1>1, <2>1 DEF CapInv, TypeOK
  <2>4. passed'[k] <= eng.limits.max_retries
    BY <1>1, <2>1, <2>2, <2>3 DEF TypeOK
  <2>5. \A p \in Pattern : p # k => passed'[p] = passed[p]
    BY <1>1, <2>1 DEF TypeOK
  <2>6. PatternCapped'
    BY <2>4, <2>5 DEF CapInv, PatternCapped, RetryLimits, IsPack
  <2> QED
    BY <1>2, <2>3, <2>6 DEF CapInv, RetryLimits, IsPack
<1>5. CASE ~(LetsThrough(Decide(a).verdict) /\ Mutating(a))
  <2>1. passed' = passed
    BY <1>2, <1>3, <1>5 DEF Record
  <2>2. \A p \in Pattern : retries'[p] \in {retries[p], retries[p] + 1}
    BY <1>1, EvaluateCounts DEF Propose
  <2>3. \A p \in Pattern : passed'[p] <= retries'[p]
    BY <1>1, <2>1, <2>2 DEF CapInv, TypeOK
  <2> QED
    BY <1>2, <2>1, <2>3 DEF CapInv, PatternCapped, RetryLimits, IsPack
<1> QED
  BY <1>4, <1>5

(* Every request keeps what got through within the limits. *)
LEMMA CapStep == CapInv /\ [DNext]_vars => CapInv'
<1> SUFFICES ASSUME CapInv, [DNext]_vars PROVE CapInv'
  OBVIOUS
<1> USE DEF RetryLimits, IsPack
<1>0. DaemonTypeOK /\ DaemonTypeOK'
  BY DaemonTypeStep DEF CapInv
<1>1. ASSUME NEW p \in Payloads, SessionStart(p), ~Fails(p) PROVE CapInv'
  <2>1. /\ eng' = BuiltEngine(p) /\ passed' = [q \in Pattern |-> 0]
        /\ retries' = [q \in Pattern |-> 0]
    BY <1>1 DEF SessionStart, NewSession
  <2>2. eng'.limits.max_retries \in RetryLimits
    BY <1>0, <2>1, StartLimits DEF BuiltEngine
  <2>3. eng'.limits.max_retries \in Nat
    BY <1>0 DEF DaemonTypeOK, SessionTypeOK, TypeOK, EngineConfig, Limits
  <2>4. PatternCapped'
    BY <2>1, <2>2, <2>3 DEF PatternCapped
  <2> QED
    BY <1>0, <2>1, <2>2, <2>4 DEF CapInv
<1>2. ASSUME UNCHANGED engineVars PROVE CapInv'
  BY <1>0, <1>2 DEF CapInv, PatternCapped, engineVars, counters, history
<1>3. ASSUME NEW a \in Action, HookEvent(a) PROVE CapInv'
  BY <1>0, <1>2, <1>3, ProposeKeepsCap DEF HookEvent
<1>4. ASSUME NEW f \in File, AfterFileEdit(f) PROVE CapInv'
  BY <1>0, <1>4 DEF AfterFileEdit, RecordFileModified, counters, history, CapInv, PatternCapped
<1>5. ASSUME NEW q \in Posture, UpdatePosture(q) PROVE CapInv'
  <2>1. ModeUnder(q) \in RiskMode /\ UNCHANGED <<retries, passed>>
    BY <1>0, <1>5, PosturedEngine DEF UpdatePosture, Repostured, counters, history
  <2>2. eng'.limits = ModeLimits[ModeUnder(q)]
    BY <1>0, <1>5 DEF UpdatePosture, Repostured, DaemonTypeOK, SessionTypeOK, TypeOK, EngineConfig
  <2>3. eng'.limits.max_retries \in RetryLimits
    BY <2>1, <2>2
  <2> QED
    BY <1>0, <2>1, <2>3 DEF CapInv, PatternCapped
<1> QED
  BY <1>1, <1>2, <1>3, <1>4, <1>5
  DEF DNext, SessionStart, Check_Tool, Shutdown, StopUnheard, Checkout, vars, allVars

(* Within one session, whatever postures follow each other in it, no pattern
   gets through more often than some mode or pack allows; every session of a
   daemon starts a new count.                                              *)
THEOREM PatternsCapped == DSpec => []PatternCapped
<1>1. DInit => CapInv
  <2> SUFFICES ASSUME DInit PROVE CapInv
    OBVIOUS
  <2>1. DaemonTypeOK
    BY InitDaemonTypeOK
  <2>2. /\ eng.limits = ModeLimits["standard"]
        /\ passed = [p \in Pattern |-> 0] /\ retries = [p \in Pattern |-> 0]
    BY DEF DInit, FreshSession, NoEngine
  <2>3. eng.limits.max_retries \in RetryLimits
    BY <2>2 DEF RetryLimits, RiskMode
  <2>4. eng.limits.max_retries \in Nat
    BY <2>1 DEF DaemonTypeOK, SessionTypeOK, TypeOK, EngineConfig, Limits
  <2> QED
    BY <2>1, <2>2, <2>3, <2>4 DEF CapInv, PatternCapped
<1>2. CapInv => PatternCapped
  BY DEF CapInv
<1> QED
  BY <1>1, <1>2, CapStep, PTL DEF DSpec

-----------------------------------------------------------------------------
(* What was applied at the last start that succeeded is a pack, and the
   engine has its paths and tools, whatever posture followed.              *)
BuiltInv ==
  /\ DaemonTypeOK
  /\ applied # NoName => IsPack(applied)
  /\ booted /\ applied # NoName =>
       /\ eng.blocked_paths = Packs[applied].blocked_paths
       /\ eng.blocked_tools = Packs[applied].blocked_tools
  /\ PostureEnforced
  /\ PackBlocksHold

(* What a blocked path or tool is answered with. *)
LEMMA BlockedIsDenied ==
  ASSUME NEW a \in Action, a \in eng.blocked_paths \union eng.blocked_tools
  PROVE  PermissionFor(Decide(a).verdict) = "deny"
<1>1. Violations(a) # {}
  BY DEF Violations, InvariantRule
<1>2. Check(1, a).verdict = "block"
  BY <1>1 DEF Check, CheckInvariants, Result
<1>3. Severity["block"] <= Severity[Decide(a).verdict] /\ Decide(a).verdict \in Verdict
  BY <1>2, DecideIsWorst
<1>4. Decide(a).verdict = "block"
  BY <1>3 DEF Severity, Verdict
<1> QED
  BY <1>4 DEF PermissionFor

(* A start that succeeds builds the engine from the pack and the posture it
   then reports; one that fails leaves a name that shows it.               *)
LEMMA StartKeepsBuilt ==
  ASSUME BuiltInv, DaemonTypeOK', NEW p \in Payloads, SessionStart(p)
  PROVE  BuiltInv'
<1>0. reply'.to = "none"
  BY DEF SessionStart, NoReply
<1>1. PackBlocksHold'
  BY <1>0 DEF PackBlocksHold
<1>2. CASE ~Fails(p)
  <2>1. /\ eng' = BuiltEngine(p) /\ posture' = p.posture
        /\ applied' = IF IsPack(Wanted(p)) THEN Wanted(p) ELSE NoName
    BY <1>2 DEF SessionStart
  <2>2. applied' # NoName => IsPack(applied')
    BY <2>1
  <2>3. applied' # NoName => applied' = Wanted(p) /\ IsPack(Wanted(p))
    BY <2>1
  <2>4. applied' = NoName => ~IsPack(Wanted(p))
    BY <2>1 DEF IsPack
  <2>5. applied' # NoName => /\ eng'.blocked_paths = Packs[applied'].blocked_paths
                             /\ eng'.blocked_tools = Packs[applied'].blocked_tools
    BY <2>1, <2>3 DEF BuiltEngine
  <2>6. /\ PostureMode(posture') # NoName
        /\ applied' = NoName \/ Packs[applied'].mode = NoName
        => eng'.mode = PostureMode(posture')
    BY <2>1, <2>3, <2>4 DEF BuiltEngine, InitialMode
  <2>7. PostureEnforced'
    BY <2>6 DEF PostureEnforced, PostureMode
  <2>8. applied' # NoName => IsPack(applied)'
    BY <2>2 DEF IsPack
  <2> QED
    BY <1>1, <2>5, <2>7, <2>8 DEF BuiltInv
<1>3. CASE Fails(p)
  <2>1. UNCHANGED <<eng, applied, booted>> /\ policy_name' = p.policy
    BY <1>3 DEF SessionStart, allVars, engineVars
  <2>2. p.policy # NoName /\ ~IsPack(p.policy)
    BY <1>3 DEF Fails, IsPack, Broken
  <2>3. PostureEnforced'
    BY <2>1, <2>2 DEF PostureEnforced, BuiltInv
  <2> QED
    BY <1>1, <2>1, <2>3 DEF BuiltInv, IsPack
<1> QED
  BY <1>2, <1>3

(* Every request keeps engine and pack together. *)
LEMMA BuiltStep == BuiltInv /\ [DNext]_vars => BuiltInv'
<1> SUFFICES ASSUME BuiltInv, [DNext]_vars PROVE BuiltInv'
  OBVIOUS
<1>0. DaemonTypeOK /\ DaemonTypeOK'
  BY DaemonTypeStep DEF BuiltInv
<1>1. ASSUME UNCHANGED <<eng, daemonVars>>, PackBlocksHold' PROVE BuiltInv'
  BY <1>0, <1>1 DEF BuiltInv, daemonVars, IsPack, PostureEnforced
<1>2. ASSUME UNCHANGED <<applied, booted>>, reply' = reply \/ reply'.to # "hook"
      PROVE  PackBlocksHold'
  BY <1>2 DEF BuiltInv, PackBlocksHold
<1>3. ASSUME NEW a \in Action, HookEvent(a) PROVE BuiltInv'
  <2>1. UNCHANGED <<eng, daemonVars>>
    BY <1>3 DEF HookEvent, Propose, Evaluate, engineVars
  <2>2. CASE booted
    <3>1. /\ reply'.action = a
          /\ reply'.permission = PermissionFor(Decide(a).verdict)
      BY <1>3, <2>2 DEF HookEvent, Propose, Evaluate, Record
    <3>2. applied # NoName /\ a \in Packs[applied].blocked_paths \union Packs[applied].blocked_tools
          => reply'.permission = "deny"
      BY <2>2, <3>1, BlockedIsDenied DEF BuiltInv
    <3>3. PackBlocksHold'
      BY <2>1, <3>1, <3>2 DEF PackBlocksHold, daemonVars
    <3> QED
      BY <1>1, <2>1, <3>3
  <2>3. CASE ~booted
    BY <1>1, <2>1, <2>3 DEF PackBlocksHold, daemonVars
  <2> QED
    BY <2>2, <2>3
<1>4. ASSUME NEW q \in Posture, UpdatePosture(q) PROVE BuiltInv'
  <2>1. /\ posture' = q /\ UNCHANGED <<policy_name, applied, booted, reply>>
        /\ eng' = [eng EXCEPT !.mode = ModeUnder(q), !.limits = ModeLimits[ModeUnder(q)]]
    BY <1>4 DEF UpdatePosture, Repostured
  <2>2. /\ eng'.mode = ModeUnder(q)
        /\ eng'.blocked_paths = eng.blocked_paths /\ eng'.blocked_tools = eng.blocked_tools
    BY <1>0, <2>1 DEF DaemonTypeOK, SessionTypeOK, TypeOK, EngineConfig
  <2>3. PostureEnforced'
    BY <2>1, <2>2 DEF PostureEnforced, ModeUnder, PostureMode
  <2>4. PackBlocksHold'
    BY <1>2, <2>1
  <2> QED
    BY <1>0, <2>1, <2>2, <2>3, <2>4 DEF BuiltInv, IsPack
<1>5. ASSUME NEW a \in Action, Check_Tool(a) PROVE BuiltInv'
  BY <1>1, <1>2, <1>5 DEF Check_Tool, allVars, engineVars, daemonVars
<1>6. ASSUME NEW f \in File, AfterFileEdit(f) PROVE BuiltInv'
  BY <1>1, <1>2, <1>6 DEF AfterFileEdit, RecordFileModified, daemonVars
<1>7. CASE Shutdown \/ StopUnheard
  BY <1>1, <1>2, <1>7 DEF Shutdown, StopUnheard, NoReply, allVars, engineVars, daemonVars
<1>8. CASE Checkout \/ UNCHANGED vars
  BY <1>1, <1>2, <1>8 DEF Checkout, vars, allVars, engineVars, daemonVars
<1> QED
  BY <1>0, <1>3, <1>4, <1>5, <1>6, <1>7, <1>8, StartKeepsBuilt DEF DNext

(* Before the first start no pack is applied. *)
LEMMA InitBuiltInv == DInit => BuiltInv
<1> SUFFICES ASSUME DInit PROVE BuiltInv
  OBVIOUS
<1>1. DaemonTypeOK /\ booted = FALSE /\ applied = NoName
  BY InitDaemonTypeOK DEF DInit
<1> QED
  BY <1>1 DEF BuiltInv, PostureEnforced, PackBlocksHold

(* The engine runs in the mode of the posture the daemon reports, unless a
   pack sets the mode or the last start failed half-way.                   *)
THEOREM PostureIsEnforced == DSpec => []PostureEnforced
<1>1. BuiltInv => PostureEnforced
  BY DEF BuiltInv
<1> QED
  BY <1>1, InitBuiltInv, BuiltStep, PTL DEF DSpec

(* What the applied pack blocks is denied, through every posture update. *)
THEOREM PackBlocksAreKept == DSpec => []PackBlocksHold
<1>1. BuiltInv => PackBlocksHold
  BY DEF BuiltInv
<1> QED
  BY <1>1, InitBuiltInv, BuiltStep, PTL DEF DSpec

-----------------------------------------------------------------------------
(* The trace of the session of an engine that no stage ever resets. *)
AccountInv == DaemonTypeOK /\ TraceInv /\ stage = 0

(* A new session has an empty trace and counters at zero. *)
LEMMA NewSessionTrace ==
  ASSUME SessionTypeOK', NewSession
  PROVE  TraceInv'
<1>1. /\ actions' = <<>> /\ escalation_count' = 0 /\ action_count' = 0 /\ allowed' = 0
      /\ blocks_issued' = 0 /\ warnings_issued' = 0 /\ retries' = [p \in Pattern |-> 0]
  BY DEF NewSession
<1>2. \A S : Where(S)' = {}
  BY <1>1 DEF Where
<1>3. \A S : Many(S)' = 0
  BY <1>2, FS_EmptySet DEF Many
<1>4. /\ Many(Escalated)' = 0 /\ Many(LetBy)' = 0 /\ Many(Blocked)' = 0
      /\ Many(Cautioned)' = 0 /\ \A p \in Pattern : Many(Tried(p))' = 0
  BY <1>3 DEF Escalated, LetBy, Blocked, Cautioned, Tried
<1>5. Len(actions') = 0
  BY <1>1
<1> QED
  BY <1>1, <1>4, <1>5 DEF TraceInv

(* Every request keeps trace and counters in agreement. *)
LEMMA AccountStep == AccountInv /\ [DNext]_vars => AccountInv'
<1> SUFFICES ASSUME AccountInv, [DNext]_vars PROVE AccountInv'
  OBVIOUS
<1>0. /\ DaemonTypeOK /\ DaemonTypeOK' /\ SessionTypeOK /\ SessionTypeOK'
      /\ TraceInv /\ stage = 0
  BY DaemonTypeStep DEF AccountInv, DaemonTypeOK
<1>1. ASSUME NEW p \in Payloads, SessionStart(p), ~Fails(p) PROVE AccountInv'
  <2>1. NewSession
    BY <1>1 DEF SessionStart
  <2> QED
    BY <1>0, <2>1, NewSessionTrace DEF AccountInv, NewSession
<1>2. ASSUME NEW a \in Action, HookEvent(a), booted PROVE AccountInv'
  <2>1. Propose(a) /\ stage' = stage
    BY <1>2 DEF HookEvent, Propose, Evaluate
  <2> QED
    BY <1>0, <2>1, ProposeKeepsTrace DEF AccountInv
<1>3. ASSUME UNCHANGED <<actions, escalation_count, action_count, retries, warnings_issued,
                         blocks_issued, stage, allowed>>
      PROVE  AccountInv'
  BY <1>0, <1>3, TraceUntouched DEF AccountInv
<1>4. ASSUME NEW a \in Action, HookEvent(a), ~booted PROVE AccountInv'
  BY <1>3, <1>4 DEF HookEvent, engineVars, counters, history
<1>5. ASSUME NEW p \in Payloads, SessionStart(p), Fails(p) PROVE AccountInv'
  BY <1>3, <1>5 DEF SessionStart, allVars, engineVars, counters, history, sessionVars
<1>6. ASSUME NEW a \in Action, Check_Tool(a) PROVE AccountInv'
  BY <1>3, <1>6 DEF Check_Tool, allVars, engineVars, counters, history, sessionVars
<1>7. ASSUME NEW f \in File, AfterFileEdit(f) PROVE AccountInv'
  BY <1>3, <1>7 DEF AfterFileEdit, RecordFileModified, counters, history, sessionVars
<1>8. ASSUME NEW q \in Posture, UpdatePosture(q) PROVE AccountInv'
  BY <1>3, <1>8 DEF UpdatePosture, Repostured, counters, history, sessionVars
<1>9. CASE Shutdown \/ StopUnheard \/ Checkout \/ UNCHANGED vars
  BY <1>3, <1>9 DEF Shutdown, StopUnheard, Checkout, vars, allVars, engineVars, counters,
     history, sessionVars
<1> QED
  BY <1>1, <1>2, <1>4, <1>5, <1>6, <1>7, <1>8, <1>9 DEF DNext

(* The process starts with an empty trace. *)
LEMMA InitAccountInv == DInit => AccountInv
<1> SUFFICES ASSUME DInit PROVE AccountInv
  OBVIOUS
<1>1. DaemonTypeOK /\ SessionTypeOK
  BY InitDaemonTypeOK DEF DaemonTypeOK
<1>2. FreshSession /\ actions = <<>> /\ escalation_count = 0
  BY DEF DInit, SessionInit
<1> QED
  BY <1>1, <1>2, InitTraceInv DEF AccountInv, FreshSession

(* In the daemon the counters and the trace always tell the same session,
   restarts of it included.                                                *)
THEOREM DaemonCountsItsTrace == DSpec => []CountersMatchTrace
<1>1. AccountInv => CountersMatchTrace
  BY TraceInvMatches DEF AccountInv, CountersMatchTrace
<1> QED
  BY <1>1, InitAccountInv, AccountStep, PTL DEF DSpec

(* A refusal that was counted is a record of the trace, so its rule is among
   what the checkpoint calls learned.                                      *)
LEMMA RefusalIsLearned ==
  ASSUME AccountInv, blocks_issued > 0
  PROVE  Learned.blocked # {}
<1>1. blocks_issued = Many(Blocked) /\ SessionTypeOK
  BY DEF AccountInv, TraceInv
<1>2. Where(Blocked) # {}
  BY <1>1, FS_EmptySet DEF Many
<1>3. PICK i \in DOMAIN actions : actions[i].verdict = "block"
  BY <1>2 DEF Where, Blocked
<1> QED
  BY <1>3 DEF Learned

(* A daemon that leaves in an orderly way after three actions leaves the
   whole trace, with what it teaches.                                      *)
THEOREM TraceSurvivesShutdown == DSpec => ShutdownKeepsTrace
<1> DEFINE c == Head(written')
           Kept == alive /\ ~alive' /\ booted /\ action_count >= 3 =>
             /\ written' # <<>>
             /\ /\ c.trace = actions
                /\ Len(c.trace) = action_count
                /\ blocks_issued > 0 => c.learned.blocked # {}
<1>1. ASSUME AccountInv, [DNext]_vars PROVE [Kept]_vars
  <2> SUFFICES ASSUME alive, ~alive', booted, action_count >= 3
               PROVE  /\ written' # <<>>
                      /\ /\ c.trace = actions
                         /\ Len(c.trace) = action_count
                         /\ blocks_issued > 0 => c.learned.blocked # {}
    OBVIOUS
  <2>1. Shutdown
    BY <1>1 DEF DNext, SessionStart, HookEvent, Check_Tool, AfterFileEdit, UpdatePosture,
       Repostured, StopUnheard, Checkout, vars
  <2>2. written' = <<[trace |-> actions, mode |-> eng.mode, learned |-> Learned]>>
    BY <2>1 DEF Shutdown, WriteSessionCheckpoint
  <2>3. \A x : <<x>> # <<>> /\ Head(<<x>>) = x
    OBVIOUS
  <2>4. written' # <<>> /\ c = [trace |-> actions, mode |-> eng.mode, learned |-> Learned]
    BY <2>2, <2>3, Zenon
  <2>5. Len(actions) = action_count
    BY <1>1 DEF AccountInv, TraceInv
  <2> HIDE DEF c
  <2> QED
    BY <1>1, <2>4, <2>5, RefusalIsLearned
<1> QED
  BY <1>1, InitAccountInv, AccountStep, PTL DEF DSpec, ShutdownKeepsTrace

=============================================================================
