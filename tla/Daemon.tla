-------------------------------- MODULE Daemon --------------------------------
(***************************************************************************)
(* The request handlers of the daemon (scripts/viveka-daemon.py) around    *)
(* one governed session.  The daemon serves one request at a time, so a    *)
(* handler is one step; between two requests the developer may check out   *)
(* another branch.  The observation log, replies that only read state and  *)
(* the text of messages are left out.                                      *)
(***************************************************************************)
EXTENDS GovernedSession

CONSTANTS
  ModeLimits,       \* micro._LIMITS: [RiskMode -> Limits]
  Packs,            \* what get_policy returns, by name
  PolicyFiles,      \* names policy.yaml may hold; NoName: none
  Payloads,         \* payloads of sessionStart
  MaxSessions       \* bound on sessions begun

NoName == ""
None   == -1        \* a limit a pack does not set
Posture == {"standard", "exploratory", "speed", "adversarial"}
Intent  == {"other", "exploration", "recovery"}

(* Reading a pack fails when its YAML holds an unknown enumeration value;  *)
(* a name nobody defined gives no pack at all.                             *)
Broken == [kind |-> "broken"]
Absent == [kind |-> "absent"]
Pack ==
  [kind : {"pack"}, mode : RiskMode \union {NoName},
   max_retries : Nat \union {None}, max_files_modified : Nat \union {None},
   max_actions : Nat \union {None},
   blocked_paths : SUBSET Action, blocked_tools : SUBSET Action]

Payload == [intent : Intent, posture : Posture, policy : DOMAIN Packs \union {NoName}]

ASSUME DaemonAssumption ==
  /\ ModeLimits \in [RiskMode -> Limits]
  /\ \A n \in DOMAIN Packs : Packs[n] \in Pack \union {Broken, Absent}
  /\ NoName \notin DOMAIN Packs
  /\ PolicyFiles \subseteq DOMAIN Packs \union {NoName}
  /\ Payloads \subseteq Payload
  /\ MaxSessions \in Nat

VARIABLES
  alive,        \* the process serves requests
  booted,       \* self.engine is set
  posture,
  policy_name,
  policy_file,  \* the policy named by .viveka/policy.yaml
  branch,       \* is a protected branch checked out now?
  reply,        \* the permission last answered, and for what action
  written,      \* the checkpoint the last step wrote, with what was learned
  applied,      \* name of the pack the engine was built with, or NoName
  sessions      \* sessions begun

daemonVars == <<posture, policy_name, applied, booted>>
outside    == <<policy_file, branch>>
vars == <<allVars, daemonVars, outside, alive, reply, written, sessions>>

Risk == INSTANCE RiskAssessment

-----------------------------------------------------------------------------
PostureMode(p) == CASE p \in {"exploratory", "speed"} -> "permissive"
                    [] p = "adversarial"              -> "guarded"
                    [] p = "standard"                 -> NoName

(* The name of the policy asked for: the payload's, else the file's.  A    *)
(* pack that cannot be read is an error in the payload and ignored in the  *)
(* file.                                                                   *)
Wanted(p) == IF p.policy # NoName THEN p.policy ELSE policy_file
IsPack(n) == n # NoName /\ Packs[n].kind = "pack"
Fails(p)  == p.policy # NoName /\ Packs[p.policy] = Broken

(* The name initialize() leaves in self.policy_name: a name from the file
   is noted once get_policy returned, with or without a pack.              *)
NameLeft(p) ==
  IF p.policy # NoName THEN p.policy
  ELSE IF policy_file # NoName /\ Packs[policy_file] # Broken
  THEN policy_file ELSE NoName

InitialMode(p) ==
  LET computed == Risk!AssignRiskMode(Risk!DaemonSituation(branch, p.intent))
  IN  IF IsPack(Wanted(p)) /\ Packs[Wanted(p)].mode # NoName
      THEN Packs[Wanted(p)].mode
      ELSE IF PostureMode(p.posture) # NoName THEN PostureMode(p.posture)
      ELSE computed

Override(limit, default) == IF limit = None THEN default ELSE limit

(* The limits of the mode with the overrides of the pack. *)
InitialLimits(p) ==
  LET limits == ModeLimits[InitialMode(p)]
      pack   == Packs[Wanted(p)]
  IN  IF ~IsPack(Wanted(p)) THEN limits
      ELSE [limits EXCEPT
              !.max_retries = Override(pack.max_retries, @),
              !.max_files_modified = Override(pack.max_files_modified, @),
              !.max_actions = Override(pack.max_actions, @)]

BuiltEngine(p) ==
  [mode |-> InitialMode(p), limits |-> InitialLimits(p), production |-> FALSE,
   protected |-> branch, granted |-> {"git"},
   blocked_paths |-> IF IsPack(Wanted(p)) THEN Packs[Wanted(p)].blocked_paths ELSE {},
   blocked_tools |-> IF IsPack(Wanted(p)) THEN Packs[Wanted(p)].blocked_tools ELSE {},
   budget |-> [set |-> FALSE, max_tokens |-> 0, used_tokens |-> 0],
   reversible |-> TRUE]

(* An engine not yet built; nothing reads it before booted is set. *)
NoEngine ==
  [mode |-> "standard", limits |-> ModeLimits["standard"], production |-> FALSE,
   protected |-> FALSE, granted |-> {}, blocked_paths |-> {}, blocked_tools |-> {},
   budget |-> [set |-> FALSE, max_tokens |-> 0, used_tokens |-> 0],
   reversible |-> TRUE]

NoReply == [to |-> "none", action |-> NoDecision.action, permission |-> "allow"]

(* Mutant: the attempts of the last session are carried into the new one. *)
NewSession_KeepsRetries ==
  /\ action_count' = 0 /\ UNCHANGED retries
  /\ files_modified' = {} /\ tools_used' = {} /\ token_spend' = 0
  /\ assumptions_undeclared' = 0 /\ warnings_issued' = 0 /\ blocks_issued' = 0
  /\ stage' = 0 /\ passed' = [p \in Pattern |-> 0] /\ allowed' = 0
  /\ last' = NoDecision
  /\ actions' = <<>> /\ escalation_count' = 0
  /\ running' = Idle /\ overlapped' = FALSE

(* The new engine and the new GovernedSession start empty. *)
NewSession ==
  /\ action_count' = 0 /\ retries' = [p \in Pattern |-> 0]
  /\ files_modified' = {} /\ tools_used' = {} /\ token_spend' = 0
  /\ assumptions_undeclared' = 0 /\ warnings_issued' = 0 /\ blocks_issued' = 0
  /\ stage' = 0 /\ passed' = [p \in Pattern |-> 0] /\ allowed' = 0
  /\ last' = NoDecision
  /\ actions' = <<>> /\ escalation_count' = 0
  /\ running' = Idle /\ overlapped' = FALSE

-----------------------------------------------------------------------------
(* initialize(), when the process starts and at every sessionStart.  When   *)
(* reading the pack raises, posture and policy name are already replaced    *)
(* and the engine is not.                                                   *)
SessionStart(p) ==
  /\ alive
  /\ sessions < MaxSessions
  /\ sessions' = sessions + 1
  /\ posture' = p.posture
  /\ policy_name' = IF Fails(p) THEN p.policy ELSE NameLeft(p)
  /\ reply' = NoReply
  /\ IF Fails(p)
     THEN UNCHANGED <<allVars, applied, booted>>
     ELSE /\ eng' = BuiltEngine(p)
          /\ NewSession
          /\ applied' = IF IsPack(Wanted(p)) THEN Wanted(p) ELSE NoName
          /\ booted' = TRUE
  /\ UNCHANGED <<alive, outside>>
  /\ written' = <<>>

(* Mutant: the verdict is answered as it is. *)
PermissionFor_Raw(v) == v

PermissionFor(v) == CASE v \in {"permit", "warn"} -> "allow"
                      [] v = "block"              -> "deny"
                      [] v = "escalate"           -> "ask"

(* preToolUse and beforeShellExecution, for an input an action string is    *)
(* built from.  Without an engine everything is allowed.                    *)
HookEvent(a) ==
  /\ alive
  /\ IF booted
     THEN /\ Propose(a)
          /\ reply' = [to |-> "hook", action |-> a,
                       permission |-> PermissionFor(last'.verdict)]
     ELSE /\ UNCHANGED <<engineVars, actions, escalation_count>>
          /\ reply' = [to |-> "hook", action |-> a, permission |-> "allow"]
  /\ UNCHANGED <<running, overlapped, daemonVars, outside, alive, sessions>>
  /\ written' = <<>>

(* viveka_check asks about an action as a use of a tool named "check", which*)
(* _build_action_string maps to no action.                                  *)
Check_Tool(a) ==
  /\ alive
  /\ reply' = [to |-> "check", action |-> a, permission |-> "allow"]
  /\ UNCHANGED <<allVars, daemonVars, outside, alive, sessions>>
  /\ written' = <<>>

AfterFileEdit(f) ==
  /\ alive
  /\ booted
  /\ RecordFileModified(f)
  /\ UNCHANGED <<sessionVars, daemonVars, outside, alive, reply, sessions>>
  /\ written' = <<>>

(* The enforcement mode viveka_session_state reports: the posture is the    *)
(* one the state file shares with the daemon, the branch is scanned anew    *)
(* and the intent is the default one.                                       *)
ReportedMode ==
  IF PostureMode(posture) # NoName THEN PostureMode(posture)
  ELSE Risk!AssignRiskMode(Risk!DaemonSituation(branch, "other"))

ModeUnder(q) == IF PostureMode(q) # NoName THEN PostureMode(q) ELSE eng.mode

Repostured(q, e) ==
  /\ alive /\ booted
  /\ posture' = q
  /\ eng' = e
  /\ written' = <<>>
  /\ UNCHANGED <<recorded, history, sessionVars, policy_name, applied, booted,
                 outside, alive, reply, sessions>>

(* Mutant: with the mode, the paths and tools of the pack are dropped. *)
UpdatePosture_DropsBlocked(q) ==
  /\ Repostured(q, [eng EXCEPT !.mode = ModeUnder(q), !.limits = ModeLimits[ModeUnder(q)],
                               !.blocked_paths = {}, !.blocked_tools = {}])
  /\ UNCHANGED counters

(* Mutant: a posture gives every pattern fresh attempts. *)
UpdatePosture_Forgives(q) ==
  /\ Repostured(q, [eng EXCEPT !.mode = ModeUnder(q), !.limits = ModeLimits[ModeUnder(q)]])
  /\ retries' = [p \in Pattern |-> 0]
  /\ UNCHANGED <<action_count, warnings_issued, blocks_issued>>

(* Mutant: only the limits follow the posture. *)
UpdatePosture_LimitsOnly(q) ==
  /\ Repostured(q, [eng EXCEPT !.limits = ModeLimits[ModeUnder(q)]])
  /\ UNCHANGED counters

(* update_posture: the mode the posture asks for replaces the mode, and the *)
(* table's limits replace the limits, whatever a pack had set.              *)
UpdatePosture(q) ==
  /\ Repostured(q, [eng EXCEPT !.mode = ModeUnder(q), !.limits = ModeLimits[ModeUnder(q)]])
  /\ UNCHANGED counters

-----------------------------------------------------------------------------
(* _distill_learnings: the daemon has no _limits of its own, so a pattern   *)
(* counts as failed from three attempts on.                                 *)
Learned ==
  [retried |-> {p \in Pattern : retries[p] >= 3},
   blocked |-> {actions[i].rule : i \in {j \in DOMAIN actions :
                                           actions[j].verdict = "block"}},
   creep   |-> 5 * Cardinality(files_modified) > 4 * eng.limits.max_files_modified,
   warned  |-> warnings_issued >= 5,
   asked   |-> escalation_count > 0]

(* Mutant: one action more is needed for a checkpoint. *)
WriteSessionCheckpoint_MoreThanThree ==
  written' =
    IF booted /\ action_count > 3
    THEN <<[trace |-> actions, mode |-> eng.mode, learned |-> Learned]>>
    ELSE <<>>

WriteSessionCheckpoint ==
  written' =
    IF booted /\ action_count >= 3
    THEN <<[trace |-> actions, mode |-> eng.mode, learned |-> Learned]>>
    ELSE <<>>

(* stop, sessionEnd, the idle timeout, and a signal that arrives between two
   requests end like this.  A signal in the middle of a handler, whose
   checkpoint has what the handler has done by then, is not modelled.      *)
Shutdown ==
  /\ alive
  /\ alive' = FALSE
  /\ WriteSessionCheckpoint
  /\ reply' = NoReply
  /\ UNCHANGED <<allVars, daemonVars, outside, sessions>>

(* A stop whose hook has given up: the checkpoint is written, sending the   *)
(* answer raises, and the loop goes on with the next connection.            *)
StopUnheard ==
  /\ alive
  /\ WriteSessionCheckpoint
  /\ reply' = NoReply
  /\ UNCHANGED <<allVars, daemonVars, outside, alive, sessions>>

(* The developer's git checkout; the daemon scans only at a sessionStart.   *)
Checkout ==
  /\ branch' = ~branch
  /\ UNCHANGED <<allVars, daemonVars, policy_file, alive, reply, sessions>>
  /\ written' = <<>>

DInit ==
  /\ eng = NoEngine /\ FreshSession /\ SessionInit
  /\ alive = TRUE /\ booted = FALSE
  /\ posture = "standard" /\ policy_name = NoName /\ applied = NoName
  /\ policy_file \in PolicyFiles
  /\ branch \in BOOLEAN
  /\ reply = NoReply /\ written = <<>> /\ sessions = 0

DNext ==
  \/ \E p \in Payloads : SessionStart(p)
  \/ \E a \in Action : HookEvent(a) \/ Check_Tool(a)
  \/ \E f \in File : AfterFileEdit(f)
  \/ \E q \in Posture : UpdatePosture(q)
  \/ Shutdown
  \/ StopUnheard
  \/ Checkout

DSpec == DInit /\ [][DNext]_vars

-----------------------------------------------------------------------------
DaemonTypeOK ==
  /\ SessionTypeOK
  /\ alive \in BOOLEAN /\ booted \in BOOLEAN /\ branch \in BOOLEAN
  /\ posture \in Posture
  /\ {policy_name, policy_file, applied} \subseteq DOMAIN Packs \union {NoName}
  /\ reply.permission \in {"allow", "deny", "ask"}
  /\ Len(written) <= 1

(* PatternCapped: within one session, whatever sequence of postures is asked
   for, a pattern gets through no more often than some mode or pack allows;
   a posture changes the limit, never the attempts already made
   (update_posture).  A new sessionStart starts a new count (initialize).  *)
RetryLimits ==
  {ModeLimits[m].max_retries : m \in RiskMode}
    \union {Packs[n].max_retries : n \in {k \in DOMAIN Packs : IsPack(k)}}
PatternCapped == \A p \in Pattern : \E c \in RetryLimits : passed[p] <= c

(* PostureEnforced: after any mix of session starts and posture updates the
   engine runs in the mode of the posture the daemon reports, unless a pack
   that sets a mode was applied, or the last start failed half-way, which
   shows in a policy name that is not the one applied.                     *)
PostureEnforced ==
  booted /\ PostureMode(posture) # NoName
    /\ (IF applied = NoName THEN policy_name = NoName
        ELSE policy_name = applied /\ Packs[applied].mode = NoName)
  => eng.mode = PostureMode(posture)

(* PackBlocksHold: what the pack applied at the start blocks stays denied
   until the next start, through every posture update.                     *)
PackBlocksHold ==
  booted /\ reply.to = "hook" /\ applied # NoName
    /\ reply.action \in Packs[applied].blocked_paths \union Packs[applied].blocked_tools
  => reply.permission = "deny"

(* ShutdownKeepsTrace: a daemon that ends in an orderly way after three
   actions or more leaves a checkpoint with the whole trace, and the rules
   that blocked in it are among what was learned.                          *)
ShutdownKeepsTrace ==
  [][alive /\ ~alive' /\ booted /\ action_count >= 3 =>
       /\ written' # <<>>
       /\ LET c == Head(written')
          IN  /\ c.trace = actions
              /\ Len(c.trace) = action_count
              /\ blocks_issued > 0 => c.learned.blocked # {}]_vars

(* CountersMatchTrace: in the daemon nothing resets a stage, so status and
   checkpoint report the same session whether they read the counters or the
   trace, also after a restart of the session.                             *)
CountersMatchTrace == stage = 0 /\ TraceMatchesEngine

-----------------------------------------------------------------------------
(* The next three say of the daemon what its documents say, and fail.      *)

(* PackLimitsHold: README.md:30, the thresholds of the active policy pack
   are the ones in force.                                                  *)
PackLimitsHold ==
  booted /\ applied # NoName /\ Packs[applied].max_retries # None =>
    eng.limits.max_retries <= Packs[applied].max_retries

(* SessionStateTellsMode: CHANGES.md:68, the standard posture uses the
   computed mode and session state tracks both: without a pack, and on the
   branch the session began on, the reported mode is the one in force.     *)
SessionStateTellsMode ==
  booted /\ applied = NoName /\ branch = eng.protected => eng.mode = ReportedMode

(* CheckEvaluates: mcp-server/server.py:282, viveka_check answers with the
   engine's evaluation of the action.                                      *)
CheckEvaluates ==
  [][booted /\ reply' # reply /\ reply'.to = "check" =>
       \A a \in {reply'.action} :
         reply'.permission = PermissionFor(Decide(a).verdict)]_vars

=============================================================================
