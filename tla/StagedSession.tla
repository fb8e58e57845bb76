---------------------------- MODULE StagedSession ----------------------------
(***************************************************************************)
(* Stage contracts and the governed toolkit (runtime/viveka/contracts.py)  *)
(* in front of a governed session, joined the way the usage note of        *)
(* GovernedToolkit asks for: a tool call is checked against the contract   *)
(* of its stage and, when that permits it, proposed to the session.        *)
(* Between the two the caller may check further calls, as parallel tool    *)
(* calls do.  The loop that starts stages, spends tokens and replans is    *)
(* the caller's and not in the repository; it may do any of this at any    *)
(* time, but it starts a stage only when no call of the last is under way. *)
(* Goals, scopes, reasons and the other texts of a contract are left out.  *)
(***************************************************************************)
EXTENDS GovernedSession

CONSTANTS
  Kind,        \* ToolName
  KindOf,      \* [Action -> Kind], the tool a call uses
  Contracts,   \* the stage contracts the caller may begin with
  MaxRefusals, \* bound on calls the contract refuses in a stage
  MaxReplans,  \* bound on replans recorded in a stage
  MaxSpend     \* tokens one call may cost

(* The fields of StageContract that check_stage reads. *)
Contract ==
  [allowed_tools : SUBSET Kind, budget_tokens : Nat, max_tool_calls : Nat]

ASSUME StageAssumption ==
  /\ KindOf \in [Action -> Kind]
  /\ Contracts \subseteq Contract
  /\ {MaxRefusals, MaxReplans, MaxSpend} \subseteq Nat

VARIABLES
  contract,
  tool_calls_made,
  tokens_used,
  blocks_in_stage,
  replan_count,
  events,      \* the calls whose BLOCK events were not drained yet
  taken,       \* events the caller drained in this stage, a history variable
  refusals,    \* calls refused in this stage, in order, a history variable
  checked,     \* calls permitted here and not proposed yet
  begun,       \* length of the trace when the stage began, a history variable
  width        \* most calls of the stage under way at once, a history variable

contractVars == <<contract, tool_calls_made, tokens_used, blocks_in_stage, replan_count>>
toolkitVars  == <<events, taken, refusals>>
callerVars   == <<checked, begun, width>>
stagedVars   == <<allVars, contractVars, toolkitVars, callerVars>>

-----------------------------------------------------------------------------
IsToolAllowed(a) == KindOf[a] \in contract.allowed_tools
ToolLimitReached == tool_calls_made >= contract.max_tool_calls

(* Mutant: the last token of the budget may be overrun by a further call.  *)
BudgetExhausted_Beyond == tokens_used > contract.budget_tokens

BudgetExhausted  == tokens_used >= contract.budget_tokens

Refuse(a) ==
  /\ Len(refusals) < MaxRefusals
  /\ blocks_in_stage' = blocks_in_stage + 1
  /\ events' = Append(events, a)
  /\ refusals' = Append(refusals, a)
  /\ UNCHANGED <<tool_calls_made, checked>>

(* Mutant: the counter is left to the caller, as before version 3.0. *)
Grant_Uncounted(a) ==
  /\ checked' = checked \union {a}
  /\ UNCHANGED <<tool_calls_made, blocks_in_stage, events, refusals>>

Grant(a) ==
  /\ tool_calls_made' = tool_calls_made + 1
  /\ checked' = checked \union {a}
  /\ UNCHANGED <<blocks_in_stage, events, refusals>>

(* The calls permitted and not proposed yet, and those carried out. *)
UnderWay(calls, run) ==
  Cardinality(calls) + Cardinality(UNION {{a} \X (1..run[a]) : a \in Action})

(* Mutant: the toolkit asks the engine as well, as before version 3.0. *)
CheckStage_DoubleGate(a) ==
  /\ a \notin checked
  /\ ~(ToolLimitReached \/ BudgetExhausted) /\ IsToolAllowed(a)
  /\ Evaluate(a) /\ Grant(a)
  /\ width' = width
  /\ UNCHANGED <<sessionVars, contract, tokens_used, replan_count, taken, begun>>

(* check_stage *)
CheckStage(a) ==
  /\ a \notin checked
  /\ IF ~IsToolAllowed(a) \/ ToolLimitReached \/ BudgetExhausted
     THEN Refuse(a) ELSE Grant(a)
  /\ LET n == UnderWay(checked', running) IN width' = IF n > width THEN n ELSE width
  /\ UNCHANGED <<allVars, contract, tokens_used, replan_count, taken, begun>>

DrainEvents ==
  /\ taken' = taken \o events
  /\ events' = <<>>
  /\ UNCHANGED <<allVars, contractVars, refusals, callerVars>>

(* record_replan: needs_replan and can_replan are the caller's to read, it
   tests neither.                                                          *)
RecordReplan ==
  /\ replan_count < MaxReplans
  /\ replan_count' = replan_count + 1
  /\ blocks_in_stage' = 0
  /\ UNCHANGED <<allVars, contract, tool_calls_made, tokens_used, toolkitVars, callerVars>>

-----------------------------------------------------------------------------
(* session.propose for a call the contract permitted. *)
ProposeChecked(a) ==
  /\ a \in checked
  /\ Ask(a)
  /\ checked' = checked \ {a}
  /\ UNCHANGED <<contractVars, toolkitVars, begun, width>>

(* The call returns, or fails; either way it has cost tokens. *)
Return(a, n) ==
  /\ Finish(a) \/ Abandon(a)
  /\ tokens_used' = tokens_used + n
  /\ UNCHANGED <<contract, tool_calls_made, blocks_in_stage, replan_count,
                 toolkitVars, callerVars>>

(* A new contract and reset_stage_counters: what a stage counts restarts. *)
FreshStage(c) ==
  /\ checked = {} /\ running = Idle
  /\ ResetStageCounters
  /\ contract' = c
  /\ tool_calls_made' = 0 /\ tokens_used' = 0
  /\ blocks_in_stage' = 0 /\ replan_count' = 0
  /\ taken' = <<>> /\ refusals' = <<>>
  /\ begun' = Len(actions) /\ width' = 0
  /\ UNCHANGED <<sessionVars, checked>>

(* Mutant: the toolkit is carried over to the new stage as it is. *)
BeginStage_KeepsEvents(c) ==
  /\ FreshStage(c)
  /\ events' = events

(* With reset_for_stage: events nobody drained are cleared, seen by nobody. *)
BeginStage(c) ==
  /\ FreshStage(c)
  /\ events' = <<>>

StagedInit ==
  /\ SInit
  /\ contract \in Contracts
  /\ tool_calls_made = 0 /\ tokens_used = 0 /\ blocks_in_stage = 0 /\ replan_count = 0
  /\ events = <<>> /\ taken = <<>> /\ refusals = <<>>
  /\ checked = {} /\ begun = 0 /\ width = 0

StagedNext ==
  \/ \E a \in Action : CheckStage(a) \/ ProposeChecked(a)
  \/ \E a \in Action : \E n \in 0..MaxSpend : Return(a, n)
  \/ \E c \in Contracts : BeginStage(c)
  \/ DrainEvents
  \/ RecordReplan

StagedSpec == StagedInit /\ [][StagedNext]_stagedVars

-----------------------------------------------------------------------------
StagedTypeOK ==
  /\ SessionTypeOK
  /\ contract \in Contracts
  /\ {tool_calls_made, tokens_used, blocks_in_stage, replan_count,
      begun, width} \subseteq Nat
  /\ {events, taken, refusals} \subseteq Seq(Action)
  /\ checked \subseteq Action

(* StageBoundsSession: with checks and proposals interleaved, refused ones
   among them, the engine is asked exactly as often as the stage counts, so
   max_tool_calls bounds what a stage puts to the session; neither a replan
   nor a drain gives a stage calls back (check_stage, record_replan).      *)
StageBoundsSession ==
  /\ Len(actions) - begun + Cardinality(checked) = tool_calls_made
  /\ tool_calls_made <= contract.max_tool_calls

(* BudgetOverrun: the budget is read before a call and charged after it, so
   a stage may overrun it, but by no more than the calls under way at once
   can cost; one call at a time overruns it by one call (budget_exhausted).*)
BudgetOverrun ==
  tokens_used > 0 => tokens_used < contract.budget_tokens + MaxSpend * width

(* RefusalsReportedOnce: while a stage lasts, each call it refuses is handed
   to whoever drains the events once and in the order of the refusals,
   however drains, replans and parallel calls interleave; no event of an
   earlier stage is among them, and the blocks the contract counts are the
   refusals since the last replan (_emit, drain_events, record_replan).
   What was not drained when the next stage begins is never reported:
   reset_for_stage clears it.                                              *)
RefusalsReportedOnce ==
  /\ taken \o events = refusals
  /\ blocks_in_stage <= Len(refusals)
  /\ replan_count = 0 => blocks_in_stage = Len(refusals)

(* ComposesWithSession: contracts.py:237, the toolkit leaves the engine to
   the caller and composes with any evaluation path: what a session goes
   through under contracts is what a session may go through without.       *)
ComposesWithSession == SSpec

=============================================================================
