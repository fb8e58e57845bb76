----------------------------- MODULE StagedProofs -----------------------------
(***************************************************************************)
(* Proofs about stage contracts in front of a session, for every set of    *)
(* contracts and every bound.                                              *)
(***************************************************************************)
EXTENDS StagedSession, SessionProofs

(* Every step under a contract is one of the session's or leaves it alone. *)
LEMMA StagedStepOfSession == [StagedNext]_stagedVars => [SNext]_allVars
<1> SUFFICES ASSUME [StagedNext]_stagedVars PROVE [SNext]_allVars
  OBVIOUS
<1>1. ASSUME NEW a \in Action, CheckStage(a) PROVE UNCHANGED allVars
  BY <1>1 DEF CheckStage
<1>2. ASSUME NEW a \in Action, ProposeChecked(a) PROVE SNext
  BY <1>2 DEF ProposeChecked, SNext
<1>3. ASSUME NEW a \in Action, NEW n \in 0..MaxSpend, Return(a, n) PROVE SNext
  BY <1>3 DEF Return, SNext
<1>4. ASSUME NEW c \in Contracts, BeginStage(c) PROVE SNext
  BY <1>4 DEF BeginStage, FreshStage, SNext, Engine
<1>5. CASE DrainEvents \/ RecordReplan
  BY <1>5 DEF DrainEvents, RecordReplan
<1>6. CASE UNCHANGED stagedVars
  BY <1>6 DEF stagedVars
<1> QED
  BY <1>1, <1>2, <1>3, <1>4, <1>5, <1>6 DEF StagedNext

(* A session under contracts is a session: the gate takes nothing from the
   engine and asks it nothing.                                             *)
THEOREM StagedIsSession == StagedSpec => ComposesWithSession
<1>1. StagedInit => SInit
  BY DEF StagedInit
<1> QED
  BY <1>1, StagedStepOfSession, PTL DEF StagedSpec, ComposesWithSession, SSpec

(* So under contracts, too, the trace is never rewritten. *)
THEOREM StagedTraceKept == StagedSpec => TraceIsHistory
BY StagedIsSession, TraceKept DEF ComposesWithSession

(* And no text is marked as completed more often than it was let through. *)
THEOREM StagedCompletionsEarned == StagedSpec => []CompletionsEarned
BY StagedIsSession, CompletionsAreEarned DEF ComposesWithSession

(* Nor do trace and counters part. *)
THEOREM StagedTraceMatches == StagedSpec => []TraceMatchesEngine
BY StagedIsSession, TraceMatches DEF ComposesWithSession

(* Nor is a refused call marked while calls are made one at a time. *)
THEOREM StagedCompletedHadProceeded == StagedSpec => []CompletedProceeded
BY StagedIsSession, CompletedHadProceeded DEF ComposesWithSession

(* The inductive invariant: what the contract counts is what the session was
   asked and what is on its way to it, and the refusals of the stage are the
   events drained in it and those still queued.                            *)
StageInv ==
  /\ SessionTypeOK
  /\ contract \in Contracts
  /\ {tool_calls_made, blocks_in_stage, replan_count, begun} \subseteq Nat
  /\ {events, taken, refusals} \subseteq Seq(Action)
  /\ checked \subseteq Action /\ IsFiniteSet(checked)
  /\ StageBoundsSession
  /\ RefusalsReportedOnce

(* A contract's limit of tool calls can be counted up to. *)
LEMMA LimitIsNatural ==
  ASSUME NEW c \in Contracts
  PROVE  c.max_tool_calls \in Nat
BY StageAssumption DEF Contract

(* The first stage starts with nothing counted and nothing refused. *)
LEMMA InitStageInv == StagedInit => StageInv
<1> SUFFICES ASSUME StagedInit PROVE StageInv
  OBVIOUS
<1>1. SessionTypeOK /\ actions = <<>>
  BY InitSessionTypeOK DEF StagedInit, SInit, SessionInit
<1>2. /\ tool_calls_made = 0 /\ blocks_in_stage = 0
      /\ events = <<>> /\ taken = <<>> /\ refusals = <<>>
      /\ checked = {} /\ begun = 0 /\ replan_count = 0
      /\ contract \in Contracts
  BY DEF StagedInit
<1>3. /\ {events, taken, refusals} \subseteq Seq(Action)
      /\ taken \o events = refusals /\ Len(refusals) = 0 /\ Len(actions) = 0
  BY <1>1, <1>2
<1>4. IsFiniteSet(checked) /\ Cardinality(checked) = 0
  BY <1>2, FS_EmptySet
<1>5. StageBoundsSession
  BY <1>2, <1>3, <1>4, LimitIsNatural DEF StageBoundsSession
<1>6. RefusalsReportedOnce
  BY <1>2, <1>3 DEF RefusalsReportedOnce
<1> QED
  BY <1>1, <1>2, <1>3, <1>4, <1>5, <1>6 DEF StageInv

(* A completion leaves the trace as long as it is. *)
LEMMA CompletionKeepsLength ==
  ASSUME NEW a \in Action, actions \in Seq(SessionAction), RecordCompletion(a)
  PROVE  Len(actions') = Len(actions)
<1>1. ASSUME NEW i \in OpenRecords(a), actions' = [actions EXCEPT ![i].completed = TRUE]
      PROVE  Len(actions') = Len(actions)
  BY <1>1 DEF OpenRecords
<1>2. \/ actions' = actions
      \/ \E i \in OpenRecords(a) : actions' = [actions EXCEPT ![i].completed = TRUE]
  BY CompletesOne
<1> QED
  BY <1>1, <1>2

(* One refusal more, queued, is one more at the end of both accounts. *)
LEMMA QueueRefusal ==
  ASSUME NEW seen \in Seq(Action), NEW queue \in Seq(Action), NEW a \in Action
  PROVE  /\ Append(queue, a) \in Seq(Action)
         /\ seen \o Append(queue, a) = Append(seen \o queue, a)
         /\ Len(Append(queue, a)) = Len(queue) + 1 /\ Len(queue) \in Nat
OBVIOUS

(* What is drained moves from the queue to the end of what was seen. *)
LEMMA DrainQueue ==
  ASSUME NEW seen \in Seq(Action), NEW queue \in Seq(Action)
  PROVE  /\ seen \o queue \in Seq(Action)
         /\ (seen \o queue) \o <<>> = seen \o queue
OBVIOUS

(* check_stage refuses and queues, or grants and counts. *)
LEMMA CheckStageKeeps ==
  ASSUME StageInv, NEW a \in Action, CheckStage(a)
  PROVE  StageInv'
<1> USE DEF StageInv
<1>1. /\ a \notin checked
      /\ actions' = actions /\ contract' = contract /\ taken' = taken /\ begun' = begun
      /\ replan_count' = replan_count
      /\ SessionTypeOK'
  <2>1. UNCHANGED allVars
    BY DEF CheckStage
  <2>2. SessionTypeOK'
    BY <2>1, SessionTypeStep
  <2> QED
    BY <2>1, <2>2 DEF CheckStage, allVars, sessionVars
<1>2. /\ contract.max_tool_calls \in Nat /\ Len(actions) \in Nat
      /\ Cardinality(checked) \in Nat
  BY LimitIsNatural, FS_CardinalityType
<1>3. CASE Refuse(a)
  <2>1. /\ tool_calls_made' = tool_calls_made /\ checked' = checked
        /\ blocks_in_stage' = blocks_in_stage + 1
        /\ refusals' = Append(refusals, a) /\ events' = Append(events, a)
    BY <1>3 DEF Refuse
  <2>2. StageBoundsSession'
    BY <1>1, <2>1 DEF StageBoundsSession
  <2>3. /\ events' \in Seq(Action) /\ refusals' \in Seq(Action)
        /\ taken \o events' = Append(taken \o events, a)
        /\ Len(refusals') = Len(refusals) + 1 /\ Len(refusals) \in Nat
    BY <2>1, QueueRefusal
  <2>4. RefusalsReportedOnce'
    BY <1>1, <2>1, <2>3 DEF RefusalsReportedOnce
  <2> QED
    BY <1>1, <2>1, <2>2, <2>3, <2>4
<1>4. CASE Grant(a) /\ ~ToolLimitReached
  <2>1. /\ tool_calls_made' = tool_calls_made + 1 /\ checked' = checked \union {a}
        /\ blocks_in_stage' = blocks_in_stage /\ refusals' = refusals
        /\ events' = events
        /\ tool_calls_made < contract.max_tool_calls
    BY <1>2, <1>4 DEF Grant, ToolLimitReached
  <2>2. IsFiniteSet(checked') /\ Cardinality(checked') = Cardinality(checked) + 1
    BY <1>1, <2>1, FS_AddElement
  <2>3. StageBoundsSession'
    <3>1. /\ Len(actions) - begun + Cardinality(checked) = tool_calls_made
          /\ tool_calls_made \in Nat /\ begun \in Nat
      BY DEF StageBoundsSession
    <3>2. Len(actions) - begun + Cardinality(checked') = tool_calls_made + 1
      BY <1>2, <2>2, <3>1
    <3>3. tool_calls_made + 1 <= contract.max_tool_calls
      BY <1>2, <2>1, <3>1
    <3> QED
      BY <1>1, <2>1, <3>2, <3>3 DEF StageBoundsSession
  <2>4. RefusalsReportedOnce'
    BY <1>1, <2>1 DEF RefusalsReportedOnce
  <2> QED
    BY <1>1, <2>1, <2>2, <2>3, <2>4
<1> QED
  BY <1>3, <1>4 DEF CheckStage

(* A call permitted by the contract reaches the session. *)
LEMMA ProposeCheckedKeeps ==
  ASSUME StageInv, NEW a \in Action, ProposeChecked(a)
  PROVE  StageInv'
<1> USE DEF StageInv
<1>1. /\ a \in checked /\ Ask(a) /\ checked' = checked \ {a}
      /\ contract' = contract /\ taken' = taken /\ begun' = begun
      /\ tool_calls_made' = tool_calls_made /\ blocks_in_stage' = blocks_in_stage
      /\ refusals' = refusals /\ events' = events /\ replan_count' = replan_count
  BY DEF ProposeChecked, contractVars, toolkitVars
<1>2. SessionTypeOK'
  BY <1>1, SessionTypeStep DEF SNext
<1>3. Len(actions') = Len(actions) + 1 /\ Len(actions) \in Nat
  <2>1. PICK r \in SessionAction : actions' = Append(actions, r)
    BY <1>1, AskAppends
  <2>2. actions \in Seq(SessionAction)
    BY DEF SessionTypeOK
  <2> QED
    BY <2>1, <2>2
<1>4. /\ IsFiniteSet(checked') /\ Cardinality(checked') = Cardinality(checked) - 1
      /\ Cardinality(checked) \in Nat
  BY <1>1, FS_RemoveElement, FS_CardinalityType
<1>5. StageBoundsSession'
  BY <1>1, <1>3, <1>4 DEF StageBoundsSession
<1>6. RefusalsReportedOnce'
  BY <1>1 DEF RefusalsReportedOnce
<1> QED
  BY <1>1, <1>2, <1>4, <1>5, <1>6

(* A call that returns, reported or not, adds nothing to the trace. *)
LEMMA ReturnKeeps ==
  ASSUME StageInv, NEW a \in Action, NEW n \in 0..MaxSpend, Return(a, n)
  PROVE  StageInv'
<1> USE DEF StageInv
<1>1. /\ checked' = checked
      /\ contract' = contract /\ taken' = taken /\ begun' = begun
      /\ tool_calls_made' = tool_calls_made /\ blocks_in_stage' = blocks_in_stage
      /\ refusals' = refusals /\ events' = events /\ replan_count' = replan_count
  BY DEF Return, toolkitVars, callerVars
<1>2. SessionTypeOK'
  BY SessionTypeStep DEF Return, SNext
<1>3. Len(actions') = Len(actions)
  <2>1. actions \in Seq(SessionAction)
    BY DEF SessionTypeOK
  <2>2. CASE Finish(a)
    BY <2>1, <2>2, CompletionKeepsLength DEF Finish
  <2>3. CASE Abandon(a)
    BY <2>3 DEF Abandon
  <2> QED
    BY <2>2, <2>3 DEF Return
<1>4. StageBoundsSession' /\ RefusalsReportedOnce'
  BY <1>1, <1>3 DEF StageBoundsSession, RefusalsReportedOnce
<1> QED
  BY <1>1, <1>2, <1>4

(* A new stage counts from where the trace stands. *)
LEMMA BeginStageKeeps ==
  ASSUME StageInv, NEW c \in Contracts, BeginStage(c)
  PROVE  StageInv'
<1> USE DEF StageInv
<1>1. /\ checked = {} /\ checked' = {} /\ contract' = c
      /\ tool_calls_made' = 0 /\ blocks_in_stage' = 0
      /\ taken' = <<>> /\ events' = <<>> /\ refusals' = <<>>
      /\ begun' = Len(actions) /\ actions' = actions /\ replan_count' = 0
  BY DEF BeginStage, FreshStage, sessionVars
<1>2. SessionTypeOK'
  BY SessionTypeStep DEF BeginStage, FreshStage, SNext, Engine
<1>3. /\ Len(actions) \in Nat
      /\ {events', taken', refusals'} \subseteq Seq(Action)
      /\ taken' \o events' = refusals' /\ Len(refusals') = 0
  BY <1>1 DEF SessionTypeOK
<1>4. Cardinality(checked') = 0 /\ IsFiniteSet(checked')
  BY <1>1, FS_EmptySet
<1>5. StageBoundsSession'
  BY <1>1, <1>3, <1>4, LimitIsNatural DEF StageBoundsSession
<1>6. RefusalsReportedOnce'
  BY <1>1, <1>3 DEF RefusalsReportedOnce
<1> QED
  BY <1>1, <1>2, <1>3, <1>4, <1>5, <1>6

(* Every step under a contract keeps the stage's bookkeeping. *)
LEMMA StageStep == StageInv /\ [StagedNext]_stagedVars => StageInv'
<1> SUFFICES ASSUME StageInv, [StagedNext]_stagedVars PROVE StageInv'
  OBVIOUS
<1>1. ASSUME DrainEvents PROVE StageInv'
  <2>1. /\ UNCHANGED allVars /\ UNCHANGED contractVars /\ UNCHANGED callerVars
        /\ taken' = taken \o events /\ events' = <<>> /\ refusals' = refusals
    BY <1>1 DEF DrainEvents
  <2>2. SessionTypeOK' /\ actions' = actions
    BY <2>1, SessionTypeStep DEF StageInv, allVars, sessionVars
  <2>3. /\ taken' \in Seq(Action) /\ events' \in Seq(Action)
        /\ taken' \o events' = taken \o events
    BY <2>1, DrainQueue DEF StageInv
  <2>4. RefusalsReportedOnce' /\ StageBoundsSession'
    BY <2>1, <2>2, <2>3 DEF StageInv, RefusalsReportedOnce, StageBoundsSession, contractVars, callerVars
  <2> QED
    BY <2>1, <2>2, <2>3, <2>4 DEF StageInv, contractVars, callerVars
<1>2. ASSUME RecordReplan PROVE StageInv'
  <2>1. /\ UNCHANGED <<allVars, contract, tool_calls_made, toolkitVars, callerVars>>
        /\ blocks_in_stage' = 0 /\ replan_count' = replan_count + 1
    BY <1>2 DEF RecordReplan
  <2>2. SessionTypeOK' /\ actions' = actions
    BY <2>1, SessionTypeStep DEF StageInv, allVars, sessionVars
  <2>3. RefusalsReportedOnce' /\ StageBoundsSession'
    BY <2>1, <2>2 DEF StageInv, RefusalsReportedOnce, StageBoundsSession, toolkitVars, callerVars
  <2> QED
    BY <2>1, <2>2, <2>3 DEF StageInv, toolkitVars, callerVars
<1>3. ASSUME UNCHANGED stagedVars PROVE StageInv'
  <2>1. UNCHANGED <<allVars, contractVars, toolkitVars, callerVars>>
    BY <1>3 DEF stagedVars
  <2>2. SessionTypeOK' /\ actions' = actions
    BY <2>1, SessionTypeStep DEF StageInv, allVars, sessionVars
  <2> QED
    BY <2>1, <2>2 DEF StageInv, RefusalsReportedOnce, StageBoundsSession, contractVars, toolkitVars, callerVars
<1> QED
  BY <1>1, <1>2, <1>3, CheckStageKeeps, ProposeCheckedKeeps, ReturnKeeps, BeginStageKeeps
     DEF StagedNext

(* However checks, proposals and completions of parallel calls interleave, a
   stage puts to the session what its contract has counted, and no more than
   its limit of tool calls.                                                *)
THEOREM StageBounded == StagedSpec => []StageBoundsSession
<1>1. StageInv => StageBoundsSession
  BY DEF StageInv
<1> QED
  BY <1>1, InitStageInv, StageStep, PTL DEF StagedSpec

(* While a stage lasts, each of its refusals is drained once and in order,
   and no event of an earlier stage is; the block counter is what was
   refused since the last replan.                                          *)
THEOREM RefusalsReported == StagedSpec => []RefusalsReportedOnce
<1>1. StageInv => RefusalsReportedOnce
  BY DEF StageInv
<1> QED
  BY <1>1, InitStageInv, StageStep, PTL DEF StagedSpec

-----------------------------------------------------------------------------
(* The budget of a stage.  What is under way may still cost MaxSpend each,
   so the invariant charges it in advance.                                 *)
Calls(run)   == UNION {{a} \X (1..run[a]) : a \in Action}
Outstanding  == UnderWay(checked, running)

BudgetInv ==
  /\ StageInv
  /\ tokens_used \in Nat /\ width \in Nat
  /\ IsFiniteSet(Calls(running))
  /\ Outstanding > 0 \/ tokens_used > 0 =>
       tokens_used + MaxSpend * Outstanding < contract.budget_tokens + MaxSpend * width

(* What is outstanding can be counted. *)
LEMMA OutstandingIsNatural ==
  ASSUME NEW calls, IsFiniteSet(calls), NEW run, IsFiniteSet(Calls(run))
  PROVE  /\ UnderWay(calls, run) = Cardinality(calls) + Cardinality(Calls(run))
         /\ Cardinality(calls) \in Nat /\ Cardinality(Calls(run)) \in Nat
         /\ UnderWay(calls, run) \in Nat
BY FS_CardinalityType DEF UnderWay, Calls

(* One call more of a text is one member more. *)
LEMMA CallStarted ==
  ASSUME NEW run \in [Action -> Nat], NEW a \in Action, IsFiniteSet(Calls(run))
  PROVE  LET more == Calls([run EXCEPT ![a] = @ + 1])
         IN  IsFiniteSet(more) /\ Cardinality(more) = Cardinality(Calls(run)) + 1
<1> DEFINE new  == [run EXCEPT ![a] = @ + 1]
           call == <<a, run[a] + 1>>
<1>1. call \notin Calls(run)
  BY DEF Calls
<1>2. Calls(new) = Calls(run) \union {call}
  <2>1. 1..new[a] = (1..run[a]) \union {run[a] + 1}
    OBVIOUS
  <2>2. \A b \in Action : b # a => new[b] = run[b]
    OBVIOUS
  <2>3. ASSUME NEW c PROVE c \in Calls(new) <=> c \in Calls(run) \union {call}
    BY <2>1, <2>2 DEF Calls
  <2> QED
    BY <2>3
<1>3. IsFiniteSet(Calls(new)) /\ Cardinality(Calls(new)) = Cardinality(Calls(run)) + 1
  <2> HIDE DEF call, new
  <2> QED
    BY <1>1, <1>2, FS_AddElement
<1> QED
  BY <1>3

(* And one that ended is one less. *)
LEMMA CallEnded ==
  ASSUME NEW run \in [Action -> Nat], NEW a \in Action, run[a] > 0, IsFiniteSet(Calls(run))
  PROVE  LET less == Calls([run EXCEPT ![a] = @ - 1])
         IN  IsFiniteSet(less) /\ Cardinality(less) = Cardinality(Calls(run)) - 1
<1> DEFINE new  == [run EXCEPT ![a] = @ - 1]
           call == <<a, run[a]>>
<1>1. call \in Calls(run)
  BY DEF Calls
<1>2. Calls(new) = Calls(run) \ {call}
  <2>1. 1..new[a] = (1..run[a]) \ {run[a]}
    OBVIOUS
  <2>2. \A b \in Action : b # a => new[b] = run[b]
    OBVIOUS
  <2>3. ASSUME NEW c PROVE c \in Calls(new) <=> c \in Calls(run) \ {call}
    BY <2>1, <2>2 DEF Calls
  <2> QED
    BY <2>3
<1> HIDE DEF call
<1> QED
  BY <1>1, <1>2, FS_RemoveElement

(* Fewer calls can cost no more. *)
LEMMA CostGrows ==
  ASSUME NEW m \in Nat, NEW n \in Nat, m <= n
  PROVE  MaxSpend * m <= MaxSpend * n /\ MaxSpend * m \in Nat /\ MaxSpend * n \in Nat
<1>1. MaxSpend \in Nat /\ n - m \in Nat /\ n = m + (n - m)
  BY StageAssumption
<1>2. MaxSpend * (n - m) \in Nat /\ MaxSpend * n = MaxSpend * m + MaxSpend * (n - m)
  BY <1>1
<1> QED
  BY <1>1, <1>2

(* A call is granted while the budget lasts, and its cost is charged ahead. *)
LEMMA CheckStageCharges ==
  ASSUME BudgetInv, StageInv', NEW a \in Action, CheckStage(a)
  PROVE  BudgetInv'
<1>1. /\ a \notin checked /\ UNCHANGED <<allVars, contract, tokens_used>>
      /\ width' = IF Outstanding' > width THEN Outstanding' ELSE width
  <2>1. a \notin checked /\ UNCHANGED <<allVars, contract, tokens_used>>
    BY DEF CheckStage
  <2>2. UnderWay(checked', running) = Outstanding'
    BY <2>1 DEF Outstanding, UnderWay, allVars, sessionVars
  <2>3. width' = IF UnderWay(checked', running) > width
                 THEN UnderWay(checked', running) ELSE width
    BY DEF CheckStage
  <2> QED
    BY <2>1, <2>2, <2>3
<1>2. running' = running /\ IsFiniteSet(Calls(running)) /\ IsFiniteSet(checked) /\ IsFiniteSet(checked')
  BY <1>1 DEF allVars, sessionVars, BudgetInv, StageInv
<1>3. /\ Outstanding \in Nat /\ Outstanding' \in Nat /\ width \in Nat
      /\ tokens_used \in Nat /\ contract.budget_tokens \in Nat
  BY <1>2, OutstandingIsNatural, StageAssumption DEF Outstanding, BudgetInv, StageInv, Contract
<1>4. width' \in Nat /\ width <= width' /\ Outstanding' <= width'
  BY <1>1, <1>3
<1>5. MaxSpend * width <= MaxSpend * width' /\ MaxSpend * Outstanding' <= MaxSpend * width'
      /\ MaxSpend * width \in Nat /\ MaxSpend * width' \in Nat
      /\ MaxSpend * Outstanding' \in Nat
  BY <1>3, <1>4, CostGrows
<1>6. CASE Refuse(a)
  <2>1. Outstanding' = Outstanding
    BY <1>2, <1>6 DEF Refuse, Outstanding
  <2> QED
    BY <1>1, <1>2, <1>3, <1>4, <1>5, <2>1 DEF BudgetInv
<1>7. CASE ~BudgetExhausted
  <2>1. tokens_used < contract.budget_tokens
    BY <1>3, <1>7 DEF BudgetExhausted
  <2>2. tokens_used + MaxSpend * Outstanding' < contract.budget_tokens + MaxSpend * width'
    BY <1>3, <1>5, <2>1
  <2> QED
    BY <1>1, <1>2, <1>4, <2>2 DEF BudgetInv
<1> QED
  BY <1>6, <1>7 DEF CheckStage

(* A proposal leaves at most as many calls under way. *)
LEMMA ProposeCheckedCharges ==
  ASSUME BudgetInv, StageInv', NEW a \in Action, ProposeChecked(a)
  PROVE  BudgetInv'
<1>1. /\ a \in checked /\ checked' = checked \ {a}
      /\ running' \in {running, [running EXCEPT ![a] = @ + 1]}
      /\ UNCHANGED <<contract, tokens_used, width>>
  BY DEF ProposeChecked, Ask, contractVars
<1>2. /\ running \in [Action -> Nat] /\ IsFiniteSet(Calls(running)) /\ IsFiniteSet(checked)
      /\ width \in Nat /\ tokens_used \in Nat /\ contract.budget_tokens \in Nat
  BY StageAssumption DEF BudgetInv, StageInv, SessionTypeOK, Contract
<1>3. IsFiniteSet(checked') /\ Cardinality(checked') = Cardinality(checked) - 1
  BY <1>1, <1>2, FS_RemoveElement
<1>4. IsFiniteSet(Calls(running'))
      /\ Cardinality(Calls(running')) \in {Cardinality(Calls(running)), Cardinality(Calls(running)) + 1}
  BY <1>1, <1>2, CallStarted
<1>5. Outstanding \in Nat /\ Outstanding' \in Nat /\ Outstanding' <= Outstanding /\ Outstanding > 0
  <2>1. /\ Outstanding = Cardinality(checked) + Cardinality(Calls(running))
        /\ Cardinality(checked) \in Nat /\ Cardinality(Calls(running)) \in Nat
    BY <1>2, OutstandingIsNatural DEF Outstanding
  <2>2. /\ Outstanding' = Cardinality(checked') + Cardinality(Calls(running'))
        /\ Cardinality(checked') \in Nat /\ Cardinality(Calls(running')) \in Nat
    BY <1>3, <1>4, OutstandingIsNatural DEF Outstanding
  <2> QED
    BY <1>3, <1>4, <2>1, <2>2
<1>6. tokens_used + MaxSpend * Outstanding < contract.budget_tokens + MaxSpend * width
  BY <1>5 DEF BudgetInv
<1>7. /\ MaxSpend * Outstanding' <= MaxSpend * Outstanding
      /\ MaxSpend * Outstanding' \in Nat /\ MaxSpend * Outstanding \in Nat
      /\ MaxSpend * width \in Nat
  BY <1>2, <1>5, CostGrows
<1>8. tokens_used + MaxSpend * Outstanding' < contract.budget_tokens + MaxSpend * width
  BY <1>2, <1>6, <1>7
<1> QED
  BY <1>1, <1>2, <1>4, <1>8 DEF BudgetInv

(* What a call that returns has cost was charged when it was granted. *)
LEMMA ReturnCharges ==
  ASSUME BudgetInv, StageInv', NEW a \in Action, NEW n \in 0..MaxSpend, Return(a, n)
  PROVE  BudgetInv'
<1>1. /\ checked' = checked /\ running[a] > 0
      /\ running' = [running EXCEPT ![a] = @ - 1]
      /\ tokens_used' = tokens_used + n
      /\ UNCHANGED <<contract, width>>
  BY DEF Return, Finish, Abandon, callerVars
<1>2. /\ running \in [Action -> Nat] /\ IsFiniteSet(Calls(running)) /\ IsFiniteSet(checked)
      /\ width \in Nat /\ tokens_used \in Nat /\ contract.budget_tokens \in Nat
      /\ MaxSpend \in Nat /\ n \in Nat /\ n <= MaxSpend
  <2>1. /\ running \in [Action -> Nat] /\ IsFiniteSet(Calls(running)) /\ IsFiniteSet(checked)
        /\ width \in Nat /\ tokens_used \in Nat /\ contract.budget_tokens \in Nat
    BY StageAssumption DEF BudgetInv, StageInv, SessionTypeOK, Contract
  <2>2. MaxSpend \in Nat
    BY StageAssumption
  <2> QED
    BY <2>1, <2>2
<1>3. IsFiniteSet(Calls(running')) /\ Cardinality(Calls(running')) = Cardinality(Calls(running)) - 1
  BY <1>1, <1>2, CallEnded
<1>4. /\ Outstanding \in Nat /\ Outstanding' \in Nat /\ Outstanding = Outstanding' + 1
      /\ Outstanding > 0 /\ Outstanding' <= Outstanding
  <2>1. /\ Outstanding = Cardinality(checked) + Cardinality(Calls(running))
        /\ Cardinality(checked) \in Nat /\ Cardinality(Calls(running)) \in Nat
    BY <1>2, OutstandingIsNatural DEF Outstanding
  <2>2. /\ Outstanding' = Cardinality(checked) + Cardinality(Calls(running'))
        /\ Cardinality(Calls(running')) \in Nat
    BY <1>1, <1>2, <1>3, OutstandingIsNatural DEF Outstanding
  <2> QED
    BY <1>3, <2>1, <2>2
<1>5. tokens_used + MaxSpend * Outstanding < contract.budget_tokens + MaxSpend * width
  BY <1>4 DEF BudgetInv
<1>6. MaxSpend * Outstanding = MaxSpend * Outstanding' + MaxSpend
  BY <1>2, <1>4
<1>7. /\ MaxSpend * Outstanding' \in Nat /\ MaxSpend * Outstanding \in Nat
      /\ MaxSpend * width \in Nat
  <2>1. width <= width
    BY <1>2
  <2> QED
    BY <1>2, <1>4, <2>1, CostGrows
<1>8. tokens_used' + MaxSpend * Outstanding' < contract.budget_tokens + MaxSpend * width
  BY <1>1, <1>2, <1>5, <1>6, <1>7
<1> QED
  BY <1>1, <1>2, <1>3, <1>8 DEF BudgetInv

(* With nothing under way and nothing spent there is nothing to charge. *)
LEMMA NothingOutstanding ==
  ASSUME running = Idle, checked = {}
  PROVE  IsFiniteSet(Calls(running)) /\ Outstanding = 0
<1>1. Calls(running) = {}
  BY DEF Calls, Idle
<1> QED
  BY <1>1, FS_EmptySet DEF Outstanding, UnderWay, Calls

(* Every step under a contract keeps the charges within the budget. *)
LEMMA BudgetStep == BudgetInv /\ [StagedNext]_stagedVars => BudgetInv'
<1> SUFFICES ASSUME BudgetInv, [StagedNext]_stagedVars PROVE BudgetInv'
  OBVIOUS
<1>0. StageInv'
  BY StageStep DEF BudgetInv
<1>1. ASSUME NEW c \in Contracts, BeginStage(c) PROVE BudgetInv'
  <2>1. /\ running' = Idle /\ checked' = {}
        /\ tokens_used' = 0 /\ width' = 0
    BY <1>1 DEF BeginStage, FreshStage, sessionVars
  <2>2. IsFiniteSet(Calls(running)) /\ Outstanding = 0 /\ running' = running /\ checked' = checked
    BY <1>1, <2>1, NothingOutstanding DEF BeginStage, FreshStage
  <2>3. IsFiniteSet(Calls(running')) /\ Outstanding' = 0
    BY <2>2 DEF Outstanding
  <2> QED
    BY <1>0, <2>1, <2>3 DEF BudgetInv
<1>2. ASSUME DrainEvents \/ RecordReplan \/ UNCHANGED stagedVars PROVE BudgetInv'
  <2>1. UNCHANGED <<running, contract, tokens_used, checked, width>>
    BY <1>2 DEF DrainEvents, RecordReplan, stagedVars, allVars, sessionVars, contractVars,
       callerVars, BudgetInv
  <2> QED
    BY <1>0, <2>1 DEF BudgetInv, Outstanding
<1> QED
  BY <1>0, <1>1, <1>2, CheckStageCharges, ProposeCheckedCharges, ReturnCharges DEF StagedNext

(* The first stage has spent nothing. *)
LEMMA InitBudgetInv == StagedInit => BudgetInv
<1> SUFFICES ASSUME StagedInit PROVE BudgetInv
  OBVIOUS
<1>1. running = Idle /\ checked = {} /\ tokens_used = 0 /\ width = 0
  BY DEF StagedInit, SInit, SessionInit
<1> QED
  BY <1>1, NothingOutstanding, InitStageInv DEF BudgetInv

(* A stage overruns its budget by no more than the calls under way at once
   can cost.                                                               *)
THEOREM BudgetOverrunBounded == StagedSpec => []BudgetOverrun
<1>1. BudgetInv => BudgetOverrun
  <2> SUFFICES ASSUME BudgetInv, tokens_used > 0
               PROVE  tokens_used < contract.budget_tokens + MaxSpend * width
    BY DEF BudgetOverrun
  <2>1. Outstanding \in Nat /\ tokens_used \in Nat /\ width \in Nat /\ contract.budget_tokens \in Nat
    BY OutstandingIsNatural, StageAssumption DEF Outstanding, BudgetInv, StageInv, Contract
  <2>2. MaxSpend * Outstanding \in Nat /\ MaxSpend * width \in Nat
    BY <2>1, CostGrows
  <2>3. tokens_used + MaxSpend * Outstanding < contract.budget_tokens + MaxSpend * width
    BY DEF BudgetInv
  <2> QED
    BY <2>1, <2>2, <2>3
<1> QED
  BY <1>1, InitBudgetInv, BudgetStep, PTL DEF StagedSpec

(* The counters of contract and toolkit keep their types. *)
THEOREM StagedTypeCorrect == StagedSpec => []StagedTypeOK
<1>1. BudgetInv => StagedTypeOK
  BY DEF BudgetInv, StageInv, StagedTypeOK
<1> QED
  BY <1>1, InitBudgetInv, BudgetStep, PTL DEF StagedSpec

=============================================================================
