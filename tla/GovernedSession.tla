--------------------------- MODULE GovernedSession ---------------------------
(***************************************************************************)
(* The governed session (runtime/viveka/session.py): the micro engine with *)
(* the trace of what was proposed, what became of it, and whether the      *)
(* caller reported it as carried out.  A record's place in the trace is    *)
(* its sequence number; reasons and times are left out.                    *)
(***************************************************************************)
EXTENDS MicroEngine, Sequences

VARIABLES
  actions,           \* the trace: a sequence of SessionAction
  escalation_count,
  running,           \* how often the caller is carrying out each action, a
                     \* history variable
  overlapped         \* was an action proposed while another was under way?

sessionVars == <<actions, escalation_count, running, overlapped>>
allVars == <<engineVars, sessionVars>>

SessionAction ==
  [action : Action, verdict : Verdict, rule : RuleName, completed : BOOLEAN]

OutcomeOf(v) == CASE v \in {"permit", "warn"} -> "proceed"
                  [] v = "block"              -> "blocked"
                  [] v = "escalate"           -> "escalated"

Idle == [a \in Action |-> 0]

SessionInit ==
  actions = <<>> /\ escalation_count = 0 /\ running = Idle /\ overlapped = FALSE

(* Mutant: the trace keeps the last two records. *)
Trace_Capped(d) ==
  LET r == [action |-> d.action, verdict |-> d.verdict, rule |-> d.rule,
            completed |-> FALSE]
  IN  /\ actions' = IF Len(actions) = 2 THEN Append(Tail(actions), r)
                    ELSE Append(actions, r)
      /\ escalation_count' = escalation_count
                               + (IF d.verdict = "escalate" THEN 1 ELSE 0)

(* Mutant: a trace that names the rule by mistake where the outcome goes. *)
Trace_OutcomeRule(d) ==
  /\ actions' = Append(actions, [action |-> d.action, verdict |-> d.verdict,
                                 rule |-> OutcomeOf(d.verdict), completed |-> FALSE])
  /\ UNCHANGED escalation_count

(* Mutant: an escalation is traced as a refusal. *)
Trace_EscalationIsBlock(d) ==
  /\ actions' = Append(actions,
       [action |-> d.action, rule |-> d.rule, completed |-> FALSE,
        verdict |-> IF d.verdict = "escalate" THEN "block" ELSE d.verdict])
  /\ escalation_count' = escalation_count
                           + (IF d.verdict = "escalate" THEN 1 ELSE 0)

(* The trace grows by the decision the engine just took. *)
Trace(d) ==
  /\ actions' = Append(actions, [action |-> d.action, verdict |-> d.verdict,
                                 rule |-> d.rule, completed |-> FALSE])
  /\ escalation_count' = escalation_count
                           + (IF OutcomeOf(d.verdict) = "escalated" THEN 1 ELSE 0)

Propose(a) ==
  /\ Evaluate(a)
  /\ Trace(Decide(a))

-----------------------------------------------------------------------------
(* record_completion: the latest record of the action still open. *)
OpenRecords(a) ==
  {i \in DOMAIN actions : actions[i].action = a /\ ~actions[i].completed}

(* Mutant: the trace is searched from its beginning. *)
RecordCompletion_Forward(a) ==
  LET i == CHOOSE j \in OpenRecords(a) : \A k \in OpenRecords(a) : j <= k
  IN  /\ actions' = IF OpenRecords(a) = {} THEN actions
                    ELSE [actions EXCEPT ![i].completed = TRUE]
      /\ UNCHANGED escalation_count

(* Mutant: the loop goes on after the record it was looking for. *)
RecordCompletion_NoBreak(a) ==
  /\ actions' = [i \in DOMAIN actions |->
       IF i \in OpenRecords(a) THEN [actions[i] EXCEPT !.completed = TRUE]
       ELSE actions[i]]
  /\ UNCHANGED escalation_count

RecordCompletion(a) ==
  LET i == CHOOSE j \in OpenRecords(a) : \A k \in OpenRecords(a) : k <= j
  IN  /\ actions' = IF OpenRecords(a) = {} THEN actions
                    ELSE [actions EXCEPT ![i].completed = TRUE]
      /\ UNCHANGED escalation_count

-----------------------------------------------------------------------------
(* The caller follows the usage note of the module: it carries out what may
   proceed and then reports it.  It may propose again while an action is
   under way, as parallel tool calls do.                                   *)
Ask(a) ==
  /\ Propose(a)
  /\ overlapped' = (overlapped \/ running # Idle)
  /\ running' = IF LetsThrough(last'.verdict)
                THEN [running EXCEPT ![a] = @ + 1] ELSE running

Finish(a) ==
  /\ running[a] > 0
  /\ RecordCompletion(a)
  /\ running' = [running EXCEPT ![a] = @ - 1]
  /\ UNCHANGED <<engineVars, overlapped>>

(* The action failed, or the caller never reports it. *)
Abandon(a) ==
  /\ running[a] > 0
  /\ running' = [running EXCEPT ![a] = @ - 1]
  /\ UNCHANGED <<engineVars, actions, escalation_count, overlapped>>

(* Anything else the engine offers leaves the trace alone. *)
Engine ==
  /\ \/ \E f \in File : RecordFileModified(f)
     \/ \E t \in Tool : RecordToolUsed(t)
     \/ \E n \in 1..MaxTokens : RecordTokens(n)
     \/ RecordUndeclaredAssumption
     \/ ResetStageCounters
  /\ UNCHANGED sessionVars

SInit == Init /\ SessionInit
SNext == (\E a \in Action : Ask(a) \/ Finish(a) \/ Abandon(a)) \/ Engine
SSpec == SInit /\ [][SNext]_allVars

-----------------------------------------------------------------------------
Count(P(_)) == Cardinality({i \in DOMAIN actions : P(actions[i])})

SessionTypeOK ==
  /\ TypeOK
  /\ actions \in Seq(SessionAction)
  /\ escalation_count \in Nat
  /\ running \in [Action -> Nat] /\ overlapped \in BOOLEAN

(* TraceMatchesEngine: the trace and the engine count the same session.
   get_summary reads the trace, get_session_summary the counters: they agree
   until a stage is reset, and from then on the counters show no more than
   the trace (propose against record and reset_stage_counters).            *)
TraceMatchesEngine ==
  LET blocks == Count(LAMBDA r : r.verdict = "block")
      warns  == Count(LAMBDA r : r.verdict = "warn")
      tried(p) == Count(LAMBDA r : Mutating(r.action) /\ NormalForm[r.action] = p)
  IN  /\ Len(actions) = action_count
      /\ escalation_count = Count(LAMBDA r : r.verdict = "escalate")
      /\ allowed = Count(LAMBDA r : OutcomeOf(r.verdict) = "proceed")
      /\ blocks_issued <= blocks /\ warnings_issued <= warns
      /\ \A p \in Pattern : retries[p] <= tried(p)
      /\ stage = 0 =>
           /\ blocks_issued = blocks /\ warnings_issued = warns
           /\ \A p \in Pattern : retries[p] = tried(p)

(* CompletedProceeded: while the caller proposes one action at a time, no
   record of a refused action is ever marked as completed, although
   record_completion looks at the action's text only.                      *)
CompletedProceeded ==
  ~overlapped =>
    \A i \in DOMAIN actions :
      actions[i].completed => OutcomeOf(actions[i].verdict) = "proceed"

(* CompletionsEarned: with several actions of one text under way, some of
   them refused, record_completion may mark the record of a refused one; but
   never are more records of a text marked than were let through, so what
   a reader of the trace counts as done was permitted that often.          *)
CompletionsEarned ==
  \A a \in Action :
    Count(LAMBDA r : r.action = a /\ r.completed)
      <= Count(LAMBDA r : r.action = a /\ OutcomeOf(r.verdict) = "proceed")

(* TraceIsHistory: a record is never dropped, reordered or rewritten, and a
   completion is never taken back (get_trace exports the list).            *)
TraceIsHistory ==
  [][/\ Len(actions) <= Len(actions')
     /\ \A i \in DOMAIN actions :
          /\ [actions'[i] EXCEPT !.completed = TRUE]
               = [actions[i] EXCEPT !.completed = TRUE]
          /\ actions[i].completed => actions'[i].completed]_allVars
=============================================================================
