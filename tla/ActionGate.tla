------------------------------ MODULE ActionGate ------------------------------
(***************************************************************************)
(* What the rule engine of runtime/viveka/micro.py promises to whoever     *)
(* asks it before acting, with none of its rules: how often an action      *)
(* pattern can get through in a stage, how many actions can get through in *)
(* a session, and that a gate that has closed stays closed.                *)
(***************************************************************************)
EXTENDS Naturals

CONSTANT Pattern

VARIABLES
  cap,      \* times a pattern may get through in a stage
  quota,    \* actions after which the session is over
  passes,   \* times each pattern got through in this stage
  total,    \* actions that got through in the session
  worn,     \* patterns refused until the stage ends
  closed    \* reasons for which everything is refused

gateVars == <<cap, quota, passes, total, worn, closed>>

Reason == {"stage", "session"}

Init ==
  /\ cap \in Nat
  /\ quota \in Nat
  /\ passes = [p \in Pattern |-> 0]
  /\ total = 0
  /\ worn = {}
  /\ closed = {}

(* Any proposal may wear out patterns and close the gate, never the reverse. *)
Tighten ==
  /\ worn' \in SUBSET Pattern /\ worn \subseteq worn'
  /\ closed' \in SUBSET Reason /\ closed \subseteq closed'
  /\ UNCHANGED <<cap, quota>>

Open == closed = {} /\ total <= quota

Admit(p) ==
  /\ Open
  /\ p \notin worn
  /\ passes[p] < cap
  /\ passes' = [passes EXCEPT ![p] = @ + 1]
  /\ total' = total + 1
  /\ Tighten

(* Reads and test runs are not counted against any pattern. *)
AdmitRead ==
  /\ Open
  /\ total' = total + 1
  /\ UNCHANGED passes
  /\ Tighten

Refuse == Tighten /\ UNCHANGED <<passes, total>>

(* A new stage forgives what the stage counted, not what the session did. *)
NewStage ==
  /\ passes' = [p \in Pattern |-> 0]
  /\ worn' = {}
  /\ closed' = closed \ {"stage"}
  /\ UNCHANGED <<cap, quota, total>>

Next == (\E p \in Pattern : Admit(p)) \/ AdmitRead \/ Refuse \/ NewStage

Spec == Init /\ [][Next]_gateVars
=============================================================================
