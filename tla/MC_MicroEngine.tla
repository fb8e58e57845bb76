---------------------------- MODULE MC_MicroEngine ----------------------------
(* Small instances of the micro-decision engine.                           *)
EXTENDS MicroEngine

(* "write x" and "Write x" are two strings with one normal form.           *)
MCAction  == {"write x", "Write x", "write .env", "read x", "rm -rf x",
              "git push --force"}
MCPattern == {"write x", "write .env", "read x", "rm -rf x", "git push --force"}
MCNormalForm == [a \in MCAction |-> IF a = "Write x" THEN "write x" ELSE a]
MCTrait == [a \in MCAction |->
  CASE a \in {"write x", "Write x"} -> {"fileEdit"}
    [] a = "write .env"             -> {"fileEdit", "secret"}
    [] a = "read x"                 -> {"readOnly"}
    [] a = "rm -rf x"               -> {"destructive"}
    [] a = "git push --force"       -> {"destructive", "rewrite", "gitPush"}]

NoBudget == [set |-> FALSE, max_tokens |-> 0, used_tokens |-> 0]
Tight == [max_retries |-> 2, max_files_modified |-> 0, max_unique_tools |-> 0,
          max_warnings |-> 1, max_actions |-> 2,
          max_undeclared_assumptions |-> 0]
Plain == [mode |-> "standard", limits |-> Tight, production |-> FALSE,
          protected |-> FALSE, granted |-> {"git"}, blocked_paths |-> {},
          blocked_tools |-> {}, budget |-> NoBudget, reversible |-> TRUE]

(* The standard mode; the guarded mode with a path and a tool blocked; main
   in production with git denied; an irreversible task whose budget runs
   low; a budget that is spent.                                            *)
MCConfigs ==
  { Plain,
    [Plain EXCEPT !.mode = "guarded", !.limits.max_retries = 1,
                  !.blocked_paths = {"write .env"}, !.blocked_tools = {"read x"}],
    [Plain EXCEPT !.protected = TRUE, !.production = TRUE, !.granted = {"secrets"},
                  !.limits.max_warnings = 0],
    [Plain EXCEPT !.reversible = FALSE, !.limits.max_warnings = 2,
                  !.budget = [set |-> TRUE, max_tokens |-> 5, used_tokens |-> 4]],
    [Plain EXCEPT !.mode = "permissive",
                  !.budget = [set |-> TRUE, max_tokens |-> 5, used_tokens |-> 5]] }

BudgetConfigs ==
  { [Plain EXCEPT !.budget = [set |-> TRUE, max_tokens |-> 2, used_tokens |-> 0]] }
=============================================================================
