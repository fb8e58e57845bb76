--------------------------- MODULE MC_StagedSession ---------------------------
(* A small governed session under stage contracts: one action the engine   *)
(* lets through once, one it escalates, one read; a contract that has no   *)
(* shell, and one whose budget a single call overruns.                     *)
EXTENDS StagedSession

MCAction == {"write x", "rm -rf x", "read x"}
MCNormalForm == [a \in MCAction |-> a]
MCTrait == [a \in MCAction |->
  CASE a = "write x"  -> {"fileEdit"}
    [] a = "rm -rf x" -> {"destructive"}
    [] a = "read x"   -> {"readOnly"}]

MCConfigs ==
  { [mode |-> "standard",
     limits |-> [max_retries |-> 1, max_files_modified |-> 0,
                 max_unique_tools |-> 0, max_warnings |-> 2, max_actions |-> 9,
                 max_undeclared_assumptions |-> 0],
     production |-> FALSE, protected |-> FALSE, granted |-> {},
     blocked_paths |-> {}, blocked_tools |-> {},
     budget |-> [set |-> FALSE, max_tokens |-> 0, used_tokens |-> 0],
     reversible |-> FALSE] }

MCKind == {"write_file", "run_command", "read_file"}
MCKindOf == [a \in MCAction |->
  CASE a = "write x"  -> "write_file"
    [] a = "rm -rf x" -> "run_command"
    [] a = "read x"   -> "read_file"]

MCContracts ==
  { [allowed_tools |-> {"write_file", "read_file"}, budget_tokens |-> 5,
     max_tool_calls |-> 2],
    [allowed_tools |-> MCKind, budget_tokens |-> 1,
     max_tool_calls |-> 3] }
=============================================================================
