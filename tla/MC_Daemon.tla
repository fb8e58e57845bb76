------------------------------ MODULE MC_Daemon ------------------------------
(* The daemon with three actions, five packs and limits scaled down.       *)
EXTENDS Daemon

MCAction == {"write x", "psql drop", "git push --force"}
MCNormalForm == [a \in MCAction |-> a]
MCTrait == [a \in MCAction |->
  CASE a = "write x"          -> {"fileEdit"}
    [] a = "psql drop"        -> {}
    [] a = "git push --force" -> {"destructive", "rewrite", "gitPush"}]

Scaled(r, f, w, n) ==
  [max_retries |-> r, max_files_modified |-> f, max_unique_tools |-> 1,
   max_warnings |-> w, max_actions |-> n, max_undeclared_assumptions |-> 0]
MCModeLimits ==
  [permissive |-> Scaled(2, 2, 3, 9), standard |-> Scaled(2, 1, 2, 9),
   guarded |-> Scaled(1, 1, 1, 3), restricted |-> Scaled(1, 0, 1, 2)]

(* The limits of the source, but for tools and assumptions. *)
SourceModeLimits ==
  [permissive |-> Scaled(5, 30, 15, 200), standard |-> Scaled(3, 15, 8, 100),
   guarded |-> Scaled(2, 8, 5, 50), restricted |-> Scaled(1, 3, 3, 20)]

APack(mode, tries, paths, tools) ==
  [kind |-> "pack", mode |-> mode, max_retries |-> tries,
   max_files_modified |-> None, max_actions |-> None,
   blocked_paths |-> paths, blocked_tools |-> tools]
MCPacks ==
  [n \in {"data-migration", "cleanup", "custom", "broken", "unknown"} |->
     CASE n = "data-migration" -> APack("guarded", 1, {}, {"psql drop"})
       [] n = "cleanup"        -> APack("standard", None, {}, {})
       [] n = "custom"         -> [APack(NoName, None, {"write x"}, {})
                                     EXCEPT !.max_actions = 2]
       [] n = "broken"         -> Broken
       [] n = "unknown"        -> Absent]

Start(i, q, n) == [intent |-> i, posture |-> q, policy |-> n]
MCPayloads ==
  { Start("other", "standard", NoName), Start("exploration", "adversarial", NoName),
    Start("recovery", "standard", "custom"), Start("other", "speed", "data-migration"),
    Start("other", "adversarial", "broken"), Start("other", "standard", "unknown") }
PlainPayloads == { Start("other", "standard", NoName) }
PackPayloads  == { Start("other", "standard", "data-migration") }
=============================================================================
