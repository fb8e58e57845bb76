-------------------------- MODULE MC_HookLifecycle --------------------------
(* Small instances of HookLifecycle.  Every hook serves one event, so the   *)
(* number of hooks bounds the events of a behaviour, and a hook spawns at   *)
(* most one daemon.                                                         *)
EXTENDS HookLifecycle, TLC

MCTwo   == 1..2
MCThree == 1..3

HookSymmetry == Permutations(Hook)
=============================================================================
