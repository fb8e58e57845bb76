---------------------------- MODULE MC_PostureSync ----------------------------
(* Hooks one after another, each serving one event, daemons that crash, and *)
(* posture updates before, between and during the hooks.                    *)
EXTENDS PostureSync, TLC

MCThree == 1..3

HookSymmetry == Permutations(Hook)
=============================================================================
