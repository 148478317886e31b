---------------------------- MODULE MCBehaviours ----------------------------
(***************************************************************************)
(* Instances of Behaviours for TLC.                                        *)
(***************************************************************************)
EXTENDS Behaviours, TLC

(* Sound for the safety runs: no definition tells one slot from another.   *)
SlotSymmetry == Permutations(Threads)

=============================================================================
