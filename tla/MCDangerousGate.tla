--------------------------- MODULE MCDangerousGate ---------------------------
(***************************************************************************)
(* Instances of DangerousGate for TLC.  "Flip" stands for a name that      *)
(* differs from a ballistic one in case alone.                             *)
(***************************************************************************)
EXTENDS DangerousGate, TLC

CallerSymmetry == Permutations(Callers)

MCBallistic == {"flip", "jump"}
MCMotions   == MCBallistic \cup {"hello"}
MixedNames  == MCMotions \cup {"Flip"}
LowerMixed  == [n \in MixedNames |-> IF n = "Flip" THEN "flip" ELSE n]

=============================================================================
