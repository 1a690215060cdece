------------------------------ MODULE MCRotation ------------------------------
(***************************************************************************)
(* Small instances of Rotation for TLC.                                    *)
(***************************************************************************)
EXTENDS RotationHandover, TLC

CONSTANTS r1, r2, s1, j1, j2

OneRotation == r1 :> s1
TwoRotations == r1 :> s1 @@ r2 :> s1

JobSymmetry == Permutations(Jobs)
BothSymmetry == Permutations(Jobs) \cup Permutations(Rotations)
===============================================================================
