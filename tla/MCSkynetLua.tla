---------------------------- MODULE MCSkynetLua ----------------------------
(* The instance of SkynetLua that TLC checks. Coroutines are interchangeable.   *)
EXTENDS SkynetLua, TLC

CoSymmetry == Permutations(Co)
=============================================================================
