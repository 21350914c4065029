----------------------------- MODULE MC_Devices -----------------------------
(***************************************************************************)
(* Instances of Devices for TLC.  Devices that are not Legacy are          *)
(* interchangeable, and so are codes.                                      *)
(***************************************************************************)
EXTENDS Devices, TLC

Interchangeable == Permutations(Device \ Legacy) \union Permutations(Code)
=============================================================================
