----------------------------- MODULE MC_Delivery -----------------------------
(***************************************************************************)
(* Instances of Delivery for TLC.                                          *)
(***************************************************************************)
EXTENDS Delivery, TLC

CONSTANTS pc, phone, c1, c2, n1, n2

\* A computer and a phone, one connection each.
OneEach == c1 :> pc @@ c2 :> phone
\* The phone's alone.
OnlyPhone == c1 :> phone

FromThePc == n1 :> pc @@ n2 :> pc
FromThePhone == n1 :> phone @@ n2 :> phone
OnlyOne == n1 :> pc

Interchangeable == Permutations(Handler)
=============================================================================
