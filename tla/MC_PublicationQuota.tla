------------------------ MODULE MC_PublicationQuota ------------------------
(***************************************************************************)
(* Instances of PublicationQuota for TLC: minutes of two seconds and days  *)
(* of four, budgets of two requests and three bytes.                       *)
(***************************************************************************)
EXTENDS PublicationQuota, TLC

Interchangeable == Permutations(Device) \union Permutations(Worker)
=============================================================================
