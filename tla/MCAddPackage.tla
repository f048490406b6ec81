----------------------------- MODULE MCAddPackage -----------------------------
(* AddPackage for TLC. *)
EXTENDS AddPackage
=============================================================================
