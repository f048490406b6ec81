----------------------------- MODULE MCItemWorker -----------------------------
(* ItemWorker for TLC. *)
EXTENDS ItemWorker
=============================================================================
