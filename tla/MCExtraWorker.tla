---------------------------- MODULE MCExtraWorker ----------------------------
(* ExtraWorker for TLC: EX_process (two replicas, both layouts). *)
EXTENDS ExtraWorker
=============================================================================
