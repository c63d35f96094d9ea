----------------------------- MODULE MCConsumer -----------------------------
(***************************************************************************)
(* Small instances of EventConsumer for TLC.                                *)
(***************************************************************************)
EXTENDS EventConsumer
============================================================================
