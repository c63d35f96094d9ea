----------------------------- MODULE MCPipeline -----------------------------
(***************************************************************************)
(* Small instances of EventPipeline for TLC.                                *)
(***************************************************************************)
EXTENDS EventPipeline, TLC

Interchangeable == Permutations(Event)
============================================================================
