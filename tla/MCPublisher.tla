---------------------------- MODULE MCPublisher ----------------------------
(***************************************************************************)
(* Small instances of EventPublisher for TLC.                               *)
(***************************************************************************)
EXTENDS EventPublisher
============================================================================
