----------------------------- MODULE MCEventHub -----------------------------
(* Instances of EventHub for TLC. *)
EXTENDS EventHub
=============================================================================
