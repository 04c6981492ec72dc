---------------------------- MODULE MCVisitDesk ----------------------------
(* Instances of VisitDesk for TLC. *)
EXTENDS VisitDesk
=============================================================================
