------------------------ MODULE MCBoincStatusChange ------------------------
(* Instances of BoincStatusChange for TLC. *)
EXTENDS BoincStatusChange

AnyFault == FaultKinds
=============================================================================
