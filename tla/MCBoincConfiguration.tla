------------------------ MODULE MCBoincConfiguration ------------------------
(* Instances of BoincConfiguration for TLC. *)
EXTENDS BoincConfiguration

TwoLogins == {"ann", "bob"}
OneHost == {"host"}
AnyFault == FaultKinds
NoFault == {}
=============================================================================
