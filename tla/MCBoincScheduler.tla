-------------------------- MODULE MCBoincScheduler --------------------------
(***************************************************************************)
(* Instances of BoincScheduler for TLC: the two slots of the code, delays  *)
(* and numbers of tries scaled down to one or two, and the sets of faults  *)
(* under which the properties are checked.                                 *)
(***************************************************************************)
EXTENDS BoincScheduler

\* Everything that may go wrong.
AnyFault == FaultKinds

\* Kills at any moment, with status files that can be written, directories that
\* can be removed when loading and computations that do not report failure.
RestartFaults == FaultKinds \ {"write", "stuck", "compute"}

\* Failures that pass when they are tried again, and kills.
PassingFaults == {"server", "remove", "kill"}

\* The causes of the three disagreements with the documentation.
UnguardedCall == {"unguarded"}
FailedComputation == {"compute", "server", "kill"}
TornFile == {"kill", "torn"}
=============================================================================
