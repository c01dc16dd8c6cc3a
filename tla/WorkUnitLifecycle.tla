-------------------------- MODULE WorkUnitLifecycle --------------------------
(***************************************************************************)
(* What a client promises of its work units, without events, files or      *)
(* retries: a slot accepts a work unit, computes it, keeps the result      *)
(* until the server was told, and only then accepts another one.  One work *)
(* unit at a time is computed.  The client may be stopped at any moment,   *)
(* also together with a step of one slot: what was reached is kept, only   *)
(* the computation under way is lost.                                      *)
(*                                                                         *)
(* BoincScheduler implements this (ImplementsLifecycle there).             *)
(***************************************************************************)
EXTENDS Naturals

CONSTANT Slots

VARIABLES
    stage,     \* of each slot: none, held, computed, reported
    computing  \* the slots whose work unit is being computed

Stages == {"none", "held", "computed", "reported"}

TypeOK ==
    /\ stage \in [Slots -> Stages]
    /\ computing \subseteq Slots

Init ==
    /\ stage = [i \in Slots |-> "none"]
    /\ computing = {}

Moves(i, from, to) ==
    /\ stage[i] = from
    /\ stage' = [stage EXCEPT ![i] = to]

Accepts(i) == Moves(i, "none", "held")
Finishes(i) == i \in computing /\ Moves(i, "held", "computed")
Reports(i) == Moves(i, "computed", "reported")
Forgets(i) == Moves(i, "reported", "none")

Accept(i) == Accepts(i) /\ UNCHANGED computing
Compute(i) ==
    /\ computing = {} /\ stage[i] = "held"
    /\ computing' = {i}
    /\ UNCHANGED stage
Finish(i) == Finishes(i) /\ computing' = computing \ {i}
Report(i) == Reports(i) /\ UNCHANGED computing
Forget(i) == Forgets(i) /\ UNCHANGED computing

Stop ==
    /\ computing' = {}
    /\ \/ UNCHANGED stage
       \/ \E i \in Slots : Accepts(i) \/ Finishes(i) \/ Reports(i) \/ Forgets(i)

Next ==
    \/ \E i \in Slots : Accept(i) \/ Compute(i) \/ Finish(i) \/ Report(i) \/ Forget(i)
    \/ Stop

Spec == Init /\ [][Next]_<<stage, computing>>
=============================================================================
