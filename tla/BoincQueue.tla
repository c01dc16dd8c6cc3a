----------------------------- MODULE BoincQueue -----------------------------
(***************************************************************************)
(* The time-ordered event list of BoincUtil.c (boincQueuePut, HasEvent,    *)
(* Get), as operators on a sequence of records with a field "time".        *)
(*                                                                         *)
(* The code stamps an entry with an absolute second.  Here a time is what  *)
(* is left until the entry is due, so the current second is always 0 and   *)
(* the passing of a second is Elapse.  An entry that became due keeps its  *)
(* place: all that still matters of its time is that it is not later than  *)
(* now.  The absolute time 0 that the scheduler passes to overtake every   *)
(* other entry is before any time the clock can show: Epoch.               *)
(***************************************************************************)
EXTENDS Integers, Sequences, SequencesExt

Now == 0
Epoch == -1

\* A slip in the walk below: go to the end of the list, whatever the times.
PutPositionAtEnd(q, t) == Len(q) + 1

\* Where the walk along the list stops: before the first entry that is later
\* than t, behind every entry of the same time.
PutPosition(q, t) ==
    CHOOSE p \in 1..Len(q) + 1 :
        /\ \A k \in 1..p - 1 : q[k].time <= t
        /\ p <= Len(q) => q[p].time > t

Put(q, entry) == InsertAt(q, PutPosition(q, entry.time), entry)

\* A slip in the comparison below: what is due now has to wait.
HasEventStrict(q) == q # << >> /\ Head(q).time < Now

\* boincQueueHasEventLocked: the first entry is due.
HasEvent(q) == q # << >> /\ Head(q).time <= Now

\* One second passes.
Elapse(q) ==
    [k \in DOMAIN q |->
        IF q[k].time > Now THEN [q[k] EXCEPT !.time = @ - 1] ELSE q[k]]

SortedByTime(q) ==
    \A j, k \in DOMAIN q : j <= k => q[j].time <= q[k].time
=============================================================================
