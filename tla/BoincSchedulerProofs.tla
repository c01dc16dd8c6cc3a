------------------------ MODULE BoincSchedulerProofs ------------------------
(***************************************************************************)
(* Theorems about the scheduler for any number of slots, any delays and    *)
(* any set of faults, kills and restarts included: type correctness, the   *)
(* sorted event list, one token per slot, and events that agree with the   *)
(* status of their slot.                                                   *)
(*                                                                         *)
(* Neither of the last two is inductive.  Both need to know that a load    *)
(* event is alone (no slot has an object while it waits), or loading would *)
(* give a second event to a slot, and that nothing survives the process.   *)
(*                                                                         *)
(* From them follows what a step may do to a slot: nothing while it is     *)
(* being computed, else a step of its life cycle; and that no slot is left *)
(* without an event or thread, unless the load or the application fails.   *)
(***************************************************************************)
EXTENDS BoincScheduler, SequenceTheorems, WellFoundedInduction, TLAPS

-----------------------------------------------------------------------------
(* Put, Tail and Elapse on event lists of any length, with entries of any set *)

\* Entries are records with an integer time; S is any set of them.
IsEntrySet(S) == \A e \in S : e.time \in Int

\* A nonempty set of naturals has a least element.
LEMMA LeastOfNaturals ==
    ASSUME NEW T \in SUBSET Nat, T # {}
    PROVE  \E m \in T : \A k \in T : m <= k
<1>1. PICK m \in T : \A k \in T : ~(<<k, m>> \in OpToRel(<, Nat))
    BY NatLessThanWellFounded, WFMin
<1>2. \A k \in T : k < m => <<k, m>> \in OpToRel(<, Nat)
    BY DEF OpToRel
<1>3. \A k \in T : ~(k < m)
    BY <1>1, <1>2
<1>4. \A k \in T : m <= k
    BY <1>3
<1> QED BY <1>4

\* The walk along the list stops somewhere: at the first later entry or at the
\* end, with nothing later in front of it.
LEMMA PutPositionProperties ==
    ASSUME NEW S, IsEntrySet(S), NEW q \in Seq(S), NEW t \in Int
    PROVE  /\ PutPosition(q, t) \in 1..Len(q) + 1
           /\ \A k \in 1..PutPosition(q, t) - 1 : q[k].time <= t
           /\ PutPosition(q, t) <= Len(q) => q[PutPosition(q, t)].time > t
<1> DEFINE Later == {k \in 1..Len(q) : q[k].time > t}
           Stops(p) == /\ \A k \in 1..p - 1 : q[k].time <= t
                       /\ p <= Len(q) => q[p].time > t
<1>1. Len(q) \in Nat /\ \A k \in 1..Len(q) : q[k].time \in Int
    BY ElementOfSeq, LenProperties DEF IsEntrySet
<1>2. \E p \in 1..Len(q) + 1 : Stops(p)
    <2>1. CASE Later = {}
        <3>1. Stops(Len(q) + 1) BY <1>1, <2>1
        <3> QED BY <1>1, <3>1
    <2>2. CASE Later # {}
        <3>1. Later \in SUBSET Nat BY <1>1
        <3> HIDE DEF Later
        <3>2. PICK p \in Later : \A k \in Later : p <= k
            BY <2>2, <3>1, LeastOfNaturals
        <3> USE DEF Later
        <3>3. Stops(p) BY <1>1, <3>2
        <3> QED BY <1>1, <3>3
    <2> QED BY <2>1, <2>2
<1> HIDE DEF Later
<1>3. PutPosition(q, t) = CHOOSE p \in 1..Len(q) + 1 : Stops(p)
    BY DEF PutPosition
<1>4. PutPosition(q, t) \in 1..Len(q) + 1 /\ Stops(PutPosition(q, t))
    <2> HIDE DEF Stops
    <2> QED BY <1>2, <1>3
<1> QED BY <1>4

\* r is q with e put at position p: the entries from p on move one place back.
IsInserted(q, p, e, r) ==
    /\ Len(r) = Len(q) + 1
    /\ \A k \in 1..Len(q) + 1 :
          r[k] = IF k < p THEN q[k] ELSE IF k = p THEN e ELSE q[k - 1]

LEMMA InsertAtProperties ==
    ASSUME NEW S, NEW q \in Seq(S), NEW e \in S, NEW p \in 1..Len(q) + 1
    PROVE  /\ InsertAt(q, p, e) \in Seq(S)
           /\ IsInserted(q, p, e, InsertAt(q, p, e))
<1> DEFINE front == SubSeq(q, 1, p - 1)
           back == SubSeq(q, p, Len(q))
<1>1. Len(q) \in Nat /\ p \in Int BY LenProperties
<1>2. /\ front \in Seq(S) /\ Len(front) = p - 1
      /\ \A k \in 1..p - 1 : front[k] = q[k]
    BY <1>1, SubSeqProperties, ElementOfSeq
<1>3. /\ back \in Seq(S) /\ Len(back) = Len(q) - p + 1
      /\ \A k \in 1..Len(q) - p + 1 : back[k] = q[p + k - 1]
    BY <1>1, SubSeqProperties, ElementOfSeq
<1>4. <<e>> \in Seq(S) /\ Len(<<e>>) = 1 /\ <<e>>[1] = e
    OBVIOUS
<1>5. /\ front \o <<e>> \in Seq(S) /\ Len(front \o <<e>>) = p
      /\ \A k \in 1..p : (front \o <<e>>)[k] = IF k < p THEN q[k] ELSE e
    <2> HIDE DEF front
    <2> QED BY <1>1, <1>2, <1>4, ConcatProperties
<1>6. InsertAt(q, p, e) = (front \o <<e>>) \o back
    BY DEF InsertAt
<1> HIDE DEF front, back
<1> DEFINE head == front \o <<e>>
<1>7. /\ head \o back \in Seq(S) /\ Len(head \o back) = Len(q) + 1
      /\ \A k \in 1..Len(q) + 1 : (head \o back)[k] =
            IF k <= p THEN head[k] ELSE back[k - p]
    <2> HIDE DEF head
    <2>1. head \in Seq(S) /\ Len(head) = p BY <1>5 DEF head
    <2>2. back \in Seq(S) /\ Len(back) = Len(q) - p + 1 BY <1>3
    <2>3. /\ head \o back \in Seq(S)
          /\ Len(head \o back) = Len(head) + Len(back)
          /\ \A k \in 1..Len(head) + Len(back) : (head \o back)[k] =
                IF k <= Len(head) THEN head[k] ELSE back[k - Len(head)]
        BY <2>1, <2>2, ConcatProperties
    <2>4. Len(head) + Len(back) = Len(q) + 1 BY <1>1, <2>1, <2>2
    <2> QED BY <2>1, <2>3, <2>4
<1>8. \A k \in p + 1..Len(q) + 1 : back[k - p] = q[k - 1]
    <2> SUFFICES ASSUME NEW k \in p + 1..Len(q) + 1
                 PROVE  back[k - p] = q[k - 1]
        OBVIOUS
    <2>1. k - p \in 1..Len(q) - p + 1 /\ p + (k - p) - 1 = k - 1
        BY <1>1
    <2> QED BY <1>3, <2>1
<1> QED BY <1>1, <1>5, <1>6, <1>7, <1>8 DEF IsInserted

\* Where a new entry goes, for the proofs that follow.
Place(q, e) == PutPosition(q, e.time)

\* Put adds its entry and keeps the others in their order.
LEMMA PutProperties ==
    ASSUME NEW S, IsEntrySet(S), NEW q \in Seq(S), NEW e \in S
    PROVE  /\ Put(q, e) \in Seq(S)
           /\ Place(q, e) \in 1..Len(q) + 1
           /\ IsInserted(q, Place(q, e), e, Put(q, e))
<1>1. Place(q, e) \in 1..Len(q) + 1
    BY PutPositionProperties DEF Place, IsEntrySet
<1>2. Put(q, e) = InsertAt(q, Place(q, e), e)
    BY DEF Put, Place
<1> QED BY <1>1, <1>2, InsertAtProperties

\* boincQueuePut keeps the list sorted by time.
THEOREM PutKeepsSorted ==
    ASSUME NEW S, IsEntrySet(S), NEW q \in Seq(S), NEW e \in S, SortedByTime(q)
    PROVE  SortedByTime(Put(q, e))
<1> DEFINE p == Place(q, e)
           r == Put(q, e)
<1>0. r \in Seq(S) /\ p \in 1..Len(q) + 1 /\ IsInserted(q, p, e, r)
    BY PutProperties
<1>1. /\ r \in Seq(S) /\ DOMAIN r = 1..Len(q) + 1
      /\ p \in 1..Len(q) + 1 /\ Len(q) \in Nat
      /\ \A k \in 1..Len(q) + 1 : r[k] =
            IF k < p THEN q[k] ELSE IF k = p THEN e ELSE q[k - 1]
    <2> HIDE DEF p, r
    <2>1. DOMAIN r = 1..Len(r) /\ Len(q) \in Nat BY <1>0, LenProperties
    <2> QED BY <1>0, <2>1 DEF IsInserted
<1>2. /\ \A k \in 1..p - 1 : q[k].time <= e.time
      /\ p <= Len(q) => q[p].time > e.time
    BY PutPositionProperties DEF Place, IsEntrySet
<1>3. /\ e.time \in Int
      /\ \A k \in 1..Len(q) : q[k].time \in Int
      /\ \A j, k \in 1..Len(q) : j <= k => q[j].time <= q[k].time
    BY ElementOfSeq, LenProperties DEF IsEntrySet, SortedByTime
<1> HIDE DEF p, r
<1>4. SUFFICES ASSUME NEW j \in 1..Len(q) + 1, NEW k \in 1..Len(q) + 1, j <= k
               PROVE  r[j].time <= r[k].time
    BY <1>1 DEF SortedByTime, r
<1>5. CASE k < p
    BY <1>1, <1>3, <1>4, <1>5
<1>6. CASE k = p
    <2>1. CASE j = p BY <1>1, <1>3, <1>6, <2>1
    <2>2. CASE j < p BY <1>1, <1>2, <1>6, <2>2
    <2> QED BY <1>1, <1>4, <1>6, <2>1, <2>2
<1>7. CASE k > p
    <2>1. k - 1 \in 1..Len(q) /\ r[k] = q[k - 1] BY <1>1, <1>7
    <2>2. p <= Len(q) /\ q[p].time <= q[k - 1].time
        <3>1. p \in 1..Len(q) /\ p <= k - 1 BY <1>1, <1>7, <2>1
        <3> QED BY <1>3, <2>1, <3>1
    <2>3. CASE j < p
        <3>1. j \in 1..Len(q) /\ j <= k - 1 /\ r[j] = q[j] BY <1>1, <1>7, <2>3
        <3> QED BY <1>3, <2>1, <3>1
    <2>4. CASE j = p
        <3>1. r[j] = e BY <1>1, <2>4
        <3>2. e.time < q[p].time /\ p \in 1..Len(q) BY <1>1, <1>2, <1>3, <2>2
        <3>3. q[p].time \in Int /\ q[k - 1].time \in Int BY <1>3, <2>1, <3>2
        <3> QED BY <1>3, <2>1, <2>2, <3>1, <3>2, <3>3
    <2>5. CASE j > p
        <3>1. j - 1 \in 1..Len(q) /\ j - 1 <= k - 1 /\ r[j] = q[j - 1]
            BY <1>1, <1>4, <2>5
        <3> QED BY <1>3, <2>1, <3>1
    <2> QED BY <1>1, <2>3, <2>4, <2>5
<1> QED BY <1>1, <1>5, <1>6, <1>7

\* Nothing overtakes an entry of its own time: whatever stands before the new
\* entry is not later, and whatever stands behind it is strictly later.
THEOREM PutIsFair ==
    ASSUME NEW S, IsEntrySet(S), NEW q \in Seq(S), NEW e \in S, SortedByTime(q)
    PROVE  \A k \in 1..Len(q) : q[k].time <= e.time <=> k < Place(q, e)
<1>1. /\ Place(q, e) \in 1..Len(q) + 1 /\ Len(q) \in Nat
      /\ \A k \in 1..Place(q, e) - 1 : q[k].time <= e.time
      /\ Place(q, e) <= Len(q) => q[Place(q, e)].time > e.time
    BY PutPositionProperties, LenProperties DEF Place, IsEntrySet
<1>2. /\ e.time \in Int
      /\ \A k \in 1..Len(q) : q[k].time \in Int
      /\ \A j, k \in 1..Len(q) : j <= k => q[j].time <= q[k].time
    BY ElementOfSeq, LenProperties DEF IsEntrySet, SortedByTime
<1> QED BY <1>1, <1>2

\* Taking the first entry keeps the list sorted.
LEMMA TailKeepsSorted ==
    ASSUME NEW S, IsEntrySet(S), NEW q \in Seq(S), q # << >>, SortedByTime(q)
    PROVE  SortedByTime(Tail(q))
<1>1. /\ Tail(q) \in Seq(S) /\ Len(Tail(q)) = Len(q) - 1 /\ Len(q) \in Nat
      /\ \A k \in 1..Len(Tail(q)) : Tail(q)[k] = q[k + 1]
      /\ DOMAIN Tail(q) = 1..Len(Tail(q)) /\ DOMAIN q = 1..Len(q)
    BY HeadTailProperties, LenProperties
<1>2. SUFFICES ASSUME NEW j \in 1..Len(Tail(q)), NEW k \in 1..Len(Tail(q)), j <= k
               PROVE  Tail(q)[j].time <= Tail(q)[k].time
    BY <1>1 DEF SortedByTime
<1>3. j + 1 \in 1..Len(q) /\ k + 1 \in 1..Len(q) /\ j + 1 <= k + 1
    BY <1>1, <1>2
<1> QED BY <1>1, <1>3 DEF SortedByTime

\* What the passing of a second makes of the entries of a list q: r has the same
\* entries, some of them nearer.
IsElapsed(q, r) ==
    /\ DOMAIN r = 1..Len(q)
    /\ \A k \in 1..Len(q) :
          /\ r[k].time = IF q[k].time > Now THEN q[k].time - 1 ELSE q[k].time
          /\ r[k].type = q[k].type
          /\ r[k].index = q[k].index
          /\ r[k].tries = q[k].tries

\* Elapse keeps the list a list of the same length, with what IsElapsed says.
LEMMA ElapseProperties ==
    ASSUME NEW T, NEW I, NEW R,
           NEW q \in Seq([time : Int, type : T, index : I, tries : R])
    PROVE  /\ Elapse(q) \in Seq([time : Int, type : T, index : I, tries : R])
           /\ Len(Elapse(q)) = Len(q)
           /\ IsElapsed(q, Elapse(q))
<1> DEFINE S == [time : Int, type : T, index : I, tries : R]
           nearer(k) == IF q[k].time > Now THEN [q[k] EXCEPT !.time = @ - 1] ELSE q[k]
<1>1. Len(q) \in Nat /\ DOMAIN q = 1..Len(q) /\ \A k \in 1..Len(q) : q[k] \in S
    BY LenProperties, ElementOfSeq
<1>2. \A k \in 1..Len(q) :
        /\ nearer(k) \in S
        /\ nearer(k).time = IF q[k].time > Now THEN q[k].time - 1 ELSE q[k].time
        /\ nearer(k).type = q[k].type
        /\ nearer(k).index = q[k].index
        /\ nearer(k).tries = q[k].tries
    BY <1>1 DEF Now
<1>3. Elapse(q) = [k \in 1..Len(q) |-> nearer(k)]
    BY <1>1 DEF Elapse
<1> HIDE DEF S, nearer
<1>4. Elapse(q) \in Seq(S)
    BY <1>1, <1>2, <1>3, IsASeq
<1>5. DOMAIN Elapse(q) = 1..Len(q) /\ Len(Elapse(q)) = Len(q)
    BY <1>1, <1>3, <1>4, LenProperties
<1> QED BY <1>2, <1>3, <1>4, <1>5 DEF S, IsElapsed

\* The passing of a second keeps the list sorted: what is due stays in front.
LEMMA ElapseKeepsSorted ==
    ASSUME NEW T, NEW I, NEW R,
           NEW q \in Seq([time : Int, type : T, index : I, tries : R]),
           SortedByTime(q)
    PROVE  SortedByTime(Elapse(q))
<1> DEFINE S == [time : Int, type : T, index : I, tries : R]
<1>1. /\ DOMAIN q = 1..Len(q)
      /\ \A k \in 1..Len(q) : q[k].time \in Int
    <2>1. \A e \in S : e.time \in Int OBVIOUS
    <2>2. q \in Seq(S) OBVIOUS
    <2> HIDE DEF S
    <2>3. \A k \in 1..Len(q) : q[k] \in S BY <2>2, ElementOfSeq
    <2>4. DOMAIN q = 1..Len(q) BY <2>2, LenProperties
    <2> QED BY <2>1, <2>3, <2>4
<1>2. IsElapsed(q, Elapse(q))
    BY ElapseProperties
<1> HIDE DEF S
<1>3. SUFFICES ASSUME NEW j \in 1..Len(q), NEW k \in 1..Len(q), j <= k
               PROVE  Elapse(q)[j].time <= Elapse(q)[k].time
    BY <1>2 DEF SortedByTime, IsElapsed
<1>4. q[j].time <= q[k].time BY <1>1, <1>3 DEF SortedByTime
<1> QED BY <1>1, <1>2, <1>4 DEF Now, IsElapsed
-----------------------------------------------------------------------------
(* Types *)

\* What a status file may say.
Files == Storable \cup {"Failed", NoFile}

\* Events have integer times: the lemmas about the event list apply to them.
LEMMA EventsAreEntries == IsEntrySet(Events)
BY DEF IsEntrySet, Events

\* A new event of a slot has the right type.
LEMMA EventIsTyped ==
    ASSUME NEW t \in Int, NEW type \in EventTypes, NEW i \in WorkUnits
    PROVE  /\ Event(t, type, i) \in Events
           /\ Event(t, type, i).time = t
           /\ Event(t, type, i).type = type
           /\ Event(t, type, i).index = i
BY TriesAssumption DEF Event, Events

\* There is a slot 0, and the slots are some of the naturals.
LEMMA SlotsAreNumbered == 0 \in WorkUnits /\ WorkUnits \subseteq Nat
BY SlotsAssumption DEF WorkUnits

\* The event a process starts with has the right type.
LEMMA LoadEventIsTyped ==
    /\ LoadEvent \in Events
    /\ LoadEvent.index = 0 /\ LoadEvent.type = "Load"
BY EventIsTyped, SlotsAreNumbered DEF LoadEvent, Epoch, EventTypes

\* queue' is what is left of the queue and one event of slot i.
Moves(i, type) ==
    \E e \in Events : e.index = i /\ e.type = type /\ queue' = Put(Rest, e)

\* A handler starts from a queue that is not empty and takes the first event.
LEMMA HandledEvent ==
    ASSUME TypeOK, NEW type, NEW i, Handles(type, i)
    PROVE  /\ queue # << >> /\ queue \in Seq(Events)
           /\ Head(queue) \in Events /\ Rest \in Seq(Events)
           /\ Head(queue).type = type /\ Head(queue).index = i
           /\ process = "running"
<1>1. queue # << >> /\ queue \in Seq(Events)
    BY DEF TypeOK, Handles, HasEvent
<1>2. Head(queue) \in Events /\ Tail(queue) \in Seq(Events)
    BY <1>1, HeadTailProperties
<1> QED BY <1>1, <1>2 DEF Handles, Rest

\* Posting the next event of the slot.
LEMMA PostNextMoves ==
    ASSUME TypeOK, NEW type \in EventTypes, NEW i \in WorkUnits, PostNext(type, i)
    PROVE  Moves(i, type)
<1>1. Event(Now, type, i) \in Events /\ Event(Now, type, i).type = type
      /\ Event(Now, type, i).index = i
    BY EventIsTyped DEF Now
<1> QED BY <1>1 DEF PostNext, Moves

\* Putting the handled event back.
LEMMA RegenerateMoves ==
    ASSUME NEW q \in Seq(Events), NEW event \in Events, NEW delay \in Nat
    PROVE  \E e \in Events : /\ e.index = event.index /\ e.type = event.type
                             /\ Regenerate(q, event, delay) = Put(q, e)
<1> DEFINE tries == IF event.tries < MaxTries THEN event.tries + 1 ELSE MaxTries
           wait == IF delay > 0 THEN delay ELSE RetryBase + RetryStep * tries
           e == [event EXCEPT !.time = Now + wait, !.tries = tries]
<1>1. event.tries \in 0..MaxTries /\ MaxTries \in Nat
    BY TriesAssumption DEF Events
<1>2. tries \in 0..MaxTries BY <1>1
<1>3. wait \in Int
    <2>1. RetryBase \in Nat /\ RetryStep \in Nat /\ tries \in Nat
        BY <1>1, <1>2, DelaysAssumption
    <2> HIDE DEF tries
    <2> QED BY <2>1
<1> HIDE DEF tries, wait
<1>4. e \in Events /\ e.index = event.index /\ e.type = event.type
    <2>1. ASSUME NEW t \in Int, NEW n \in 0..MaxTries
          PROVE  LET r == [event EXCEPT !.time = t, !.tries = n]
                 IN  r \in Events /\ r.index = event.index /\ r.type = event.type
        BY <2>1 DEF Events
    <2>2. Now + wait \in Int BY <1>3 DEF Now
    <2> QED BY <1>2, <2>1, <2>2
<1>5. Regenerate(q, event, delay) = Put(q, e)
    BY DEF Regenerate, tries, wait
<1> HIDE DEF e
<1> QED BY <1>4, <1>5

LEMMA RetryMoves ==
    ASSUME TypeOK, NEW type, NEW i, Handles(type, i),
           NEW delays \in SUBSET Nat, RetryAfter(delays)
    PROVE  Moves(i, type)
<1>1. PICK d \in delays : queue' = Regenerate(Rest, Head(queue), d)
    BY DEF RetryAfter
<1>2. /\ Rest \in Seq(Events) /\ Head(queue) \in Events
      /\ Head(queue).type = type /\ Head(queue).index = i
    BY HandledEvent
<1>3. \E e \in Events : /\ e.index = Head(queue).index /\ e.type = Head(queue).type
                        /\ Regenerate(Rest, Head(queue), d) = Put(Rest, e)
    BY <1>2, RegenerateMoves
<1> QED BY <1>1, <1>2, <1>3 DEF Moves

\* The waits that the handlers choose are natural numbers.
LEMMA DelaysAreNatural ==
    /\ DelaysOfError \in SUBSET Nat /\ {BusyDelay} \in SUBSET Nat
    /\ {0} \in SUBSET Nat /\ LoadDelay \in Nat
BY DelaysAssumption DEF DelaysOfError

\* Whatever is posted, the queue stays a queue, and stays sorted.
LEMMA MovesKeepQueue ==
    ASSUME TypeOK, NEW t, NEW type, NEW i, Handles(t, i), Moves(i, type)
    PROVE  /\ queue' \in Seq(Events)
           /\ QueueSorted => QueueSorted'
<1>1. PICK e \in Events : queue' = Put(Rest, e)
    BY DEF Moves
<1>2. queue # << >> /\ queue \in Seq(Events) /\ Rest \in Seq(Events)
    BY HandledEvent
<1>3. queue' \in Seq(Events)
    BY <1>1, <1>2, PutProperties, EventsAreEntries
<1>4. ASSUME SortedByTime(queue) PROVE SortedByTime(Put(Rest, e))
    <2>1. SortedByTime(Rest) BY <1>2, <1>4, TailKeepsSorted, EventsAreEntries DEF Rest
    <2> QED BY <1>2, <2>1, PutKeepsSorted, EventsAreEntries
<1> QED BY <1>1, <1>3, <1>4 DEF QueueSorted

\* What storing a status may leave in the file: the old content, the new status,
\* or no file; without write faults a status that changes is stored.
LEMMA StoreResultsProperties ==
    ASSUME NEW old, NEW new \in Status, NEW file \in Files
    PROVE  /\ StoreResults(old, new, file) \subseteq {file, new, NoFile}
           /\ StoreResults(old, new, file) \subseteq Files
BY DEF StoreResults, Files, Storable

LEMMA StoreTwiceProperties ==
    ASSUME NEW old, NEW first \in Status, NEW second \in Status,
           NEW file \in Files
    PROVE  StoreTwice(old, first, second, file) \subseteq Files
<1> SUFFICES ASSUME NEW f \in StoreResults(old, first, file)
             PROVE  StoreResults(first, second, f) \subseteq Files
    BY DEF StoreTwice
<1>1. f \in Files BY StoreResultsProperties
<1> QED BY <1>1, StoreResultsProperties

\* The effect of a handler on the slot it handles, and on no other slot.
LEMMA SlotChangesAreTyped ==
    ASSUME TypeOK, NEW i \in WorkUnits
    PROVE  /\ \A s \in Status : SetStatus(i, s) => status' \in [WorkUnits -> Status \cup {Null}]
           /\ \A F \in SUBSET Files : SetFile(i, F) => disk' \in [WorkUnits -> Files]
           /\ \A M \in SUBSET Milestones :
                 Achieve(i, M) => done' \in [WorkUnits -> SUBSET Milestones]
<1>1. ASSUME NEW s \in Status, SetStatus(i, s)
      PROVE  status' \in [WorkUnits -> Status \cup {Null}]
    BY <1>1 DEF TypeOK, SetStatus
<1>2. ASSUME NEW F \in SUBSET Files, SetFile(i, F)
      PROVE  disk' \in [WorkUnits -> Files]
    BY <1>2 DEF TypeOK, SetFile, Files
<1>3. ASSUME NEW M \in SUBSET Milestones, Achieve(i, M)
      PROVE  done' \in [WorkUnits -> SUBSET Milestones]
    BY <1>3 DEF TypeOK, Achieve
<1> QED BY <1>1, <1>2, <1>3

\* Each case of boincSchedulerHandleEvents keeps the types of what it changes,
\* and leaves the queue sorted.
LEMMA HandlersKeepTypes ==
    ASSUME TypeOK, NEW i \in WorkUnits, HandleWorkUnit(i)
    PROVE  /\ TypeOK'
           /\ QueueSorted => QueueSorted'
<1> USE SlotChangesAreTyped
<1> DEFINE Q == queue' \in Seq(Events) /\ (QueueSorted => QueueSorted')
<1>1. Status \subseteq EventTypes /\ disk[i] \in Files
    BY DEF EventTypes, TypeOK, Files
<1>2. ASSUME NEW t \in Status, Handles(t, i), NEW type \in Status, PostNext(type, i)
      PROVE  Q
    BY <1>1, <1>2, PostNextMoves, MovesKeepQueue
<1>3. ASSUME NEW t \in Status, Handles(t, i),
             NEW delays \in SUBSET Nat, RetryAfter(delays)
      PROVE  Q
    BY <1>1, <1>3, RetryMoves, MovesKeepQueue
<1> HIDE DEF Q
<1>4. CASE HandleCreated(i)
    <2>1. Q BY <1>2, <1>3, <1>4, DelaysAreNatural DEF HandleCreated, Status
    <2>2. status' \in [WorkUnits -> Status \cup {Null}]
        BY <1>4 DEF HandleCreated, Status
    <2> QED BY <1>4, <2>1, <2>2 DEF HandleCreated, TypeOK, Q
<1>5. CASE RequestWork(i)
    <2>1. Q BY <1>2, <1>5 DEF RequestWork, Status
    <2> QED BY <1>5, <2>1 DEF RequestWork, TypeOK, Q, Milestones
<1>6. CASE RequestWorkFails(i)
    <2>1. Q BY <1>3, <1>6, DelaysAreNatural DEF RequestWorkFails, Status
    <2> QED BY <1>6, <2>1 DEF RequestWorkFails, TypeOK, Q
<1>7. CASE Download(i)
    <2>1. Q BY <1>2, <1>3, <1>7, DelaysAreNatural DEF Download, Status
    <2>2. disk' \in [WorkUnits -> Files]
        BY <1>1, <1>7, StoreResultsProperties DEF Download, Status
    <2>3. status' \in [WorkUnits -> Status \cup {Null}]
        BY <1>7 DEF Download, Status
    <2> QED BY <1>7, <2>1, <2>2, <2>3 DEF Download, TypeOK, Q, Files
<1>8. CASE HandleWaiting(i)
    <2>1. Q BY <1>2, <1>3, <1>8, DelaysAreNatural DEF HandleWaiting, Status
    <2>2. disk' \in [WorkUnits -> Files]
        <3>1. /\ StoreResults(status[i], "Waiting", disk[i]) \in SUBSET Files
              /\ StoreTwice(status[i], "Waiting", "Computing", disk[i]) \in SUBSET Files
            BY <1>1, StoreResultsProperties, StoreTwiceProperties DEF Status
        <3> QED BY <1>8, <3>1 DEF HandleWaiting
    <2>3. status' \in [WorkUnits -> Status \cup {Null}]
        BY <1>8 DEF HandleWaiting, Status
    <2> QED BY <1>8, <2>1, <2>2, <2>3 DEF HandleWaiting, TypeOK, Q, Files
<1>9. CASE Compute(i)
    <2>1. Handles("Computing", i) /\ queue' = Tail(queue)
        BY <1>9 DEF Compute, Rest
    <2>2. Q
        BY <2>1, HandledEvent, HeadTailProperties, TailKeepsSorted, EventsAreEntries
        DEF Q, QueueSorted
    <2>3. threads' \in [WorkUnits -> Nat]
        BY <1>9 DEF Compute, TypeOK
    <2> QED BY <1>9, <2>2, <2>3 DEF Compute, TypeOK, Q
<1>10. CASE HandleFinished(i)
    <2>1. Q BY <1>2, <1>3, <1>10, DelaysAreNatural DEF HandleFinished, Status
    <2>2. disk' \in [WorkUnits -> Files]
        <3>1. /\ StoreResults(status[i], "Finished", disk[i]) \in SUBSET Files
              /\ StoreTwice(status[i], "Finished", "Uploading", disk[i]) \in SUBSET Files
            BY <1>1, StoreResultsProperties, StoreTwiceProperties DEF Status
        <3> QED BY <1>10, <3>1 DEF HandleFinished
    <2>3. status' \in [WorkUnits -> Status \cup {Null}]
        BY <1>10 DEF HandleFinished, Status
    <2> QED BY <1>10, <2>1, <2>2, <2>3 DEF HandleFinished, TypeOK, Q, Files
<1>11. CASE Upload(i)
    <2>1. Q BY <1>2, <1>11 DEF Upload, Status
    <2>2. done' \in [WorkUnits -> SUBSET Milestones]
        BY <1>11 DEF Upload, Milestones
    <2> QED BY <1>11, <2>1, <2>2 DEF Upload, TypeOK, Q
<1>12. CASE UploadFails(i)
    <2>1. Q BY <1>3, <1>12, DelaysAreNatural DEF UploadFails, Status
    <2> QED BY <1>12, <2>1 DEF UploadFails, TypeOK, Q
<1>13. CASE UploadGivesUp(i)
    <2>1. Q BY <1>2, <1>13 DEF UploadGivesUp, Status
    <2>2. disk' \in [WorkUnits -> Files]
        BY <1>1, <1>13, StoreResultsProperties DEF UploadGivesUp, Status
    <2>3. status' \in [WorkUnits -> Status \cup {Null}]
        BY <1>13 DEF UploadGivesUp, Status
    <2>4. done' \in [WorkUnits -> SUBSET Milestones]
        BY <1>13 DEF UploadGivesUp, Milestones
    <2> QED BY <1>13, <2>1, <2>2, <2>3, <2>4 DEF UploadGivesUp, TypeOK, Q, Files
<1>14. CASE ReportAndErase(i) \/ ReportFails(i) \/ EraseFails(i)
    <2>1. Told \in Milestones BY DEF Told, Milestones
    <2>2. HandlesReport(i) BY <1>14 DEF ReportAndErase, ReportFails, EraseFails
    <2>3. Q
        BY <1>2, <1>3, <1>14, <2>2, DelaysAreNatural
        DEF ReportAndErase, ReportFails, EraseFails, HandlesReport, Status
    <2>4. status' \in [WorkUnits -> Status \cup {Null}]
        BY <1>14 DEF ReportAndErase, ReportFails, EraseFails, Status
    <2>5. disk' \in [WorkUnits -> Files]
        <3>1. CASE ReportAndErase(i)
            BY <3>1 DEF ReportAndErase, TypeOK, Files
        <3>2. CASE ReportFails(i)
            BY <3>2 DEF ReportFails, TypeOK, Files
        <3>3. CASE EraseFails(i)
            <4>1. {disk[i], NoFile} \in SUBSET Files BY <1>1 DEF Files
            <4> QED BY <3>3, <4>1 DEF EraseFails
        <3> QED BY <1>14, <3>1, <3>2, <3>3
    <2>6. done' \in [WorkUnits -> SUBSET Milestones]
        BY <1>14, <2>1 DEF ReportAndErase, ReportFails, EraseFails
    <2> QED BY <1>14, <2>3, <2>4, <2>5, <2>6
        DEF ReportAndErase, ReportFails, EraseFails, TypeOK, Q, Files
<1> QED BY <1>4, <1>5, <1>6, <1>7, <1>8, <1>9, <1>10, <1>11, <1>12, <1>13, <1>14
        DEF HandleWorkUnit

\* No two events of a queue belong to the same slot.
OnePerSlot(q) == \A p, r \in DOMAIN q : q[p].index = q[r].index => p = r

\* A queue of one event for each of n slots, of the type that loaded says.
IsLoaded(q, n, loaded) ==
    /\ q \in Seq(Events) /\ SortedByTime(q) /\ OnePerSlot(q)
    /\ \A p \in DOMAIN q : /\ q[p].index \in 0..n - 1
                           /\ q[p].type = loaded[q[p].index]

\* The queue that loading makes: sorted, one event per loaded slot, of the type
\* that is the status of the slot.
LEMMA LoadedQueue ==
    ASSUME NEW n \in 0..NbWorkUnits, NEW order \in [1..n -> 0..n - 1], NEW loaded,
           \A i \in 0..n - 1 : loaded[i] \in Status,
           IsLoadOrder(order, n, loaded),
           NEW q, q = [p \in 1..n |-> LoadedEvent(order[p], loaded)]
    PROVE  IsLoaded(q, n, loaded)
<1>1. n \in Nat /\ 0..n - 1 \subseteq WorkUnits /\ WorkUnits \subseteq Nat
    BY SlotsAssumption DEF WorkUnits
<1>2. ASSUME NEW i \in 0..n - 1
      PROVE  /\ LoadedEvent(i, loaded) \in Events
             /\ LoadedEvent(i, loaded).time =
                   IF loaded[i] = "Computing" THEN Epoch ELSE Now
             /\ LoadedEvent(i, loaded).type = loaded[i]
             /\ LoadedEvent(i, loaded).index = i
    <2>1. loaded[i] \in EventTypes /\ i \in WorkUnits
        BY <1>1, <1>2 DEF EventTypes
    <2>2. (IF loaded[i] = "Computing" THEN Epoch ELSE Now) \in Int
        BY DEF Epoch, Now
    <2> QED BY <2>1, <2>2, EventIsTyped DEF LoadedEvent
<1>3. \A p \in 1..n : order[p] \in 0..n - 1 /\ q[p] = LoadedEvent(order[p], loaded)
    OBVIOUS
<1>4. DOMAIN q = 1..n OBVIOUS
<1>5. q \in Seq(Events)
    BY <1>1, <1>2, <1>3, IsASeq
<1>6. SortedByTime(q)
    <2> SUFFICES ASSUME NEW p \in 1..n, NEW r \in 1..n, p <= r
                 PROVE  q[p].time <= q[r].time
        BY <1>4 DEF SortedByTime
    <2>1. q[p].time \in {Epoch, Now} /\ q[r].time \in {Epoch, Now}
        BY <1>2, <1>3
    <2>2. CASE p = r BY <2>1, <2>2 DEF Epoch, Now
    <2>3. CASE p < r
        <3>1. loaded[order[r]] = "Computing" => loaded[order[p]] = "Computing"
            BY <2>3 DEF IsLoadOrder
        <3> QED BY <1>2, <1>3, <3>1 DEF Epoch, Now
    <2> QED BY <1>1, <2>2, <2>3
<1>7. OnePerSlot(q)
    <2> SUFFICES ASSUME NEW p \in 1..n, NEW r \in 1..n, p # r
                 PROVE  q[p].index # q[r].index
        BY <1>4 DEF OnePerSlot
    <2>1. order[p] # order[r]
        <3>1. ASSUME NEW k \in 1..n, NEW m \in 1..n, k < m PROVE order[k] # order[m]
            <4>1. \/ /\ loaded[order[k]] = "Computing"
                     /\ loaded[order[m]] # "Computing"
                  \/ order[k] < order[m]
                BY <3>1 DEF IsLoadOrder
            <4>2. order[k] \in Nat /\ order[m] \in Nat BY <1>1, <1>3
            <4> QED BY <4>1, <4>2
        <3> QED BY <1>1, <3>1
    <2> QED BY <1>2, <1>3, <2>1
<1> QED BY <1>2, <1>3, <1>4, <1>5, <1>6, <1>7 DEF IsLoaded

\* The state after loading.
HasLoaded(n, bad, stuckAs) ==
    /\ queue' \in Seq(Events) /\ QueueSorted' /\ OnePerSlot(queue')
    /\ \A p \in DOMAIN queue' : /\ queue'[p].index \in 0..n - 1
                                /\ queue'[p].type = status'[queue'[p].index]
    /\ status' \in [WorkUnits -> Status \cup {Null}]
    /\ \A i \in WorkUnits :
          /\ i < n => status'[i] = IF i \in bad \/ disk[i] = NoFile
                                   THEN "Created" ELSE disk[i]
          /\ i = n => status'[i] = stuckAs
          /\ i > n => status'[i] = Null
    /\ done' \in [WorkUnits -> SUBSET Milestones]

\* What loading makes of the state: slots before n are loaded, slot n is left with
\* what stuckAs says, those behind it have no object.
LEMMA LoadedState ==
    ASSUME TypeOK, NEW n \in 0..NbWorkUnits, NEW bad \in SUBSET WorkUnits,
           NEW stuckAs \in Status \cup {Null}, LoadSlots(n, bad, stuckAs)
    PROVE  HasLoaded(n, bad, stuckAs)
<1> DEFINE FromFile(i) == IF disk[i] = NoFile THEN "Created" ELSE disk[i]
           Loaded(i) == CASE i < n -> IF i \in bad THEN "Created" ELSE FromFile(i)
                          [] i = n -> stuckAs
                          [] i > n -> Null
           loaded == [i \in WorkUnits |-> Loaded(i)]
<1>1. /\ status' = loaded
      /\ \E order \in [1..n -> 0..n - 1] :
            /\ IsLoadOrder(order, n, loaded)
            /\ queue' = [p \in 1..n |-> LoadedEvent(order[p], loaded)]
      /\ done' = done
    BY DEF LoadSlots
<1>2. n \in Nat /\ 0..n - 1 \subseteq WorkUnits /\ WorkUnits \subseteq Nat
    BY SlotsAssumption DEF WorkUnits
<1>3. \A i \in WorkUnits : FromFile(i) \in Status
    BY DEF TypeOK, Status, Storable
<1>4. ASSUME NEW i \in WorkUnits
      PROVE  /\ i < n => Loaded(i) = IF i \in bad THEN "Created" ELSE FromFile(i)
             /\ i = n => Loaded(i) = stuckAs
             /\ i > n => Loaded(i) = Null
    <2> HIDE DEF FromFile
    <2>1. i \in Nat BY <1>2
    <2>2. CASE i < n BY <1>2, <2>1, <2>2
    <2>3. CASE i = n BY <1>2, <2>1, <2>3
    <2>4. CASE i > n BY <1>2, <2>1, <2>4
    <2> QED BY <1>2, <2>1, <2>2, <2>3, <2>4
<1> HIDE DEF Loaded, FromFile
<1>5. \A i \in WorkUnits : loaded[i] = Loaded(i)
    OBVIOUS
<1>6. loaded \in [WorkUnits -> Status \cup {Null}]
    <2>1. \A i \in WorkUnits : Loaded(i) \in Status \cup {Null}
        BY <1>2, <1>3, <1>4 DEF Status
    <2> QED BY <2>1
<1> HIDE DEF loaded
<1>7. \A i \in 0..n - 1 : loaded[i] \in Status
    BY <1>2, <1>3, <1>4, <1>5 DEF Status
<1>8. /\ queue' \in Seq(Events) /\ SortedByTime(queue') /\ OnePerSlot(queue')
      /\ \A p \in DOMAIN queue' : /\ queue'[p].index \in 0..n - 1
                                  /\ queue'[p].type = loaded[queue'[p].index]
    <2>1. PICK order \in [1..n -> 0..n - 1] :
                /\ IsLoadOrder(order, n, loaded)
                /\ queue' = [p \in 1..n |-> LoadedEvent(order[p], loaded)]
        BY <1>1
    <2>2. \A q : q = [p \in 1..n |-> LoadedEvent(order[p], loaded)]
            => IsLoaded(q, n, loaded)
        BY <1>7, <2>1, LoadedQueue
    <2> QED BY <2>1, <2>2 DEF IsLoaded
<1>9. done' \in [WorkUnits -> SUBSET Milestones]
    BY <1>1 DEF TypeOK
<1>10. \A i \in WorkUnits :
          /\ i < n => status'[i] = IF i \in bad \/ disk[i] = NoFile
                                   THEN "Created" ELSE disk[i]
          /\ i = n => status'[i] = stuckAs
          /\ i > n => status'[i] = Null
    BY <1>1, <1>4, <1>5 DEF FromFile
<1> QED BY <1>1, <1>6, <1>8, <1>9, <1>10 DEF QueueSorted, HasLoaded

\* The three ways a slot of the last load may be left, in one form.
LEMMA LoadIsLoadSlots ==
    ASSUME TypeOK, LoadSucceeds \/ LoadStops
    PROVE  \E n \in 0..NbWorkUnits : \E bad \in SUBSET WorkUnits,
              s \in Status \cup {Null} :
              /\ LoadSlots(n, bad, s)
              /\ n < NbWorkUnits => "stuck" \in Faults
              /\ n = NbWorkUnits /\ bad # {} => "unreadable" \in Faults
              /\ \A i \in WorkUnits : i \in bad => disk'[i] = NoFile
              /\ \A i \in WorkUnits : i \notin bad /\ i # n => disk'[i] = disk[i]
              /\ \A i \in WorkUnits : disk'[i] \in {disk[i], NoFile}
              /\ disk' \in [WorkUnits -> Files]
<1>1. disk \in [WorkUnits -> Files] /\ NbWorkUnits \in Nat
    BY SlotsAssumption DEF TypeOK, Files
<1>2. CASE LoadSucceeds
    <2>1. PICK bad \in SUBSET Stored :
             /\ bad # {} => "unreadable" \in Faults
             /\ LoadSlots(NbWorkUnits, bad, Null)
             /\ disk' = [i \in WorkUnits |-> IF i \in bad THEN NoFile ELSE disk[i]]
        BY <1>2 DEF LoadSucceeds
    <2>2. bad \in SUBSET WorkUnits BY DEF Stored
    <2>3. disk' \in [WorkUnits -> Files] BY <1>1, <2>1 DEF Files
    <2> QED BY <1>1, <2>1, <2>2, <2>3
<1>3. CASE LoadStops
    <2>0. PICK n \in Stored, bad \in SUBSET Stored :
             /\ "stuck" \in Faults
             /\ bad \subseteq 0..n - 1
             /\ \E s \in {disk[n], "Created"} : LoadSlots(n, bad, s)
             /\ \E f \in {disk[n], NoFile} :
                   disk' = [i \in WorkUnits |->
                       IF i \in bad THEN NoFile ELSE IF i = n THEN f ELSE disk[i]]
        BY <1>3 DEF LoadStops
    <2>1. PICK s \in {disk[n], "Created"}, f \in {disk[n], NoFile} :
             /\ LoadSlots(n, bad, s)
             /\ disk' = [i \in WorkUnits |->
                    IF i \in bad THEN NoFile ELSE IF i = n THEN f ELSE disk[i]]
        BY <2>0
    <2>2. n \in WorkUnits /\ bad \in SUBSET WorkUnits BY DEF Stored
    <2>3. n \in 0..NbWorkUnits BY <1>1, <2>2 DEF WorkUnits
    <2>4. s \in Status \cup {Null} /\ f \in Files
        <3>1. disk[n] \in Files /\ disk[n] # NoFile BY <1>1, <2>2 DEF Stored
        <3> QED BY <3>1 DEF Files, Storable, Status
    <2>5. disk' \in [WorkUnits -> Files]
        BY <1>1, <2>1, <2>4 DEF Files
    <2>6. n < NbWorkUnits BY <1>1, <2>2 DEF WorkUnits
    <2> QED BY <1>1, <2>0, <2>1, <2>2, <2>3, <2>4, <2>5, <2>6
<1> QED BY <1>2, <1>3

\* What a handler that is cut short leaves is a possible content of a file.
LEMMA FilesInsideProperties ==
    ASSUME TypeOK, NEW i \in WorkUnits,
           NEW type \in {"Downloading", "Waiting", "Finished"}
    PROVE  FilesInside(type, i) \in SUBSET Files
<1>1. disk[i] \in Files /\ type \in Status /\ NoFile \in Files
    BY DEF TypeOK, Files, Status
<1>2. Promotion(type, i) \subseteq Status
    BY DEF Promotion, Status
<1>3. StoreResults(status[i], type, disk[i]) \subseteq Files
    BY <1>1, StoreResultsProperties
<1>4. UNION {StoreTwice(status[i], type, s, disk[i]) : s \in Promotion(type, i)}
        \subseteq Files
    <2>1. \A s \in Promotion(type, i) :
             StoreTwice(status[i], type, s, disk[i]) \subseteq Files
        BY <1>1, <1>2, StoreTwiceProperties
    <2> QED BY <2>1
<1> QED BY <1>1, <1>3, <1>4 DEF FilesInside

\* Every step keeps the types and the order of the queue.
LEMMA StepKeepsTypes ==
    ASSUME TypeOK, QueueSorted, [Next]_vars
    PROVE  TypeOK' /\ QueueSorted'
<1>0. disk \in [WorkUnits -> Files]
    BY DEF TypeOK, Files
<1>1. CASE LoadFails
    <2>1. Handles("Load", 0) /\ queue' \in Seq(Events) /\ QueueSorted'
        <3>1. Handles("Load", 0) BY <1>1 DEF LoadFails
        <3>2. CASE queue' = Rest
            BY <3>1, <3>2, HandledEvent, TailKeepsSorted, EventsAreEntries
            DEF QueueSorted, Rest
        <3>3. CASE queue' = Regenerate(Rest, Head(queue), LoadDelay)
            <4>1. \E e \in Events : /\ e.index = 0 /\ e.type = "Load"
                                    /\ queue' = Put(Rest, e)
                <5>1. /\ Rest \in Seq(Events) /\ Head(queue) \in Events
                      /\ Head(queue).type = "Load" /\ Head(queue).index = 0
                    BY <3>1, HandledEvent
                <5>2. \E e \in Events :
                         /\ e.index = Head(queue).index /\ e.type = Head(queue).type
                         /\ Regenerate(Rest, Head(queue), LoadDelay) = Put(Rest, e)
                    BY <5>1, RegenerateMoves, DelaysAreNatural
                <5> QED BY <3>3, <5>1, <5>2
            <4> QED BY <3>1, <4>1, MovesKeepQueue DEF Moves
        <3> QED BY <1>1, <3>1, <3>2, <3>3 DEF LoadFails
    <2> QED BY <1>1, <2>1 DEF LoadFails, TypeOK
<1>2. CASE LoadSucceeds \/ LoadStops
    <2>1. PICK n \in 0..NbWorkUnits, bad \in SUBSET WorkUnits,
               s \in Status \cup {Null} :
             LoadSlots(n, bad, s) /\ disk' \in [WorkUnits -> Files]
        BY <1>2, LoadIsLoadSlots
    <2>2. /\ queue' \in Seq(Events) /\ QueueSorted'
          /\ status' \in [WorkUnits -> Status \cup {Null}]
          /\ done' \in [WorkUnits -> SUBSET Milestones]
        BY <2>1, LoadedState DEF HasLoaded
    <2>3. UNCHANGED <<process, threads>> BY <2>1 DEF LoadSlots
    <2> QED BY <2>1, <2>2, <2>3 DEF TypeOK, Files
<1>3. ASSUME NEW i \in WorkUnits, HandleWorkUnit(i)
      PROVE  TypeOK' /\ QueueSorted'
    BY <1>3, HandlersKeepTypes
<1>4. ASSUME NEW i \in WorkUnits, ComputationEnds(i)
      PROVE  TypeOK' /\ QueueSorted'
    <2>1. \E e \in Events : queue' = Put(queue, e)
        <3>1. Event(Now, "Finished", i) \in Events /\ Event(Now, "Failed", i) \in Events
            BY EventIsTyped DEF EventTypes, Status, Now
        <3> QED BY <1>4, <3>1 DEF ComputationEnds
    <2>2. queue' \in Seq(Events) /\ QueueSorted'
        BY <2>1, PutProperties, PutKeepsSorted, EventsAreEntries DEF TypeOK, QueueSorted
    <2>3. threads' \in [WorkUnits -> Nat]
        BY <1>4 DEF ComputationEnds, TypeOK
    <2>4. done' \in [WorkUnits -> SUBSET Milestones]
        BY <1>4, SlotChangesAreTyped DEF ComputationEnds, Milestones
    <2> QED BY <1>4, <2>2, <2>3, <2>4 DEF ComputationEnds, TypeOK
<1>5. CASE Tick
    <2>1. queue \in Seq(Events) /\ queue' = Elapse(queue) BY <1>5 DEF Tick, TypeOK
    <2>2. Elapse(queue) \in Seq(Events) BY <2>1, ElapseProperties DEF Events
    <2>3. SortedByTime(Elapse(queue))
        BY <2>1, ElapseKeepsSorted DEF Events, QueueSorted
    <2> QED BY <1>5, <2>1, <2>2, <2>3 DEF Tick, TypeOK, QueueSorted
<1>6. ASSUME NEW how \in {"killed", "crashed"}, Dies(how)
      PROVE  /\ process' \in {"running", "killed", "crashed"}
             /\ queue' \in Seq(Events) /\ QueueSorted'
             /\ status' \in [WorkUnits -> Status \cup {Null}]
             /\ threads' \in [WorkUnits -> Nat]
    <2>1. queue' = << >> BY <1>6 DEF Dies
    <2>2. queue' \in Seq(Events) /\ DOMAIN queue' = {} BY <2>1
    <2> QED BY <1>6, <2>2 DEF Dies, QueueSorted, SortedByTime
<1>7. CASE Killed
    BY <1>6, <1>7 DEF Killed, TypeOK
<1>8. CASE HandleNoEvent
    BY <1>6, <1>8 DEF HandleNoEvent, TypeOK
<1>9. ASSUME NEW i \in WorkUnits, KilledInside(i)
      PROVE  TypeOK' /\ QueueSorted'
    <2>1. disk' \in [WorkUnits -> Files]
        <3>1. {disk[i], NoFile} \in SUBSET Files BY <1>0 DEF Files
        <3> QED BY <1>0, <1>9, <3>1, FilesInsideProperties, SlotChangesAreTyped
                DEF KilledInside
    <2>2. done' \in [WorkUnits -> SUBSET Milestones]
        <3>1. Told \in Milestones /\ "received" \in Milestones BY DEF Told, Milestones
        <3>2. done \in [WorkUnits -> SUBSET Milestones] BY DEF TypeOK
        <3> QED BY <1>9, <3>1, <3>2 DEF KilledInside, Achieve
    <2>3. Dies("killed") BY <1>9 DEF KilledInside
    <2> QED BY <1>6, <2>1, <2>2, <2>3 DEF TypeOK, Files
<1>10. ASSUME NEW i \in WorkUnits, BadLabel(i)
       PROVE  TypeOK' /\ QueueSorted'
    BY <1>6, <1>10 DEF BadLabel, TypeOK
<1>11. CASE Start
    <2>1. queue' = <<LoadEvent>> BY <1>11 DEF Start
    <2>2. queue' \in Seq(Events) /\ DOMAIN queue' = {1} BY <2>1, LoadEventIsTyped
    <2>3. QueueSorted'
        BY <2>1, <2>2, LoadEventIsTyped DEF QueueSorted, SortedByTime, Events
    <2> QED BY <1>11, <2>2, <2>3 DEF Start, TypeOK
<1>12. CASE UNCHANGED vars
    BY <1>12 DEF vars, TypeOK, QueueSorted
<1> QED BY <1>1, <1>2, <1>3, <1>4, <1>5, <1>7, <1>8, <1>9, <1>10, <1>11, <1>12
        DEF Next, HandleLoad

LEMMA InitHasTypes ==
    ASSUME Init PROVE TypeOK /\ QueueSorted
<1>1. queue \in Seq(Events) /\ DOMAIN queue = {1} /\ queue[1] = LoadEvent
    BY LoadEventIsTyped DEF Init
<1>2. QueueSorted
    BY <1>1, LoadEventIsTyped DEF QueueSorted, SortedByTime, Events
<1> QED BY <1>1, <1>2 DEF Init, TypeOK

\* Every variable keeps its type.
THEOREM TypeCorrectness == Spec => []TypeOK
<1> DEFINE Typed == TypeOK /\ QueueSorted
<1>1. Init => Typed BY InitHasTypes
<1>2. Typed /\ [Next]_vars => Typed' BY StepKeepsTypes
<1> QED BY <1>1, <1>2, PTL DEF Spec

\* The event list is sorted at every moment, so its head alone tells whether
\* something is due (boincQueueHasEventLocked).
THEOREM QueueStaysSorted == Spec => []QueueSorted
<1> DEFINE Typed == TypeOK /\ QueueSorted
<1>1. Init => Typed BY InitHasTypes
<1>2. Typed /\ [Next]_vars => Typed' BY StepKeepsTypes
<1> QED BY <1>1, <1>2, PTL DEF Spec
-----------------------------------------------------------------------------
(* Tokens *)

\* While a load event waits, no slot has an object.
LoadIsAlone ==
    \A p \in DOMAIN queue :
        queue[p].type = "Load" => \A i \in WorkUnits : status[i] = Null

\* A process that is not running has no objects and no threads.
DeadIsEmpty ==
    process # "running" => \A i \in WorkUnits : status[i] = Null /\ threads[i] = 0

Tokens == AtMostOneToken /\ EventsMatchStatus /\ LoadIsAlone /\ DeadIsEmpty

-----------------------------------------------------------------------------
(* The entries of a queue *)

\* Every entry of r is e or an entry of q.
ComesFrom(q, e, r) ==
    \A k \in DOMAIN r : r[k] = e \/ \E j \in DOMAIN q : r[k] = q[j]

\* A new event of a slot that has none leaves one event per slot.
LEMMA PutKeepsOnePerSlot ==
    ASSUME NEW q \in Seq(Events), NEW e \in Events, OnePerSlot(q),
           \A k \in DOMAIN q : q[k].index # e.index
    PROVE  OnePerSlot(Put(q, e)) /\ ComesFrom(q, e, Put(q, e))
<1> DEFINE r == Put(q, e)
           p == Place(q, e)
<1>1. /\ r \in Seq(Events) /\ p \in 1..Len(q) + 1 /\ IsInserted(q, p, e, r)
    BY PutProperties, EventsAreEntries
<1>2. DOMAIN q = 1..Len(q) /\ Len(q) \in Nat /\ DOMAIN r = 1..Len(r)
    BY <1>1, LenProperties
<1> HIDE DEF r, p
<1>3. DOMAIN r = 1..Len(q) + 1
    BY <1>1, <1>2 DEF IsInserted
<1>4. ASSUME NEW k \in 1..Len(q) + 1
      PROVE  /\ k = p => r[k] = e
             /\ k < p => k \in DOMAIN q /\ r[k] = q[k]
             /\ k > p => k - 1 \in DOMAIN q /\ r[k] = q[k - 1]
    BY <1>1, <1>2 DEF IsInserted
<1>5. \A k \in DOMAIN r : r[k] = e \/ \E j \in DOMAIN q : r[k] = q[j]
    <2> SUFFICES ASSUME NEW k \in 1..Len(q) + 1
                 PROVE  r[k] = e \/ \E j \in DOMAIN q : r[k] = q[j]
        BY <1>3
    <2>1. k = p \/ k < p \/ k > p BY <1>1, <1>2
    <2> QED BY <1>4, <2>1
<1>6. OnePerSlot(r)
    <2> SUFFICES ASSUME NEW k \in 1..Len(q) + 1, NEW m \in 1..Len(q) + 1, k < m
                 PROVE  r[k].index # r[m].index
        BY <1>2, <1>3 DEF OnePerSlot
    <2>1. CASE m < p
        BY <1>2, <1>4, <2>1, <1>1 DEF OnePerSlot
    <2>2. CASE m = p
        BY <1>2, <1>4, <2>2, <1>1
    <2>3. CASE m > p /\ k < p
        <3>1. k # m - 1 BY <1>1, <1>2, <2>3
        <3> QED BY <1>4, <2>3, <3>1 DEF OnePerSlot
    <2>4. CASE m > p /\ k = p
        BY <1>4, <2>4
    <2>5. CASE m > p /\ k > p
        <3>1. k - 1 # m - 1 BY <1>1, <1>2, <2>5
        <3> QED BY <1>4, <2>5, <3>1 DEF OnePerSlot
    <2> QED BY <1>1, <1>2, <2>1, <2>2, <2>3, <2>4, <2>5
<1> QED BY <1>5, <1>6 DEF r, ComesFrom

\* The entries behind the first belong to other slots than the first.
LEMMA TailKeepsOnePerSlot ==
    ASSUME NEW q \in Seq(Events), q # << >>, OnePerSlot(q)
    PROVE  /\ Tail(q) \in Seq(Events) /\ OnePerSlot(Tail(q))
           /\ Head(q) = q[1] /\ 1 \in DOMAIN q
           /\ \A k \in DOMAIN Tail(q) :
                 /\ Tail(q)[k].index # Head(q).index
                 /\ \E j \in DOMAIN q : Tail(q)[k] = q[j]
<1>1. /\ Tail(q) \in Seq(Events) /\ Len(Tail(q)) = Len(q) - 1 /\ Len(q) \in Nat
      /\ \A k \in 1..Len(Tail(q)) : Tail(q)[k] = q[k + 1]
      /\ DOMAIN Tail(q) = 1..Len(Tail(q)) /\ DOMAIN q = 1..Len(q)
      /\ Head(q) = q[1] /\ Len(q) # 0
    BY HeadTailProperties, LenProperties, EmptySeq
<1>2. ASSUME NEW k \in DOMAIN Tail(q)
      PROVE  k + 1 \in DOMAIN q /\ Tail(q)[k] = q[k + 1] /\ k + 1 # 1
    BY <1>1, <1>2
<1>3. OnePerSlot(Tail(q))
    <2> SUFFICES ASSUME NEW k \in DOMAIN Tail(q), NEW m \in DOMAIN Tail(q),
                        Tail(q)[k].index = Tail(q)[m].index
                 PROVE  k = m
        BY DEF OnePerSlot
    <2>1. k + 1 = m + 1 BY <1>2 DEF OnePerSlot
    <2> QED BY <1>1, <2>1
<1>4. 1 \in DOMAIN q BY <1>1
<1>5. \A k \in DOMAIN Tail(q) : Tail(q)[k].index # Head(q).index
    BY <1>1, <1>2, <1>4 DEF OnePerSlot
<1> QED BY <1>1, <1>2, <1>3, <1>4, <1>5

-----------------------------------------------------------------------------
(* Steps of one slot *)

\* StatusesAt, row by row.
LEMMA StatusTable ==
    /\ StatusesAt("Created") = {"Created"}
    /\ StatusesAt("Initializing") = {"Initializing"}
    /\ StatusesAt("Downloading") = {"Initializing", "Downloading"}
    /\ StatusesAt("Waiting") = {"Downloading", "Waiting"}
    /\ StatusesAt("Computing") = {"Computing"}
    /\ StatusesAt("Finished") = {"Computing", "Finished"}
    /\ StatusesAt("Uploading") = {"Uploading"}
    /\ StatusesAt("Completed") = {"Uploading", "Completed"}
    /\ StatusesAt("Failed") = {"Computing", "Failed", "Completed"}
    /\ StatusesAt("Load") = {Null}
BY DEF StatusesAt

\* A handler's queue afterwards: its own new event, or events of other slots.
LEMMA QueueAfterHandler ==
    ASSUME TypeOK, AtMostOneToken, NEW t, NEW i \in WorkUnits, Handles(t, i),
           NEW type, Moves(i, type) \/ queue' = Rest
    PROVE  /\ OnePerSlot(queue')
           /\ \A k \in DOMAIN queue' :
                 \/ queue'[k].index = i /\ queue'[k].type = type /\ Moves(i, type)
                 \/ \E j \in DOMAIN queue : queue'[k] = queue[j] /\ queue[j].index # i
<1>1. /\ queue # << >> /\ queue \in Seq(Events) /\ Rest \in Seq(Events)
      /\ Head(queue).index = i /\ OnePerSlot(queue) /\ Rest = Tail(queue)
    BY HandledEvent DEF AtMostOneToken, OnePerSlot, Rest
<1>2. /\ OnePerSlot(Rest)
      /\ \A k \in DOMAIN Rest : /\ Rest[k].index # i
                                /\ \E j \in DOMAIN queue : Rest[k] = queue[j]
    BY <1>1, TailKeepsOnePerSlot
<1>3. CASE queue' = Rest
    BY <1>2, <1>3
<1>4. CASE Moves(i, type)
    <2>1. PICK e \in Events : e.index = i /\ e.type = type /\ queue' = Put(Rest, e)
        BY <1>4 DEF Moves
    <2>2. OnePerSlot(Put(Rest, e)) /\ ComesFrom(Rest, e, Put(Rest, e))
        BY <1>1, <1>2, <2>1, PutKeepsOnePerSlot
    <2> QED BY <1>2, <1>4, <2>1, <2>2 DEF ComesFrom
<1> QED BY <1>3, <1>4

\* A handler that posts an event which agrees with the new status of its slot.
LEMMA MovesKeepTokens ==
    ASSUME TypeOK, Tokens, NEW t \in Status, NEW i \in WorkUnits, Handles(t, i),
           NEW type \in Status, Moves(i, type),
           NEW s \in Status, s \in StatusesAt(type),
           status' = [status EXCEPT ![i] = s], UNCHANGED <<process, threads>>
    PROVE  Tokens'
<1>1. /\ OnePerSlot(queue')
      /\ \A k \in DOMAIN queue' :
            \/ queue'[k].index = i /\ queue'[k].type = type
            \/ \E j \in DOMAIN queue : queue'[k] = queue[j] /\ queue[j].index # i
    BY QueueAfterHandler DEF Tokens
<1>2. /\ queue[1].index = i /\ queue[1].type = t /\ 1 \in DOMAIN queue
      /\ process = "running" /\ queue \in Seq(Events)
    BY HandledEvent, TailKeepsOnePerSlot DEF Tokens, AtMostOneToken, OnePerSlot
<1>3. threads[i] = 0 /\ status[i] \in StatusesAt(t)
    BY <1>2 DEF Tokens, AtMostOneToken, EventsMatchStatus
<1>4. status[i] # Null
    BY <1>3, StatusTable DEF Status, Null
<1>5. /\ status'[i] = s /\ \A j \in WorkUnits : j # i => status'[j] = status[j]
    BY DEF TypeOK
<1>6. \A j \in DOMAIN queue : queue[j].index \in WorkUnits /\ queue[j].type # "Load"
    <2>1. \A j \in DOMAIN queue : queue[j] \in Events
        BY <1>2, ElementOfSeq, LenProperties
    <2> QED BY <1>4, <2>1 DEF Tokens, LoadIsAlone, Events
<1>7. AtMostOneToken'
    BY <1>1, <1>3 DEF Tokens, AtMostOneToken, OnePerSlot
<1>8. EventsMatchStatus'
    BY <1>1, <1>3, <1>5, <1>6 DEF Tokens, EventsMatchStatus
<1>9. LoadIsAlone'
    BY <1>1, <1>6 DEF LoadIsAlone, Status
<1>10. DeadIsEmpty'
    BY <1>2 DEF DeadIsEmpty
<1> QED BY <1>7, <1>8, <1>9, <1>10 DEF Tokens

\* What a handler may assume of its slot.
LEMMA HandledSlot ==
    ASSUME TypeOK, Tokens, NEW t, NEW i \in WorkUnits, Handles(t, i)
    PROVE  /\ status[i] \in StatusesAt(t) /\ status[i] \in Status \cup {Null}
           /\ threads[i] = 0
           /\ status = [status EXCEPT ![i] = status[i]]
<1>1. /\ queue[1].index = i /\ queue[1].type = t /\ 1 \in DOMAIN queue
    BY HandledEvent, TailKeepsOnePerSlot DEF Tokens, AtMostOneToken, OnePerSlot
<1>2. threads[i] = 0 /\ status[i] \in StatusesAt(t)
    BY <1>1 DEF Tokens, AtMostOneToken, EventsMatchStatus
<1> QED BY <1>2 DEF TypeOK

\* Each case of boincSchedulerHandleEvents consumes its event and posts exactly
\* one, or starts exactly one thread.
LEMMA HandlersKeepTokens ==
    ASSUME TypeOK, Tokens, NEW i \in WorkUnits, HandleWorkUnit(i)
    PROVE  Tokens'
<1>1. Status \subseteq EventTypes BY DEF EventTypes
<1> DEFINE Posts(t, type, s) ==
        /\ Handles(t, i)
        /\ PostNext(type, i) \/ (type = t /\ \E D \in SUBSET Nat : RetryAfter(D))
        /\ s \in StatusesAt(type) /\ SetStatus(i, s) /\ UNCHANGED <<process, threads>>
<1>2. ASSUME NEW t \in Status, NEW type \in Status, NEW s \in Status, Posts(t, type, s)
      PROVE  Tokens'
    <2>1. Moves(i, type)
        BY <1>1, <1>2, PostNextMoves, RetryMoves
    <2> QED BY <1>2, <2>1, MovesKeepTokens DEF SetStatus
<1>3. ASSUME NEW t \in Status, Handles(t, i)
      PROVE  status[i] \in StatusesAt(t) /\ (UNCHANGED status => SetStatus(i, status[i]))
    BY <1>3, HandledSlot DEF SetStatus
<1>4. CASE HandleCreated(i)
    <2>1. CASE SetStatus(i, "Initializing") /\ PostNext("Initializing", i)
        <3>1. Posts("Created", "Initializing", "Initializing")
            BY <1>4, <2>1, StatusTable DEF HandleCreated
        <3> QED BY <1>2, <3>1 DEF Status
    <2>2. CASE SetStatus(i, "Created") /\ RetryAfter({BusyDelay})
        <3>1. Posts("Created", "Created", "Created")
            BY <1>4, <2>2, StatusTable, DelaysAreNatural DEF HandleCreated
        <3> QED BY <1>2, <3>1 DEF Status
    <2> QED BY <1>4, <2>1, <2>2 DEF HandleCreated
<1>5. CASE RequestWork(i) \/ RequestWorkFails(i)
    <2>1. Handles("Initializing", i) /\ UNCHANGED <<process, status, threads>>
        BY <1>5 DEF RequestWork, RequestWorkFails
    <2>2. status[i] = "Initializing" /\ SetStatus(i, "Initializing")
        BY <1>3, <2>1, StatusTable DEF Status
    <2>3. CASE RequestWork(i)
        <3>1. Posts("Initializing", "Downloading", "Initializing")
            BY <2>1, <2>2, <2>3, StatusTable DEF RequestWork
        <3> QED BY <1>2, <3>1 DEF Status
    <2>4. CASE RequestWorkFails(i)
        <3>1. Posts("Initializing", "Initializing", "Initializing")
            BY <2>1, <2>2, <2>4, StatusTable, DelaysAreNatural DEF RequestWorkFails
        <3> QED BY <1>2, <3>1 DEF Status
    <2> QED BY <1>5, <2>3, <2>4
<1>6. CASE Download(i)
    <2>1. CASE PostNext("Waiting", i)
        <3>1. Posts("Downloading", "Waiting", "Downloading")
            BY <1>6, <2>1, StatusTable DEF Download
        <3> QED BY <1>2, <3>1 DEF Status
    <2>2. CASE RetryAfter(DelaysOfError)
        <3>1. Posts("Downloading", "Downloading", "Downloading")
            BY <1>6, <2>2, StatusTable, DelaysAreNatural DEF Download
        <3> QED BY <1>2, <3>1 DEF Status
    <2> QED BY <1>6, <2>1, <2>2 DEF Download
<1>7. CASE HandleWaiting(i)
    <2>1. CASE SetStatus(i, "Computing") /\ PostNext("Computing", i)
        <3>1. Posts("Waiting", "Computing", "Computing")
            BY <1>7, <2>1, StatusTable DEF HandleWaiting
        <3> QED BY <1>2, <3>1 DEF Status
    <2>2. CASE SetStatus(i, "Waiting") /\ RetryAfter({BusyDelay})
        <3>1. Posts("Waiting", "Waiting", "Waiting")
            BY <1>7, <2>2, StatusTable, DelaysAreNatural DEF HandleWaiting
        <3> QED BY <1>2, <3>1 DEF Status
    <2> QED BY <1>7, <2>1, <2>2 DEF HandleWaiting
<1>8. CASE Compute(i)
    <2>1. /\ Handles("Computing", i) /\ queue' = Rest
          /\ UNCHANGED <<process, status>> /\ process = "running"
        BY <1>8, HandledEvent DEF Compute
    <2>2. threads[i] = 0 /\ status[i] = "Computing"
        BY <2>1, HandledSlot, StatusTable
    <2>3. /\ threads'[i] <= 1
          /\ \A j \in WorkUnits : j # i => threads'[j] = threads[j]
        BY <1>8, <2>2 DEF Compute, TypeOK
    <2>4. /\ OnePerSlot(queue')
          /\ \A k \in DOMAIN queue' :
                \E j \in DOMAIN queue : queue'[k] = queue[j] /\ queue[j].index # i
        <3>1. /\ queue # << >> /\ queue \in Seq(Events) /\ Rest = Tail(queue)
              /\ Head(queue).index = i
            BY <2>1, HandledEvent DEF Rest
        <3>2. OnePerSlot(queue) BY DEF Tokens, AtMostOneToken, OnePerSlot
        <3> QED BY <2>1, <3>1, <3>2, TailKeepsOnePerSlot
    <2>5. \A j \in DOMAIN queue : queue[j].index \in WorkUnits
        <3>1. \A j \in DOMAIN queue : queue[j] \in Events
            BY ElementOfSeq, LenProperties DEF TypeOK
        <3> QED BY <3>1 DEF Events
    <2>6. AtMostOneToken'
        BY <2>3, <2>4, <2>5 DEF Tokens, AtMostOneToken, OnePerSlot
    <2>7. EventsMatchStatus' /\ LoadIsAlone'
        BY <2>1, <2>2, <2>3, <2>4 DEF Tokens, EventsMatchStatus, LoadIsAlone
    <2> QED BY <2>1, <2>6, <2>7 DEF Tokens, DeadIsEmpty
<1>9. CASE HandleFinished(i)
    <2>1. CASE SetStatus(i, "Uploading") /\ PostNext("Uploading", i)
        <3>1. Posts("Finished", "Uploading", "Uploading")
            BY <1>9, <2>1, StatusTable DEF HandleFinished
        <3> QED BY <1>2, <3>1 DEF Status
    <2>2. CASE SetStatus(i, "Finished") /\ RetryAfter({BusyDelay})
        <3>1. Posts("Finished", "Finished", "Finished")
            BY <1>9, <2>2, StatusTable, DelaysAreNatural DEF HandleFinished
        <3> QED BY <1>2, <3>1 DEF Status
    <2> QED BY <1>9, <2>1, <2>2 DEF HandleFinished
<1>10. CASE Upload(i) \/ UploadFails(i)
    <2>1. Handles("Uploading", i) /\ UNCHANGED <<process, status, threads>>
        BY <1>10 DEF Upload, UploadFails
    <2>2. status[i] = "Uploading" /\ SetStatus(i, "Uploading")
        BY <1>3, <2>1, StatusTable DEF Status
    <2>3. CASE Upload(i)
        <3>1. Posts("Uploading", "Completed", "Uploading")
            BY <2>1, <2>2, <2>3, StatusTable DEF Upload
        <3> QED BY <1>2, <3>1 DEF Status
    <2>4. CASE UploadFails(i)
        <3>1. Posts("Uploading", "Uploading", "Uploading")
            BY <2>1, <2>2, <2>4, StatusTable, DelaysAreNatural DEF UploadFails
        <3> QED BY <1>2, <3>1 DEF Status
    <2> QED BY <1>10, <2>3, <2>4
<1>11. CASE UploadGivesUp(i)
    <2>1. Posts("Uploading", "Failed", "Failed")
        BY <1>11, StatusTable DEF UploadGivesUp
    <2> QED BY <1>2, <2>1 DEF Status
<1>12. CASE ReportAndErase(i)
    <2>1. Posts("Completed", "Created", "Created") \/ Posts("Failed", "Created", "Created")
        BY <1>12, StatusTable DEF ReportAndErase, HandlesReport
    <2> QED BY <1>2, <2>1 DEF Status
<1>13. CASE ReportFails(i) \/ EraseFails(i)
    <2>1. \/ Posts("Completed", "Completed", "Completed")
          \/ Posts("Failed", "Failed", "Completed")
        BY <1>13, StatusTable, DelaysAreNatural
        DEF ReportFails, EraseFails, HandlesReport
    <2> QED BY <1>2, <2>1 DEF Status
<1> QED BY <1>4, <1>5, <1>6, <1>7, <1>8, <1>9, <1>10, <1>11, <1>12, <1>13
        DEF HandleWorkUnit

\* The process that ends takes every token with it.
LEMMA DeathKeepsTokens ==
    ASSUME NEW how, Dies(how) PROVE Tokens'
<1>1. queue' = << >> /\ DOMAIN queue' = {} BY DEF Dies
<1>2. \A i \in WorkUnits : status'[i] = Null /\ threads'[i] = 0 BY DEF Dies
<1>3. AtMostOneToken' BY <1>1, <1>2 DEF AtMostOneToken
<1>4. EventsMatchStatus' BY <1>1, <1>2 DEF EventsMatchStatus
<1> QED BY <1>1, <1>2, <1>3, <1>4 DEF Tokens, LoadIsAlone, DeadIsEmpty

\* A process that starts has one load event and nothing else.
Fresh ==
    queue = <<LoadEvent>> /\ \A i \in WorkUnits : status[i] = Null /\ threads[i] = 0

LEMMA LoadEventIsToken == Fresh => Tokens
<1> SUFFICES ASSUME Fresh PROVE Tokens
    OBVIOUS
<1> USE DEF Fresh
<1>1. DOMAIN queue = {1} /\ queue[1].index = 0 /\ queue[1].type = "Load" /\ 0 \in WorkUnits
    BY LoadEventIsTyped, SlotsAreNumbered
<1>2. AtMostOneToken BY <1>1 DEF AtMostOneToken
<1>3. EventsMatchStatus BY <1>1, StatusTable DEF EventsMatchStatus
<1> QED BY <1>2, <1>3 DEF Tokens, LoadIsAlone, DeadIsEmpty

\* While a load event is handled nothing else is under way.
LEMMA HandledLoad ==
    ASSUME TypeOK, Tokens, Handles("Load", 0)
    PROVE  /\ process = "running"
           /\ \A i \in WorkUnits : status[i] = Null /\ threads[i] = 0
<1>1. /\ queue # << >> /\ queue \in Seq(Events) /\ Head(queue).type = "Load"
      /\ process = "running"
    BY HandledEvent
<1>2. queue[1].type = "Load" /\ 1 \in DOMAIN queue
    BY <1>1, TailKeepsOnePerSlot DEF Tokens, AtMostOneToken, OnePerSlot
<1>3. \A i \in WorkUnits : status[i] = Null
    BY <1>2 DEF Tokens, LoadIsAlone
<1>4. \A i \in WorkUnits : threads[i] = 0
    <2>1. \A i \in WorkUnits : threads[i] \in Nat /\ ~(threads[i] > 0)
        BY <1>3 DEF TypeOK, Tokens, EventsMatchStatus, Null
    <2> QED BY <2>1
<1> QED BY <1>1, <1>3, <1>4

\* Loading gives one event to each slot it loads.
LEMMA LoadKeepsTokens ==
    ASSUME TypeOK, Tokens, HandleLoad
    PROVE  Tokens'
<1>1. Handles("Load", 0) /\ UNCHANGED <<process, threads>>
    <2>1. CASE LoadFails BY <2>1 DEF LoadFails
    <2>2. CASE LoadSucceeds \/ LoadStops
        BY <2>2, LoadIsLoadSlots DEF LoadSlots
    <2> QED BY <2>1, <2>2 DEF HandleLoad
<1>2. process = "running" /\ \A i \in WorkUnits : status[i] = Null /\ threads[i] = 0
    BY <1>1, HandledLoad
<1>3. CASE LoadFails
    <2>1. queue' = Rest \/ Moves(0, "Load")
        <3>1. /\ Rest \in Seq(Events) /\ Head(queue) \in Events
              /\ Head(queue).type = "Load" /\ Head(queue).index = 0
            BY <1>1, HandledEvent
        <3>2. \E e \in Events :
                 /\ e.index = Head(queue).index /\ e.type = Head(queue).type
                 /\ Regenerate(Rest, Head(queue), LoadDelay) = Put(Rest, e)
            BY <3>1, RegenerateMoves, DelaysAreNatural
        <3> QED BY <1>3, <3>1, <3>2 DEF LoadFails, Moves
    <2>2. /\ OnePerSlot(queue')
          /\ \A k \in DOMAIN queue' :
                \/ queue'[k].index = 0 /\ queue'[k].type = "Load"
                \/ \E j \in DOMAIN queue : queue'[k] = queue[j] /\ queue[j].index # 0
        BY <1>1, <2>1, QueueAfterHandler, SlotsAreNumbered DEF Tokens
    <2>3. UNCHANGED <<status, threads, process>> BY <1>3 DEF LoadFails
    <2>4. AtMostOneToken'
        BY <1>2, <2>2, <2>3, SlotsAreNumbered DEF Tokens, AtMostOneToken, OnePerSlot
    <2>5. EventsMatchStatus'
        BY <1>2, <2>2, <2>3, SlotsAreNumbered, StatusTable DEF Tokens, EventsMatchStatus
    <2> QED BY <1>2, <2>3, <2>4, <2>5 DEF Tokens, LoadIsAlone, DeadIsEmpty
<1>4. CASE LoadSucceeds \/ LoadStops
    <2>1. PICK n \in 0..NbWorkUnits, bad \in SUBSET WorkUnits,
               s \in Status \cup {Null} : LoadSlots(n, bad, s)
        BY <1>4, LoadIsLoadSlots
    <2>0. HasLoaded(n, bad, s) BY <2>1, LoadedState
    <2>2. /\ OnePerSlot(queue')
          /\ \A p \in DOMAIN queue' : /\ queue'[p].index \in 0..n - 1
                                      /\ queue'[p].type = status'[queue'[p].index]
          /\ \A i \in WorkUnits :
                i < n => status'[i] = IF i \in bad \/ disk[i] = NoFile
                                      THEN "Created" ELSE disk[i]
        BY <2>0 DEF HasLoaded
    <2>3. 0..n - 1 \subseteq WorkUnits BY SlotsAssumption DEF WorkUnits
    <2>4. \A i \in 0..n - 1 : status'[i] \in Storable \cup {"Failed", "Created"}
        BY <2>2, <2>3 DEF TypeOK, WorkUnits
    <2>5. AtMostOneToken'
        BY <1>1, <1>2, <2>2, <2>3 DEF AtMostOneToken, OnePerSlot
    <2>6. EventsMatchStatus'
        <3>1. \A x \in Storable \cup {"Failed", "Created"} : x \in StatusesAt(x)
            BY StatusTable DEF Storable
        <3> QED BY <1>1, <1>2, <2>2, <2>4, <3>1 DEF EventsMatchStatus
    <2>7. LoadIsAlone'
        BY <2>2, <2>4 DEF LoadIsAlone, Storable
    <2> QED BY <1>1, <1>2, <2>5, <2>6, <2>7 DEF Tokens, DeadIsEmpty
<1> QED BY <1>3, <1>4 DEF HandleLoad

\* A thread that ends leaves its event in its place.
LEMMA EndKeepsTokens ==
    ASSUME TypeOK, Tokens, NEW i \in WorkUnits, ComputationEnds(i)
    PROVE  Tokens'
<1>1. /\ queue \in Seq(Events) /\ OnePerSlot(queue)
      /\ \A k \in DOMAIN queue : queue[k] \in Events
    BY ElementOfSeq, LenProperties DEF TypeOK, Tokens, AtMostOneToken, OnePerSlot
<1>2. threads[i] = 1 /\ status[i] = "Computing"
    BY DEF ComputationEnds, TypeOK, Tokens, AtMostOneToken, EventsMatchStatus
<1>3. PICK e \in Events : /\ queue' = Put(queue, e) /\ e.index = i
                          /\ e.type \in {"Finished", "Failed"}
    <2>1. \A type \in {"Finished", "Failed"} :
             /\ Event(Now, type, i) \in Events /\ Event(Now, type, i).index = i
             /\ Event(Now, type, i).type = type
        BY EventIsTyped DEF EventTypes, Status, Now
    <2> QED BY <2>1 DEF ComputationEnds
<1>4. \A k \in DOMAIN queue : queue[k].index # i /\ queue[k].index \in WorkUnits
    BY <1>1, <1>2 DEF Tokens, AtMostOneToken, Events
<1>5. OnePerSlot(queue') /\ ComesFrom(queue, e, queue')
    BY <1>1, <1>3, <1>4, PutKeepsOnePerSlot
<1>6. /\ threads'[i] = 0 /\ \A j \in WorkUnits : j # i => threads'[j] = threads[j]
      /\ UNCHANGED <<process, status>> /\ process = "running"
    BY <1>2 DEF ComputationEnds, TypeOK
<1>7. AtMostOneToken'
    BY <1>3, <1>4, <1>5, <1>6 DEF Tokens, AtMostOneToken, OnePerSlot, ComesFrom
<1>8. EventsMatchStatus'
    BY <1>2, <1>3, <1>4, <1>5, <1>6, StatusTable
    DEF Tokens, EventsMatchStatus, ComesFrom
<1>9. LoadIsAlone'
    BY <1>3, <1>5, <1>6 DEF Tokens, LoadIsAlone, ComesFrom
<1> QED BY <1>6, <1>7, <1>8, <1>9 DEF Tokens, DeadIsEmpty

\* The passing of a second changes no type and no slot of an event.
LEMMA TickKeepsTokens ==
    ASSUME TypeOK, Tokens, Tick
    PROVE  Tokens'
<1>1. queue \in Seq(Events) /\ queue' = Elapse(queue)
    BY DEF TypeOK, Tick
<1>2. IsElapsed(queue, Elapse(queue))
    BY <1>1, ElapseProperties DEF Events
<1>3. DOMAIN queue = 1..Len(queue) BY <1>1, LenProperties
<1>4. /\ DOMAIN queue' = DOMAIN queue
      /\ \A k \in DOMAIN queue : /\ queue'[k].index = queue[k].index
                                 /\ queue'[k].type = queue[k].type
    BY <1>1, <1>2, <1>3 DEF IsElapsed
<1>5. UNCHANGED <<process, status, threads>> BY DEF Tick
<1> QED BY <1>4, <1>5
        DEF Tokens, AtMostOneToken, EventsMatchStatus, LoadIsAlone, DeadIsEmpty

-----------------------------------------------------------------------------
TypedTokens == TypeOK /\ QueueSorted /\ Tokens

LEMMA StepKeepsTokens ==
    ASSUME TypedTokens, [Next]_vars PROVE TypedTokens'
<1> USE DEF TypedTokens
<1>1. SUFFICES Tokens' BY StepKeepsTypes
<1>2. CASE HandleLoad BY <1>2, LoadKeepsTokens
<1>3. ASSUME NEW i \in WorkUnits, HandleWorkUnit(i) PROVE Tokens'
    BY <1>3, HandlersKeepTokens
<1>4. ASSUME NEW i \in WorkUnits, ComputationEnds(i) PROVE Tokens'
    BY <1>4, EndKeepsTokens
<1>5. CASE Tick BY <1>5, TickKeepsTokens
<1>6. CASE Killed \/ HandleNoEvent BY <1>6, DeathKeepsTokens DEF Killed, HandleNoEvent
<1>7. ASSUME NEW i \in WorkUnits, KilledInside(i) \/ BadLabel(i) PROVE Tokens'
    BY <1>7, DeathKeepsTokens DEF KilledInside, BadLabel
<1>8. CASE Start
    <2>1. Fresh' BY <1>8 DEF Start, Tokens, DeadIsEmpty, Fresh
    <2> QED BY <2>1, LoadEventIsToken, PTL
<1>9. CASE UNCHANGED vars
    BY <1>9 DEF vars, Tokens, AtMostOneToken, EventsMatchStatus, LoadIsAlone, DeadIsEmpty
<1> QED BY <1>2, <1>3, <1>4, <1>5, <1>6, <1>7, <1>8, <1>9 DEF Next

LEMMA TokensInvariant == Spec => []TypedTokens
<1>1. Init => TypedTokens
    BY InitHasTypes, LoadEventIsToken DEF Init, TypedTokens, Fresh
<1>2. TypedTokens /\ [Next]_vars => TypedTokens' BY StepKeepsTokens
<1> QED BY <1>1, <1>2, PTL DEF Spec

\* A slot has at most one queued event or one compute thread, never both.
THEOREM OneTokenPerSlot == Spec => []AtMostOneToken
<1>1. TypedTokens => AtMostOneToken BY DEF TypedTokens, Tokens
<1> QED BY <1>1, TokensInvariant, PTL

\* The type of a queued event agrees with the status of its slot.
THEOREM EventsAgreeWithStatus == Spec => []EventsMatchStatus
<1>1. TypedTokens => EventsMatchStatus BY DEF TypedTokens, Tokens
<1> QED BY <1>1, TokensInvariant, PTL

-----------------------------------------------------------------------------
(* What a step may do to a slot *)

\* A handler changes its own slot only, for which no thread runs.
LEMMA HandlersTouchOneSlot ==
    ASSUME TypeOK, Tokens, NEW i \in WorkUnits, HandleWorkUnit(i)
    PROVE  /\ threads[i] = 0
           /\ \A j \in WorkUnits : j # i => status'[j] = status[j] /\ disk'[j] = disk[j]
<1>1. \E t \in Status : Handles(t, i)
    BY DEF HandleWorkUnit, HandleCreated, RequestWork, RequestWorkFails, Download,
           HandleWaiting, Compute, HandleFinished, Upload, UploadFails, UploadGivesUp,
           ReportAndErase, ReportFails, EraseFails, HandlesReport, Status
<1>2. threads[i] = 0 BY <1>1, HandledSlot
<1>3. \/ UNCHANGED status
      \/ \E s \in Status : status' = [status EXCEPT ![i] = s]
    BY DEF HandleWorkUnit, HandleCreated, RequestWork, RequestWorkFails, Download,
           HandleWaiting, Compute, HandleFinished, Upload, UploadFails, UploadGivesUp,
           ReportAndErase, ReportFails, EraseFails, SetStatus, Status
<1>4. \/ UNCHANGED disk
      \/ \E f : disk' = [disk EXCEPT ![i] = f]
    BY DEF HandleWorkUnit, HandleCreated, RequestWork, RequestWorkFails, Download,
           HandleWaiting, Compute, HandleFinished, Upload, UploadFails, UploadGivesUp,
           ReportAndErase, ReportFails, EraseFails, SetFile
<1> QED BY <1>2, <1>3, <1>4 DEF TypeOK

\* A handler moves its slot along the life cycle: the status that its event names
\* follows on the one the slot has.
LEMMA HandlersFollowLifeCycle ==
    ASSUME TypeOK, Tokens, NEW i \in WorkUnits, HandleWorkUnit(i)
    PROVE  status'[i] \in Successors(status[i]) \cup {status[i]}
<1>1. ASSUME NEW t, Handles(t, i) PROVE status[i] \in StatusesAt(t)
    BY <1>1, HandledSlot
<1>2. ASSUME NEW s, SetStatus(i, s) PROVE status'[i] = s
    BY <1>2 DEF SetStatus, TypeOK
<1>3. /\ Successors("Created") = {"Initializing"}
      /\ Successors("Initializing") = {"Downloading"}
      /\ Successors("Downloading") = {"Waiting", "Computing"}
      /\ Successors("Waiting") = {"Computing"}
      /\ Successors("Computing") = {"Finished", "Uploading", "Completed", "Created"}
      /\ Successors("Finished") = {"Uploading"}
      /\ Successors("Uploading") = {"Failed", "Completed", "Created"}
      /\ Successors("Failed") = {"Completed", "Created"}
      /\ Successors("Completed") = {"Completed", "Created"}
    BY DEF Successors, Null
<1>4. CASE HandleCreated(i)
    BY <1>1, <1>2, <1>3, <1>4, StatusTable DEF HandleCreated
<1>5. CASE RequestWork(i) \/ RequestWorkFails(i) \/ Compute(i) \/ Upload(i) \/ UploadFails(i)
    BY <1>5 DEF RequestWork, RequestWorkFails, Compute, Upload, UploadFails
<1>6. CASE Download(i)
    BY <1>1, <1>2, <1>3, <1>6, StatusTable DEF Download
<1>7. CASE HandleWaiting(i)
    BY <1>1, <1>2, <1>3, <1>7, StatusTable DEF HandleWaiting
<1>8. CASE HandleFinished(i)
    BY <1>1, <1>2, <1>3, <1>8, StatusTable DEF HandleFinished
<1>9. CASE UploadGivesUp(i)
    BY <1>1, <1>2, <1>3, <1>9, StatusTable DEF UploadGivesUp
<1>10. CASE ReportAndErase(i) \/ ReportFails(i) \/ EraseFails(i)
    <2>1. PICK t \in {"Completed", "Failed"} : Handles(t, i)
        BY <1>10 DEF ReportAndErase, ReportFails, EraseFails, HandlesReport
    <2>2. status[i] \in {"Uploading", "Completed", "Computing", "Failed"}
        BY <1>1, <2>1, StatusTable
    <2>3. status'[i] \in {"Created", "Completed"}
        BY <1>2, <1>10 DEF ReportAndErase, ReportFails, EraseFails
    <2> QED BY <1>3, <2>2, <2>3
<1> QED BY <1>4, <1>5, <1>6, <1>7, <1>8, <1>9, <1>10 DEF HandleWorkUnit

\* A work unit that is computed is not changed by the scheduler, which is why it may
\* be read without a lock (BoincWorkUnit.c:193-196).
THEOREM ComputingIsUntouched == Spec => UntouchedWhileComputing
<1> DEFINE Untouched ==
        \A i \in WorkUnits : threads[i] > 0 /\ process' = "running"
            => status'[i] = status[i] /\ disk'[i] = disk[i]
<1>1. ASSUME TypedTokens, [Next]_vars PROVE [Untouched]_vars
    <2> USE <1>1 DEF TypedTokens
    <2>1. CASE HandleLoad
        <3>1. Handles("Load", 0)
            BY <2>1 DEF HandleLoad, LoadFails, LoadSucceeds, LoadStops, LoadSlots
        <3> QED BY <3>1, HandledLoad
    <2>2. ASSUME NEW i \in WorkUnits, HandleWorkUnit(i) PROVE Untouched
        BY <2>2, HandlersTouchOneSlot
    <2>3. ASSUME NEW i \in WorkUnits, ComputationEnds(i) \/ Tick PROVE Untouched
        BY <2>3 DEF ComputationEnds, Tick
    <2>4. ASSUME NEW i \in WorkUnits, Killed \/ HandleNoEvent \/ KilledInside(i) \/ BadLabel(i)
          PROVE  Untouched
        BY <2>4 DEF Killed, HandleNoEvent, KilledInside, BadLabel, Dies
    <2>5. CASE Start
        BY <2>5 DEF Start, Tokens, DeadIsEmpty
    <2> QED BY <2>1, <2>2, <2>3, <2>4, <2>5, SlotsAreNumbered DEF Next
<1> QED BY <1>1, TokensInvariant, PTL DEF Spec, UntouchedWhileComputing

\* While the process runs, a work unit only moves along its life cycle, although no
\* handler looks at the status it replaces (boincSchedulerHandleEvents).
THEOREM LifeCycleIsKept == Spec => LifeCycle
<1> DEFINE Moved ==
        \A i \in WorkUnits :
            status'[i] # Null => status'[i] \in Successors(status[i]) \cup {status[i]}
<1>1. ASSUME TypedTokens, [Next]_vars PROVE [Moved]_vars
    <2> USE <1>1 DEF TypedTokens
    <2>0. UNCHANGED status => Moved
        OBVIOUS
    <2>1. CASE HandleLoad
        <3>1. Handles("Load", 0)
            BY <2>1 DEF HandleLoad, LoadFails, LoadSucceeds, LoadStops, LoadSlots
        <3>2. \A i \in WorkUnits : status[i] = Null BY <3>1, HandledLoad
        <3>3. status' \in [WorkUnits -> Status \cup {Null}]
            BY StepKeepsTypes DEF TypeOK
        <3>4. Successors(Null) = Status BY DEF Successors, Null
        <3> QED BY <3>2, <3>3, <3>4
    <2>2. ASSUME NEW i \in WorkUnits, HandleWorkUnit(i) PROVE Moved
        BY <2>2, HandlersTouchOneSlot, HandlersFollowLifeCycle
    <2>3. ASSUME NEW i \in WorkUnits, ComputationEnds(i) \/ Tick \/ Start PROVE Moved
        BY <2>0, <2>3 DEF ComputationEnds, Tick, Start
    <2>4. ASSUME NEW i \in WorkUnits, Killed \/ HandleNoEvent \/ KilledInside(i) \/ BadLabel(i)
          PROVE  Moved
        BY <2>4 DEF Killed, HandleNoEvent, KilledInside, BadLabel, Dies
    <2> QED BY <2>1, <2>2, <2>3, <2>4, SlotsAreNumbered DEF Next
<1> QED BY <1>1, TokensInvariant, PTL DEF Spec, LifeCycle

-----------------------------------------------------------------------------
(* And no slot without a token *)

\* Nothing gets lost in a put.
LEMMA PutContains ==
    ASSUME NEW q \in Seq(Events), NEW e \in Events
    PROVE  /\ \E k \in DOMAIN Put(q, e) : Put(q, e)[k] = e
           /\ \A j \in DOMAIN q : \E k \in DOMAIN Put(q, e) : Put(q, e)[k] = q[j]
<1> DEFINE r == Put(q, e)
           p == Place(q, e)
<1>1. /\ r \in Seq(Events) /\ p \in 1..Len(q) + 1 /\ IsInserted(q, p, e, r)
    BY PutProperties, EventsAreEntries
<1>2. DOMAIN q = 1..Len(q) /\ Len(q) \in Nat /\ DOMAIN r = 1..Len(r)
    BY <1>1, LenProperties
<1> HIDE DEF r, p
<1>3. DOMAIN r = 1..Len(q) + 1
    BY <1>1, <1>2 DEF IsInserted
<1>4. p \in DOMAIN r /\ r[p] = e
    BY <1>1, <1>2, <1>3 DEF IsInserted
<1>5. ASSUME NEW j \in DOMAIN q PROVE \E k \in DOMAIN r : r[k] = q[j]
    <2>1. CASE j < p
        <3>1. j \in DOMAIN r /\ r[j] = q[j]
            BY <1>1, <1>2, <1>3, <1>5, <2>1 DEF IsInserted
        <3> QED BY <3>1
    <2>2. CASE j >= p
        <3>1. j + 1 \in DOMAIN r /\ j + 1 > p /\ (j + 1) - 1 = j
            BY <1>1, <1>2, <1>3, <1>5, <2>2
        <3>2. r[j + 1] = q[j]
            BY <1>1, <1>2, <1>3, <3>1 DEF IsInserted
        <3> QED BY <3>1, <3>2
    <2> QED BY <1>1, <1>2, <1>5, <2>1, <2>2
<1> QED BY <1>4, <1>5 DEF r

\* Only the first entry is missing from the rest.
LEMMA TailContains ==
    ASSUME NEW q \in Seq(Events), q # << >>, NEW j \in DOMAIN q, q[j].index # Head(q).index
    PROVE  \E k \in DOMAIN Tail(q) : Tail(q)[k] = q[j]
<1>1. /\ Len(Tail(q)) = Len(q) - 1 /\ Len(q) \in Nat
      /\ \A k \in 1..Len(Tail(q)) : Tail(q)[k] = q[k + 1]
      /\ DOMAIN Tail(q) = 1..Len(Tail(q)) /\ DOMAIN q = 1..Len(q) /\ Head(q) = q[1]
    BY HeadTailProperties, LenProperties
<1>2. j # 1 /\ j - 1 \in DOMAIN Tail(q) /\ (j - 1) + 1 = j
    BY <1>1
<1> QED BY <1>1, <1>2

HasToken(i) == threads[i] > 0 \/ \E p \in DOMAIN queue : queue[p].index = i

\* A handler posts an event for its slot and loses none of another slot.
LEMMA MovesKeepEvents ==
    ASSUME TypeOK, NEW t, NEW i \in WorkUnits, Handles(t, i),
           NEW type, Moves(i, type) \/ queue' = Rest,
           NEW j \in WorkUnits, \E p \in DOMAIN queue : queue[p].index = j
    PROVE  \/ \E p \in DOMAIN queue' : queue'[p].index = j
           \/ j = i /\ queue' = Rest
<1>1. /\ queue # << >> /\ queue \in Seq(Events) /\ Rest \in Seq(Events)
      /\ Head(queue).index = i /\ Rest = Tail(queue)
    BY HandledEvent DEF Rest
<1>2. j # i => \E p \in DOMAIN Rest : Rest[p].index = j
    BY <1>1, TailContains
<1>3. CASE queue' = Rest BY <1>2, <1>3
<1>4. CASE Moves(i, type)
    <2>1. PICK e \in Events : e.index = i /\ queue' = Put(Rest, e)
        BY <1>4 DEF Moves
    <2>2. /\ \E k \in DOMAIN queue' : queue'[k] = e
          /\ \A p \in DOMAIN Rest : \E k \in DOMAIN queue' : queue'[k] = Rest[p]
        <3>1. Rest \in Seq(Events) BY <1>1
        <3> HIDE DEF Rest
        <3> QED BY <2>1, <3>1, PutContains
    <2> QED BY <1>2, <2>1, <2>2
<1> QED BY <1>3, <1>4

\* Nothing stops a computation from being started, nor a load from reaching the end.
NothingIsStuck == Faults \cap {"launch", "stuck"} = {}

LEMMA HandlersStrandNone ==
    ASSUME NothingIsStuck, TypeOK, Tokens, NoSlotIsStranded,
           NEW i \in WorkUnits, HandleWorkUnit(i)
    PROVE  NoSlotIsStranded'
<1>1. \A j \in WorkUnits : status[j] # Null => HasToken(j)
    BY DEF NoSlotIsStranded, HasToken
<1>2. \A j \in WorkUnits : j # i => status'[j] = status[j]
    BY HandlersTouchOneSlot
<1>3. CASE Compute(i)
    <2>1. Handles("Computing", i) /\ queue' = Rest BY <1>3 DEF Compute
    <2>2. /\ threads'[i] > 0 /\ \A j \in WorkUnits : j # i => threads'[j] = threads[j]
        <3>1. threads' = [threads EXCEPT ![i] = @ + 1] BY <1>3 DEF Compute, NothingIsStuck
        <3>2. threads[i] \in Nat BY DEF TypeOK
        <3> QED BY <3>1, <3>2 DEF TypeOK
    <2>3. ASSUME NEW j \in WorkUnits, j # i, status'[j] # Null
          PROVE  threads'[j] > 0 \/ \E p \in DOMAIN queue' : queue'[p].index = j
        <3>1. HasToken(j) BY <1>1, <1>2, <2>3
        <3> QED BY <2>1, <2>2, <2>3, <3>1, MovesKeepEvents DEF HasToken
    <2> QED BY <2>2, <2>3 DEF NoSlotIsStranded
<1>4. CASE ~Compute(i)
    <2>1. PICK t \in Status, type \in Status : Handles(t, i) /\ Moves(i, type)
        <3>1. Status \subseteq EventTypes BY DEF EventTypes
        <3>2. \E t \in Status, type \in Status :
                 /\ Handles(t, i)
                 /\ PostNext(type, i) \/ (type = t /\ \E D \in SUBSET Nat : RetryAfter(D))
            BY <1>4, DelaysAreNatural
            DEF HandleWorkUnit, HandleCreated, RequestWork, RequestWorkFails, Download,
                HandleWaiting, HandleFinished, Upload, UploadFails, UploadGivesUp,
                ReportAndErase, ReportFails, EraseFails, HandlesReport, Status
        <3> QED BY <3>1, <3>2, PostNextMoves, RetryMoves
    <2>2. UNCHANGED threads
        BY <1>4
        DEF HandleWorkUnit, HandleCreated, RequestWork, RequestWorkFails, Download,
            HandleWaiting, HandleFinished, Upload, UploadFails, UploadGivesUp,
            ReportAndErase, ReportFails, EraseFails
    <2>3. \E p \in DOMAIN queue' : queue'[p].index = i
        <3>1. PICK e \in Events : e.index = i /\ queue' = Put(Rest, e)
            BY <2>1 DEF Moves
        <3>2. Rest \in Seq(Events) BY <2>1, HandledEvent
        <3> QED BY <3>1, <3>2, PutContains
    <2>4. ASSUME NEW j \in WorkUnits, j # i, status'[j] # Null
          PROVE  threads'[j] > 0 \/ \E p \in DOMAIN queue' : queue'[p].index = j
        <3>1. HasToken(j) BY <1>1, <1>2, <2>4
        <3> QED BY <2>1, <2>2, <2>4, <3>1, MovesKeepEvents DEF HasToken
    <2> QED BY <2>3, <2>4 DEF NoSlotIsStranded
<1> QED BY <1>3, <1>4

\* Every slot with a work unit has an event or a thread that will move it on: no
\* handler forgets to post, as long as the application starts what it is given.
THEOREM NoneIsStranded ==
    ASSUME NothingIsStuck PROVE Spec => []NoSlotIsStranded
<1> DEFINE Inv == TypedTokens /\ NoSlotIsStranded
<1>1. Init => Inv
    BY InitHasTypes, LoadEventIsToken DEF Init, TypedTokens, Fresh, NoSlotIsStranded
<1>2. ASSUME Inv, [Next]_vars PROVE Inv'
    <2> USE <1>2 DEF TypedTokens
    <2>1. TypedTokens' BY StepKeepsTokens
    <2>2. SUFFICES NoSlotIsStranded' BY <2>1
    <2>3. (\A i \in WorkUnits : status'[i] = Null) => NoSlotIsStranded'
        BY DEF NoSlotIsStranded
    <2>4. CASE LoadFails
        BY <2>3, <2>4, HandledLoad DEF LoadFails
    <2>5. CASE LoadSucceeds \/ LoadStops
        <3>1. PICK n \in 0..NbWorkUnits, bad \in SUBSET WorkUnits,
                   s \in Status \cup {Null} :
                  LoadSlots(n, bad, s) /\ (n < NbWorkUnits => "stuck" \in Faults)
            BY <2>5, LoadIsLoadSlots
        <3>2. n = NbWorkUnits /\ n \in Nat /\ WorkUnits = 0..n - 1
            BY <3>1, SlotsAssumption DEF NothingIsStuck, WorkUnits
        <3>3. \E loaded : \E order \in [1..n -> 0..n - 1] :
                 /\ IsLoadOrder(order, n, loaded)
                 /\ queue' = [p \in 1..n |-> LoadedEvent(order[p], loaded)]
            BY <3>1 DEF LoadSlots
        <3>4. PICK loaded : \E order \in [1..n -> 0..n - 1] :
                 /\ IsLoadOrder(order, n, loaded)
                 /\ queue' = [p \in 1..n |-> LoadedEvent(order[p], loaded)]
            BY <3>3
        <3>5. PICK order \in [1..n -> 0..n - 1] :
                 /\ \A i \in WorkUnits : \E p \in 1..n : order[p] = i
                 /\ queue' = [p \in 1..n |-> LoadedEvent(order[p], loaded)]
            BY <3>2, <3>4 DEF IsLoadOrder
        <3>6. \A p \in 1..n : p \in DOMAIN queue' /\ queue'[p].index = order[p]
            BY <3>5 DEF LoadedEvent, Event
        <3> QED BY <3>5, <3>6 DEF NoSlotIsStranded
    <2>6. ASSUME NEW i \in WorkUnits, HandleWorkUnit(i) PROVE NoSlotIsStranded'
        BY <2>6, HandlersStrandNone
    <2>7. ASSUME NEW i \in WorkUnits, ComputationEnds(i) PROVE NoSlotIsStranded'
        <3>1. PICK e \in Events : queue' = Put(queue, e) /\ e.index = i
            <4>1. \A type \in {"Finished", "Failed"} :
                     Event(Now, type, i) \in Events /\ Event(Now, type, i).index = i
                BY EventIsTyped DEF EventTypes, Status, Now
            <4> QED BY <2>7, <4>1 DEF ComputationEnds
        <3>2. /\ \E k \in DOMAIN queue' : queue'[k] = e
              /\ \A p \in DOMAIN queue : \E k \in DOMAIN queue' : queue'[k] = queue[p]
            BY <3>1, PutContains DEF TypeOK
        <3>3. UNCHANGED status /\ \A j \in WorkUnits : j # i => threads'[j] = threads[j]
            BY <2>7 DEF ComputationEnds, TypeOK
        <3> QED BY <3>1, <3>2, <3>3 DEF NoSlotIsStranded
    <2>8. CASE Tick
        <3>1. queue \in Seq(Events) /\ queue' = Elapse(queue) /\ UNCHANGED <<status, threads>>
            BY <2>8 DEF TypeOK, Tick
        <3>2. IsElapsed(queue, Elapse(queue)) BY <3>1, ElapseProperties DEF Events
        <3>3. DOMAIN queue = 1..Len(queue) BY <3>1, LenProperties
        <3> QED BY <3>1, <3>2, <3>3 DEF IsElapsed, NoSlotIsStranded
    <2>9. ASSUME NEW i \in WorkUnits, Killed \/ HandleNoEvent \/ KilledInside(i) \/ BadLabel(i)
          PROVE  NoSlotIsStranded'
        BY <2>3, <2>9 DEF Killed, HandleNoEvent, KilledInside, BadLabel, Dies
    <2>10. CASE Start
        BY <2>3, <2>10 DEF Start, Tokens, DeadIsEmpty
    <2>11. CASE UNCHANGED vars
        BY <2>11 DEF vars, NoSlotIsStranded
    <2> QED BY <2>4, <2>5, <2>6, <2>7, <2>8, <2>9, <2>10, <2>11, SlotsAreNumbered
            DEF Next, HandleLoad
<1> QED BY <1>1, <1>2, PTL DEF Spec
=============================================================================
