------------------------ MODULE BoincLifecycleProofs ------------------------
(***************************************************************************)
(* The scheduler implements the life cycle that WorkUnitLifecycle states,  *)
(* for any number of slots: each step maps to one of its steps or to none, *)
(* as long as files are kept, none is torn or unreadable, and no work unit *)
(* fails.                                                                  *)
(*                                                                         *)
(* The stage of a slot is read off its file and its history, so all that   *)
(* was proved of them is needed: what a file says follows what the process *)
(* knows (Follows), what was uploaded is not computed again (Consistent),  *)
(* and an event is there only for what happened (Vouches).                 *)
(***************************************************************************)
EXTENDS BoincFileProofs

NothingIsLost ==
    Faults \cap {"write", "stuck", "compute", "torn", "unreadable", "files"} = {}

\* Without these faults no work unit fails.
NoneFailed ==
    /\ \A i \in WorkUnits : disk[i] # "Failed" /\ "failed" \notin done[i]
    /\ \A p \in DOMAIN queue : queue[p].type # "Failed"

-----------------------------------------------------------------------------
(* No work unit fails *)

LEMMA NoneFailedHandled ==
    ASSUME TypeOK, Tokens, NoneFailed, NEW t, NEW i, Handles(t, i)
    PROVE  t # "Failed"
<1>1. queue[1].type = t /\ 1 \in DOMAIN queue
    BY HandledEvent, TailKeepsOnePerSlot DEF Tokens, AtMostOneToken, OnePerSlot
<1> QED BY <1>1 DEF NoneFailed

LEMMA HandlersFailNone ==
    ASSUME NothingIsLost, TypeOK, Tokens, NoneFailed,
           NEW i \in WorkUnits, HandleWorkUnit(i)
    PROVE  NoneFailed'
<1>1. ~UploadGivesUp(i) BY DEF NothingIsLost, UploadGivesUp
<1>2. ~Handles("Failed", i) BY NoneFailedHandled
<1>3. disk = [disk EXCEPT ![i] = disk[i]] /\ done = [done EXCEPT ![i] = done[i]]
    BY DEF TypeOK
<1>4. \E t, type \in Status \ {"Failed"} :
         /\ Handles(t, i)
         /\ \/ queue' = Rest
            \/ PostNext(type, i)
            \/ type = t /\ \E D \in SUBSET Nat : RetryAfter(D)
    BY <1>1, <1>2, DelaysAreNatural
    DEF HandleWorkUnit, HandleCreated, RequestWork, RequestWorkFails, Download,
        HandleWaiting, Compute, HandleFinished, Upload, UploadFails,
        ReportAndErase, ReportFails, EraseFails, HandlesReport, Status
<1>5. PICK t, type \in Status \ {"Failed"} :
         Handles(t, i) /\ (Moves(i, type) \/ queue' = Rest)
    <2>1. Status \subseteq EventTypes BY DEF EventTypes
    <2> QED BY <1>4, <2>1, PostNextMoves, RetryMoves
<1>6. \A p \in DOMAIN queue' : queue'[p].type # "Failed"
    <2>1. \A k \in DOMAIN queue' :
             \/ queue'[k].index = i /\ queue'[k].type = type
             \/ \E j \in DOMAIN queue : queue'[k] = queue[j] /\ queue[j].index # i
        BY <1>5, QueueAfterHandler DEF Tokens
    <2> QED BY <1>5, <2>1 DEF NoneFailed
<1>7. Told = "told_ok" \/ ~HandlesReport(i)
    BY <1>2 DEF Told, HandlesReport, Handles
<1>8. \E d : done' = [done EXCEPT ![i] = d] /\ "failed" \notin d
    <2>1. "failed" \notin done[i] BY DEF NoneFailed
    <2> QED BY <1>1, <1>3, <1>7, <2>1
        DEF HandleWorkUnit, HandleCreated, RequestWork, RequestWorkFails, Download,
            HandleWaiting, Compute, HandleFinished, Upload, UploadFails, Achieve,
            ReportAndErase, ReportFails, EraseFails
<1>9. \E f : disk' = [disk EXCEPT ![i] = f] /\ f # "Failed"
    <2>1. /\ disk[i] # "Failed" /\ NoFile # "Failed"
          /\ {"Downloading", "Waiting", "Computing", "Finished", "Uploading"} \subseteq Status
        BY DEF NoneFailed, NoFile, Status
    <2>2. CASE Download(i)
        <3>1. StoreResults(status[i], "Downloading", disk[i])
                \subseteq {disk[i], "Downloading", NoFile}
            BY <2>1, StoreLeaves
        <3> QED BY <2>1, <2>2, <3>1 DEF Download, SetFile
    <2>3. CASE HandleWaiting(i)
        <3>1. StoreResults(status[i], "Waiting", disk[i]) \subseteq {disk[i], "Waiting", NoFile}
            BY <2>1, StoreLeaves
        <3>2. StoreTwice(status[i], "Waiting", "Computing", disk[i])
                \subseteq {disk[i], "Waiting", "Computing", NoFile}
            BY <2>1, StoreTwiceLeaves
        <3> QED BY <2>1, <2>3, <3>1, <3>2 DEF HandleWaiting, SetFile
    <2>4. CASE HandleFinished(i)
        <3>1. StoreResults(status[i], "Finished", disk[i]) \subseteq {disk[i], "Finished", NoFile}
            BY <2>1, StoreLeaves
        <3>2. StoreTwice(status[i], "Finished", "Uploading", disk[i])
                \subseteq {disk[i], "Finished", "Uploading", NoFile}
            BY <2>1, StoreTwiceLeaves
        <3> QED BY <2>1, <2>4, <3>1, <3>2 DEF HandleFinished, SetFile
    <2>5. CASE ReportAndErase(i) \/ ReportFails(i) \/ EraseFails(i)
        BY <1>3, <2>1, <2>5 DEF ReportAndErase, ReportFails, EraseFails, SetFile
    <2>6. UNCHANGED disk => \E f : disk' = [disk EXCEPT ![i] = f] /\ f # "Failed"
        BY <1>3, <2>1
    <2> QED BY <1>1, <2>2, <2>3, <2>4, <2>5, <2>6
        DEF HandleWorkUnit, HandleCreated, RequestWork, RequestWorkFails,
            Compute, Upload, UploadFails
<1>10. \A j \in WorkUnits : disk'[j] # "Failed" /\ "failed" \notin done'[j]
    <2>1. PICK d : done' = [done EXCEPT ![i] = d] /\ "failed" \notin d BY <1>8
    <2>2. PICK f : disk' = [disk EXCEPT ![i] = f] /\ f # "Failed" BY <1>9
    <2> QED BY <2>1, <2>2 DEF NoneFailed, TypeOK
<1> QED BY <1>6, <1>10 DEF NoneFailed

LEMMA StepFailsNone ==
    ASSUME NothingIsLost, TypeOK, Tokens, NoneFailed, [Next]_vars
    PROVE  NoneFailed'
<1>1. CASE LoadFails
    <2>1. Handles("Load", 0) /\ UNCHANGED <<disk, done>> BY <1>1 DEF LoadFails
    <2>2. queue' = Rest \/ Moves(0, "Load")
        <3>1. /\ Rest \in Seq(Events) /\ Head(queue) \in Events
              /\ Head(queue).type = "Load" /\ Head(queue).index = 0
            BY <2>1, HandledEvent
        <3>2. \E e \in Events :
                 /\ e.index = Head(queue).index /\ e.type = Head(queue).type
                 /\ Regenerate(Rest, Head(queue), LoadDelay) = Put(Rest, e)
            BY <3>1, RegenerateMoves, DelaysAreNatural
        <3> QED BY <1>1, <3>1, <3>2 DEF LoadFails, Moves
    <2>3. \A k \in DOMAIN queue' :
             \/ queue'[k].type = "Load"
             \/ \E j \in DOMAIN queue : queue'[k] = queue[j]
        BY <2>1, <2>2, QueueAfterHandler, SlotsAreNumbered DEF Tokens
    <2> QED BY <2>1, <2>3 DEF NoneFailed
<1>2. CASE LoadSucceeds \/ LoadStops
    <2>1. PICK n \in 0..NbWorkUnits, bad \in SUBSET WorkUnits,
               s \in Status \cup {Null} :
              /\ LoadSlots(n, bad, s)
              /\ \A i \in WorkUnits : disk'[i] \in {disk[i], NoFile}
        BY <1>2, LoadIsLoadSlots
    <2>2. HasLoaded(n, bad, s) BY <2>1, LoadedState
    <2>3. done' = done BY <2>1 DEF LoadSlots
    <2>4. \A i \in 0..n - 1 : /\ i \in WorkUnits
                             /\ status'[i] = IF i \in bad \/ disk[i] = NoFile
                                             THEN "Created" ELSE disk[i]
        BY <2>2, SlotsAssumption DEF HasLoaded, WorkUnits
    <2>5. \A p \in DOMAIN queue' : queue'[p].type # "Failed"
        BY <2>2, <2>4 DEF HasLoaded, NoneFailed
    <2>6. \A i \in WorkUnits : disk'[i] # "Failed" /\ "failed" \notin done'[i]
        BY <2>1, <2>3 DEF NoneFailed, NoFile
    <2> QED BY <2>5, <2>6 DEF NoneFailed
<1>3. ASSUME NEW i \in WorkUnits, HandleWorkUnit(i) PROVE NoneFailed'
    BY <1>3, HandlersFailNone
<1>4. ASSUME NEW i \in WorkUnits, ComputationEnds(i) PROVE NoneFailed'
    <2>1. /\ queue' = Put(queue, Event(Now, "Finished", i)) /\ UNCHANGED disk
          /\ done' = [done EXCEPT ![i] = done[i] \cup {"computed"}]
        BY <1>4 DEF ComputationEnds, Achieve, NothingIsLost
    <2>2. Event(Now, "Finished", i) \in Events /\ Event(Now, "Finished", i).type = "Finished"
        BY EventIsTyped DEF EventTypes, Status, Now
    <2>3. threads[i] = 1 /\ OnePerSlot(queue) /\ queue \in Seq(Events)
        BY <1>4 DEF ComputationEnds, TypeOK, Tokens, AtMostOneToken, OnePerSlot
    <2>4. \A k \in DOMAIN queue : queue[k].index # Event(Now, "Finished", i).index
        BY <2>3 DEF Tokens, AtMostOneToken, Event
    <2>5. ComesFrom(queue, Event(Now, "Finished", i), queue')
        BY <2>1, <2>2, <2>3, <2>4, PutKeepsOnePerSlot
    <2>6. \A p \in DOMAIN queue' : queue'[p].type # "Failed"
        BY <2>2, <2>5 DEF NoneFailed, ComesFrom
    <2>7. \A j \in WorkUnits : "failed" \notin done'[j]
        BY <2>1 DEF NoneFailed, TypeOK
    <2> QED BY <2>1, <2>6, <2>7 DEF NoneFailed
<1>5. CASE Tick
    <2>1. queue \in Seq(Events) /\ queue' = Elapse(queue) /\ UNCHANGED <<disk, done>>
        BY <1>5 DEF TypeOK, Tick
    <2>2. IsElapsed(queue, Elapse(queue)) BY <2>1, ElapseProperties DEF Events
    <2>3. DOMAIN queue = 1..Len(queue) BY <2>1, LenProperties
    <2> QED BY <2>1, <2>2, <2>3 DEF IsElapsed, NoneFailed
<1>6. ASSUME NEW how, Dies(how),
             \A i \in WorkUnits : disk'[i] # "Failed" /\ "failed" \notin done'[i]
      PROVE  NoneFailed'
    <2>1. DOMAIN queue' = {} BY <1>6 DEF Dies
    <2> QED BY <1>6, <2>1 DEF NoneFailed
<1>7. ASSUME NEW i \in WorkUnits, Killed \/ HandleNoEvent \/ BadLabel(i) PROVE NoneFailed'
    BY <1>6, <1>7 DEF Killed, HandleNoEvent, BadLabel, NoneFailed
<1>8. ASSUME NEW i \in WorkUnits, KilledInside(i) PROVE NoneFailed'
    <2>1. ASSUME NEW d, "failed" \notin d, done' = [done EXCEPT ![i] = d],
                 NEW f, f # "Failed", disk' = [disk EXCEPT ![i] = f]
          PROVE  NoneFailed'
        <3>1. \A j \in WorkUnits : disk'[j] # "Failed" /\ "failed" \notin done'[j]
            BY <2>1 DEF NoneFailed, TypeOK
        <3> QED BY <1>6, <1>8, <3>1 DEF KilledInside
    <2>2. /\ disk = [disk EXCEPT ![i] = disk[i]] /\ done = [done EXCEPT ![i] = done[i]]
          /\ disk[i] # "Failed" /\ "failed" \notin done[i] /\ NoFile # "Failed"
        BY DEF TypeOK, NoneFailed, NoFile
    <2>3. CASE UNCHANGED disk /\ done' = [done EXCEPT ![i] = {"received"}]
        BY <2>1, <2>2, <2>3
    <2>4. CASE HandlesReport(i) /\ SetFile(i, {disk[i], NoFile}) /\ Achieve(i, {Told})
        <3>1. ~Handles("Failed", i) BY NoneFailedHandled
        <3>2. Told = "told_ok"
            BY <2>4, <3>1 DEF Told, HandlesReport, Handles
        <3> QED BY <2>1, <2>2, <2>4, <3>2 DEF SetFile, Achieve
    <2>5. ASSUME NEW type \in {"Downloading", "Waiting", "Finished"},
                 NEW f \in FilesInside(type, i), disk' = [disk EXCEPT ![i] = f],
                 UNCHANGED done
          PROVE  NoneFailed'
        <3>1. type \in Status /\ type # "Failed" BY DEF Status
        <3>2. StoreResults(status[i], type, disk[i]) \subseteq {disk[i], type, NoFile}
            BY <3>1, StoreLeaves
        <3>3. ASSUME NEW s \in Promotion(type, i)
              PROVE  /\ StoreTwice(status[i], type, s, disk[i])
                          \subseteq {disk[i], type, s, NoFile}
                     /\ s # "Failed"
            <4>1. s \in {"Computing", "Uploading"} BY <3>3 DEF Promotion
            <4>2. s \in Status BY <4>1 DEF Status
            <4> QED BY <3>1, <4>1, <4>2, StoreTwiceLeaves
        <3>4. f \in {disk[i], type, NoFile} \cup Promotion(type, i)
            <4>1. UNION {StoreTwice(status[i], type, s, disk[i]) : s \in Promotion(type, i)}
                    \subseteq {disk[i], type, NoFile} \cup Promotion(type, i)
                BY <3>3
            <4> QED BY <3>2, <4>1 DEF FilesInside
        <3>5. f # "Failed" BY <2>2, <3>1, <3>3, <3>4
        <3> QED BY <2>1, <2>2, <2>5, <3>5
    <2> QED BY <1>8, <2>3, <2>4, <2>5 DEF KilledInside, SetFile
<1>9. CASE Start
    <2>1. DOMAIN queue' = {1} /\ queue'[1].type = "Load"
        BY <1>9, LoadEventIsTyped DEF Start
    <2> QED BY <1>9, <2>1 DEF Start, NoneFailed
<1>10. CASE UNCHANGED vars
    BY <1>10 DEF vars, NoneFailed
<1> QED BY <1>1, <1>2, <1>3, <1>4, <1>5, <1>7, <1>8, <1>9, <1>10, SlotsAreNumbered
        DEF Next, HandleLoad

-----------------------------------------------------------------------------
(* The mapping *)

\* The variables of WorkUnitLifecycle, as BoincScheduler substitutes them.
StageMap == [i \in WorkUnits |-> StageOf(i)]
ComputingMap == {i \in WorkUnits : status[i] = "Computing"}

\* StageOf, as a function of history and file.
Stage(d, f) ==
    CASE "told_ok" \in d -> "reported"
      [] "told_ok" \notin d /\ f \in {"Finished", "Uploading"} -> "computed"
      [] "told_ok" \notin d /\ f \in ToCompute -> "held"
      [] OTHER -> "none"

LEMMA StageTable ==
    ASSUME NEW d, NEW f
    PROVE  /\ "told_ok" \in d => Stage(d, f) = "reported"
           /\ "told_ok" \notin d /\ f \in {"Finished", "Uploading"} => Stage(d, f) = "computed"
           /\ "told_ok" \notin d /\ f \in ToCompute => Stage(d, f) = "held"
           /\ "told_ok" \notin d /\ f = NoFile => Stage(d, f) = "none"
BY DEF Stage, ToCompute, NoFile

LEMMA StageIsStage ==
    ASSUME NEW i \in WorkUnits
    PROVE  StageMap[i] = Stage(done[i], disk[i])
BY DEF StageMap, StageOf, Stage, ToCompute

\* What a step does to the abstract slot: nothing, or a step of WorkUnitLifecycle.
Advances(i, to) ==
    \/ to = StageMap[i]
    \/ StageMap[i] = "none" /\ to = "held"
    \/ StageMap[i] = "held" /\ to = "computed" /\ status[i] = "Computing"
    \/ StageMap[i] = "computed" /\ to = "reported"
    \/ StageMap[i] = "reported" /\ to = "none"

LEMMA StageMapChanges ==
    ASSUME TypeOK, NEW i \in WorkUnits,
           NEW d, done' = [done EXCEPT ![i] = d],
           NEW f, disk' = [disk EXCEPT ![i] = f]
    PROVE  StageMap' = [StageMap EXCEPT ![i] = Stage(d, f)]
<1>1. /\ done'[i] = d /\ \A j \in WorkUnits : j # i => done'[j] = done[j]
      /\ disk'[i] = f /\ \A j \in WorkUnits : j # i => disk'[j] = disk[j]
    BY DEF TypeOK
<1>2. StageMap' = [j \in WorkUnits |-> Stage(done'[j], disk'[j])]
    BY DEF StageMap, StageOf, Stage, ToCompute
<1>3. StageMap = [j \in WorkUnits |-> Stage(done[j], disk[j])]
    BY DEF StageMap, StageOf, Stage, ToCompute
<1> QED BY <1>1, <1>2, <1>3

\* A handler of slot i implements a step of the slot.
LEMMA SlotImplements ==
    ASSUME TypeOK, NEW i \in WorkUnits,
           NEW d, done' = [done EXCEPT ![i] = d],
           NEW f, disk' = [disk EXCEPT ![i] = f],
           NEW s, status' = [status EXCEPT ![i] = s],
           Advances(i, Stage(d, f)),
           s = "Computing" => /\ Stage(d, f) = StageMap[i]
                              /\ \/ status[i] = "Computing"
                                 \/ StageMap[i] = "held" /\ ComputingMap = {},
           s # "Computing" /\ status[i] = "Computing"
               => StageMap[i] = "held" /\ Stage(d, f) = "computed"
    PROVE  [WorkUnit!Next]_<<StageMap, ComputingMap>>
<1>1. StageMap' = [StageMap EXCEPT ![i] = Stage(d, f)]
    BY StageMapChanges
<1>2. StageMap = [StageMap EXCEPT ![i] = StageMap[i]] BY DEF StageMap
<1>3. status'[i] = s /\ \A j \in WorkUnits : j # i => status'[j] = status[j]
    BY DEF TypeOK
<1>4. /\ s # "Computing" => ComputingMap' = ComputingMap \ {i}
      /\ s = "Computing" => ComputingMap' = ComputingMap \cup {i}
      /\ i \in ComputingMap <=> status[i] = "Computing"
    BY <1>3 DEF ComputingMap
<1>5. \/ UNCHANGED <<StageMap, ComputingMap>>
      \/ WorkUnit!Accept(i) \/ WorkUnit!Compute(i) \/ WorkUnit!Finish(i)
      \/ WorkUnit!Report(i) \/ WorkUnit!Forget(i)
    <2>1. CASE s = "Computing" /\ status[i] = "Computing"
        BY <1>1, <1>2, <1>4, <2>1
    <2>2. CASE s = "Computing" /\ status[i] # "Computing"
        <3>1. StageMap[i] = "held" /\ ComputingMap = {} /\ StageMap' = StageMap
            BY <1>1, <1>2, <2>2
        <3>2. ComputingMap' = {i} BY <1>4, <2>2, <3>1
        <3> QED BY <3>1, <3>2 DEF WorkUnit!Compute, StageMap, ComputingMap
    <2>3. CASE s # "Computing" /\ status[i] = "Computing"
        <3>1. /\ StageMap[i] = "held" /\ StageMap' = [StageMap EXCEPT ![i] = "computed"]
              /\ i \in ComputingMap /\ ComputingMap' = ComputingMap \ {i}
            BY <1>1, <1>4, <2>3
        <3> QED BY <3>1
                DEF WorkUnit!Finish, WorkUnit!Finishes, WorkUnit!Moves, StageMap, ComputingMap
    <2>4. CASE s # "Computing" /\ status[i] # "Computing"
        <3>1. ComputingMap' = ComputingMap BY <1>4, <2>4
        <3>2. CASE Stage(d, f) = StageMap[i] BY <1>1, <1>2, <3>1, <3>2
        <3>3. CASE StageMap[i] = "none" /\ Stage(d, f) = "held"
            BY <1>1, <3>1, <3>3
            DEF WorkUnit!Accept, WorkUnit!Accepts, WorkUnit!Moves, StageMap, ComputingMap
        <3>4. CASE StageMap[i] = "computed" /\ Stage(d, f) = "reported"
            BY <1>1, <3>1, <3>4
            DEF WorkUnit!Report, WorkUnit!Reports, WorkUnit!Moves, StageMap, ComputingMap
        <3>5. CASE StageMap[i] = "reported" /\ Stage(d, f) = "none"
            BY <1>1, <3>1, <3>5
            DEF WorkUnit!Forget, WorkUnit!Forgets, WorkUnit!Moves, StageMap, ComputingMap
        <3> QED BY <2>4, <3>2, <3>3, <3>4, <3>5 DEF Advances
    <2> QED BY <2>1, <2>2, <2>3, <2>4
<1> QED BY <1>5 DEF WorkUnit!Next

\* A process that dies implements Stop, with the step its handler had done.
LEMMA DeathImplements ==
    ASSUME TypeOK, NEW how, Dies(how), NEW i \in WorkUnits,
           NEW d, done' = [done EXCEPT ![i] = d],
           NEW f, disk' = [disk EXCEPT ![i] = f],
           Advances(i, Stage(d, f))
    PROVE  WorkUnit!Next
<1>1. StageMap' = [StageMap EXCEPT ![i] = Stage(d, f)]
    BY StageMapChanges
<1>2. StageMap = [StageMap EXCEPT ![i] = StageMap[i]] BY DEF StageMap
<1>3. ComputingMap' = {} BY DEF ComputingMap, Dies, Null
<1>4. i \in ComputingMap <=> status[i] = "Computing" BY DEF ComputingMap
<1>5. WorkUnit!Stop
    <2>1. CASE Stage(d, f) = StageMap[i]
        BY <1>1, <1>2, <1>3, <2>1 DEF WorkUnit!Stop, StageMap, ComputingMap
    <2>2. CASE StageMap[i] = "none" /\ Stage(d, f) = "held"
        BY <1>1, <1>3, <2>2
        DEF WorkUnit!Stop, WorkUnit!Accepts, WorkUnit!Moves, StageMap, ComputingMap
    <2>3. CASE /\ StageMap[i] = "held" /\ Stage(d, f) = "computed"
               /\ status[i] = "Computing"
        BY <1>1, <1>3, <1>4, <2>3
        DEF WorkUnit!Stop, WorkUnit!Finishes, WorkUnit!Moves, StageMap, ComputingMap
    <2>4. CASE StageMap[i] = "computed" /\ Stage(d, f) = "reported"
        BY <1>1, <1>3, <2>4
        DEF WorkUnit!Stop, WorkUnit!Reports, WorkUnit!Moves, StageMap, ComputingMap
    <2>5. CASE StageMap[i] = "reported" /\ Stage(d, f) = "none"
        BY <1>1, <1>3, <2>5
        DEF WorkUnit!Stop, WorkUnit!Forgets, WorkUnit!Moves, StageMap, ComputingMap
    <2> QED BY <2>1, <2>2, <2>3, <2>4, <2>5 DEF Advances
<1> QED BY <1>5 DEF WorkUnit!Next

-----------------------------------------------------------------------------
(* Every step implements a step of the life cycle *)

Known == TypedHistory /\ ReportsInv /\ NoneFailed

\* All that is known of the slot of the event that is handled.
LEMMA KnownSlot ==
    ASSUME Known, NEW t \in Status, NEW i \in WorkUnits, Handles(t, i)
    PROVE  /\ t # "Failed" /\ status[i] \in StatusesAt(t) /\ status[i] \in Status
           /\ Follows(status[i], disk[i]) /\ Consistent(done[i], disk[i])
           /\ t = "Downloading" => "told_ok" \notin done[i]
           /\ disk[i] \in ToCompute => "told_ok" \notin done[i]
           /\ t = "Completed" => {"computed", "uploaded"} \subseteq done[i]
           /\ "told_failed" \notin done[i] /\ disk[i] # "Failed"
           /\ StageMap[i] = Stage(done[i], disk[i])
<1> USE DEF Known, TypedHistory, TypedPending, TypedExclusive, TypedTokens
<1>1. /\ t = "Downloading" => "uploaded" \notin done[i]
      /\ Consistent(done[i], disk[i])
      /\ status[i] \in StatusesAt(t) /\ status[i] \in Status
      /\ Follows(status[i], disk[i])
    BY HandledHistory DEF PendingInv
<1>2. Vouches(t, i) /\ IsTruthful(done[i])
    BY HandledVouches
<1>3. t # "Failed" BY NoneFailedHandled
<1>4. disk[i] # "Failed" /\ "failed" \notin done[i] BY DEF NoneFailed
<1>5. t = "Completed" => "uploaded" \in done[i] BY <1>2 DEF Vouches, Before
<1>6. /\ t = "Downloading" => "told_ok" \notin done[i]
      /\ disk[i] \in ToCompute => "told_ok" \notin done[i]
      /\ t = "Completed" => {"computed", "uploaded"} \subseteq done[i]
      /\ "told_failed" \notin done[i]
    BY <1>1, <1>2, <1>4, <1>5 DEF IsTruthful, Consistent
<1> QED BY <1>1, <1>3, <1>4, <1>6, StageIsStage

\* When the report is handled, the result waits in its file or was reported before.
LEMMA ReportedSlot ==
    ASSUME NothingIsLost, Known, NEW i \in WorkUnits, HandlesReport(i)
    PROVE  /\ Told = "told_ok" /\ StageMap[i] \in {"computed", "reported"}
           /\ status[i] \in {"Uploading", "Completed"}
           /\ StageMap[i] = Stage(done[i], disk[i])
           /\ \A f : Stage(done[i] \cup {"told_ok"}, f) = "reported"
<1>1. Handles("Completed", i)
    BY KnownSlot DEF HandlesReport, Status
<1>2. Told = "told_ok" BY <1>1 DEF Told, Handles
<1>3. /\ status[i] \in {"Uploading", "Completed"} /\ Consistent(done[i], disk[i])
      /\ {"computed", "uploaded"} \subseteq done[i]
      /\ "told_failed" \notin done[i] /\ disk[i] # "Failed"
      /\ StageMap[i] = Stage(done[i], disk[i])
    BY <1>1, KnownSlot, StatusTable DEF Status
<1>4. disk[i] \in {"Finished", "Uploading", NoFile}
    BY <1>3 DEF Consistent, ToCompute, Known, TypedHistory, TypedPending, TypedExclusive,
                TypedTokens, TypeOK, Storable
<1>5. disk[i] = NoFile => "told_ok" \in done[i]
    BY <1>3 DEF Consistent, NothingIsLost
<1>6. StageMap[i] \in {"computed", "reported"}
    BY <1>3, <1>4, <1>5, StageTable
<1> QED BY <1>2, <1>3, <1>6, StageTable

\* Storing leaves what was to be stored.
LEMMA StoresWhatIsAsked ==
    ASSUME FilesAreKept, NEW i \in WorkUnits, status[i] \in Status,
           Follows(status[i], disk[i]), NEW s \in Storable
    PROVE  StoreResults(status[i], s, disk[i]) \subseteq {s}
<1>1. s \in Status BY DEF Storable, Status
<1>2. CASE status[i] = s BY <1>2 DEF StoreResults, Follows
<1>3. CASE status[i] # s BY <1>1, <1>3, StoreKept
<1> QED BY <1>2, <1>3

LEMMA HandlersImplement ==
    ASSUME NothingIsLost, Known, NEW i \in WorkUnits, HandleWorkUnit(i)
    PROVE  [WorkUnit!Next]_<<StageMap, ComputingMap>>
<1>1. FilesAreKept /\ TypeOK
    BY DEF NothingIsLost, FilesAreKept, Known, TypedHistory, TypedPending,
           TypedExclusive, TypedTokens
<1>2. /\ disk = [disk EXCEPT ![i] = disk[i]] /\ done = [done EXCEPT ![i] = done[i]]
      /\ status = [status EXCEPT ![i] = status[i]]
    BY <1>1 DEF TypeOK
<1> DEFINE Leaves(s, d, f) ==
        /\ status' = [status EXCEPT ![i] = s]
        /\ done' = [done EXCEPT ![i] = d] /\ disk' = [disk EXCEPT ![i] = f]
\* Steps that leave the stage and do not touch Computing.
<1>3. ASSUME NEW s, NEW d, NEW f, Leaves(s, d, f), Stage(d, f) = StageMap[i],
             s = "Computing" <=> status[i] = "Computing"
      PROVE  [WorkUnit!Next]_<<StageMap, ComputingMap>>
    BY <1>1, <1>3, SlotImplements DEF Advances
<1>4. ASSUME NEW s, NEW d, NEW f, Leaves(s, d, f), Advances(i, Stage(d, f)),
             s # "Computing",
             status[i] = "Computing" => StageMap[i] = "held" /\ Stage(d, f) = "computed"
      PROVE  [WorkUnit!Next]_<<StageMap, ComputingMap>>
    BY <1>1, <1>4, SlotImplements
<1>5. StageMap[i] = Stage(done[i], disk[i]) BY StageIsStage
<1>6. CASE HandleCreated(i)
    <2>1. Handles("Created", i) /\ UNCHANGED <<disk, done>> BY <1>6 DEF HandleCreated
    <2>2. status[i] = "Created" BY <2>1, KnownSlot, StatusTable DEF Status
    <2>3. PICK s \in {"Initializing", "Created"} : SetStatus(i, s)
        BY <1>6 DEF HandleCreated
    <2> QED BY <1>2, <1>3, <1>5, <2>1, <2>2, <2>3 DEF SetStatus
<1>7. CASE RequestWorkFails(i) \/ Compute(i) \/ UploadFails(i)
    <2>1. UNCHANGED <<status, disk, done>> BY <1>7 DEF RequestWorkFails, Compute, UploadFails
    <2> QED BY <1>2, <1>3, <1>5, <2>1
<1>8. CASE RequestWork(i)
    <2>1. /\ Handles("Initializing", i) /\ UNCHANGED <<status, disk>>
          /\ done' = [done EXCEPT ![i] = {"received"}]
        BY <1>8 DEF RequestWork
    <2>2. status[i] = "Initializing" /\ disk[i] = NoFile
        BY <2>1, KnownSlot, StatusTable DEF Status, Follows
    <2>3. Stage({"received"}, disk[i]) = "none" /\ StageMap[i] \in {"none", "reported"}
        BY <1>5, <2>2, StageTable
    <2> QED BY <1>2, <1>4, <2>1, <2>2, <2>3 DEF Advances
<1>9. CASE Download(i)
    <2>1. /\ Handles("Downloading", i) /\ UNCHANGED done /\ SetStatus(i, "Downloading")
          /\ SetFile(i, StoreResults(status[i], "Downloading", disk[i]))
        BY <1>9 DEF Download
    <2>2. /\ status[i] \in {"Initializing", "Downloading"} /\ status[i] \in Status
          /\ Follows(status[i], disk[i]) /\ "told_ok" \notin done[i]
        BY <2>1, KnownSlot, StatusTable DEF Status
    <2>3. disk' = [disk EXCEPT ![i] = "Downloading"]
        BY <1>1, <2>1, <2>2, StoresWhatIsAsked DEF SetFile, Storable
    <2>4. disk[i] \in {NoFile, "Downloading"} BY <2>2 DEF Follows, Storable
    <2>5. /\ Stage(done[i], "Downloading") = "held"
          /\ Stage(done[i], disk[i]) \in {"none", "held"}
        BY <2>2, <2>4, StageTable DEF ToCompute
    <2>6. Advances(i, Stage(done[i], "Downloading"))
        BY <1>5, <2>5 DEF Advances
    <2>7. Leaves("Downloading", done[i], "Downloading")
        BY <1>2, <2>1, <2>3 DEF SetStatus
    <2> QED BY <1>4, <2>2, <2>6, <2>7
<1>10. CASE HandleWaiting(i)
    <2>1. Handles("Waiting", i) /\ UNCHANGED done BY <1>10 DEF HandleWaiting
    <2>2. /\ status[i] \in {"Downloading", "Waiting"} /\ status[i] \in Status
          /\ Follows(status[i], disk[i])
        BY <2>1, KnownSlot, StatusTable DEF Status
    <2>3. disk[i] \in ToCompute BY <2>2 DEF Follows, Storable, ToCompute
    <2>4. "told_ok" \notin done[i] BY <2>1, <2>3, KnownSlot DEF Status
    <2>5. \A f \in ToCompute : Stage(done[i], f) = "held" /\ StageMap[i] = "held"
        BY <1>5, <2>3, <2>4, StageTable
    <2>6. CASE /\ NoneIs({"Computing"}, i) /\ SetStatus(i, "Computing")
               /\ SetFile(i, StoreTwice(status[i], "Waiting", "Computing", disk[i]))
        <3>1. StoreTwice(status[i], "Waiting", "Computing", disk[i]) \subseteq {"Computing"}
            BY <1>1, <2>2, StoreTwiceKept DEF Status, Storable
        <3>2. Leaves("Computing", done[i], "Computing")
            BY <1>2, <2>1, <2>6, <3>1 DEF SetFile, SetStatus
        <3>3. ComputingMap = {}
            BY <2>2, <2>6 DEF ComputingMap, NoneIs
        <3>4. StageMap[i] = "held" /\ Stage(done[i], "Computing") = "held"
            BY <2>5 DEF ToCompute
        <3> QED BY <1>1, <3>2, <3>3, <3>4, SlotImplements DEF Advances
    <2>7. CASE /\ SetStatus(i, "Waiting")
               /\ SetFile(i, StoreResults(status[i], "Waiting", disk[i]))
        <3>1. disk' = [disk EXCEPT ![i] = "Waiting"]
            BY <1>1, <2>2, <2>7, StoresWhatIsAsked DEF SetFile, Storable
        <3>2. Leaves("Waiting", done[i], "Waiting")
            BY <1>2, <2>1, <2>7, <3>1 DEF SetStatus
        <3>3. Stage(done[i], "Waiting") = StageMap[i] BY <2>5 DEF ToCompute
        <3> QED BY <1>3, <2>2, <3>2, <3>3
    <2> QED BY <1>10, <2>6, <2>7 DEF HandleWaiting
<1>11. CASE HandleFinished(i)
    <2>1. Handles("Finished", i) /\ UNCHANGED done BY <1>11 DEF HandleFinished
    <2>2. /\ status[i] \in {"Computing", "Finished"} /\ status[i] \in Status
          /\ Follows(status[i], disk[i])
        BY <2>1, KnownSlot, StatusTable DEF Status
    <2>3. disk[i] = status[i] BY <2>2 DEF Follows, Storable
    <2>4. disk[i] = "Computing" => "told_ok" \notin done[i]
        BY <2>1, KnownSlot DEF Status, ToCompute
    <2>5. ASSUME NEW f \in {"Finished", "Uploading"}
          PROVE  /\ status[i] = "Computing"
                       => StageMap[i] = "held" /\ Stage(done[i], f) = "computed"
                 /\ status[i] = "Finished" => Stage(done[i], f) = StageMap[i]
        <3>1. CASE status[i] = "Computing"
            BY <1>5, <2>3, <2>4, <3>1, StageTable DEF ToCompute
        <3>2. CASE status[i] = "Finished"
            BY <1>5, <2>3, <3>2, StageTable
        <3> QED BY <2>2, <3>1, <3>2
    <2>6. ASSUME NEW f \in {"Finished", "Uploading"}, Leaves(f, done[i], f)
          PROVE  [WorkUnit!Next]_<<StageMap, ComputingMap>>
        <3>1. Advances(i, Stage(done[i], f)) BY <2>2, <2>5 DEF Advances
        <3> QED BY <1>4, <2>2, <2>5, <2>6, <3>1
    <2>7. CASE /\ SetStatus(i, "Uploading")
               /\ SetFile(i, StoreTwice(status[i], "Finished", "Uploading", disk[i]))
        <3>1. StoreTwice(status[i], "Finished", "Uploading", disk[i]) \subseteq {"Uploading"}
            BY <1>1, <2>2, StoreTwiceKept DEF Status, Storable
        <3>2. Leaves("Uploading", done[i], "Uploading")
            BY <1>2, <2>1, <2>7, <3>1 DEF SetFile, SetStatus
        <3> QED BY <2>6, <3>2
    <2>8. CASE /\ SetStatus(i, "Finished")
               /\ SetFile(i, StoreResults(status[i], "Finished", disk[i]))
        <3>1. disk' = [disk EXCEPT ![i] = "Finished"]
            BY <1>1, <2>2, <2>8, StoresWhatIsAsked DEF SetFile, Storable
        <3>2. Leaves("Finished", done[i], "Finished")
            BY <1>2, <2>1, <2>8, <3>1 DEF SetStatus
        <3> QED BY <2>6, <3>2
    <2> QED BY <1>11, <2>7, <2>8 DEF HandleFinished
<1>12. CASE Upload(i)
    <2>1. /\ UNCHANGED <<status, disk>>
          /\ done' = [done EXCEPT ![i] = done[i] \cup {"uploaded"}]
        BY <1>12 DEF Upload, Achieve
    <2>2. Stage(done[i] \cup {"uploaded"}, disk[i]) = StageMap[i] BY <1>5 DEF Stage
    <2> QED BY <1>2, <1>3, <2>1, <2>2
<1>13. ~UploadGivesUp(i) BY DEF NothingIsLost, UploadGivesUp
<1>14. CASE ReportAndErase(i) \/ ReportFails(i) \/ EraseFails(i)
    <2>1. HandlesReport(i) BY <1>14 DEF ReportAndErase, ReportFails, EraseFails
    <2>2. /\ Told = "told_ok" /\ StageMap[i] \in {"computed", "reported"}
          /\ status[i] # "Computing"
          /\ \A f : Stage(done[i] \cup {"told_ok"}, f) = "reported"
        BY <2>1, ReportedSlot
    <2>3. ASSUME NEW s \in {"Created", "Completed"}, NEW f,
                 Leaves(s, done[i] \cup {"told_ok"}, f)
          PROVE  [WorkUnit!Next]_<<StageMap, ComputingMap>>
        <3>1. Advances(i, Stage(done[i] \cup {"told_ok"}, f)) BY <2>2 DEF Advances
        <3> QED BY <1>4, <2>2, <2>3, <3>1
    <2>4. CASE ReportAndErase(i)
        <3>1. Leaves("Created", done[i] \cup {"told_ok"}, NoFile)
            BY <2>2, <2>4 DEF ReportAndErase, SetStatus, Achieve
        <3> QED BY <2>3, <3>1
    <2>5. CASE EraseFails(i)
        <3>1. PICK f \in {disk[i], NoFile} : disk' = [disk EXCEPT ![i] = f]
            BY <2>5 DEF EraseFails, SetFile
        <3>2. Leaves("Completed", done[i] \cup {"told_ok"}, f)
            BY <2>2, <2>5, <3>1 DEF EraseFails, SetStatus, Achieve
        <3> QED BY <2>3, <3>2
    <2>6. CASE ReportFails(i)
        <3>1. PICK T \in SUBSET {Told} : done' = [done EXCEPT ![i] = done[i] \cup T]
            BY <2>6 DEF ReportFails, Achieve
        <3>2. Leaves("Completed", done[i] \cup T, disk[i])
            BY <1>2, <2>6, <3>1 DEF ReportFails, SetStatus
        <3>3. CASE T = {}
            <4>1. Leaves("Completed", done[i], disk[i]) BY <3>2, <3>3
            <4> QED BY <1>3, <1>5, <2>2, <4>1
        <3>4. CASE T = {"told_ok"} BY <2>3, <3>2, <3>4
        <3> QED BY <2>2, <3>3, <3>4
    <2> QED BY <1>14, <2>4, <2>5, <2>6
<1> QED BY <1>6, <1>7, <1>8, <1>9, <1>10, <1>11, <1>12, <1>13, <1>14 DEF HandleWorkUnit

\* A handler that is cut short has done its step on the slot, or nothing.
LEMMA CutShortImplements ==
    ASSUME NothingIsLost, Known, NEW i \in WorkUnits, KilledInside(i)
    PROVE  WorkUnit!Next
<1>1. FilesAreKept /\ TypeOK
    BY DEF NothingIsLost, FilesAreKept, Known, TypedHistory, TypedPending,
           TypedExclusive, TypedTokens
<1>2. disk = [disk EXCEPT ![i] = disk[i]] /\ done = [done EXCEPT ![i] = done[i]]
    BY <1>1 DEF TypeOK
<1>3. ASSUME NEW d, done' = [done EXCEPT ![i] = d],
             NEW f, disk' = [disk EXCEPT ![i] = f], Advances(i, Stage(d, f))
      PROVE  WorkUnit!Next
    BY <1>1, <1>3, DeathImplements DEF KilledInside
<1>4. StageMap[i] = Stage(done[i], disk[i]) BY StageIsStage
<1>5. CASE /\ Handles("Initializing", i) /\ UNCHANGED disk
           /\ done' = [done EXCEPT ![i] = {"received"}]
    <2>1. disk[i] = NoFile
        BY <1>5, KnownSlot, StatusTable DEF Status, Follows
    <2>2. Stage({"received"}, disk[i]) = "none" /\ StageMap[i] \in {"none", "reported"}
        BY <1>4, <2>1, StageTable
    <2> QED BY <1>2, <1>3, <1>5, <2>2 DEF Advances
<1>6. CASE /\ HandlesReport(i) /\ SetFile(i, {disk[i], NoFile}) /\ Achieve(i, {Told})
    <2>1. PICK f \in {disk[i], NoFile} : disk' = [disk EXCEPT ![i] = f]
        BY <1>6 DEF SetFile
    <2>2. /\ done' = [done EXCEPT ![i] = done[i] \cup {"told_ok"}]
          /\ StageMap[i] \in {"computed", "reported"}
          /\ Stage(done[i] \cup {"told_ok"}, f) = "reported"
        BY <1>6, ReportedSlot DEF Achieve
    <2> QED BY <1>3, <2>1, <2>2 DEF Advances
<1>7. ASSUME NEW type \in {"Downloading", "Waiting", "Finished"}, Handles(type, i),
             NEW f \in FilesInside(type, i), disk' = [disk EXCEPT ![i] = f],
             UNCHANGED done
      PROVE  WorkUnit!Next
    <2>1. type \in Status BY DEF Status
    <2>2. /\ status[i] \in StatusesAt(type) /\ status[i] \in Status
          /\ Follows(status[i], disk[i])
          /\ type = "Downloading" => "told_ok" \notin done[i]
          /\ disk[i] \in ToCompute => "told_ok" \notin done[i]
        BY <1>7, <2>1, KnownSlot
    <2>3. StoreResults(status[i], type, disk[i]) \subseteq {disk[i], type}
        BY <1>1, <2>1, <2>2, StoreKept
    <2>4. ASSUME NEW s \in Promotion(type, i)
          PROVE  /\ StoreTwice(status[i], type, s, disk[i]) \subseteq {s}
                 /\ \/ s = "Computing" /\ type = "Waiting"
                    \/ s = "Uploading" /\ type = "Finished"
        <3>1. \/ s = "Computing" /\ type = "Waiting"
              \/ s = "Uploading" /\ type = "Finished"
            BY <2>4 DEF Promotion
        <3>2. s \in Storable /\ s # type BY <3>1 DEF Storable
        <3> QED BY <1>1, <2>1, <2>2, <3>1, <3>2, StoreTwiceKept
    <2>5. f \in {disk[i], type} \cup Promotion(type, i)
        <3>1. UNION {StoreTwice(status[i], type, s, disk[i]) : s \in Promotion(type, i)}
                \subseteq Promotion(type, i)
            BY <2>4
        <3>2. "torn" \notin Faults BY DEF NothingIsLost
        <3> QED BY <2>3, <3>1, <3>2 DEF FilesInside
    <2>6. Advances(i, Stage(done[i], f))
        <3>1. CASE f = disk[i] BY <1>4, <3>1 DEF Advances
        <3>2. CASE type = "Downloading"
            <4>1. status[i] \in {"Initializing", "Downloading"} /\ f \in {disk[i], "Downloading"}
                BY <2>2, <2>4, <2>5, <3>2, StatusTable
            <4>2. disk[i] \in {NoFile, "Downloading"}
                BY <2>2, <4>1 DEF Follows, Storable
            <4>3. Stage(done[i], f) \in {"none", "held"} /\ StageMap[i] \in {"none", "held"}
                  /\ (f # disk[i] => StageMap[i] = "none")
                BY <1>4, <2>2, <3>2, <4>1, <4>2, StageTable DEF ToCompute
            <4> QED BY <3>1, <4>3 DEF Advances
        <3>3. CASE type = "Waiting"
            <4>1. status[i] \in {"Downloading", "Waiting"}
                BY <2>2, <3>3, StatusTable
            <4>2. disk[i] \in ToCompute /\ f \in ToCompute
                BY <2>2, <2>4, <2>5, <3>3, <4>1 DEF Follows, Storable, ToCompute
            <4>3. Stage(done[i], f) = StageMap[i]
                BY <1>4, <2>2, <4>2, StageTable
            <4> QED BY <4>3 DEF Advances
        <3>4. CASE type = "Finished"
            <4>1. status[i] \in {"Computing", "Finished"} /\ disk[i] = status[i]
                BY <2>2, <3>4, StatusTable DEF Follows, Storable
            <4>2. f \in {disk[i], "Finished", "Uploading"}
                BY <2>4, <2>5, <3>4
            <4>3. CASE f \in {"Finished", "Uploading"} /\ status[i] = "Computing"
                BY <1>4, <2>2, <4>1, <4>3, StageTable DEF Advances, ToCompute
            <4>4. CASE f \in {"Finished", "Uploading"} /\ status[i] = "Finished"
                <5>1. Stage(done[i], f) = StageMap[i]
                    BY <1>4, <4>1, <4>4, StageTable
                <5> QED BY <5>1 DEF Advances
            <4> QED BY <3>1, <4>1, <4>2, <4>3, <4>4
        <3> QED BY <3>2, <3>3, <3>4
    <2> QED BY <1>2, <1>3, <1>7, <2>6
<1> QED BY <1>5, <1>6, <1>7 DEF KilledInside, SetFile

\* The load finds each slot where it was; at most one file says Computing.
LEMMA LoadImplements ==
    ASSUME NothingIsLost, Known, HandleLoad
    PROVE  [WorkUnit!Next]_<<StageMap, ComputingMap>>
<1> USE DEF Known, TypedHistory, TypedPending, TypedExclusive, TypedTokens
<1>1. FilesAreKept /\ TypeOK
    BY DEF NothingIsLost, FilesAreKept
<1>2. CASE LoadFails
    BY <1>2 DEF LoadFails, StageMap, StageOf, ComputingMap
<1>3. ~LoadStops BY DEF LoadStops, NothingIsLost
<1>4. CASE LoadSucceeds
    <2>1. /\ LoadSlots(NbWorkUnits, {}, Null)
          /\ disk' = [i \in WorkUnits |-> disk[i]]
        BY <1>4 DEF LoadSucceeds, NothingIsLost
    <2>2. HasLoaded(NbWorkUnits, {}, Null)
        BY <1>1, <2>1, SlotsAssumption, LoadedState
    <2>3. \A i \in WorkUnits : status'[i] = IF disk[i] = NoFile THEN "Created" ELSE disk[i]
        BY <2>2, SlotsAssumption DEF HasLoaded, WorkUnits
    <2>4. disk' = disk /\ done' = done
        BY <1>1, <2>1 DEF LoadSlots, TypeOK
    <2>5. StageMap' = StageMap
        BY <2>4 DEF StageMap, StageOf
    <2>6. ComputingMap' = {i \in WorkUnits : disk[i] = "Computing"}
        BY <2>3 DEF ComputingMap, NoFile
    <2>7. ComputingMap = {}
        <3>1. Handles("Load", 0) BY <2>1 DEF LoadSlots
        <3>2. status[0] \in StatusesAt("Load") BY <1>1, <3>1, SlotsAreNumbered, HandledSlot
        <3>3. \A i \in WorkUnits : status[i] = Null
            BY <3>2, SlotsAreNumbered, StatusTable DEF Exclusive, AllAreLoaded
        <3> QED BY <3>3 DEF ComputingMap, Null
    <2>8. CASE ComputingMap' = {} BY <2>5, <2>7, <2>8
    <2>9. CASE ComputingMap' # {}
        <3>1. PICK k \in WorkUnits : disk[k] = "Computing" BY <2>6, <2>9
        <3>2. ComputingMap' = {k} BY <2>6, <3>1 DEF Exclusive, AtMostOneStored
        <3>3. StageMap[k] = "held"
            <4>1. "told_ok" \notin done[k]
                BY <3>1 DEF HistoryInv, FilesRemember, Consistent, ToCompute,
                            ReportsInv, FilesVouch, IsTruthful
            <4> QED BY <3>1, <4>1, StageIsStage, StageTable DEF ToCompute
        <3>4. WorkUnit!Compute(k)
            BY <2>5, <2>7, <3>2, <3>3 DEF WorkUnit!Compute, StageMap, ComputingMap
        <3> QED BY <3>4 DEF WorkUnit!Next
    <2> QED BY <2>8, <2>9
<1> QED BY <1>2, <1>3, <1>4 DEF HandleLoad

LEMMA StepImplements ==
    ASSUME NothingIsLost, Known, [Next]_vars
    PROVE  [WorkUnit!Next]_<<StageMap, ComputingMap>>
<1>1. TypeOK BY DEF Known, TypedHistory, TypedPending, TypedExclusive, TypedTokens
<1>2. UNCHANGED <<status, disk, done>> => UNCHANGED <<StageMap, ComputingMap>>
    BY DEF StageMap, StageOf, ComputingMap
<1>3. CASE HandleLoad BY <1>3, LoadImplements
<1>4. ASSUME NEW i \in WorkUnits, HandleWorkUnit(i)
      PROVE  [WorkUnit!Next]_<<StageMap, ComputingMap>>
    BY <1>4, HandlersImplement
<1>5. ASSUME NEW i \in WorkUnits, ComputationEnds(i)
      PROVE  UNCHANGED <<StageMap, ComputingMap>>
    <2>1. PICK d : d = done[i] \cup {"computed"} OBVIOUS
    <2>2. status' = status /\ disk' = disk /\ done' = [done EXCEPT ![i] = d]
        BY <1>5, <2>1 DEF ComputationEnds, Achieve, NothingIsLost
    <2>3. Stage(d, disk[i]) = StageMap[i]
        BY <1>5, <2>1, StageIsStage DEF Stage
    <2>4. StageMap' = [StageMap EXCEPT ![i] = StageMap[i]]
        <3>1. PICK f : f = disk[i] OBVIOUS
        <3>2. disk' = [disk EXCEPT ![i] = f] BY <1>1, <2>2, <3>1 DEF TypeOK
        <3>3. done' = [done EXCEPT ![i] = d] BY <2>2
        <3>4. StageMap' = [StageMap EXCEPT ![i] = Stage(d, f)]
            BY <1>1, <1>5, <3>2, <3>3, StageMapChanges
        <3> QED BY <2>3, <3>1, <3>4
    <2> QED BY <2>2, <2>4 DEF StageMap, ComputingMap
<1>6. CASE Tick \/ Start BY <1>2, <1>6 DEF Tick, Start
<1>7. ASSUME NEW how, Dies(how), UNCHANGED <<disk, done>>
      PROVE  WorkUnit!Next
    <2>1. StageMap' = StageMap BY <1>7 DEF StageMap, StageOf
    <2>2. ComputingMap' = {} BY <1>7 DEF Dies, ComputingMap, Null
    <2> QED BY <2>1, <2>2 DEF WorkUnit!Next, WorkUnit!Stop, StageMap, ComputingMap
<1>8. ASSUME NEW i \in WorkUnits, Killed \/ HandleNoEvent \/ BadLabel(i)
      PROVE  WorkUnit!Next
    BY <1>7, <1>8 DEF Killed, HandleNoEvent, BadLabel
<1>9. ASSUME NEW i \in WorkUnits, KilledInside(i) PROVE WorkUnit!Next
    BY <1>9, CutShortImplements
<1>10. CASE UNCHANGED vars BY <1>2, <1>10 DEF vars
<1> QED BY <1>3, <1>4, <1>5, <1>6, <1>8, <1>9, <1>10, SlotsAreNumbered DEF Next

LEMMA InitImplements == Init => Known /\ WorkUnit!Init
<1> SUFFICES ASSUME Init PROVE Known /\ WorkUnit!Init
    OBVIOUS
<1>1. TypedHistory BY InitHasHistory
<1>2. DOMAIN queue = {1} /\ queue[1].type = "Load" BY LoadEventIsTyped DEF Init
<1>3. ReportsInv
    BY <1>2 DEF Init, ReportsInv, EventsVouch, FilesVouch, Vouches, IsTruthful, Before, NoFile
<1>4. NoneFailed BY <1>2 DEF Init, NoneFailed, NoFile
<1>5. \A i \in WorkUnits : StageOf(i) = "none"
    <2>1. ASSUME NEW i \in WorkUnits PROVE StageMap[i] = "none"
        <3>1. done[i] = {} /\ disk[i] = NoFile BY DEF Init
        <3> QED BY <3>1, StageIsStage, StageTable
    <2> QED BY <2>1 DEF StageMap
<1>6. WorkUnit!Init
    BY <1>5 DEF WorkUnit!Init, Init, Null
<1> QED BY <1>1, <1>3, <1>4, <1>6 DEF Known

LEMMA StepKeepsKnown ==
    ASSUME NothingIsLost, Known, [Next]_vars PROVE Known'
<1> USE DEF Known, TypedHistory, TypedPending, TypedExclusive, TypedTokens
<1>1. TypedHistory'
    <2>1. FilesAreKept BY DEF NothingIsLost, FilesAreKept
    <2> QED BY <2>1, StepKeepsHistory
<1>2. ReportsInv'
    <2>1. TypedReports' BY StepKeepsReports DEF TypedReports
    <2> QED BY <2>1 DEF TypedReports
<1>3. NoneFailed' BY StepFailsNone
<1> QED BY <1>1, <1>2, <1>3

\* Through retries, lost answers, kills inside handlers and directories that stay,
\* each slot accepts a work unit, computes it, keeps the result until the server was
\* told and only then accepts another, one computation at a time.
THEOREM LifecycleIsImplemented ==
    ASSUME NothingIsLost PROVE Spec => ImplementsLifecycle
<1>1. Init => Known /\ WorkUnit!Init BY InitImplements
<1>2. Known /\ [Next]_vars => Known' BY StepKeepsKnown
<1>3. Known /\ [Next]_vars => [WorkUnit!Next]_<<StageMap, ComputingMap>>
    BY StepImplements
<1> QED BY <1>1, <1>2, <1>3, PTL
        DEF Spec, ImplementsLifecycle, WorkUnit!Spec, StageMap, ComputingMap
=============================================================================
