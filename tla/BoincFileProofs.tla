--------------------------- MODULE BoincFileProofs ---------------------------
(***************************************************************************)
(* What the status files promise to the process that is started next, for  *)
(* any number of slots, kills and restarts.                                *)
(*                                                                         *)
(* Pending: while files can be written and a load is never stuck, the file *)
(* of a slot says what its status says, and "at most one workunit is       *)
(* waiting to be executed" (BoincLite.h:39).  A slot counts as pending     *)
(* here when its status or its file does: the scan of HandleCreated sees   *)
(* only statuses, and the file of another slot must not say more.          *)
(*                                                                         *)
(* Reports: under every set of faults, what the server is told is true.    *)
(* The event that is waiting vouches for what was achieved before it, and  *)
(* so does the file from which that event is made again after a restart.   *)
(*                                                                         *)
(* Histories: file and history of a slot agree, so that computed work is   *)
(* not forgotten and uploaded work is not computed again.                  *)
(***************************************************************************)
EXTENDS BoincExclusionProofs

\* What the file of a slot may be for each status.
Follows(s, f) ==
    /\ s \in Storable => f = s
    /\ s \in {"Created", "Initializing"} => f = NoFile
    /\ s \in {"Failed", "Completed"} => f \notin Pending

FilesFollow == \A i \in WorkUnits : status[i] # Null => Follows(status[i], disk[i])

\* Slot i holds work not computed yet, in memory or on disk.
Holds(i) == status[i] \in Pending \/ disk[i] \in Pending

OneHolds == \A i, j \in WorkUnits : Holds(i) /\ Holds(j) => i = j

PendingInv == FilesFollow /\ OneHolds

-----------------------------------------------------------------------------
(* Pending *)

\* A file that follows a status is pending only if the status is.
LEMMA PendingFilesFollow ==
    ASSUME NEW s \in Status, NEW f, Follows(s, f), f \in Pending
    PROVE  s \in Pending
BY DEF Status, Follows, Pending, Storable, NoFile

\* A handler that changes status and file of its slot together, and makes the slot
\* pending only when no other slot is.
LEMMA SlotKeepsPending ==
    ASSUME TypeOK, AllAreLoaded, PendingInv,
           NEW i \in WorkUnits, status[i] \in Status,
           NEW s \in Status, status' = [status EXCEPT ![i] = s],
           NEW f, disk' = [disk EXCEPT ![i] = f], Follows(s, f),
           s \in Pending => status[i] \in Pending \/ NoneIs(Pending, i)
    PROVE  PendingInv'
<1>1. /\ status'[i] = s /\ \A j \in WorkUnits : j # i => status'[j] = status[j]
      /\ disk'[i] = f /\ \A j \in WorkUnits : j # i => disk'[j] = disk[j]
    BY DEF TypeOK
<1>2. FilesFollow' BY <1>1 DEF PendingInv, FilesFollow
<1>3. \A j \in WorkUnits : status[j] \in Status
    BY DEF TypeOK, AllAreLoaded, Status, Null
<1>4. ASSUME s \in Pending, NEW j \in WorkUnits, j # i PROVE ~Holds(j)
    <2>1. CASE status[i] \in Pending
        BY <1>4, <2>1 DEF PendingInv, OneHolds, Holds
    <2>2. CASE NoneIs(Pending, i)
        <3>1. status[j] \notin Pending BY <1>4, <2>2 DEF NoneIs
        <3>2. Follows(status[j], disk[j])
            BY <1>3 DEF PendingInv, FilesFollow, Status, Null
        <3> QED BY <1>3, <3>1, <3>2, PendingFilesFollow DEF Holds
    <2> QED BY <1>4, <2>1, <2>2
<1>5. Holds(i)' => s \in Pending
    BY <1>1, PendingFilesFollow DEF Holds
<1>6. \A j \in WorkUnits : j # i => (Holds(j)' <=> Holds(j))
    BY <1>1 DEF Holds
<1>7. OneHolds'
    BY <1>4, <1>5, <1>6 DEF PendingInv, OneHolds
<1> QED BY <1>2, <1>7 DEF PendingInv

\* Each case of boincSchedulerHandleEvents keeps the file in step with the status.
LEMMA HandlersKeepPending ==
    ASSUME FilesAreKept, TypeOK, Tokens, AllAreLoaded, PendingInv,
           NEW i \in WorkUnits, HandleWorkUnit(i)
    PROVE  PendingInv'
<1> DEFINE Becomes(s, F) ==
        /\ s \in Status /\ SetStatus(i, s)
        /\ \E f \in F : disk' = [disk EXCEPT ![i] = f]
        /\ \A f \in F : Follows(s, f)
        /\ s \in Pending => status[i] \in Pending \/ NoneIs(Pending, i)
<1>1. ASSUME status[i] \in Status, NEW s, NEW F, Becomes(s, F) PROVE PendingInv'
    <2>1. PICK f \in F : disk' = [disk EXCEPT ![i] = f] BY <1>1
    <2> QED BY <1>1, <2>1, SlotKeepsPending DEF SetStatus
<1>2. disk = [disk EXCEPT ![i] = disk[i]] /\ status = [status EXCEPT ![i] = status[i]]
    BY DEF TypeOK
<1>3. ASSUME NEW t \in Status, Handles(t, i)
      PROVE  /\ status[i] \in StatusesAt(t) /\ status[i] \in Status
             /\ Follows(status[i], disk[i])
    <2>1. status[i] \in StatusesAt(t) BY <1>3, HandledSlot
    <2>2. status[i] \in Status /\ status[i] # Null
        BY <2>1, StatusTable DEF Status, Null
    <2> QED BY <2>1, <2>2 DEF PendingInv, FilesFollow
<1>4. UNCHANGED <<status, disk>> => PendingInv'
    BY DEF PendingInv, FilesFollow, OneHolds, Holds
<1>5. ASSUME NEW s \in Storable, status[i] \in Status, Follows(status[i], disk[i])
      PROVE  \A f \in StoreResults(status[i], s, disk[i]) : Follows(s, f)
    <2>1. s \in Status BY DEF Storable, Status
    <2>2. CASE status[i] = s
        <3>1. StoreResults(status[i], s, disk[i]) = {disk[i]} BY <2>2 DEF StoreResults
        <3> QED BY <1>5, <2>2, <3>1
    <2>3. CASE status[i] # s
        <3>1. StoreResults(status[i], s, disk[i]) = {s} BY <1>5, <2>1, <2>3, StoreKept
        <3> QED BY <3>1 DEF Follows, Storable
    <2> QED BY <2>2, <2>3
<1>6. ASSUME NEW t \in Status, NEW s \in Storable, t # s, status[i] \in Status
      PROVE  \A f \in StoreTwice(status[i], t, s, disk[i]) : Follows(s, f)
    <2>1. StoreTwice(status[i], t, s, disk[i]) \subseteq {s} BY <1>6, StoreTwiceKept
    <2> QED BY <2>1 DEF Follows, Storable
<1> HIDE DEF Becomes
<1>7. CASE HandleCreated(i)
    <2>1. Handles("Created", i) /\ UNCHANGED disk BY <1>7 DEF HandleCreated
    <2>2. status[i] = "Created" /\ status[i] \in Status /\ Follows("Created", disk[i])
        BY <1>3, <2>1, StatusTable DEF Status
    <2>3. CASE SetStatus(i, "Initializing") /\ NoneIs(Pending, i)
        <3>1. Becomes("Initializing", {disk[i]})
            BY <1>2, <2>1, <2>2, <2>3 DEF Becomes, Status, Follows, Pending, Storable
        <3> QED BY <1>1, <2>2, <3>1
    <2>4. CASE SetStatus(i, "Created")
        <3>1. Becomes("Created", {disk[i]})
            BY <1>2, <2>1, <2>2, <2>4 DEF Becomes, Status, Follows, Pending, Storable
        <3> QED BY <1>1, <2>2, <3>1
    <2> QED BY <1>7, <2>3, <2>4 DEF HandleCreated
<1>8. CASE RequestWork(i) \/ RequestWorkFails(i) \/ Compute(i) \/ Upload(i) \/ UploadFails(i)
    BY <1>4, <1>8 DEF RequestWork, RequestWorkFails, Compute, Upload, UploadFails
<1>9. CASE Download(i)
    <2>1. Handles("Downloading", i) BY <1>9 DEF Download
    <2>2. /\ status[i] \in {"Initializing", "Downloading"} /\ status[i] \in Status
          /\ Follows(status[i], disk[i])
        BY <1>3, <2>1, StatusTable DEF Status
    <2>3. Becomes("Downloading", StoreResults(status[i], "Downloading", disk[i]))
        BY <1>5, <1>9, <2>2 DEF Becomes, Download, SetFile, Status, Pending, Storable
    <2> QED BY <1>1, <2>2, <2>3
<1>10. CASE HandleWaiting(i)
    <2>1. Handles("Waiting", i) BY <1>10 DEF HandleWaiting
    <2>2. /\ status[i] \in {"Downloading", "Waiting"} /\ status[i] \in Status
          /\ Follows(status[i], disk[i])
        BY <1>3, <2>1, StatusTable DEF Status
    <2>3. CASE /\ SetStatus(i, "Computing")
               /\ SetFile(i, StoreTwice(status[i], "Waiting", "Computing", disk[i]))
        <3>1. \A f \in StoreTwice(status[i], "Waiting", "Computing", disk[i]) :
                 Follows("Computing", f)
            BY <1>6, <2>2 DEF Status, Storable
        <3>2. Becomes("Computing", StoreTwice(status[i], "Waiting", "Computing", disk[i]))
            BY <2>3, <3>1 DEF Becomes, SetFile, Status, Pending
        <3> QED BY <1>1, <2>2, <3>2
    <2>4. CASE /\ SetStatus(i, "Waiting")
               /\ SetFile(i, StoreResults(status[i], "Waiting", disk[i]))
        <3>1. Becomes("Waiting", StoreResults(status[i], "Waiting", disk[i]))
            BY <1>5, <2>2, <2>4 DEF Becomes, SetFile, Status, Pending, Storable
        <3> QED BY <1>1, <2>2, <3>1
    <2> QED BY <1>10, <2>3, <2>4 DEF HandleWaiting
<1>11. CASE HandleFinished(i)
    <2>1. Handles("Finished", i) BY <1>11 DEF HandleFinished
    <2>2. status[i] \in Status /\ Follows(status[i], disk[i])
        BY <1>3, <2>1 DEF Status
    <2>3. CASE /\ SetStatus(i, "Uploading")
               /\ SetFile(i, StoreTwice(status[i], "Finished", "Uploading", disk[i]))
        <3>1. \A f \in StoreTwice(status[i], "Finished", "Uploading", disk[i]) :
                 Follows("Uploading", f)
            BY <1>6, <2>2 DEF Status, Storable
        <3>2. Becomes("Uploading", StoreTwice(status[i], "Finished", "Uploading", disk[i]))
            BY <2>3, <3>1 DEF Becomes, SetFile, Status, Pending
        <3> QED BY <1>1, <2>2, <3>2
    <2>4. CASE /\ SetStatus(i, "Finished")
               /\ SetFile(i, StoreResults(status[i], "Finished", disk[i]))
        <3>1. Becomes("Finished", StoreResults(status[i], "Finished", disk[i]))
            BY <1>5, <2>2, <2>4 DEF Becomes, SetFile, Status, Pending, Storable
        <3> QED BY <1>1, <2>2, <3>1
    <2> QED BY <1>11, <2>3, <2>4 DEF HandleFinished
<1>12. CASE UploadGivesUp(i)
    <2>1. /\ Handles("Uploading", i) /\ SetStatus(i, "Failed")
          /\ SetFile(i, StoreResults(status[i], "Failed", disk[i]))
        BY <1>12 DEF UploadGivesUp
    <2>2. status[i] = "Uploading" /\ status[i] \in Status /\ disk[i] = "Uploading"
        BY <1>3, <2>1, StatusTable DEF Status, Follows, Storable
    <2>3. StoreResults(status[i], "Failed", disk[i]) \subseteq {"Uploading", "Failed"}
        BY <2>2, StoreKept DEF Status
    <2>4. \A f \in StoreResults(status[i], "Failed", disk[i]) : Follows("Failed", f)
        BY <2>3 DEF Follows, Storable, Pending
    <2>5. Becomes("Failed", StoreResults(status[i], "Failed", disk[i]))
        BY <2>1, <2>4 DEF Becomes, SetFile, Status, Pending
    <2> QED BY <1>1, <2>2, <2>5
<1>13. CASE ReportAndErase(i) \/ ReportFails(i) \/ EraseFails(i)
    <2>1. PICK t \in {"Completed", "Failed"} : Handles(t, i)
        BY <1>13 DEF ReportAndErase, ReportFails, EraseFails, HandlesReport
    <2>2. /\ status[i] \in {"Uploading", "Completed", "Computing", "Failed"}
          /\ status[i] \in Status /\ Follows(status[i], disk[i])
        BY <1>3, <2>1, StatusTable DEF Status
    <2>3. disk[i] \notin Pending /\ NoFile \notin Pending
        BY <2>2 DEF Follows, Storable, Pending, NoFile
    <2>4. CASE ReportAndErase(i)
        <3>1. Becomes("Created", {NoFile})
            BY <2>4 DEF Becomes, ReportAndErase, Status, Follows, Storable, Pending
        <3> QED BY <1>1, <2>2, <3>1
    <2>5. CASE ReportFails(i) \/ EraseFails(i)
        <3>1. SetStatus(i, "Completed")
              /\ \E f \in {disk[i], NoFile} : disk' = [disk EXCEPT ![i] = f]
            BY <1>2, <2>5 DEF ReportFails, EraseFails, SetFile
        <3>2. Becomes("Completed", {disk[i], NoFile})
            BY <2>3, <3>1 DEF Becomes, Status, Follows, Storable, Pending
        <3> QED BY <1>1, <2>2, <3>2
    <2> QED BY <1>13, <2>4, <2>5
<1> QED BY <1>7, <1>8, <1>9, <1>10, <1>11, <1>12, <1>13 DEF HandleWorkUnit

\* A handler that is cut short leaves a pending file only if its slot was pending.
LEMMA CutShortKeepsPending ==
    ASSUME FilesAreKept, TypeOK, Tokens, PendingInv,
           NEW i \in WorkUnits, KilledInside(i)
    PROVE  PendingInv'
<1>1. disk \in [WorkUnits -> Files] /\ \A j \in WorkUnits : status'[j] = Null
    BY DEF TypeOK, Files, KilledInside, Dies
<1>2. FilesFollow' BY <1>1 DEF FilesFollow
<1>3. ASSUME NEW f, disk' = [disk EXCEPT ![i] = f], f \in Pending => Holds(i)
      PROVE  OneHolds'
    <2>1. \A j \in WorkUnits : Holds(j)' => Holds(j)
        BY <1>1, <1>3 DEF Holds, Pending, Null
    <2> QED BY <2>1 DEF PendingInv, OneHolds
<1>4. CASE UNCHANGED disk
    <2>1. \A j \in WorkUnits : Holds(j)' => Holds(j)
        BY <1>1, <1>4 DEF Holds, Pending, Null
    <2> QED BY <1>2, <2>1 DEF PendingInv, OneHolds
<1>5. CASE \E f \in {disk[i], NoFile} : disk' = [disk EXCEPT ![i] = f]
    BY <1>2, <1>3, <1>5 DEF PendingInv, Holds, Pending, NoFile
<1>6. ASSUME NEW type \in {"Downloading", "Waiting", "Finished"}, Handles(type, i),
             NEW f \in FilesInside(type, i), disk' = [disk EXCEPT ![i] = f]
      PROVE  OneHolds'
    <2>1. status[i] \in StatusesAt(type) /\ status[i] \in Status
        BY <1>6, HandledSlot, StatusTable DEF Status
    <2>2. StoreResults(status[i], type, disk[i]) \subseteq {disk[i], type}
        BY <2>1, StoreKept DEF Status
    <2>3. UNION {StoreTwice(status[i], type, s, disk[i]) : s \in Promotion(type, i)}
            \subseteq {"Computing", "Uploading"}
        <3> SUFFICES ASSUME NEW s \in Promotion(type, i)
                     PROVE  StoreTwice(status[i], type, s, disk[i])
                              \subseteq {"Computing", "Uploading"}
            OBVIOUS
        <3>1. s \in {"Computing", "Uploading"} BY DEF Promotion
        <3>2. s \in Storable /\ s # type /\ type \in Status
            BY <3>1 DEF Storable, Status
        <3> QED BY <2>1, <3>1, <3>2, StoreTwiceKept
    <2>4. f \in {disk[i], type, NoFile, "Computing", "Uploading"}
        BY <2>2, <2>3 DEF FilesInside
    <2>5. type \in Pending => status[i] \in Pending
        BY <2>1, StatusTable DEF Pending
    <2>6. f \in Pending => Holds(i)
        BY <2>4, <2>5 DEF Holds, Pending, NoFile
    <2> QED BY <1>3, <1>6, <2>6
<1> QED BY <1>2, <1>4, <1>5, <1>6 DEF PendingInv, KilledInside, SetFile

TypedPending == TypedExclusive /\ PendingInv

LEMMA StepKeepsPending ==
    ASSUME FilesAreKept, TypedPending, [Next]_vars PROVE TypedPending'
<1> USE DEF TypedPending, TypedExclusive, TypedTokens
<1>1. TypedExclusive' BY StepKeepsExclusive
<1>2. SUFFICES PendingInv' BY <1>1
\* Nothing is loaded, and no file is new.
<1>3. ASSUME \A i \in WorkUnits : status'[i] = Null, UNCHANGED disk PROVE PendingInv'
    BY <1>3 DEF PendingInv, FilesFollow, OneHolds, Holds, Pending, Null
<1>4. CASE LoadFails
    <2>1. Handles("Load", 0) /\ UNCHANGED <<status, disk>> BY <1>4 DEF LoadFails
    <2> QED BY <1>3, <2>1, HandledLoad
<1>5. CASE LoadSucceeds \/ LoadStops
    <2>1. PICK n \in 0..NbWorkUnits, bad \in SUBSET WorkUnits,
               s \in Status \cup {Null} :
              /\ LoadSlots(n, bad, s)
              /\ n < NbWorkUnits => "stuck" \in Faults
              /\ \A i \in WorkUnits : i \in bad => disk'[i] = NoFile
              /\ \A i \in WorkUnits : i \notin bad /\ i # n => disk'[i] = disk[i]
        BY <1>5, LoadIsLoadSlots
    <2>2. n = NbWorkUnits BY <2>1, SlotsAssumption DEF FilesAreKept
    <2>3. \A i \in WorkUnits : i < n /\ i # n
        BY <2>2, SlotsAssumption DEF WorkUnits
    <2>4. HasLoaded(n, bad, s) BY <2>1, LoadedState
    <2>5. ASSUME NEW i \in WorkUnits
          PROVE  /\ disk'[i] = IF i \in bad THEN NoFile ELSE disk[i]
                 /\ status'[i] = IF i \in bad \/ disk[i] = NoFile THEN "Created" ELSE disk[i]
                 /\ disk[i] \in Storable \cup {"Failed", NoFile}
        BY <2>1, <2>3, <2>4 DEF HasLoaded, TypeOK
    <2>6. FilesFollow'
        BY <2>5 DEF FilesFollow, Follows, Storable, Pending, NoFile
    <2>7. \A i \in WorkUnits : Holds(i)' => Holds(i)
        BY <2>5 DEF Holds, Pending, NoFile
    <2>8. OneHolds' BY <2>7 DEF PendingInv, OneHolds
    <2> QED BY <2>6, <2>8 DEF PendingInv
<1>6. ASSUME NEW i \in WorkUnits, HandleWorkUnit(i) PROVE PendingInv'
    BY <1>6, HandlersKeepPending DEF Exclusive
<1>7. CASE UNCHANGED <<status, disk>>
    BY <1>7 DEF PendingInv, FilesFollow, OneHolds, Holds
<1>8. ASSUME NEW i \in WorkUnits, ComputationEnds(i) \/ Tick \/ UNCHANGED vars
      PROVE  PendingInv'
    BY <1>7, <1>8 DEF ComputationEnds, Tick, vars
<1>9. ASSUME NEW i \in WorkUnits, Killed \/ HandleNoEvent \/ BadLabel(i)
      PROVE  PendingInv'
    BY <1>3, <1>9 DEF Killed, HandleNoEvent, BadLabel, Dies
<1>10. ASSUME NEW i \in WorkUnits, KilledInside(i) PROVE PendingInv'
    BY <1>10, CutShortKeepsPending
<1>11. CASE Start
    BY <1>3, <1>11 DEF Start, Tokens, DeadIsEmpty
<1> QED BY <1>4, <1>5, <1>6, <1>8, <1>9, <1>10, <1>11, SlotsAreNumbered
        DEF Next, HandleLoad

LEMMA PendingInvariant == ASSUME FilesAreKept PROVE Spec => []TypedPending
<1>1. Init => TypedPending
    BY InitIsExclusive
    DEF Init, TypedPending, PendingInv, FilesFollow, OneHolds, Holds, Pending, Null, NoFile
<1>2. TypedPending /\ [Next]_vars => TypedPending' BY StepKeepsPending
<1> QED BY <1>1, <1>2, PTL DEF Spec

\* The status file tells what the process knows (boincSchedulerSetWorkUnitStatus):
\* a restart finds each work unit where it was.
THEOREM FilesFollowStatus ==
    ASSUME FilesAreKept PROVE Spec => []DiskFollowsStatus
<1>1. TypedPending => DiskFollowsStatus
    BY DEF TypedPending, PendingInv, FilesFollow, Follows, DiskFollowsStatus,
           Storable, Null
<1> QED BY <1>1, PendingInvariant, PTL

\* "At most one workunit is waiting to be executed" (BoincLite.h:39): at most one
\* slot holds or fetches work not computed yet, through kills and restarts.
THEOREM OnePending ==
    ASSUME FilesAreKept PROVE Spec => []AtMostOnePending
<1>1. TypedPending => AtMostOnePending
    BY DEF TypedPending, PendingInv, OneHolds, Holds, AtMostOnePending
<1> QED BY <1>1, PendingInvariant, PTL

-----------------------------------------------------------------------------
(* Reports *)

\* What the work of a slot has achieved before an event of this type is posted for
\* it, or before a file says so.
Before(type) ==
    CASE type \in {"Finished", "Uploading"} -> {"computed"}
      [] type = "Completed" -> {"uploaded"}
      [] type = "Failed" -> {"failed"}
      [] OTHER -> {}

\* The history of a slot agrees with itself: ReportsAreTruthful for one slot.
IsTruthful(d) ==
    /\ "told_ok" \in d => "uploaded" \in d
    /\ "told_failed" \in d => "failed" \in d
    /\ "uploaded" \in d => "computed" \in d

FilesVouch == \A i \in WorkUnits : IsTruthful(done[i]) /\ Before(disk[i]) \subseteq done[i]

\* An event of slot i of this type may wait.
Vouches(type, i) ==
    /\ Before(type) \subseteq done[i]
    /\ type \in {"Created", "Initializing"} => disk[i] = NoFile

EventsVouch == \A p \in DOMAIN queue : Vouches(queue[p].type, queue[p].index)

ReportsInv == FilesVouch /\ EventsVouch

\* A handler that adds to the history of its slot (or lets it begin again), stores
\* what the new history supports and posts an event that it supports.
LEMMA SlotKeepsReports ==
    ASSUME TypeOK, Tokens, ReportsInv, NEW i \in WorkUnits, NEW t, Handles(t, i),
           NEW type, Moves(i, type) \/ queue' = Rest,
           NEW d, done' = [done EXCEPT ![i] = d], IsTruthful(d), Before(type) \subseteq d,
           NEW f, disk' = [disk EXCEPT ![i] = f], Before(f) \subseteq d,
           type \in {"Created", "Initializing"} => f = NoFile
    PROVE  ReportsInv'
<1>1. /\ done'[i] = d /\ \A j \in WorkUnits : j # i => done'[j] = done[j]
      /\ disk'[i] = f /\ \A j \in WorkUnits : j # i => disk'[j] = disk[j]
    BY DEF TypeOK
<1>2. \A k \in DOMAIN queue' :
         \/ queue'[k].index = i /\ queue'[k].type = type
         \/ \E j \in DOMAIN queue : queue'[k] = queue[j] /\ queue[j].index # i
    BY QueueAfterHandler DEF Tokens
<1>3. \A j \in DOMAIN queue : queue[j].index \in WorkUnits
    <2>1. \A j \in DOMAIN queue : queue[j] \in Events
        BY ElementOfSeq, LenProperties DEF TypeOK
    <2> QED BY <2>1 DEF Events
<1>4. FilesVouch' BY <1>1 DEF ReportsInv, FilesVouch
<1>5. ASSUME NEW k \in DOMAIN queue'
      PROVE  /\ Before(queue'[k].type) \subseteq done'[queue'[k].index]
             /\ queue'[k].type \in {"Created", "Initializing"}
                   => disk'[queue'[k].index] = NoFile
    <2>1. CASE queue'[k].index = i /\ queue'[k].type = type
        BY <1>1, <2>1
    <2>2. CASE \E j \in DOMAIN queue : queue'[k] = queue[j] /\ queue[j].index # i
        BY <1>1, <1>3, <2>2 DEF Vouches, ReportsInv, EventsVouch
    <2> QED BY <1>2, <2>1, <2>2
<1>6. EventsVouch' BY <1>5 DEF EventsVouch, Vouches
<1> QED BY <1>4, <1>6 DEF ReportsInv

\* What the event that is handled vouches for.
LEMMA HandledVouches ==
    ASSUME TypeOK, Tokens, ReportsInv, NEW t, NEW i \in WorkUnits, Handles(t, i)
    PROVE  /\ Vouches(t, i) /\ IsTruthful(done[i])
           /\ Before(disk[i]) \subseteq done[i]
           /\ status[i] \in StatusesAt(t)
<1>1. queue[1].index = i /\ queue[1].type = t /\ 1 \in DOMAIN queue
    BY HandledEvent, TailKeepsOnePerSlot DEF Tokens, AtMostOneToken, OnePerSlot
<1> QED BY <1>1, HandledSlot DEF ReportsInv, EventsVouch, FilesVouch

\* Whatever fails, a store leaves the old file, none, or a status it was to store.
LEMMA StoreTwiceLeaves ==
    ASSUME TypeOK, NEW i \in WorkUnits, NEW old, NEW first \in Status, NEW second \in Status
    PROVE  StoreTwice(old, first, second, disk[i]) \subseteq {disk[i], first, second, NoFile}
<1>1. disk[i] \in Files BY DEF TypeOK, Files
<1> SUFFICES ASSUME NEW f \in StoreResults(old, first, disk[i])
             PROVE  StoreResults(first, second, f) \subseteq {disk[i], first, second, NoFile}
    BY DEF StoreTwice
<1>2. f \in Files /\ f \in {disk[i], first, NoFile} BY <1>1, StoreResultsProperties
<1> QED BY <1>2, StoreResultsProperties

LEMMA StoreLeaves ==
    ASSUME TypeOK, NEW i \in WorkUnits, NEW old, NEW new \in Status
    PROVE  StoreResults(old, new, disk[i]) \subseteq {disk[i], new, NoFile}
<1>1. disk[i] \in Files BY DEF TypeOK, Files
<1> QED BY <1>1, StoreResultsProperties

\* Each case of boincSchedulerHandleEvents.
LEMMA HandlersKeepReports ==
    ASSUME TypeOK, Tokens, ReportsInv, NEW i \in WorkUnits, HandleWorkUnit(i)
    PROVE  ReportsInv'
<1>1. Status \subseteq EventTypes BY DEF EventTypes
<1>2. disk = [disk EXCEPT ![i] = disk[i]] /\ done = [done EXCEPT ![i] = done[i]]
    BY DEF TypeOK
<1> DEFINE Posts(t, type) ==
        /\ t \in Status /\ type \in Status /\ Handles(t, i)
        /\ PostNext(type, i) \/ (type = t /\ \E D \in SUBSET Nat : RetryAfter(D))
           Leaves(type, d, f) ==
        /\ done' = [done EXCEPT ![i] = d] /\ disk' = [disk EXCEPT ![i] = f]
        /\ IsTruthful(d) /\ Before(type) \subseteq d /\ Before(f) \subseteq d
        /\ type \in {"Created", "Initializing"} => f = NoFile
<1>3. ASSUME NEW t, NEW type, Posts(t, type), NEW d, NEW f, Leaves(type, d, f)
      PROVE  ReportsInv'
    <2>1. Moves(i, type) BY <1>1, <1>3, PostNextMoves, RetryMoves
    <2> QED BY <1>3, <2>1, SlotKeepsReports
<1>4. /\ Before(NoFile) = {} /\ \A s \in Status : Before(s) \subseteq
            IF s \in {"Finished", "Uploading"} THEN {"computed"}
            ELSE IF s = "Completed" THEN {"uploaded"}
            ELSE IF s = "Failed" THEN {"failed"} ELSE {}
    BY DEF Before, Status, NoFile
<1>5. ASSUME NEW t \in Status, Handles(t, i)
      PROVE  /\ Before(t) \subseteq done[i] /\ IsTruthful(done[i])
             /\ t \in {"Created", "Initializing"} => disk[i] = NoFile
             /\ Before(disk[i]) \subseteq done[i]
    BY <1>5, HandledVouches DEF Vouches
<1> HIDE DEF Posts, Leaves
<1>6. CASE HandleCreated(i)
    <2>1. Handles("Created", i) /\ UNCHANGED <<disk, done>> BY <1>6 DEF HandleCreated
    <2>2. Leaves("Initializing", done[i], disk[i]) /\ Leaves("Created", done[i], disk[i])
        BY <1>2, <1>4, <1>5, <2>1 DEF Leaves, Status
    <2>3. Posts("Created", "Initializing") \/ Posts("Created", "Created")
        BY <1>6, <2>1, DelaysAreNatural DEF HandleCreated, Posts, Status
    <2> QED BY <1>3, <2>2, <2>3
<1>7. CASE RequestWork(i)
    <2>1. Leaves("Downloading", {"received"}, disk[i])
        BY <1>2, <1>4, <1>5, <1>7 DEF RequestWork, Leaves, IsTruthful, Status
    <2>2. Posts("Initializing", "Downloading") BY <1>7 DEF RequestWork, Posts, Status
    <2> QED BY <1>3, <2>1, <2>2
<1>8. CASE RequestWorkFails(i)
    <2>1. Leaves("Initializing", done[i], disk[i])
        BY <1>2, <1>4, <1>5, <1>8 DEF RequestWorkFails, Leaves, Status
    <2>2. Posts("Initializing", "Initializing")
        BY <1>8, DelaysAreNatural DEF RequestWorkFails, Posts, Status
    <2> QED BY <1>3, <2>1, <2>2
<1>9. CASE Download(i)
    <2>1. /\ Handles("Downloading", i) /\ UNCHANGED done
          /\ SetFile(i, StoreResults(status[i], "Downloading", disk[i]))
        BY <1>9 DEF Download
    <2>2. StoreResults(status[i], "Downloading", disk[i])
            \subseteq {disk[i], "Downloading", NoFile}
        BY StoreLeaves DEF Status
    <2>3. PICK f \in {disk[i], "Downloading", NoFile} : disk' = [disk EXCEPT ![i] = f]
        BY <2>1, <2>2 DEF SetFile
    <2>4. Leaves("Downloading", done[i], f) /\ Leaves("Waiting", done[i], f)
        BY <1>2, <1>4, <1>5, <2>1, <2>3 DEF Leaves, Status
    <2>5. Posts("Downloading", "Waiting") \/ Posts("Downloading", "Downloading")
        BY <1>9, <2>1, DelaysAreNatural DEF Posts, Download, Status
    <2> QED BY <1>3, <2>4, <2>5
<1>10. CASE HandleWaiting(i)
    <2>1. Handles("Waiting", i) /\ UNCHANGED done BY <1>10 DEF HandleWaiting
    <2>2. StoreTwice(status[i], "Waiting", "Computing", disk[i])
            \subseteq {disk[i], "Waiting", "Computing", NoFile}
        BY StoreTwiceLeaves DEF Status
    <2>3. StoreResults(status[i], "Waiting", disk[i]) \subseteq {disk[i], "Waiting", NoFile}
        BY StoreLeaves DEF Status
    <2>4. PICK f \in {disk[i], "Waiting", "Computing", NoFile} :
             disk' = [disk EXCEPT ![i] = f]
        BY <1>10, <2>2, <2>3 DEF HandleWaiting, SetFile
    <2>5. Leaves("Computing", done[i], f) /\ Leaves("Waiting", done[i], f)
        BY <1>2, <1>4, <1>5, <2>1, <2>4 DEF Leaves, Status
    <2>6. Posts("Waiting", "Computing") \/ Posts("Waiting", "Waiting")
        BY <1>10, <2>1, DelaysAreNatural DEF Posts, HandleWaiting, Status
    <2> QED BY <1>3, <2>5, <2>6
<1>11. CASE Compute(i)
    <2>1. Handles("Computing", i) /\ queue' = Rest /\ UNCHANGED <<disk, done>>
        BY <1>11 DEF Compute
    <2>2. Before("Computing") = {} BY DEF Before
    <2> QED BY <1>2, <1>5, <2>1, <2>2, SlotKeepsReports DEF Status
<1>12. CASE HandleFinished(i)
    <2>1. Handles("Finished", i) /\ UNCHANGED done BY <1>12 DEF HandleFinished
    <2>2. StoreTwice(status[i], "Finished", "Uploading", disk[i])
            \subseteq {disk[i], "Finished", "Uploading", NoFile}
        <3>1. "Finished" \in Status /\ "Uploading" \in Status BY DEF Status
        <3> QED BY <3>1, StoreTwiceLeaves
    <2>3. StoreResults(status[i], "Finished", disk[i]) \subseteq {disk[i], "Finished", NoFile}
        BY StoreLeaves DEF Status
    <2>4. PICK f \in {disk[i], "Finished", "Uploading", NoFile} :
             disk' = [disk EXCEPT ![i] = f]
        BY <1>12, <2>2, <2>3 DEF HandleFinished, SetFile
    <2>5. "computed" \in done[i] BY <1>5, <2>1 DEF Before, Status
    <2>6. Leaves("Uploading", done[i], f) /\ Leaves("Finished", done[i], f)
        BY <1>2, <1>4, <1>5, <2>1, <2>4, <2>5 DEF Leaves, Status
    <2>7. Posts("Finished", "Uploading") \/ Posts("Finished", "Finished")
        BY <1>12, <2>1, DelaysAreNatural DEF Posts, HandleFinished, Status
    <2> QED BY <1>3, <2>6, <2>7
<1>13. CASE Upload(i)
    <2>1. /\ Handles("Uploading", i) /\ PostNext("Completed", i) /\ UNCHANGED disk
          /\ done' = [done EXCEPT ![i] = done[i] \cup {"uploaded"}]
        BY <1>13 DEF Upload, Achieve
    <2>2. "computed" \in done[i] /\ IsTruthful(done[i]) /\ Before(disk[i]) \subseteq done[i]
        BY <1>5, <2>1 DEF Before, Status
    <2>3. IsTruthful(done[i] \cup {"uploaded"}) BY <2>2 DEF IsTruthful
    <2>4. Leaves("Completed", done[i] \cup {"uploaded"}, disk[i])
        BY <1>2, <1>4, <2>1, <2>2, <2>3 DEF Leaves, Status
    <2>5. Posts("Uploading", "Completed") BY <2>1 DEF Posts, Status
    <2> QED BY <1>3, <2>4, <2>5
<1>14. CASE UploadFails(i)
    <2>1. Handles("Uploading", i) /\ UNCHANGED <<disk, done>> BY <1>14 DEF UploadFails
    <2>2. Leaves("Uploading", done[i], disk[i])
        BY <1>2, <1>5, <2>1 DEF Leaves, Status
    <2>3. Posts("Uploading", "Uploading")
        BY <1>14, <2>1, DelaysAreNatural DEF UploadFails, Posts, Status
    <2> QED BY <1>3, <2>2, <2>3
<1>15. CASE UploadGivesUp(i)
    <2>1. /\ Handles("Uploading", i) /\ PostNext("Failed", i)
          /\ SetFile(i, StoreResults(status[i], "Failed", disk[i]))
          /\ done' = [done EXCEPT ![i] = done[i] \cup {"failed"}]
        BY <1>15 DEF UploadGivesUp, Achieve
    <2>2. StoreResults(status[i], "Failed", disk[i]) \subseteq {disk[i], "Failed", NoFile}
        BY StoreLeaves DEF Status
    <2>3. PICK f \in {disk[i], "Failed", NoFile} : disk' = [disk EXCEPT ![i] = f]
        BY <2>1, <2>2 DEF SetFile
    <2>4. IsTruthful(done[i] \cup {"failed"}) BY <1>5, <2>1 DEF IsTruthful, Status
    <2>5. Leaves("Failed", done[i] \cup {"failed"}, f)
        BY <1>4, <1>5, <2>1, <2>3, <2>4 DEF Leaves, Status
    <2>6. Posts("Uploading", "Failed") BY <2>1 DEF Posts, Status
    <2> QED BY <1>3, <2>5, <2>6
<1>16. CASE ReportAndErase(i) \/ ReportFails(i) \/ EraseFails(i)
    <2>1. PICK t \in {"Completed", "Failed"} : Handles(t, i)
        BY <1>16 DEF ReportAndErase, ReportFails, EraseFails, HandlesReport
    <2>2. Told = IF t = "Failed" THEN "told_failed" ELSE "told_ok"
        BY <2>1 DEF Told, Handles
    <2>3. \A T \in SUBSET {Told} : IsTruthful(done[i] \cup T)
        <3>1. t = "Failed" => "failed" \in done[i]
            BY <1>5, <2>1 DEF Before, Status
        <3>2. t = "Completed" => "uploaded" \in done[i]
            BY <1>5, <2>1 DEF Before, Status
        <3>3. IsTruthful(done[i]) BY <1>5, <2>1 DEF Status
        <3> QED BY <2>2, <3>1, <3>2, <3>3 DEF IsTruthful
    <2>4. Before(t) \subseteq done[i] /\ Before(disk[i]) \subseteq done[i]
        BY <1>5, <2>1 DEF Status
    <2>5. CASE ReportAndErase(i)
        <3>1. Leaves("Created", done[i] \cup {Told}, NoFile)
            BY <1>4, <2>3, <2>5 DEF Leaves, ReportAndErase, Achieve, Status
        <3>2. Posts(t, "Created") BY <2>1, <2>5 DEF Posts, ReportAndErase, Status
        <3> QED BY <1>3, <3>1, <3>2
    <2>6. CASE ReportFails(i) \/ EraseFails(i)
        <3>1. PICK T \in SUBSET {Told} : done' = [done EXCEPT ![i] = done[i] \cup T]
            BY <2>6 DEF ReportFails, EraseFails, Achieve
        <3>2. PICK f \in {disk[i], NoFile} : disk' = [disk EXCEPT ![i] = f]
            BY <1>2, <2>6 DEF ReportFails, EraseFails, SetFile
        <3>3. Leaves(t, done[i] \cup T, f)
            BY <1>4, <2>1, <2>3, <2>4, <3>1, <3>2 DEF Leaves
        <3>4. Posts(t, t)
            BY <2>1, <2>6, DelaysAreNatural DEF Posts, ReportFails, EraseFails, Status
        <3> QED BY <1>3, <3>3, <3>4
    <2> QED BY <1>16, <2>5, <2>6
<1> QED BY <1>6, <1>7, <1>8, <1>9, <1>10, <1>11, <1>12, <1>13, <1>14, <1>15, <1>16
        DEF HandleWorkUnit

\* A process that dies leaves histories and files; the events are gone.
LEMMA DeathKeepsReports ==
    ASSUME NEW how, Dies(how), FilesVouch' PROVE ReportsInv'
<1>1. DOMAIN queue' = {} BY DEF Dies
<1> QED BY <1>1 DEF ReportsInv, EventsVouch

\* A handler that is cut short.
LEMMA CutShortKeepsReports ==
    ASSUME TypeOK, Tokens, ReportsInv, NEW i \in WorkUnits, KilledInside(i)
    PROVE  FilesVouch'
<1>1. disk = [disk EXCEPT ![i] = disk[i]] /\ done = [done EXCEPT ![i] = done[i]]
    BY DEF TypeOK
<1>2. ASSUME NEW d, done' = [done EXCEPT ![i] = d], IsTruthful(d),
             NEW f, disk' = [disk EXCEPT ![i] = f], Before(f) \subseteq d
      PROVE  FilesVouch'
    <2>1. /\ done'[i] = d /\ \A j \in WorkUnits : j # i => done'[j] = done[j]
          /\ disk'[i] = f /\ \A j \in WorkUnits : j # i => disk'[j] = disk[j]
        BY <1>2 DEF TypeOK
    <2> QED BY <1>2, <2>1 DEF ReportsInv, FilesVouch
<1>3. Before(NoFile) = {} BY DEF Before, NoFile
<1>4. CASE /\ Handles("Initializing", i) /\ UNCHANGED disk
           /\ done' = [done EXCEPT ![i] = {"received"}]
    <2>1. disk[i] = NoFile BY <1>4, HandledVouches DEF Vouches
    <2> QED BY <1>1, <1>2, <1>3, <1>4, <2>1 DEF IsTruthful
<1>5. CASE /\ HandlesReport(i) /\ SetFile(i, {disk[i], NoFile}) /\ Achieve(i, {Told})
    <2>1. PICK t \in {"Completed", "Failed"} : Handles(t, i)
        BY <1>5 DEF HandlesReport
    <2>2. Told = IF t = "Failed" THEN "told_failed" ELSE "told_ok"
        BY <2>1 DEF Told, Handles
    <2>3. /\ Before(t) \subseteq done[i] /\ IsTruthful(done[i])
          /\ Before(disk[i]) \subseteq done[i]
        BY <2>1, HandledVouches DEF Vouches
    <2>4. IsTruthful(done[i] \cup {Told})
        <3>1. t = "Failed" => "failed" \in done[i] BY <2>3 DEF Before
        <3>2. t = "Completed" => "uploaded" \in done[i] BY <2>3 DEF Before
        <3> QED BY <2>1, <2>2, <2>3, <3>1, <3>2 DEF IsTruthful
    <2>5. PICK f \in {disk[i], NoFile} : disk' = [disk EXCEPT ![i] = f]
        BY <1>5 DEF SetFile
    <2>6. Before(f) \subseteq done[i] \cup {Told} BY <1>3, <2>3, <2>5
    <2>7. done' = [done EXCEPT ![i] = done[i] \cup {Told}] BY <1>5 DEF Achieve
    <2> QED BY <1>2, <2>4, <2>5, <2>6, <2>7
<1>6. ASSUME NEW type \in {"Downloading", "Waiting", "Finished"}, Handles(type, i),
             NEW f \in FilesInside(type, i), disk' = [disk EXCEPT ![i] = f],
             UNCHANGED done
      PROVE  FilesVouch'
    <2>1. /\ Before(type) \subseteq done[i] /\ IsTruthful(done[i])
          /\ Before(disk[i]) \subseteq done[i]
        BY <1>6, HandledVouches DEF Vouches
    <2>2. type \in Status BY DEF Status
    <2>3. StoreResults(status[i], type, disk[i]) \subseteq {disk[i], type, NoFile}
        BY <2>2, StoreLeaves
    <2>4. ASSUME NEW s \in Promotion(type, i)
          PROVE  /\ StoreTwice(status[i], type, s, disk[i])
                      \subseteq {disk[i], type, s, NoFile}
                 /\ Before(s) \subseteq done[i]
        <3>1. /\ s \in {"Computing", "Uploading"}
              /\ s = "Uploading" => type = "Finished"
            BY <2>4 DEF Promotion
        <3>2. s \in Status BY <3>1 DEF Status
        <3>3. Before(s) \subseteq done[i] BY <2>1, <3>1 DEF Before
        <3> QED BY <2>2, <3>2, <3>3, StoreTwiceLeaves
    <2>5. f \in {disk[i], type, NoFile} \cup Promotion(type, i)
        <3>1. UNION {StoreTwice(status[i], type, s, disk[i]) : s \in Promotion(type, i)}
                \subseteq {disk[i], type, NoFile} \cup Promotion(type, i)
            BY <2>4
        <3> QED BY <2>3, <3>1 DEF FilesInside
    <2>6. Before(f) \subseteq done[i] BY <1>3, <2>1, <2>4, <2>5
    <2> QED BY <1>1, <1>2, <1>6, <2>1, <2>6
<1> QED BY <1>4, <1>5, <1>6 DEF KilledInside, SetFile

\* A thread that ends adds to the history what its event vouches for.
LEMMA EndKeepsReports ==
    ASSUME TypeOK, Tokens, ReportsInv, NEW i \in WorkUnits, ComputationEnds(i)
    PROVE  ReportsInv'
<1>1. PICK type \in {"Finished", "Failed"}, what \in {"computed", "failed"} :
            /\ queue' = Put(queue, Event(Now, type, i))
            /\ done' = [done EXCEPT ![i] = done[i] \cup {what}]
            /\ Before(type) = {what}
    BY DEF ComputationEnds, Achieve, Before
<1>2. /\ Event(Now, type, i) \in Events /\ Event(Now, type, i).type = type
      /\ Event(Now, type, i).index = i
    BY EventIsTyped DEF EventTypes, Status, Now
<1>3. /\ threads[i] = 1 /\ OnePerSlot(queue) /\ queue \in Seq(Events) /\ UNCHANGED disk
      /\ \A k \in DOMAIN queue : queue[k] \in Events
    BY ElementOfSeq, LenProperties
    DEF ComputationEnds, TypeOK, Tokens, AtMostOneToken, OnePerSlot
<1>4. \A k \in DOMAIN queue : queue[k].index # i /\ queue[k].index \in WorkUnits
    BY <1>3 DEF Tokens, AtMostOneToken, Events
<1> DEFINE e == Event(Now, type, i)
<1> HIDE DEF e
<1>5. ComesFrom(queue, e, queue')
    BY <1>1, <1>2, <1>3, <1>4, PutKeepsOnePerSlot DEF e
<1>6. /\ done'[i] = done[i] \cup {what}
      /\ \A j \in WorkUnits : j # i => done'[j] = done[j]
    BY <1>1 DEF TypeOK
<1>7. IsTruthful(done[i]) => IsTruthful(done[i] \cup {what})
    BY <1>1 DEF IsTruthful
<1>8. FilesVouch' BY <1>3, <1>6, <1>7 DEF ReportsInv, FilesVouch
<1>9. EventsVouch'
    <2>1. ASSUME NEW k \in DOMAIN queue'
          PROVE  /\ Before(queue'[k].type) \subseteq done'[queue'[k].index]
                 /\ queue'[k].type \in {"Created", "Initializing"}
                       => disk'[queue'[k].index] = NoFile
        <3>1. CASE queue'[k] = e BY <1>1, <1>2, <1>6, <3>1 DEF e
        <3>2. CASE \E j \in DOMAIN queue : queue'[k] = queue[j]
            BY <1>3, <1>4, <1>6, <3>2 DEF ReportsInv, EventsVouch, Vouches
        <3> QED BY <1>5, <3>1, <3>2 DEF ComesFrom
    <2> QED BY <2>1 DEF EventsVouch, Vouches
<1> QED BY <1>8, <1>9 DEF ReportsInv

\* Loading makes each event from a file, which vouches for it.
LEMMA LoadKeepsReports ==
    ASSUME TypeOK, Tokens, ReportsInv, LoadSucceeds \/ LoadStops
    PROVE  ReportsInv'
<1>1. PICK n \in 0..NbWorkUnits, bad \in SUBSET WorkUnits,
           s \in Status \cup {Null} :
          /\ LoadSlots(n, bad, s)
          /\ \A i \in WorkUnits : i \in bad => disk'[i] = NoFile
          /\ \A i \in WorkUnits : i \notin bad /\ i # n => disk'[i] = disk[i]
          /\ \A i \in WorkUnits : disk'[i] \in {disk[i], NoFile}
    BY LoadIsLoadSlots
<1>2. HasLoaded(n, bad, s) BY <1>1, LoadedState
<1>3. done' = done BY <1>1 DEF LoadSlots
<1>4. \A i \in 0..n - 1 : i \in WorkUnits /\ i < n /\ i # n
    BY SlotsAssumption DEF WorkUnits
<1>5. /\ Before(NoFile) = {} /\ Before("Created") = {} /\ IsTruthful({})
    BY DEF Before, IsTruthful, NoFile
<1>6. FilesVouch'
    <2>1. ASSUME NEW i \in WorkUnits
          PROVE  IsTruthful(done'[i]) /\ Before(disk'[i]) \subseteq done'[i]
        <3>1. CASE i \in bad BY <1>1, <1>3, <1>5, <3>1 DEF ReportsInv, FilesVouch
        <3>2. CASE i \notin bad
            BY <1>1, <1>3, <1>5, <3>2 DEF ReportsInv, FilesVouch
        <3> QED BY <3>1, <3>2
    <2> QED BY <2>1 DEF FilesVouch
<1>7. ASSUME NEW i \in 0..n - 1
      PROVE  /\ Before(status'[i]) \subseteq done'[i]
             /\ status'[i] \in {"Created", "Initializing"} => disk'[i] = NoFile
    <2>1. /\ i \in WorkUnits
          /\ status'[i] = IF i \in bad \/ disk[i] = NoFile THEN "Created" ELSE disk[i]
        BY <1>2, <1>4 DEF HasLoaded
    <2>2. CASE i \in bad BY <1>1, <1>5, <2>1, <2>2
    <2>3. CASE i \notin bad
        <3>1. disk'[i] = disk[i] /\ done'[i] = done[i]
            BY <1>1, <1>3, <1>4, <2>1, <2>3
        <3>2. disk[i] \notin {"Created", "Initializing"}
            BY <2>1 DEF TypeOK, Storable, NoFile
        <3> QED BY <1>5, <2>1, <2>3, <3>1, <3>2 DEF ReportsInv, FilesVouch
    <2> QED BY <2>2, <2>3
<1>8. EventsVouch'
    BY <1>2, <1>7 DEF HasLoaded, EventsVouch, Vouches
<1> QED BY <1>6, <1>8 DEF ReportsInv

TypedReports == TypedTokens /\ ReportsInv

LEMMA StepKeepsReports ==
    ASSUME TypedReports, [Next]_vars PROVE TypedReports'
<1> USE DEF TypedReports, TypedTokens
<1>1. TypedTokens' BY StepKeepsTokens
<1>2. SUFFICES ReportsInv' BY <1>1
<1>3. UNCHANGED <<disk, done>> => FilesVouch'
    BY DEF ReportsInv, FilesVouch
<1>4. CASE LoadFails
    <2>1. Handles("Load", 0) /\ UNCHANGED <<disk, done>> BY <1>4 DEF LoadFails
    <2>2. queue' = Rest \/ Moves(0, "Load")
        <3>1. /\ Rest \in Seq(Events) /\ Head(queue) \in Events
              /\ Head(queue).type = "Load" /\ Head(queue).index = 0
            BY <2>1, HandledEvent
        <3>2. \E e \in Events :
                 /\ e.index = Head(queue).index /\ e.type = Head(queue).type
                 /\ Regenerate(Rest, Head(queue), LoadDelay) = Put(Rest, e)
            BY <3>1, RegenerateMoves, DelaysAreNatural
        <3> QED BY <1>4, <3>1, <3>2 DEF LoadFails, Moves
    <2>3. disk = [disk EXCEPT ![0] = disk[0]] /\ done = [done EXCEPT ![0] = done[0]]
        BY DEF TypeOK
    <2>4. IsTruthful(done[0]) /\ Before(disk[0]) \subseteq done[0] /\ Before("Load") = {}
        BY SlotsAreNumbered DEF ReportsInv, FilesVouch, Before
    <2> QED BY <2>1, <2>2, <2>3, <2>4, SlotsAreNumbered, SlotKeepsReports
<1>5. CASE LoadSucceeds \/ LoadStops BY <1>5, LoadKeepsReports
<1>6. ASSUME NEW i \in WorkUnits, HandleWorkUnit(i) PROVE ReportsInv'
    BY <1>6, HandlersKeepReports
<1>7. ASSUME NEW i \in WorkUnits, ComputationEnds(i) PROVE ReportsInv'
    BY <1>7, EndKeepsReports
<1>8. CASE Tick
    <2>1. queue \in Seq(Events) /\ queue' = Elapse(queue) /\ UNCHANGED <<disk, done>>
        BY <1>8 DEF TypeOK, Tick
    <2>2. IsElapsed(queue, Elapse(queue)) BY <2>1, ElapseProperties DEF Events
    <2>3. DOMAIN queue = 1..Len(queue) BY <2>1, LenProperties
    <2>4. EventsVouch'
        BY <2>1, <2>2, <2>3 DEF IsElapsed, ReportsInv, EventsVouch, Vouches
    <2> QED BY <1>3, <2>1, <2>4 DEF ReportsInv
<1>9. CASE Killed \/ HandleNoEvent
    BY <1>3, <1>9, DeathKeepsReports DEF Killed, HandleNoEvent
<1>10. ASSUME NEW i \in WorkUnits, KilledInside(i) PROVE ReportsInv'
    BY <1>10, CutShortKeepsReports, DeathKeepsReports DEF KilledInside
<1>11. ASSUME NEW i \in WorkUnits, BadLabel(i) PROVE ReportsInv'
    BY <1>3, <1>11, DeathKeepsReports DEF BadLabel
<1>12. CASE Start
    <2>1. DOMAIN queue' = {1} /\ queue'[1].type = "Load"
        BY <1>12, LoadEventIsTyped DEF Start
    <2>2. EventsVouch' BY <2>1 DEF EventsVouch, Vouches, Before
    <2>3. UNCHANGED <<disk, done>> BY <1>12 DEF Start
    <2> QED BY <1>3, <2>2, <2>3 DEF ReportsInv
<1>13. CASE UNCHANGED vars
    BY <1>3, <1>13 DEF vars, ReportsInv, EventsVouch, Vouches
<1> QED BY <1>4, <1>5, <1>6, <1>7, <1>8, <1>9, <1>10, <1>11, <1>12, <1>13
        DEF Next, HandleLoad

\* The server is told of success only for work that was computed and uploaded, of
\* failure only for work that failed: under every set of faults, through kills and
\* restarts (boincSchedulerCompleted trusts the type of its event).
THEOREM ReportsAreTrue == Spec => []ReportsAreTruthful
<1>1. Init => TypedReports
    <2> SUFFICES ASSUME Init PROVE TypedReports
        OBVIOUS
    <2>1. TypedTokens BY InitHasTypes, LoadEventIsToken DEF Init, TypedTokens, Fresh
    <2>2. DOMAIN queue = {1} /\ queue[1].type = "Load" BY LoadEventIsTyped DEF Init
    <2>3. EventsVouch BY <2>2 DEF EventsVouch, Vouches, Before
    <2>4. FilesVouch BY DEF Init, FilesVouch, IsTruthful, Before, NoFile
    <2> QED BY <2>1, <2>3, <2>4 DEF TypedReports, ReportsInv
<1>2. TypedReports /\ [Next]_vars => TypedReports' BY StepKeepsReports
<1>3. TypedReports => ReportsAreTruthful
    BY DEF TypedReports, ReportsInv, FilesVouch, IsTruthful, ReportsAreTruthful
<1> QED BY <1>1, <1>2, <1>3, PTL DEF Spec

-----------------------------------------------------------------------------
(* Histories *)

ToCompute == {"Downloading", "Waiting", "Computing"}

\* History and file of a slot: work that was computed and has no file any more was
\* reported, unless files can be torn or unreadable; work that was uploaded has no file from
\* which it would be computed again.
Consistent(d, f) ==
    /\ Faults \cap {"torn", "unreadable"} = {} /\ f = NoFile /\ "computed" \in d
          => d \cap {"told_ok", "told_failed"} # {}
    /\ "uploaded" \in d => f \notin ToCompute

FilesRemember == \A i \in WorkUnits : Consistent(done[i], disk[i])

\* A download that waits for its turn is that of a work unit just received.
DownloadsAreNew ==
    \A p \in DOMAIN queue :
        queue[p].type = "Downloading" => "uploaded" \notin done[queue[p].index]

HistoryInv == FilesRemember /\ DownloadsAreNew

LEMMA SlotKeepsHistory ==
    ASSUME TypeOK, Tokens, HistoryInv, NEW i \in WorkUnits, NEW t, Handles(t, i),
           NEW type, Moves(i, type) \/ queue' = Rest,
           NEW d, done' = [done EXCEPT ![i] = d],
           NEW f, disk' = [disk EXCEPT ![i] = f], Consistent(d, f),
           type = "Downloading" => "uploaded" \notin d
    PROVE  HistoryInv'
<1>1. /\ done'[i] = d /\ \A j \in WorkUnits : j # i => done'[j] = done[j]
      /\ disk'[i] = f /\ \A j \in WorkUnits : j # i => disk'[j] = disk[j]
    BY DEF TypeOK
<1>2. \A k \in DOMAIN queue' :
         \/ queue'[k].index = i /\ queue'[k].type = type
         \/ \E j \in DOMAIN queue : queue'[k] = queue[j] /\ queue[j].index # i
    BY QueueAfterHandler DEF Tokens
<1>3. \A j \in DOMAIN queue : queue[j].index \in WorkUnits
    <2>1. \A j \in DOMAIN queue : queue[j] \in Events
        BY ElementOfSeq, LenProperties DEF TypeOK
    <2> QED BY <2>1 DEF Events
<1>4. FilesRemember'
    <2>1. \A j \in WorkUnits : Consistent(done'[j], disk'[j])
        BY <1>1 DEF HistoryInv, FilesRemember
    <2> QED BY <2>1 DEF FilesRemember, Consistent
<1>5. DownloadsAreNew' BY <1>1, <1>2, <1>3 DEF HistoryInv, DownloadsAreNew
<1> QED BY <1>4, <1>5 DEF HistoryInv

\* What the event that is handled says about history and file.
LEMMA HandledHistory ==
    ASSUME TypeOK, Tokens, FilesFollow, HistoryInv,
           NEW t \in Status, NEW i \in WorkUnits, Handles(t, i)
    PROVE  /\ t = "Downloading" => "uploaded" \notin done[i]
           /\ Consistent(done[i], disk[i])
           /\ status[i] \in StatusesAt(t) /\ status[i] \in Status
           /\ Follows(status[i], disk[i])
<1>1. queue[1].index = i /\ queue[1].type = t /\ 1 \in DOMAIN queue
    BY HandledEvent, TailKeepsOnePerSlot DEF Tokens, AtMostOneToken, OnePerSlot
<1>2. status[i] \in StatusesAt(t) BY HandledSlot
<1>3. status[i] \in Status /\ status[i] # Null
    BY <1>2, StatusTable DEF Status, Null
<1> QED BY <1>1, <1>2, <1>3
        DEF HistoryInv, DownloadsAreNew, FilesRemember, FilesFollow

\* Each case of boincSchedulerHandleEvents.
LEMMA HandlersKeepHistory ==
    ASSUME FilesAreKept, TypeOK, Tokens, FilesFollow, HistoryInv,
           NEW i \in WorkUnits, HandleWorkUnit(i)
    PROVE  HistoryInv'
<1>1. Status \subseteq EventTypes BY DEF EventTypes
<1>2. disk = [disk EXCEPT ![i] = disk[i]] /\ done = [done EXCEPT ![i] = done[i]]
    BY DEF TypeOK
<1> DEFINE Posts(t, type) ==
        /\ t \in Status /\ type \in Status /\ Handles(t, i)
        /\ PostNext(type, i) \/ (type = t /\ \E D \in SUBSET Nat : RetryAfter(D))
           Leaves(type, d, f) ==
        /\ done' = [done EXCEPT ![i] = d] /\ disk' = [disk EXCEPT ![i] = f]
        /\ Consistent(d, f)
        /\ type = "Downloading" => "uploaded" \notin d
<1>3. ASSUME NEW t, NEW type, Posts(t, type), NEW d, NEW f, Leaves(type, d, f)
      PROVE  HistoryInv'
    <2>1. Moves(i, type) BY <1>1, <1>3, PostNextMoves, RetryMoves
    <2> QED BY <1>3, <2>1, SlotKeepsHistory
<1>4. ASSUME NEW s \in Storable, status[i] \in Status, Follows(status[i], disk[i])
      PROVE  StoreResults(status[i], s, disk[i]) \subseteq {s}
    <2>1. s \in Status BY DEF Storable, Status
    <2>2. CASE status[i] = s
        BY <1>4, <2>2 DEF StoreResults, Follows
    <2>3. CASE status[i] # s BY <1>4, <2>1, <2>3, StoreKept
    <2> QED BY <2>2, <2>3
\* A file that is there and is not to be computed agrees with every history.
<1>5. \A d, f : f \in {"Finished", "Uploading", "Failed"} => Consistent(d, f)
    BY DEF Consistent, ToCompute, NoFile
<1>6. \A d, f : f \in ToCompute /\ "uploaded" \notin d => Consistent(d, f)
    BY DEF Consistent, ToCompute, NoFile
<1> HIDE DEF Posts, Leaves
<1>7. CASE HandleCreated(i) \/ RequestWorkFails(i) \/ UploadFails(i)
    <2>1. PICK t \in {"Created", "Initializing", "Uploading"} :
             Handles(t, i) /\ UNCHANGED <<disk, done>>
        BY <1>7 DEF HandleCreated, RequestWorkFails, UploadFails
    <2>2. \A type \in {"Created", "Initializing", "Uploading"} :
             Leaves(type, done[i], disk[i])
        BY <1>2, <2>1, HandledHistory DEF Leaves, Status
    <2>3. \/ Posts("Created", "Initializing") \/ Posts("Created", "Created")
          \/ Posts("Initializing", "Initializing") \/ Posts("Uploading", "Uploading")
        BY <1>7, DelaysAreNatural
        DEF HandleCreated, RequestWorkFails, UploadFails, Posts, Status
    <2> QED BY <1>3, <2>2, <2>3
<1>8. CASE RequestWork(i)
    <2>1. Leaves("Downloading", {"received"}, disk[i])
        BY <1>2, <1>8 DEF RequestWork, Leaves, Consistent
    <2>2. Posts("Initializing", "Downloading") BY <1>8 DEF RequestWork, Posts, Status
    <2> QED BY <1>3, <2>1, <2>2
<1>9. CASE Download(i)
    <2>1. /\ Handles("Downloading", i) /\ UNCHANGED done
          /\ SetFile(i, StoreResults(status[i], "Downloading", disk[i]))
        BY <1>9 DEF Download
    <2>2. /\ "uploaded" \notin done[i] /\ status[i] \in Status
          /\ Follows(status[i], disk[i])
        BY <2>1, HandledHistory DEF Status
    <2>3. disk' = [disk EXCEPT ![i] = "Downloading"]
        BY <1>4, <2>1, <2>2 DEF SetFile, Storable
    <2>4. Leaves("Downloading", done[i], "Downloading")
          /\ Leaves("Waiting", done[i], "Downloading")
        BY <1>2, <1>6, <2>1, <2>2, <2>3 DEF Leaves, ToCompute
    <2>5. Posts("Downloading", "Waiting") \/ Posts("Downloading", "Downloading")
        BY <1>9, <2>1, DelaysAreNatural DEF Posts, Download, Status
    <2> QED BY <1>3, <2>4, <2>5
<1>10. CASE HandleWaiting(i)
    <2>1. Handles("Waiting", i) /\ UNCHANGED done BY <1>10 DEF HandleWaiting
    <2>2. /\ status[i] \in {"Downloading", "Waiting"} /\ status[i] \in Status
          /\ Follows(status[i], disk[i]) /\ Consistent(done[i], disk[i])
        BY <2>1, HandledHistory, StatusTable DEF Status
    <2>3. "uploaded" \notin done[i]
        BY <2>2 DEF Follows, Storable, Consistent, ToCompute
    <2>4. StoreTwice(status[i], "Waiting", "Computing", disk[i]) \subseteq {"Computing"}
        BY <2>2, StoreTwiceKept DEF Status, Storable
    <2>5. StoreResults(status[i], "Waiting", disk[i]) \subseteq {"Waiting"}
        BY <1>4, <2>2 DEF Storable
    <2>6. PICK f \in {"Waiting", "Computing"} : disk' = [disk EXCEPT ![i] = f]
        BY <1>10, <2>4, <2>5 DEF HandleWaiting, SetFile
    <2>7. Leaves("Computing", done[i], f) /\ Leaves("Waiting", done[i], f)
        BY <1>2, <1>6, <2>1, <2>3, <2>6 DEF Leaves, ToCompute
    <2>8. Posts("Waiting", "Computing") \/ Posts("Waiting", "Waiting")
        BY <1>10, <2>1, DelaysAreNatural DEF Posts, HandleWaiting, Status
    <2> QED BY <1>3, <2>7, <2>8
<1>11. CASE Compute(i)
    <2>1. Handles("Computing", i) /\ queue' = Rest /\ UNCHANGED <<disk, done>>
        BY <1>11 DEF Compute
    <2>2. Consistent(done[i], disk[i]) BY <2>1, HandledHistory DEF Status
    <2> QED BY <1>2, <2>1, <2>2, SlotKeepsHistory
<1>12. CASE HandleFinished(i)
    <2>1. Handles("Finished", i) /\ UNCHANGED done BY <1>12 DEF HandleFinished
    <2>2. status[i] \in Status /\ Follows(status[i], disk[i])
        BY <2>1, HandledHistory DEF Status
    <2>3. StoreTwice(status[i], "Finished", "Uploading", disk[i]) \subseteq {"Uploading"}
        BY <2>2, StoreTwiceKept DEF Status, Storable
    <2>4. StoreResults(status[i], "Finished", disk[i]) \subseteq {"Finished"}
        BY <1>4, <2>2 DEF Storable
    <2>5. PICK f \in {"Finished", "Uploading"} : disk' = [disk EXCEPT ![i] = f]
        BY <1>12, <2>3, <2>4 DEF HandleFinished, SetFile
    <2>6. Leaves("Uploading", done[i], f) /\ Leaves("Finished", done[i], f)
        BY <1>2, <1>5, <2>1, <2>5 DEF Leaves
    <2>7. Posts("Finished", "Uploading") \/ Posts("Finished", "Finished")
        BY <1>12, <2>1, DelaysAreNatural DEF Posts, HandleFinished, Status
    <2> QED BY <1>3, <2>6, <2>7
<1>13. CASE Upload(i) \/ UploadGivesUp(i)
    <2>1. Handles("Uploading", i) BY <1>13 DEF Upload, UploadGivesUp
    <2>2. status[i] = "Uploading" /\ disk[i] = "Uploading" /\ status[i] \in Status
        BY <2>1, HandledHistory, StatusTable DEF Status, Follows, Storable
    <2>3. StoreResults(status[i], "Failed", disk[i]) \subseteq {"Uploading", "Failed"}
        BY <2>2, StoreKept DEF Status
    <2>4. PICK f \in {"Uploading", "Failed"} : disk' = [disk EXCEPT ![i] = f]
        BY <1>2, <1>13, <2>2, <2>3 DEF Upload, UploadGivesUp, SetFile
    <2>5. PICK d : done' = [done EXCEPT ![i] = d]
        BY <1>13 DEF Upload, UploadGivesUp, Achieve
    <2>6. Leaves("Completed", d, f) /\ Leaves("Failed", d, f)
        BY <1>5, <2>4, <2>5 DEF Leaves
    <2>7. Posts("Uploading", "Completed") \/ Posts("Uploading", "Failed")
        BY <1>13, <2>1 DEF Posts, Upload, UploadGivesUp, Status
    <2> QED BY <1>3, <2>6, <2>7
<1>14. CASE ReportAndErase(i) \/ ReportFails(i) \/ EraseFails(i)
    <2>1. PICK t \in {"Completed", "Failed"} : Handles(t, i)
        BY <1>14 DEF ReportAndErase, ReportFails, EraseFails, HandlesReport
    <2>2. Told \in {"told_ok", "told_failed"} BY DEF Told
    <2>3. Consistent(done[i], disk[i]) BY <2>1, HandledHistory DEF Status
    <2>4. \A T \in SUBSET {Told} : Consistent(done[i] \cup T, disk[i])
        BY <2>2, <2>3 DEF Consistent
    <2>5. Consistent(done[i] \cup {Told}, NoFile)
        BY <2>2 DEF Consistent, ToCompute, NoFile
    <2>6. PICK T \in SUBSET {Told}, f \in {disk[i], NoFile} :
             /\ done' = [done EXCEPT ![i] = done[i] \cup T]
             /\ disk' = [disk EXCEPT ![i] = f]
             /\ Consistent(done[i] \cup T, f)
        BY <1>2, <1>14, <2>4, <2>5 DEF ReportAndErase, ReportFails, EraseFails, SetFile, Achieve
    <2>7. \A type \in {"Created", "Completed", "Failed"} : Leaves(type, done[i] \cup T, f)
        BY <2>6 DEF Leaves
    <2>8. Posts(t, "Created") \/ Posts(t, t)
        BY <1>14, <2>1, DelaysAreNatural
        DEF Posts, ReportAndErase, ReportFails, EraseFails, Status
    <2> QED BY <1>3, <2>1, <2>7, <2>8
<1> QED BY <1>7, <1>8, <1>9, <1>10, <1>11, <1>12, <1>13, <1>14 DEF HandleWorkUnit

\* A handler that is cut short leaves its slot without a file only if a file can be
\* torn, or after the report.
LEMMA CutShortKeepsHistory ==
    ASSUME FilesAreKept, TypeOK, Tokens, FilesFollow, HistoryInv,
           NEW i \in WorkUnits, KilledInside(i)
    PROVE  FilesRemember'
<1>1. disk = [disk EXCEPT ![i] = disk[i]] /\ done = [done EXCEPT ![i] = done[i]]
    BY DEF TypeOK
<1>2. ASSUME NEW d, done' = [done EXCEPT ![i] = d],
             NEW f, disk' = [disk EXCEPT ![i] = f], Consistent(d, f)
      PROVE  FilesRemember'
    <2>1. /\ done'[i] = d /\ \A j \in WorkUnits : j # i => done'[j] = done[j]
          /\ disk'[i] = f /\ \A j \in WorkUnits : j # i => disk'[j] = disk[j]
        BY <1>2 DEF TypeOK
    <2>2. \A j \in WorkUnits : Consistent(done'[j], disk'[j])
        BY <1>2, <2>1 DEF HistoryInv, FilesRemember
    <2> QED BY <2>2 DEF FilesRemember, Consistent
<1>3. CASE /\ Handles("Initializing", i) /\ UNCHANGED disk
           /\ done' = [done EXCEPT ![i] = {"received"}]
    <2>1. Consistent({"received"}, disk[i]) BY DEF Consistent
    <2> QED BY <1>1, <1>2, <1>3, <2>1
<1>4. CASE /\ HandlesReport(i) /\ SetFile(i, {disk[i], NoFile}) /\ Achieve(i, {Told})
    <2>1. PICK t \in {"Completed", "Failed"} : Handles(t, i)
        BY <1>4 DEF HandlesReport
    <2>2. Told \in {"told_ok", "told_failed"} BY DEF Told
    <2>3. Consistent(done[i], disk[i]) BY <2>1, HandledHistory DEF Status
    <2>4. Consistent(done[i] \cup {Told}, disk[i]) /\ Consistent(done[i] \cup {Told}, NoFile)
        BY <2>2, <2>3 DEF Consistent, ToCompute, NoFile
    <2> QED BY <1>2, <1>4, <2>4 DEF SetFile, Achieve
<1>5. ASSUME NEW type \in {"Downloading", "Waiting", "Finished"}, Handles(type, i),
             NEW f \in FilesInside(type, i), disk' = [disk EXCEPT ![i] = f],
             UNCHANGED done
      PROVE  FilesRemember'
    <2>1. /\ type = "Downloading" => "uploaded" \notin done[i]
          /\ Consistent(done[i], disk[i]) /\ status[i] \in StatusesAt(type)
          /\ status[i] \in Status /\ Follows(status[i], disk[i])
        BY <1>5, HandledHistory DEF Status
    <2>2. type = "Waiting" => "uploaded" \notin done[i]
        BY <2>1, StatusTable DEF Follows, Storable, Consistent, ToCompute
    <2>3. StoreResults(status[i], type, disk[i]) \subseteq {disk[i], type}
        BY <2>1, StoreKept DEF Status
    <2>4. ASSUME NEW s \in Promotion(type, i)
          PROVE  /\ StoreTwice(status[i], type, s, disk[i]) \subseteq {s}
                 /\ \/ s = "Computing" /\ type = "Waiting"
                    \/ s = "Uploading"
        <3>1. \/ s = "Computing" /\ type = "Waiting"
              \/ s = "Uploading" /\ type = "Finished"
            BY <2>4 DEF Promotion
        <3>2. s \in Storable /\ s # type /\ type \in Status
            BY <3>1 DEF Storable, Status
        <3> QED BY <2>1, <3>1, <3>2, StoreTwiceKept
    <2>5. \/ f \in {disk[i], type} \cup Promotion(type, i)
          \/ f = NoFile /\ "torn" \in Faults
        <3>1. UNION {StoreTwice(status[i], type, s, disk[i]) : s \in Promotion(type, i)}
                \subseteq Promotion(type, i)
            BY <2>4
        <3> QED BY <2>3, <3>1 DEF FilesInside
    <2>6. Consistent(done[i], f)
        <3>1. CASE f = disk[i] BY <2>1, <3>1
        <3>2. CASE f = NoFile /\ "torn" \in Faults
            BY <3>2 DEF Consistent, ToCompute, NoFile
        <3>3. CASE f = type
            BY <2>1, <2>2, <3>3 DEF Consistent, ToCompute, NoFile
        <3>4. CASE f \in Promotion(type, i)
            BY <2>2, <2>4, <3>4 DEF Consistent, ToCompute, NoFile
        <3> QED BY <2>5, <3>1, <3>2, <3>3, <3>4
    <2> QED BY <1>1, <1>2, <1>5, <2>6
<1> QED BY <1>3, <1>4, <1>5 DEF KilledInside, SetFile

TypedHistory == TypedPending /\ HistoryInv

LEMMA StepKeepsHistory ==
    ASSUME FilesAreKept, TypedHistory, [Next]_vars PROVE TypedHistory'
<1> USE DEF TypedHistory, TypedPending, TypedExclusive, TypedTokens
<1>1. TypedPending' BY StepKeepsPending
<1>2. SUFFICES HistoryInv' BY <1>1
<1>3. UNCHANGED <<disk, done>> => FilesRemember'
    BY DEF HistoryInv, FilesRemember, Consistent
<1>4. CASE LoadFails
    <2>1. Handles("Load", 0) /\ UNCHANGED <<disk, done>> BY <1>4 DEF LoadFails
    <2>2. queue' = Rest \/ Moves(0, "Load")
        <3>1. /\ Rest \in Seq(Events) /\ Head(queue) \in Events
              /\ Head(queue).type = "Load" /\ Head(queue).index = 0
            BY <2>1, HandledEvent
        <3>2. \E e \in Events :
                 /\ e.index = Head(queue).index /\ e.type = Head(queue).type
                 /\ Regenerate(Rest, Head(queue), LoadDelay) = Put(Rest, e)
            BY <3>1, RegenerateMoves, DelaysAreNatural
        <3> QED BY <1>4, <3>1, <3>2 DEF LoadFails, Moves
    <2>3. disk = [disk EXCEPT ![0] = disk[0]] /\ done = [done EXCEPT ![0] = done[0]]
        BY DEF TypeOK
    <2>4. Consistent(done[0], disk[0]) BY SlotsAreNumbered DEF HistoryInv, FilesRemember
    <2> QED BY <2>1, <2>2, <2>3, <2>4, SlotsAreNumbered, SlotKeepsHistory
<1>5. CASE LoadSucceeds \/ LoadStops
    <2>1. PICK n \in 0..NbWorkUnits, bad \in SUBSET WorkUnits,
               s \in Status \cup {Null} :
              /\ LoadSlots(n, bad, s)
              /\ n < NbWorkUnits => "stuck" \in Faults
              /\ n = NbWorkUnits /\ bad # {} => "unreadable" \in Faults
              /\ \A i \in WorkUnits : i \in bad => disk'[i] = NoFile
              /\ \A i \in WorkUnits : i \notin bad /\ i # n => disk'[i] = disk[i]
        BY <1>5, LoadIsLoadSlots
    <2>2. n = NbWorkUnits BY <2>1, SlotsAssumption DEF FilesAreKept
    <2>3. 0..n - 1 = WorkUnits /\ \A i \in WorkUnits : i < n /\ i # n
        BY <2>2, SlotsAssumption DEF WorkUnits
    <2>4. HasLoaded(n, bad, s) BY <2>1, LoadedState
    <2>5. ASSUME NEW i \in WorkUnits
          PROVE  /\ disk'[i] = IF i \in bad THEN NoFile ELSE disk[i]
                 /\ status'[i] = IF i \in bad \/ disk[i] = NoFile THEN "Created" ELSE disk[i]
                 /\ done'[i] = done[i]
        BY <2>1, <2>3, <2>4 DEF HasLoaded, LoadSlots
    <2>6. \A i \in WorkUnits : Consistent(done'[i], disk'[i])
        <3>1. ASSUME NEW i \in WorkUnits, i \in bad PROVE Consistent(done[i], NoFile)
            BY <2>1, <2>2, <3>1 DEF Consistent, ToCompute, NoFile
        <3> QED BY <2>5, <3>1 DEF HistoryInv, FilesRemember
    <2>7. FilesRemember' BY <2>6 DEF FilesRemember, Consistent
    <2>8. \A i \in WorkUnits : status'[i] = "Downloading" => "uploaded" \notin done'[i]
        BY <2>5 DEF HistoryInv, FilesRemember, Consistent, ToCompute
    <2>9. DownloadsAreNew'
        BY <2>3, <2>4, <2>8 DEF HasLoaded, DownloadsAreNew
    <2> QED BY <2>7, <2>9 DEF HistoryInv
<1>6. ASSUME NEW i \in WorkUnits, HandleWorkUnit(i) PROVE HistoryInv'
    BY <1>6, HandlersKeepHistory DEF PendingInv
<1>7. ASSUME NEW i \in WorkUnits, ComputationEnds(i) PROVE HistoryInv'
    <2>1. /\ queue' = Put(queue, Event(Now, "Finished", i)) /\ UNCHANGED disk
          /\ done' = [done EXCEPT ![i] = done[i] \cup {"computed"}]
        BY <1>7 DEF ComputationEnds, Achieve, FilesAreKept
    <2>2. Event(Now, "Finished", i) \in Events /\ Event(Now, "Finished", i).type = "Finished"
        BY EventIsTyped DEF EventTypes, Status, Now
    <2>3. threads[i] = 1 /\ OnePerSlot(queue) /\ queue \in Seq(Events)
        BY <1>7 DEF ComputationEnds, TypeOK, Tokens, AtMostOneToken, OnePerSlot
    <2>4. /\ \A k \in DOMAIN queue : queue[k].index # Event(Now, "Finished", i).index
          /\ \A k \in DOMAIN queue : queue[k].index # i
        BY <2>3 DEF Tokens, AtMostOneToken, Event
    <2>5. ComesFrom(queue, Event(Now, "Finished", i), queue')
        BY <2>1, <2>2, <2>3, <2>4, PutKeepsOnePerSlot
    <2>6. disk[i] = "Computing"
        BY <2>3 DEF Tokens, EventsMatchStatus, PendingInv, FilesFollow, Follows, Storable, Null
    <2>7. /\ done'[i] = done[i] \cup {"computed"}
          /\ \A j \in WorkUnits : j # i => done'[j] = done[j]
        BY <2>1 DEF TypeOK
    <2>8. \A j \in WorkUnits : Consistent(done'[j], disk'[j])
        BY <2>1, <2>6, <2>7 DEF HistoryInv, FilesRemember, Consistent, ToCompute, NoFile
    <2>9. FilesRemember' BY <2>8 DEF FilesRemember, Consistent
    <2>10. \A j \in DOMAIN queue : queue[j].index \in WorkUnits
        <3>1. \A j \in DOMAIN queue : queue[j] \in Events
            BY <2>3, ElementOfSeq, LenProperties
        <3> QED BY <3>1 DEF Events
    <2>11. DownloadsAreNew'
        BY <2>2, <2>4, <2>5, <2>7, <2>10 DEF HistoryInv, DownloadsAreNew, ComesFrom
    <2> QED BY <2>9, <2>11 DEF HistoryInv
<1>8. CASE Tick
    <2>1. queue \in Seq(Events) /\ queue' = Elapse(queue) /\ UNCHANGED <<disk, done>>
        BY <1>8 DEF TypeOK, Tick
    <2>2. IsElapsed(queue, Elapse(queue)) BY <2>1, ElapseProperties DEF Events
    <2>3. DOMAIN queue = 1..Len(queue) BY <2>1, LenProperties
    <2>4. DownloadsAreNew'
        BY <2>1, <2>2, <2>3 DEF IsElapsed, HistoryInv, DownloadsAreNew
    <2> QED BY <1>3, <2>1, <2>4 DEF HistoryInv
<1>9. ASSUME NEW how, Dies(how), FilesRemember' PROVE HistoryInv'
    <2>1. DOMAIN queue' = {} BY <1>9 DEF Dies
    <2> QED BY <1>9, <2>1 DEF HistoryInv, DownloadsAreNew
<1>10. ASSUME NEW i \in WorkUnits, Killed \/ HandleNoEvent \/ BadLabel(i) PROVE HistoryInv'
    BY <1>3, <1>9, <1>10 DEF Killed, HandleNoEvent, BadLabel
<1>11. ASSUME NEW i \in WorkUnits, KilledInside(i) PROVE HistoryInv'
    BY <1>9, <1>11, CutShortKeepsHistory DEF KilledInside, PendingInv
<1>12. CASE Start
    <2>1. DOMAIN queue' = {1} /\ queue'[1].type = "Load"
        BY <1>12, LoadEventIsTyped DEF Start
    <2>2. UNCHANGED <<disk, done>> BY <1>12 DEF Start
    <2> QED BY <1>3, <2>1, <2>2 DEF HistoryInv, DownloadsAreNew
<1>13. CASE UNCHANGED vars
    BY <1>3, <1>13 DEF vars, HistoryInv, DownloadsAreNew
<1> QED BY <1>4, <1>5, <1>6, <1>7, <1>8, <1>10, <1>11, <1>12, <1>13, SlotsAreNumbered
        DEF Next, HandleLoad

LEMMA InitHasHistory == Init => TypedHistory
<1> SUFFICES ASSUME Init PROVE TypedHistory
    OBVIOUS
<1>1. TypedPending
    BY InitIsExclusive
    DEF Init, TypedPending, PendingInv, FilesFollow, OneHolds, Holds, Pending, Null, NoFile
<1>2. DOMAIN queue = {1} /\ queue[1].type = "Load" BY LoadEventIsTyped DEF Init
<1>3. DownloadsAreNew BY <1>2 DEF DownloadsAreNew
<1>4. FilesRemember BY DEF Init, FilesRemember, Consistent
<1> QED BY <1>1, <1>3, <1>4 DEF TypedHistory, HistoryInv

\* A result is not forgotten: when the slot of a work unit that was computed asks for
\* other work, the server has been told.  There are two exceptions: a file torn by a
\* kill between unlink and rename (boincWorkUnitStatusStore), which a run shows, and a
\* file that cannot be read back (boincSchedulerLoad then erases the slot).
THEOREM ComputedIsReported ==
    ASSUME FilesAreKept, Faults \cap {"torn", "unreadable"} = {}
    PROVE  Spec => []ComputedWorkIsReported
<1>1. TypedHistory /\ [Next]_vars => TypedHistory' BY StepKeepsHistory
<1>2. TypedHistory => ComputedWorkIsReported
    BY DEF TypedHistory, HistoryInv, FilesRemember, Consistent,
           ComputedWorkIsReported, AsksForWork
<1> QED BY <1>1, <1>2, InitHasHistory, PTL DEF Spec

\* A work unit whose result was uploaded is not computed again, through kills and
\* restarts, torn files included.
THEOREM UploadedStaysUploaded ==
    ASSUME FilesAreKept PROVE Spec => UploadedIsNotRecomputed
<1> DEFINE New == \A i \in WorkUnits : threads'[i] > threads[i] => "uploaded" \notin done[i]
<1>1. TypedHistory /\ [Next]_vars => TypedHistory' BY StepKeepsHistory
<1>2. ASSUME TypedHistory, [Next]_vars PROVE [New]_vars
    <2> USE <1>2 DEF TypedHistory, TypedPending, TypedExclusive, TypedTokens
    <2>1. \A i \in WorkUnits : threads[i] \in Nat BY DEF TypeOK
    <2>2. ASSUME NEW i \in WorkUnits, Compute(i) PROVE New
        <3>1. Handles("Computing", i) BY <2>2 DEF Compute
        <3>2. /\ status[i] = "Computing" /\ Follows(status[i], disk[i])
              /\ Consistent(done[i], disk[i])
            BY <3>1, HandledHistory, StatusTable DEF Status, PendingInv
        <3>3. "uploaded" \notin done[i]
            BY <3>2 DEF Follows, Storable, Consistent, ToCompute
        <3>4. \A j \in WorkUnits : j # i => threads'[j] = threads[j]
            BY <2>2 DEF Compute, TypeOK
        <3> QED BY <2>1, <3>3, <3>4
    <2>3. CASE \A i \in WorkUnits : threads'[i] <= threads[i]
        <3>1. \A i \in WorkUnits : ~(threads'[i] > threads[i])
            <4>1. \A i \in WorkUnits : threads'[i] \in Nat
                BY StepKeepsTypes DEF TypeOK
            <4> QED BY <2>1, <2>3, <4>1
        <3> QED BY <3>1
    <2>4. UNCHANGED threads => New BY <2>1, <2>3
    <2>5. CASE HandleLoad
        BY <2>4, <2>5 DEF HandleLoad, LoadFails, LoadSucceeds, LoadStops, LoadSlots
    <2>6. ASSUME NEW i \in WorkUnits, HandleWorkUnit(i), ~Compute(i) PROVE New
        BY <2>4, <2>6
        DEF HandleWorkUnit, HandleCreated, RequestWork, RequestWorkFails, Download,
            HandleWaiting, HandleFinished, Upload, UploadFails, UploadGivesUp,
            ReportAndErase, ReportFails, EraseFails
    <2>7. ASSUME NEW i \in WorkUnits, ComputationEnds(i) PROVE New
        <3>1. \A j \in WorkUnits :
                 threads'[j] = IF j = i THEN threads[j] - 1 ELSE threads[j]
            BY <2>7 DEF ComputationEnds, TypeOK
        <3> QED BY <2>1, <2>3, <3>1
    <2>8. CASE Tick \/ Start BY <2>4, <2>8 DEF Tick, Start
    <2>9. ASSUME NEW i \in WorkUnits, Killed \/ HandleNoEvent \/ KilledInside(i) \/ BadLabel(i)
          PROVE  New
        BY <2>1, <2>3, <2>9 DEF Killed, HandleNoEvent, KilledInside, BadLabel, Dies
    <2> QED BY <2>2, <2>5, <2>6, <2>7, <2>8, <2>9, SlotsAreNumbered DEF Next
<1> QED BY <1>1, <1>2, InitHasHistory, PTL DEF Spec, UploadedIsNotRecomputed
=============================================================================
