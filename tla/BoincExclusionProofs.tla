------------------------ MODULE BoincExclusionProofs ------------------------
(***************************************************************************)
(* "Only one workunit is computed at once" (BoincLite.h:38): for any       *)
(* number of slots, kills and restarts included, as long as status files   *)
(* can be written, directories can be removed when loading, and no         *)
(* computation reports failure (the run SchedulerFailedComputation shows   *)
(* what happens when one does).                                            *)
(*                                                                         *)
(* Within one life of the process the scan of the other slots in           *)
(* HandleWaiting is enough.  Across restarts the status files decide: the  *)
(* invariant says that at most one of them names Computing, and that it is *)
(* the one of the slot that is Computing in memory.                        *)
(*                                                                         *)
(* Uploads exclude each other within one life only; OneLifeInv is the      *)
(* argument from the scans alone, for the three statuses that have one.    *)
(***************************************************************************)
EXTENDS BoincSchedulerProofs

\* The faults under which the promise is kept.
FilesAreKept == Faults \cap {"write", "stuck", "compute"} = {}

\* The load reaches every slot or none.
AllAreLoaded ==
    (\E i \in WorkUnits : status[i] = Null) => \A i \in WorkUnits : status[i] = Null

\* In memory and on disk the same slot is Computing.
ComputingIsStored ==
    \A i \in WorkUnits :
        status[i] # Null => (disk[i] = "Computing" <=> status[i] = "Computing")

\* At most one status file says Computing.
AtMostOneStored ==
    \A i, j \in WorkUnits : disk[i] = "Computing" /\ disk[j] = "Computing" => i = j

\* What failed has left Computing.
FailedIsNotComputing ==
    \A p \in DOMAIN queue :
        queue[p].type = "Failed" => status[queue[p].index] # "Computing"

Exclusive == AllAreLoaded /\ ComputingIsStored /\ AtMostOneStored /\ FailedIsNotComputing

-----------------------------------------------------------------------------
\* Without write faults a file keeps its content or takes the last status stored.
LEMMA StoreKept ==
    ASSUME FilesAreKept, NEW old \in Status, NEW new \in Status, NEW file
    PROVE  /\ new \in Storable /\ old # new => StoreResults(old, new, file) = {new}
           /\ StoreResults(old, new, file) \subseteq {file, new}
<1>1. "write" \notin Faults BY DEF FilesAreKept
<1> QED BY <1>1 DEF StoreResults, Storable

LEMMA StoreTwiceKept ==
    ASSUME FilesAreKept, NEW old \in Status, NEW first \in Status,
           NEW second \in Storable, first # second, NEW file
    PROVE  StoreTwice(old, first, second, file) \subseteq {second}
<1> SUFFICES ASSUME NEW f \in StoreResults(old, first, file)
             PROVE  StoreResults(first, second, f) \subseteq {second}
    BY DEF StoreTwice
<1>1. second \in Status BY DEF Storable, Status
<1> QED BY <1>1, StoreKept

\* A handler that changes the status and the file of its slot together, and makes
\* a slot Computing only when no other is.
LEMMA SlotKeepsExclusive ==
    ASSUME TypeOK, Tokens, Exclusive, NEW t \in Status, NEW i \in WorkUnits, Handles(t, i),
           NEW type, Moves(i, type) \/ queue' = Rest,
           NEW s \in Status, status' = [status EXCEPT ![i] = s],
           NEW f \in Files, disk' = [disk EXCEPT ![i] = f],
           f = "Computing" <=> s = "Computing",
           s = "Computing" => status[i] = "Computing" \/ NoneIs({"Computing"}, i),
           type = "Failed" => s # "Computing"
    PROVE  Exclusive'
<1>1. /\ \A k \in DOMAIN queue' :
            \/ queue'[k].index = i /\ queue'[k].type = type
            \/ \E j \in DOMAIN queue : queue'[k] = queue[j] /\ queue[j].index # i
    BY QueueAfterHandler DEF Tokens
<1>2. /\ status'[i] = s /\ \A j \in WorkUnits : j # i => status'[j] = status[j]
      /\ disk'[i] = f /\ \A j \in WorkUnits : j # i => disk'[j] = disk[j]
    BY DEF TypeOK
<1>3. status[i] # Null
    BY HandledSlot, StatusTable DEF Status, Null
<1>4. \A j \in WorkUnits : status[j] # Null
    BY <1>3 DEF Exclusive, AllAreLoaded
<1>5. s # Null BY DEF Status, Null
<1>6. AllAreLoaded' BY <1>2, <1>4, <1>5 DEF AllAreLoaded
<1>7. ComputingIsStored' BY <1>2 DEF Exclusive, ComputingIsStored
<1>8. AtMostOneStored'
    <2>1. ASSUME s = "Computing", NEW j \in WorkUnits, j # i PROVE disk[j] # "Computing"
        <3>1. CASE status[i] = "Computing"
            BY <1>3, <2>1, <3>1 DEF Exclusive, ComputingIsStored, AtMostOneStored
        <3>2. CASE NoneIs({"Computing"}, i)
            BY <1>4, <2>1, <3>2 DEF Exclusive, ComputingIsStored, NoneIs
        <3> QED BY <2>1, <3>1, <3>2
    <2> QED BY <1>2, <2>1 DEF Exclusive, AtMostOneStored
<1>9. FailedIsNotComputing'
    <2>1. \A j \in DOMAIN queue : queue[j].index \in WorkUnits
        <3>1. \A j \in DOMAIN queue : queue[j] \in Events
            BY ElementOfSeq, LenProperties DEF TypeOK
        <3> QED BY <3>1 DEF Events
    <2> QED BY <1>1, <1>2, <2>1 DEF Exclusive, FailedIsNotComputing
<1> QED BY <1>6, <1>7, <1>8, <1>9 DEF Exclusive

\* Each case of boincSchedulerHandleEvents keeps memory and disk in step.
LEMMA HandlersKeepExclusive ==
    ASSUME FilesAreKept, TypeOK, Tokens, Exclusive,
           NEW i \in WorkUnits, HandleWorkUnit(i)
    PROVE  Exclusive'
<1>1. /\ Status \subseteq EventTypes /\ disk[i] \in Files /\ NoFile \in Files
      /\ Storable \subseteq Files /\ "Failed" \in Files
    BY DEF EventTypes, TypeOK, Files
<1>2. disk = [disk EXCEPT ![i] = disk[i]] /\ status = [status EXCEPT ![i] = status[i]]
    BY DEF TypeOK
<1> DEFINE Posts(t, type) ==
        /\ t \in Status /\ type \in Status /\ Handles(t, i)
        /\ PostNext(type, i) \/ (type = t /\ \E D \in SUBSET Nat : RetryAfter(D))
           Becomes(s, f) ==
        /\ s \in Status /\ f \in Files
        /\ status' = [status EXCEPT ![i] = s] /\ disk' = [disk EXCEPT ![i] = f]
<1>3. ASSUME NEW t, NEW type, Posts(t, type), NEW s, NEW f, Becomes(s, f),
             f = "Computing" <=> s = "Computing",
             s = "Computing" => status[i] = "Computing" \/ NoneIs({"Computing"}, i),
             type = "Failed" => s # "Computing"
      PROVE  Exclusive'
    <2>1. Moves(i, type)
        BY <1>1, <1>3, PostNextMoves, RetryMoves
    <2> QED BY <1>3, <2>1, SlotKeepsExclusive
<1>4. ASSUME NEW t \in Status, Handles(t, i)
      PROVE  /\ status[i] \in StatusesAt(t) /\ status[i] \in Status
             /\ disk[i] = "Computing" <=> status[i] = "Computing"
             /\ t = "Failed" => status[i] # "Computing"
    <2>1. status[i] \in StatusesAt(t) BY <1>4, HandledSlot
    <2>2. status[i] \in Status BY <2>1, StatusTable DEF Status
    <2>3. queue[1].index = i /\ queue[1].type = t /\ 1 \in DOMAIN queue
        BY <1>4, HandledEvent, TailKeepsOnePerSlot DEF Tokens, AtMostOneToken, OnePerSlot
    <2>4. t = "Failed" => status[i] # "Computing"
        BY <2>3 DEF Exclusive, FailedIsNotComputing
    <2>5. status[i] # Null BY <2>2 DEF Status, Null
    <2> QED BY <2>1, <2>2, <2>4, <2>5 DEF Exclusive, ComputingIsStored
<1> HIDE DEF Posts, Becomes
<1>5. CASE HandleCreated(i)
    <2>1. Handles("Created", i) /\ UNCHANGED disk BY <1>5 DEF HandleCreated
    <2>2. disk[i] # "Computing" BY <1>4, <2>1, StatusTable DEF Status
    <2>3. CASE SetStatus(i, "Initializing") /\ PostNext("Initializing", i)
        <3>1. Posts("Created", "Initializing") BY <2>1, <2>3 DEF Posts, Status
        <3>2. Becomes("Initializing", disk[i])
            BY <1>1, <1>2, <2>1, <2>3 DEF Becomes, SetStatus, Status
        <3> QED BY <1>3, <2>2, <3>1, <3>2
    <2>4. CASE SetStatus(i, "Created") /\ RetryAfter({BusyDelay})
        <3>1. Posts("Created", "Created")
            BY <2>1, <2>4, DelaysAreNatural DEF Posts, Status
        <3>2. Becomes("Created", disk[i])
            BY <1>1, <1>2, <2>1, <2>4 DEF Becomes, SetStatus, Status
        <3> QED BY <1>3, <2>2, <3>1, <3>2
    <2> QED BY <1>5, <2>3, <2>4 DEF HandleCreated
<1>6. CASE RequestWork(i) \/ RequestWorkFails(i)
    <2>1. Handles("Initializing", i) /\ UNCHANGED <<status, disk>>
        BY <1>6 DEF RequestWork, RequestWorkFails
    <2>2. status[i] = "Initializing" /\ disk[i] # "Computing"
        BY <1>4, <2>1, StatusTable DEF Status
    <2>3. Becomes("Initializing", disk[i])
        BY <1>1, <1>2, <2>1, <2>2 DEF Becomes, Status
    <2>4. Posts("Initializing", "Downloading") \/ Posts("Initializing", "Initializing")
        BY <1>6, <2>1, DelaysAreNatural DEF Posts, RequestWork, RequestWorkFails, Status
    <2> QED BY <1>3, <2>2, <2>3, <2>4
<1>7. CASE Download(i)
    <2>1. /\ Handles("Downloading", i) /\ SetStatus(i, "Downloading")
          /\ SetFile(i, StoreResults(status[i], "Downloading", disk[i]))
        BY <1>7 DEF Download
    <2>2. status[i] \in Status /\ disk[i] # "Computing"
        BY <1>4, <2>1, StatusTable DEF Status
    <2>3. StoreResults(status[i], "Downloading", disk[i]) \subseteq {disk[i], "Downloading"}
        BY <2>2, StoreKept DEF Status
    <2>4. PICK f \in {disk[i], "Downloading"} : disk' = [disk EXCEPT ![i] = f]
        BY <2>1, <2>3 DEF SetFile
    <2>5. f # "Computing" /\ Becomes("Downloading", f)
        BY <1>1, <2>1, <2>2, <2>4 DEF Becomes, SetStatus, Status, Storable
    <2>6. Posts("Downloading", "Waiting") \/ Posts("Downloading", "Downloading")
        BY <1>7, <2>1, DelaysAreNatural DEF Posts, Download, Status
    <2> QED BY <1>3, <2>5, <2>6
<1>8. CASE HandleWaiting(i)
    <2>1. Handles("Waiting", i) BY <1>8 DEF HandleWaiting
    <2>2. status[i] \in Status /\ disk[i] # "Computing"
        BY <1>4, <2>1, StatusTable DEF Status
    <2>3. CASE /\ NoneIs({"Computing"}, i) /\ SetStatus(i, "Computing")
               /\ SetFile(i, StoreTwice(status[i], "Waiting", "Computing", disk[i]))
               /\ PostNext("Computing", i)
        <3>1. StoreTwice(status[i], "Waiting", "Computing", disk[i]) \subseteq {"Computing"}
            BY <2>2, StoreTwiceKept DEF Status, Storable
        <3>2. disk' = [disk EXCEPT ![i] = "Computing"] BY <2>3, <3>1 DEF SetFile
        <3>3. Becomes("Computing", "Computing")
            BY <1>1, <2>3, <3>2 DEF Becomes, SetStatus, Status, Storable
        <3>4. Posts("Waiting", "Computing") BY <2>1, <2>3 DEF Posts, Status
        <3> QED BY <1>3, <2>3, <3>3, <3>4
    <2>4. CASE /\ SetStatus(i, "Waiting")
               /\ SetFile(i, StoreResults(status[i], "Waiting", disk[i]))
               /\ RetryAfter({BusyDelay})
        <3>1. StoreResults(status[i], "Waiting", disk[i]) \subseteq {disk[i], "Waiting"}
            BY <2>2, StoreKept DEF Status
        <3>2. PICK f \in {disk[i], "Waiting"} : disk' = [disk EXCEPT ![i] = f]
            BY <2>4, <3>1 DEF SetFile
        <3>3. f # "Computing" /\ Becomes("Waiting", f)
            BY <1>1, <2>2, <2>4, <3>2 DEF Becomes, SetStatus, Status, Storable
        <3>4. Posts("Waiting", "Waiting")
            BY <2>1, <2>4, DelaysAreNatural DEF Posts, Status
        <3> QED BY <1>3, <3>3, <3>4
    <2> QED BY <1>8, <2>3, <2>4 DEF HandleWaiting
<1>9. CASE Compute(i)
    <2>1. Handles("Computing", i) /\ queue' = Rest /\ UNCHANGED <<status, disk>>
        BY <1>9 DEF Compute
    <2>2. status[i] = "Computing" /\ disk[i] = "Computing"
        BY <1>4, <2>1, StatusTable DEF Status
    <2> QED BY <1>1, <1>2, <2>1, <2>2, SlotKeepsExclusive DEF Status
<1>10. CASE HandleFinished(i)
    <2>1. Handles("Finished", i) BY <1>10 DEF HandleFinished
    <2>2. status[i] \in {"Computing", "Finished"} /\ status[i] \in Status
          /\ (disk[i] = "Computing" <=> status[i] = "Computing")
        BY <1>4, <2>1, StatusTable DEF Status
    <2>3. CASE /\ SetStatus(i, "Uploading")
               /\ SetFile(i, StoreTwice(status[i], "Finished", "Uploading", disk[i]))
               /\ PostNext("Uploading", i)
        <3>1. StoreTwice(status[i], "Finished", "Uploading", disk[i]) \subseteq {"Uploading"}
            BY <2>2, StoreTwiceKept DEF Status, Storable
        <3>2. disk' = [disk EXCEPT ![i] = "Uploading"] BY <2>3, <3>1 DEF SetFile
        <3>3. Becomes("Uploading", "Uploading")
            BY <1>1, <2>3, <3>2 DEF Becomes, SetStatus, Status, Storable
        <3>4. Posts("Finished", "Uploading") BY <2>1, <2>3 DEF Posts, Status
        <3> QED BY <1>3, <3>3, <3>4
    <2>4. CASE /\ SetStatus(i, "Finished")
               /\ SetFile(i, StoreResults(status[i], "Finished", disk[i]))
               /\ RetryAfter({BusyDelay})
        <3>1. /\ status[i] # "Finished" =>
                    StoreResults(status[i], "Finished", disk[i]) = {"Finished"}
              /\ StoreResults(status[i], "Finished", disk[i]) \subseteq {disk[i], "Finished"}
            BY <2>2, StoreKept DEF Status, Storable
        <3>2. PICK f \in StoreResults(status[i], "Finished", disk[i]) :
                 disk' = [disk EXCEPT ![i] = f]
            BY <2>4 DEF SetFile
        <3>3. f # "Computing" /\ f \in {disk[i], "Finished"} BY <2>2, <3>1
        <3>4. f # "Computing" /\ Becomes("Finished", f)
            BY <1>1, <2>4, <3>2, <3>3 DEF Becomes, SetStatus, Status, Storable
        <3>5. Posts("Finished", "Finished")
            BY <2>1, <2>4, DelaysAreNatural DEF Posts, Status
        <3> QED BY <1>3, <3>4, <3>5
    <2> QED BY <1>10, <2>3, <2>4 DEF HandleFinished
<1>11. CASE Upload(i) \/ UploadFails(i)
    <2>1. Handles("Uploading", i) /\ UNCHANGED <<status, disk>>
        BY <1>11 DEF Upload, UploadFails
    <2>2. status[i] = "Uploading" /\ disk[i] # "Computing"
        BY <1>4, <2>1, StatusTable DEF Status
    <2>3. Becomes("Uploading", disk[i])
        BY <1>1, <1>2, <2>1, <2>2 DEF Becomes, Status
    <2>4. Posts("Uploading", "Completed") \/ Posts("Uploading", "Uploading")
        BY <1>11, <2>1, DelaysAreNatural DEF Posts, Upload, UploadFails, Status
    <2> QED BY <1>3, <2>2, <2>3, <2>4
<1>12. CASE UploadGivesUp(i)
    <2>1. /\ Handles("Uploading", i) /\ SetStatus(i, "Failed") /\ PostNext("Failed", i)
          /\ SetFile(i, StoreResults(status[i], "Failed", disk[i]))
        BY <1>12 DEF UploadGivesUp
    <2>2. status[i] \in Status /\ disk[i] # "Computing"
        BY <1>4, <2>1, StatusTable DEF Status
    <2>3. StoreResults(status[i], "Failed", disk[i]) \subseteq {disk[i], "Failed"}
        BY <2>2, StoreKept DEF Status
    <2>4. PICK f \in {disk[i], "Failed"} : disk' = [disk EXCEPT ![i] = f]
        BY <2>1, <2>3 DEF SetFile
    <2>5. f # "Computing" /\ Becomes("Failed", f)
        BY <1>1, <2>1, <2>2, <2>4 DEF Becomes, SetStatus, Status
    <2>6. Posts("Uploading", "Failed") BY <2>1 DEF Posts, Status
    <2> QED BY <1>3, <2>5, <2>6
<1>13. CASE ReportAndErase(i)
    <2>1. PICK t \in {"Completed", "Failed"} : Handles(t, i)
        BY <1>13 DEF ReportAndErase, HandlesReport
    <2>2. Posts(t, "Created") BY <1>13, <2>1 DEF Posts, ReportAndErase, Status
    <2>3. Becomes("Created", NoFile)
        BY <1>1, <1>13 DEF Becomes, ReportAndErase, SetStatus, Status
    <2> QED BY <1>3, <2>2, <2>3 DEF NoFile
<1>14. CASE ReportFails(i) \/ EraseFails(i)
    <2>1. PICK t \in {"Completed", "Failed"} : Handles(t, i)
        BY <1>14 DEF ReportFails, EraseFails, HandlesReport
    <2>2. disk[i] # "Computing" BY <1>4, <2>1, StatusTable DEF Status
    <2>3. PICK f \in {disk[i], NoFile} : disk' = [disk EXCEPT ![i] = f]
        BY <1>2, <1>14 DEF ReportFails, EraseFails, SetFile
    <2>4. f # "Computing" /\ Becomes("Completed", f)
        BY <1>1, <1>14, <2>2, <2>3
        DEF Becomes, ReportFails, EraseFails, SetStatus, Status, NoFile
    <2>5. Posts(t, t)
        BY <1>14, <2>1, DelaysAreNatural DEF Posts, ReportFails, EraseFails, Status
    <2> QED BY <1>3, <2>4, <2>5
<1> QED BY <1>5, <1>6, <1>7, <1>8, <1>9, <1>10, <1>11, <1>12, <1>13, <1>14
        DEF HandleWorkUnit

\* A handler that is cut short leaves the old file, no file, the status it was
\* about to store, or Computing if no other slot is.
LEMMA CutShortKeepsExclusive ==
    ASSUME FilesAreKept, TypeOK, Tokens, Exclusive,
           NEW i \in WorkUnits, KilledInside(i)
    PROVE  AtMostOneStored'
<1>1. disk \in [WorkUnits -> Files] BY DEF TypeOK, Files
<1>2. CASE disk' = disk
    BY <1>2 DEF Exclusive, AtMostOneStored
<1>3. ASSUME NEW f \in Files, disk' = [disk EXCEPT ![i] = f],
             f = "Computing" => disk[i] = "Computing" \/ \A j \in WorkUnits \ {i} : disk[j] # "Computing"
      PROVE  AtMostOneStored'
    BY <1>1, <1>3 DEF Exclusive, AtMostOneStored
<1>4. CASE \E f \in {disk[i], NoFile} : disk' = [disk EXCEPT ![i] = f]
    BY <1>1, <1>3, <1>4 DEF Files, NoFile
<1>5. ASSUME NEW type \in {"Downloading", "Waiting", "Finished"}, Handles(type, i),
             NEW f \in FilesInside(type, i), disk' = [disk EXCEPT ![i] = f]
      PROVE  AtMostOneStored'
    <2>1. status[i] \in Status
        BY <1>5, HandledSlot, StatusTable DEF Status
    <2>2. StoreResults(status[i], type, disk[i]) \subseteq {disk[i], type}
        BY <2>1, StoreKept DEF Status
    <2>3. ASSUME NEW s \in Promotion(type, i)
          PROVE  /\ StoreTwice(status[i], type, s, disk[i]) \subseteq {s}
                 /\ s = "Computing" => NoneIs({"Computing"}, i)
                 /\ s \in Files
        <3>1. /\ s \in {"Computing", "Uploading"}
              /\ s = "Computing" => NoneIs({"Computing"}, i)
            BY <2>3 DEF Promotion
        <3>2. s \in Storable /\ s # type /\ type \in Status
            BY <3>1 DEF Storable, Status
        <3>3. StoreTwice(status[i], type, s, disk[i]) \subseteq {s}
            BY <2>1, <3>2, StoreTwiceKept
        <3> QED BY <3>1, <3>2, <3>3 DEF Files
    <2>4. f \in {disk[i], type, NoFile} \cup Promotion(type, i)
        <3>1. UNION {StoreTwice(status[i], type, s, disk[i]) : s \in Promotion(type, i)}
                \subseteq Promotion(type, i)
            BY <2>3
        <3> QED BY <2>2, <3>1 DEF FilesInside
    <2>5. f \in Files
        BY <1>1, <2>3, <2>4 DEF Files, Storable
    <2>6. CASE f = "Computing" /\ f # disk[i]
        <3>1. NoneIs({"Computing"}, i)
            BY <2>3, <2>4, <2>6 DEF NoFile
        <3>2. \A j \in WorkUnits : status[j] # Null
            BY <2>1 DEF Exclusive, AllAreLoaded, Status, Null
        <3>3. \A j \in WorkUnits \ {i} : disk[j] # "Computing"
            BY <3>1, <3>2 DEF NoneIs, Exclusive, ComputingIsStored
        <3> QED BY <1>3, <1>5, <2>5, <3>3
    <2> QED BY <1>3, <1>5, <2>5, <2>6
<1> QED BY <1>2, <1>4, <1>5 DEF KilledInside, SetFile

\* A process without objects has nothing that could disagree with the disk.
LEMMA NothingLoadedIsExclusive ==
    ASSUME TypeOK', AtMostOneStored', \A i \in WorkUnits : status'[i] = Null,
           \A p \in DOMAIN queue' : queue'[p].index \in WorkUnits
    PROVE  Exclusive'
BY DEF Exclusive, AllAreLoaded, ComputingIsStored, FailedIsNotComputing, Null

TypedExclusive == TypedTokens /\ Exclusive

LEMMA StepKeepsExclusive ==
    ASSUME FilesAreKept, TypedExclusive, [Next]_vars PROVE TypedExclusive'
<1> USE DEF TypedExclusive, TypedTokens
<1>1. TypedTokens' BY StepKeepsTokens
<1>2. SUFFICES Exclusive' BY <1>1
<1>3. \A p \in DOMAIN queue' : queue'[p].index \in WorkUnits
    <2>1. queue' \in Seq(Events) BY <1>1 DEF TypeOK
    <2>2. \A p \in DOMAIN queue' : queue'[p] \in Events
        BY <2>1, ElementOfSeq, LenProperties
    <2> QED BY <2>2 DEF Events
<1>4. CASE LoadFails
    <2>1. Handles("Load", 0) /\ UNCHANGED <<status, disk>> BY <1>4 DEF LoadFails
    <2>2. \A i \in WorkUnits : status'[i] = Null BY <2>1, HandledLoad
    <2>3. AtMostOneStored' BY <2>1 DEF Exclusive, AtMostOneStored
    <2> QED BY <1>1, <1>3, <2>2, <2>3, NothingLoadedIsExclusive
<1>5. CASE LoadSucceeds \/ LoadStops
    <2>1. PICK n \in 0..NbWorkUnits, bad \in SUBSET WorkUnits,
               s \in Status \cup {Null} :
              /\ LoadSlots(n, bad, s)
              /\ n < NbWorkUnits => "stuck" \in Faults
              /\ \A i \in WorkUnits : i \in bad => disk'[i] = NoFile
              /\ \A i \in WorkUnits : i \notin bad /\ i # n => disk'[i] = disk[i]
        BY <1>5, LoadIsLoadSlots
    <2>2. n = NbWorkUnits BY <2>1, SlotsAssumption DEF FilesAreKept
    <2>3. \A i \in WorkUnits : i < n /\ i # n
        BY <2>2, SlotsAssumption DEF WorkUnits
    <2>4. HasLoaded(n, bad, s) BY <2>1, LoadedState
    <2>5. ASSUME NEW i \in WorkUnits
          PROVE  /\ disk'[i] = IF i \in bad THEN NoFile ELSE disk[i]
                 /\ status'[i] = IF i \in bad \/ disk[i] = NoFile THEN "Created" ELSE disk[i]
                 /\ disk[i] # Null
        BY <2>1, <2>3, <2>4 DEF HasLoaded, TypeOK, Storable, Null, NoFile
    <2>6. AllAreLoaded' BY <2>5 DEF AllAreLoaded, Null
    <2>7. ComputingIsStored' BY <2>5 DEF ComputingIsStored, NoFile
    <2>8. AtMostOneStored' BY <2>5 DEF Exclusive, AtMostOneStored, NoFile
    <2>9. FailedIsNotComputing' BY <2>4 DEF HasLoaded, FailedIsNotComputing
    <2> QED BY <2>6, <2>7, <2>8, <2>9 DEF Exclusive
<1>6. ASSUME NEW i \in WorkUnits, HandleWorkUnit(i) PROVE Exclusive'
    BY <1>6, HandlersKeepExclusive
<1>7. ASSUME NEW i \in WorkUnits, ComputationEnds(i) PROVE Exclusive'
    <2>1. Event(Now, "Finished", i) \in Events /\ Event(Now, "Finished", i).type = "Finished"
        BY EventIsTyped DEF EventTypes, Status, Now
    <2>2. queue' = Put(queue, Event(Now, "Finished", i)) /\ UNCHANGED <<status, disk>>
        BY <1>7 DEF ComputationEnds, FilesAreKept
    <2>3. threads[i] = 1 /\ OnePerSlot(queue) /\ queue \in Seq(Events)
        BY <1>7 DEF ComputationEnds, TypeOK, Tokens, AtMostOneToken, OnePerSlot
    <2>4. \A k \in DOMAIN queue : queue[k].index # Event(Now, "Finished", i).index
        BY <2>3 DEF Tokens, AtMostOneToken, Event
    <2>5. ComesFrom(queue, Event(Now, "Finished", i), queue')
        BY <2>1, <2>2, <2>3, <2>4, PutKeepsOnePerSlot
    <2>6. FailedIsNotComputing'
        BY <2>1, <2>2, <2>5 DEF Exclusive, FailedIsNotComputing, ComesFrom
    <2> QED BY <2>2, <2>6 DEF Exclusive, AllAreLoaded, ComputingIsStored, AtMostOneStored
<1>8. CASE Tick
    <2>1. queue \in Seq(Events) /\ queue' = Elapse(queue) /\ UNCHANGED <<status, disk>>
        BY <1>8 DEF TypeOK, Tick
    <2>2. IsElapsed(queue, Elapse(queue)) BY <2>1, ElapseProperties DEF Events
    <2>3. DOMAIN queue = 1..Len(queue) BY <2>1, LenProperties
    <2>4. FailedIsNotComputing'
        BY <2>1, <2>2, <2>3 DEF IsElapsed, Exclusive, FailedIsNotComputing
    <2> QED BY <2>1, <2>4 DEF Exclusive, AllAreLoaded, ComputingIsStored, AtMostOneStored
<1>9. ASSUME NEW how, Dies(how), AtMostOneStored' PROVE Exclusive'
    <2>1. \A i \in WorkUnits : status'[i] = Null BY <1>9 DEF Dies
    <2> QED BY <1>1, <1>3, <1>9, <2>1, NothingLoadedIsExclusive
<1>10. UNCHANGED disk => AtMostOneStored'
    BY DEF Exclusive, AtMostOneStored
<1>11. CASE Killed \/ HandleNoEvent
    BY <1>9, <1>10, <1>11 DEF Killed, HandleNoEvent
<1>12. ASSUME NEW i \in WorkUnits, KilledInside(i) PROVE Exclusive'
    BY <1>9, <1>12, CutShortKeepsExclusive DEF KilledInside
<1>13. ASSUME NEW i \in WorkUnits, BadLabel(i) PROVE Exclusive'
    BY <1>9, <1>10, <1>13 DEF BadLabel
<1>14. CASE Start
    <2>1. \A i \in WorkUnits : status'[i] = Null
        BY <1>14 DEF Start, Tokens, DeadIsEmpty
    <2>2. UNCHANGED disk BY <1>14 DEF Start
    <2> QED BY <1>1, <1>3, <1>10, <2>1, <2>2, NothingLoadedIsExclusive
<1>15. CASE UNCHANGED vars
    BY <1>15
    DEF vars, Exclusive, AllAreLoaded, ComputingIsStored, AtMostOneStored, FailedIsNotComputing
<1> QED BY <1>4, <1>5, <1>6, <1>7, <1>8, <1>11, <1>12, <1>13, <1>14, <1>15
        DEF Next, HandleLoad

LEMMA InitIsExclusive == Init => TypedExclusive
<1> SUFFICES ASSUME Init PROVE TypedExclusive
    OBVIOUS
<1>1. TypedTokens
    BY InitHasTypes, LoadEventIsToken DEF Init, TypedTokens, Fresh
<1>2. /\ \A i \in WorkUnits : status[i] = Null /\ disk[i] = NoFile
      /\ DOMAIN queue = {1} /\ queue[1].type = "Load"
    BY LoadEventIsTyped DEF Init
<1> QED BY <1>1, <1>2
        DEF TypedExclusive, Exclusive, AllAreLoaded, ComputingIsStored,
            AtMostOneStored, FailedIsNotComputing, NoFile

\* "Only one workunit is computed at once": at most one slot is Computing, for
\* any number of slots and through any number of kills and restarts.
THEOREM OneComputing ==
    ASSUME FilesAreKept PROVE Spec => []AtMostOneComputing
<1>1. Init => TypedExclusive BY InitIsExclusive
<1>2. TypedExclusive /\ [Next]_vars => TypedExclusive' BY StepKeepsExclusive
<1>3. TypedExclusive => AtMostOneComputing
    BY DEF TypedExclusive, Exclusive, ComputingIsStored, AtMostOneStored,
           AtMostOneComputing, Null
<1> QED BY <1>1, <1>2, <1>3, PTL DEF Spec

-----------------------------------------------------------------------------
(* One life of the process: the scans alone, whatever happens to the files *)

InOneLife == Faults \cap {"kill", "unguarded", "files"} = {}

\* Until the load there are no files; after it, each promotion was scanned for.
OneLifeInv ==
    /\ process = "running"
    /\ AllAreLoaded
    /\ (\E i \in WorkUnits : status[i] = Null) => \A i \in WorkUnits : disk[i] = NoFile
    /\ AtMostOneComputing /\ AtMostOnePending /\ AtMostOneUploading

\* At most one slot has a status of this set.
OneOf(set) == \A i, j \in WorkUnits : status[i] \in set /\ status[j] \in set => i = j

LEMMA RulesAreOneOf ==
    /\ AtMostOneComputing <=> OneOf({"Computing"})
    /\ AtMostOnePending <=> OneOf(Pending)
    /\ AtMostOneUploading <=> OneOf({"Uploading"})
BY DEF AtMostOneComputing, AtMostOnePending, AtMostOneUploading, OneOf

\* A slot that joins a set after the scan of the others is the only one in it.
LEMMA ScanKeepsOne ==
    ASSUME TypeOK, NEW set, OneOf(set), NEW i \in WorkUnits,
           NEW s, status' = [status EXCEPT ![i] = s],
           s \in set => status[i] \in set \/ NoneIs(set, i)
    PROVE  OneOf(set)'
<1>1. status'[i] = s /\ \A j \in WorkUnits : j # i => status'[j] = status[j]
    BY DEF TypeOK
<1> QED BY <1>1 DEF OneOf, NoneIs

\* The rules of promotion: what a handler makes of the status of its slot.
LEMMA HandlersKeepOneLife ==
    ASSUME TypeOK, Tokens, OneLifeInv, NEW i \in WorkUnits, HandleWorkUnit(i)
    PROVE  OneLifeInv'
<1>1. ASSUME NEW t \in Status, Handles(t, i)
      PROVE  /\ status[i] \in StatusesAt(t)
             /\ \A j \in WorkUnits : status[j] # Null
    <2>1. status[i] \in StatusesAt(t) BY <1>1, HandledSlot
    <2>2. status[i] # Null BY <2>1, StatusTable DEF Status, Null
    <2> QED BY <2>1, <2>2 DEF OneLifeInv, AllAreLoaded
<1>2. PICK t \in Status : Handles(t, i)
    BY DEF HandleWorkUnit, HandleCreated, RequestWork, RequestWorkFails, Download,
           HandleWaiting, Compute, HandleFinished, Upload, UploadFails, UploadGivesUp,
           ReportAndErase, ReportFails, EraseFails, HandlesReport, Status
<1>3. status = [status EXCEPT ![i] = status[i]] BY DEF TypeOK
<1>4. PICK s \in Status : /\ status' = [status EXCEPT ![i] = s]
                          /\ s = "Computing" => status[i] = s \/ NoneIs({"Computing"}, i)
                          /\ s = "Uploading" => status[i] = s \/ NoneIs({"Uploading"}, i)
                          /\ s \in Pending => status[i] \in Pending \/ NoneIs(Pending, i)
    <2> DEFINE Rules(s) ==
            /\ status' = [status EXCEPT ![i] = s]
            /\ s = "Computing" => status[i] = s \/ NoneIs({"Computing"}, i)
            /\ s = "Uploading" => status[i] = s \/ NoneIs({"Uploading"}, i)
            /\ s \in Pending => status[i] \in Pending \/ NoneIs(Pending, i)
    <2> SUFFICES \E s \in Status : Rules(s)
        OBVIOUS
    <2>1. CASE HandleCreated(i)
        BY <2>1 DEF HandleCreated, SetStatus, Status, Pending
    <2>2. CASE UNCHANGED status
        <3>1. status[i] \in Status BY <1>1, <1>2 DEF TypeOK
        <3>2. Rules(status[i]) BY <1>3, <2>2
        <3> QED BY <3>1, <3>2
    <2>3. CASE Download(i)
        <3>1. status[i] \in Pending
            BY <1>1, <2>3, StatusTable DEF Download, Status, Pending
        <3> QED BY <2>3, <3>1 DEF Download, SetStatus, Status
    <2>4. CASE HandleWaiting(i)
        <3>1. status[i] \in Pending
            BY <1>1, <2>4, StatusTable DEF HandleWaiting, Status, Pending
        <3> QED BY <2>4, <3>1 DEF HandleWaiting, SetStatus, Status, Pending
    <2>5. CASE HandleFinished(i)
        BY <2>5 DEF HandleFinished, SetStatus, Status, Pending
    <2>6. CASE UploadGivesUp(i) \/ ReportAndErase(i) \/ ReportFails(i) \/ EraseFails(i)
        BY <2>6 DEF UploadGivesUp, ReportAndErase, ReportFails, EraseFails, SetStatus,
                    Status, Pending
    <2> QED BY <2>1, <2>2, <2>3, <2>4, <2>5, <2>6
        DEF HandleWorkUnit, RequestWork, RequestWorkFails, Compute, Upload, UploadFails
<1>5. AtMostOneComputing' /\ AtMostOnePending' /\ AtMostOneUploading'
    <2>1. OneOf({"Computing"}) /\ OneOf(Pending) /\ OneOf({"Uploading"})
        BY RulesAreOneOf DEF OneLifeInv
    <2>2. OneOf({"Computing"})' BY <1>4, <2>1, ScanKeepsOne
    <2>3. OneOf({"Uploading"})' BY <1>4, <2>1, ScanKeepsOne
    <2>4. OneOf(Pending)' BY <1>4, <2>1, ScanKeepsOne
    <2> QED BY <2>2, <2>3, <2>4
        DEF AtMostOneComputing, AtMostOnePending, AtMostOneUploading, OneOf, Pending
<1>6. \A j \in WorkUnits : status'[j] # Null
    BY <1>1, <1>2, <1>4 DEF TypeOK, Status, Null
<1>7. process' = "running"
    BY DEF OneLifeInv, HandleWorkUnit, HandleCreated, RequestWork, RequestWorkFails,
           Download, HandleWaiting, Compute, HandleFinished, Upload, UploadFails,
           UploadGivesUp, ReportAndErase, ReportFails, EraseFails
<1> QED BY <1>5, <1>6, <1>7 DEF OneLifeInv, AllAreLoaded

LEMMA StepKeepsOneLife ==
    ASSUME InOneLife, TypeOK, Tokens, OneLifeInv, [Next]_vars
    PROVE  OneLifeInv'
<1>1. UNCHANGED <<process, status, disk>> => OneLifeInv'
    BY DEF OneLifeInv, AllAreLoaded, AtMostOneComputing, AtMostOnePending, AtMostOneUploading
<1>2. CASE LoadFails \/ Tick \/ UNCHANGED vars
    BY <1>1, <1>2 DEF LoadFails, Tick, vars
<1>3. CASE LoadSucceeds \/ LoadStops
    <2>1. Handles("Load", 0) BY <1>3 DEF LoadSucceeds, LoadStops, LoadSlots
    <2>2. \A i \in WorkUnits : disk[i] = NoFile
        BY <2>1, HandledLoad, SlotsAreNumbered DEF OneLifeInv
    <2>3. Stored = {} BY <2>2 DEF Stored
    <2>4. LoadSlots(NbWorkUnits, {}, Null)
        BY <1>3, <2>3 DEF LoadSucceeds, LoadStops
    <2>5. HasLoaded(NbWorkUnits, {}, Null)
        BY <2>4, SlotsAssumption, LoadedState
    <2>6. \A i \in WorkUnits : status'[i] = "Created"
        BY <2>2, <2>5, SlotsAssumption DEF HasLoaded, WorkUnits
    <2>7. process' = "running" BY <2>4 DEF LoadSlots, OneLifeInv
    <2> QED BY <2>6, <2>7
        DEF OneLifeInv, AllAreLoaded, AtMostOneComputing, AtMostOnePending,
            AtMostOneUploading, Pending, Null
<1>4. ASSUME NEW i \in WorkUnits, HandleWorkUnit(i) PROVE OneLifeInv'
    BY <1>4, HandlersKeepOneLife
<1>5. ASSUME NEW i \in WorkUnits, ComputationEnds(i) PROVE OneLifeInv'
    BY <1>1, <1>5 DEF ComputationEnds
<1>6. ASSUME NEW i \in WorkUnits PROVE ~(Killed \/ HandleNoEvent \/ KilledInside(i) \/ BadLabel(i))
    BY DEF InOneLife, Killed, HandleNoEvent, KilledInside, BadLabel
<1>7. ~Start BY DEF OneLifeInv, Start
<1> QED BY <1>2, <1>3, <1>4, <1>5, <1>6, <1>7, SlotsAreNumbered DEF Next, HandleLoad

\* Uploads go one after the other, whatever happens to files and computations, until
\* the process is stopped: two files may say Uploading (boincSchedulerCompleted leaves
\* the file as it is), and the next process would load both.
THEOREM OneUploading ==
    ASSUME InOneLife PROVE Spec => []AtMostOneUploading
<1> DEFINE Inv == TypedTokens /\ OneLifeInv
<1>1. Init => Inv
    BY InitIsExclusive
    DEF Init, TypedExclusive, Exclusive, OneLifeInv, AtMostOneComputing, AtMostOnePending,
        AtMostOneUploading, Pending, Null
<1>2. Inv /\ [Next]_vars => Inv'
    BY StepKeepsTokens, StepKeepsOneLife DEF TypedTokens
<1>3. Inv => AtMostOneUploading BY DEF OneLifeInv
<1> QED BY <1>1, <1>2, <1>3, PTL DEF Spec
=============================================================================
