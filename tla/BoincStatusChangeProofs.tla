----------------------- MODULE BoincStatusChangeProofs -----------------------
(***************************************************************************)
(* Proofs about BoincStatusChange, for any set of faults: what a thread    *)
(* may meet, and a kill find, between any two steps of a status change.    *)
(*                                                                         *)
(* Locking says who has the mutex: the main thread in its locked sections, *)
(* or one thread that asks for the status.  Allocation says which objects  *)
(* there are: the one in the slot, and a second one only while a slot is   *)
(* erased.  Reading says that an object is at work if it shows progress,   *)
(* and that a reader's view is not overtaken.  Stored says, for each       *)
(* place of the main thread, under which name the last status is.          *)
(***************************************************************************)
EXTENDS BoincStatusChange, TLAPS

Locked == {"memory", "open", "close", "unlink", "rename", "unlock", "read"}
MainSteps ==
    Locked \cup {"load", "loaded", "start", "callback", "work", "wait", "swap", "destroy"}
ComputeSteps == {"none", "compute", "callback"}
Holding == {"status", "progress", "unlock"}

\* The steps of the threads.
Places ==
    /\ pc \in [{"main", "compute"} -> MainSteps \cup ComputeSteps]
    /\ pc["main"] \in MainSteps /\ pc["compute"] \in ComputeSteps
    /\ ask \in [Threads -> {"no", "lock"} \cup Holding]
    /\ view \in [Threads -> Status \cup {Missing}] /\ seen \in [Threads -> BOOLEAN]

\* A thread in a locked section has the mutex; it asks only from outside of it.
Locking ==
    /\ pc["main"] \in Locked => mutex = "main"
    /\ \A t \in Threads : ask[t] \in Holding => mutex = t
    /\ mutex = "main" => pc["main"] \in Locked \/ ask["main"] \in Holding
    /\ \A t \in {"compute", "ui"} : mutex = t => ask[t] \in Holding
    /\ ask["main"] # "no" => pc["main"] \in {"callback", "loaded"}
    /\ ask["compute"] # "no" => pc["compute"] = "callback"

\* One object, two while a slot is erased, none before the load.
Allocation ==
    IF slot = NULL THEN alive = {} /\ pc["main"] \in {"load", "read"}
    ELSE /\ pc["main"] \notin {"load", "read"}
         /\ slot \in alive
         /\ pc["main"] \notin {"swap", "destroy"} => alive = {slot}

\* The status that a handler set is there while it works; so is Computing while the
\* application computes.
Working ==
    /\ pc["main"] \in {"unlock", "callback", "work", "loaded", "wait", "open", "close",
                      "unlink", "rename"}
          => status[slot] = goal
    /\ pc["main"] = "wait" => goal = "Computing"
    /\ pc["compute"] # "none" => pc["main"] = "wait"
    /\ pc["main"] \in {"swap", "destroy"} => goal = "Completed"

\* Progress is shown only of an object at work, and nothing changes under a reader.
Reading ==
    /\ \A o \in alive : progress[o] => status[o] \in AtWork
    /\ \A t \in Threads : ask[t] = "progress" => slot # NULL /\ view[t] = status[slot]
    /\ ViewIsConsistent

\* Where the last storable status is.
Stored ==
    pc["main"] \notin {"load", "read"} /\ ~failed =>
        CASE pc["main"] \in {"open", "close"} -> file = previous
          [] pc["main"] = "unlink" -> file = previous /\ tmp = current
          [] pc["main"] = "rename" -> file = Missing /\ tmp = current
          [] OTHER -> file = current

\* The inductive invariant.
IInv == TypeOK /\ Places /\ Locking /\ Allocation /\ Working /\ Reading /\ Stored
-----------------------------------------------------------------------------
\* The program starts without objects and files.
LEMMA InvariantInit == Init => IInv
<1> SUFFICES ASSUME Init PROVE IInv
    OBVIOUS
<1> USE DEF Init, Threads, NULL, Free, Missing
<1>1. TypeOK
    BY DEF TypeOK, Objects, FileContents, Labels, Status, Storable
<1>2. Places
    BY DEF Places, MainSteps, ComputeSteps, Locked, Holding
<1>3. Locking /\ Allocation
    BY DEF Locking, Allocation, Locked, Holding
<1>4. Working /\ Reading /\ Stored
    BY DEF Working, Reading, ViewIsConsistent, Stored
<1> QED
    BY <1>1, <1>2, <1>3, <1>4 DEF IInv

\* Every step keeps the types.  A reader copies the progress of an object that is
\* there: Reading says that the slot is not NULL.
LEMMA TypesNext ==
    ASSUME TypeOK, Places, Allocation, Reading, [Next]_vars
    PROVE  TypeOK' /\ Places'
<1> USE DEF TypeOK, Places, Runs, Goto, objects, asking, files, history, Acquire,
            Release, Threads, Free, Objects, NULL, MainSteps, ComputeSteps, Locked,
            Holding, FileContents, Missing, Empty, Storable, Status, Labels, LoadAs,
            Allocation
<1>1. CASE ChangeStatus
    <2>1. PICK storable \in RowIsStorable(goal) :
             LET stores == status[slot] # goal /\ storable
             IN  /\ Goto("main", IF stores THEN "open" ELSE "unlock")
                 /\ previous' = IF stores THEN current ELSE previous
                 /\ current' = IF stores THEN goal ELSE current
        BY <1>1 DEF ChangeStatus
    <2>2. current' \in FileContents
        BY <2>1 DEF RowIsStorable
    <2>3. /\ pc' \in [{"main", "compute"} -> MainSteps \cup ComputeSteps]
          /\ pc'["main"] \in MainSteps /\ pc'["compute"] \in ComputeSteps
        BY <2>1
    <2>4. /\ status' = [status EXCEPT ![slot] = goal]
          /\ progress' = [progress EXCEPT ![slot] = IF status[slot] # goal THEN FALSE ELSE @]
          /\ UNCHANGED <<slot, alive, mutex, goal, asking, files, failed>>
        BY <1>1 DEF ChangeStatus
    <2>5. status' \in [Objects -> Status] /\ progress' \in [Objects -> BOOLEAN]
        BY <2>4
    <2>6. previous' \in FileContents
        BY <2>1
    <2>7. TypeOK'
        <3>1. slot' = slot /\ alive' = alive /\ mutex' = mutex /\ goal' = goal
            BY <2>4
        <3>2. tmp' = tmp /\ file' = file
            BY <2>4
        <3>3. {tmp', file', previous', current'} \subseteq FileContents
            BY <2>2, <2>6, <3>2
        <3> HIDE DEF Status, Objects, FileContents
        <3> QED
            BY <2>5, <3>1, <3>3
    <2>8. Places'
        BY <2>3, <2>4
    <2> QED
        BY <2>7, <2>8
<1>2. CASE OpenStatusFile
    BY <1>2 DEF OpenStatusFile
<1>3. CASE CloseStatusFile
    BY <1>3 DEF CloseStatusFile
<1>4. CASE UnlinkStatusFile
    BY <1>4 DEF UnlinkStatusFile
<1>5. CASE RenameStatusFile
    BY <1>5 DEF RenameStatusFile
<1>6. CASE LockForStatus \/ UnlockStatus
    BY <1>6 DEF LockForStatus, UnlockStatus
<1>7. CASE Succeed \/ GiveUp
    BY <1>7 DEF Succeed, GiveUp, NextStatus
<1>8. CASE Repeat
    BY <1>8 DEF Repeat
<1>9. CASE Fail
    BY <1>9 DEF Fail
<1>10. CASE StartComputation
    BY <1>10 DEF StartComputation
<1>11. CASE EndComputation
    BY <1>11 DEF EndComputation
<1>12. CASE RemoveDirectory
    BY <1>12 DEF RemoveDirectory, New
<1>13. CASE SwapObject
    BY <1>13 DEF SwapObject
<1>14. CASE DestroyObject
    BY <1>14 DEF DestroyObject
<1>15. CASE LockForLoad
    BY <1>15 DEF LockForLoad
<1>16. CASE LoadFails
    BY <1>16 DEF LoadFails
<1>17. CASE Load
    BY <1>17 DEF Load, StatusIn, New
<1>18. CASE LoadErases
    BY <1>18 DEF LoadErases, New
<1>19. CASE Resume
    BY <1>19 DEF Resume
<1>20. ASSUME NEW t \in {"main", "compute"}, ReturnFromCallback(t)
       PROVE  TypeOK' /\ Places'
    BY <1>20 DEF ReturnFromCallback
<1>21. ASSUME NEW t \in {"main", "compute"}, SetProgress(t) PROVE TypeOK' /\ Places'
    BY <1>21 DEF SetProgress
<1>22. ASSUME NEW t \in Threads, Ask(t) PROVE TypeOK' /\ Places'
    BY <1>22 DEF Ask
<1>23. ASSUME NEW t \in Threads, LockToRead(t) PROVE TypeOK' /\ Places'
    BY <1>23 DEF LockToRead
<1>24. ASSUME NEW t \in Threads, ReadStatus(t) PROVE TypeOK' /\ Places'
    BY <1>24 DEF ReadStatus
<1>25. ASSUME NEW t \in Threads, ReadProgress(t) PROVE TypeOK' /\ Places'
    BY <1>25 DEF ReadProgress, Reading
<1>26. ASSUME NEW t \in Threads, UnlockRead(t) PROVE TypeOK' /\ Places'
    BY <1>26 DEF UnlockRead
<1>27. CASE Dies
    BY <1>27 DEF Dies
<1>28. CASE UNCHANGED vars
    BY <1>28 DEF vars
<1> QED
    BY <1>1, <1>2, <1>3, <1>4, <1>5, <1>6, <1>7, <1>8, <1>9, <1>10, <1>11, <1>12, <1>13,
       <1>14, <1>15, <1>16, <1>17, <1>18, <1>19, <1>20, <1>21, <1>22, <1>23, <1>24,
       <1>25, <1>26, <1>27, <1>28
    DEF Next, SetWorkUnitStatus, GetWorkUnitStatus, ReadsNull, Kill, LabelIsNoString,
        LoadCrashes

\* The mutex is passed on correctly.  That no thread computes when a computation
\* starts (Working) excludes one that asks from outside its callback.
LEMMA LockingNext ==
    ASSUME Places, Locking, Working, [Next]_vars
    PROVE  Locking'
<1> USE DEF Places, Locking, Runs, Goto, objects, asking, files, history, Acquire,
            Release, Threads, Free, Locked, Holding, LoadAs
<1>1. CASE LockForStatus
    BY <1>1 DEF LockForStatus
<1>2. CASE UnlockStatus
    BY <1>2 DEF UnlockStatus
<1>3. CASE ChangeStatus \/ OpenStatusFile \/ CloseStatusFile \/ UnlinkStatusFile \/
           RenameStatusFile
    BY <1>3 DEF ChangeStatus, OpenStatusFile, CloseStatusFile, UnlinkStatusFile,
                RenameStatusFile
<1>4. CASE StartComputation
    BY <1>4 DEF StartComputation, Working
<1>5. CASE Succeed \/ GiveUp \/ Repeat \/ Fail \/ EndComputation
    BY <1>5 DEF Succeed, GiveUp, Repeat, Fail, EndComputation
<1>6. CASE SwapObject
    BY <1>6 DEF SwapObject
<1>7. CASE RemoveDirectory \/ DestroyObject
    BY <1>7 DEF RemoveDirectory, DestroyObject
<1>8. CASE LockForLoad
    BY <1>8 DEF LockForLoad
<1>9. CASE LoadFails
    BY <1>9 DEF LoadFails
<1>10. CASE Load
    BY <1>10 DEF Load
<1>11. CASE LoadErases
    BY <1>11 DEF LoadErases
<1>12. CASE Resume
    BY <1>12 DEF Resume
<1>13. ASSUME NEW t \in {"main", "compute"}, ReturnFromCallback(t) PROVE Locking'
    BY <1>13 DEF ReturnFromCallback
<1>14. ASSUME NEW t \in {"main", "compute"}, SetProgress(t) PROVE Locking'
    BY <1>14 DEF SetProgress
<1>15. ASSUME NEW t \in Threads, Ask(t) PROVE Locking'
    BY <1>15 DEF Ask, MayAsk, ComputeSteps
<1>16. ASSUME NEW t \in Threads, LockToRead(t) PROVE Locking'
    BY <1>16 DEF LockToRead
<1>17. ASSUME NEW t \in Threads, ReadStatus(t) PROVE Locking'
    BY <1>17 DEF ReadStatus
<1>18. ASSUME NEW t \in Threads, ReadProgress(t) PROVE Locking'
    BY <1>18 DEF ReadProgress
<1>19. ASSUME NEW t \in Threads, UnlockRead(t) PROVE Locking'
    BY <1>19 DEF UnlockRead
<1>20. CASE Dies
    BY <1>20 DEF Dies
<1>21. CASE UNCHANGED vars
    BY <1>21 DEF vars
<1> QED
    BY <1>1, <1>2, <1>3, <1>4, <1>5, <1>6, <1>7, <1>8, <1>9, <1>10, <1>11, <1>12, <1>13,
       <1>14, <1>15, <1>16, <1>17, <1>18, <1>19, <1>20, <1>21
    DEF Next, SetWorkUnitStatus, GetWorkUnitStatus, ReadsNull, Kill, LabelIsNoString,
        LoadCrashes

\* Objects come and go one at a time, and the slot never has one that is gone.
LEMMA AllocationNext ==
    ASSUME TypeOK, Places, Allocation, [Next]_vars
    PROVE  Allocation'
<1> USE DEF TypeOK, Places, Allocation, Locked, Runs, Goto, objects, asking, files,
            history, Objects, NULL, LoadAs, New
<1>1. CASE LockForStatus \/ ChangeStatus \/ OpenStatusFile \/ CloseStatusFile \/
           UnlinkStatusFile \/ RenameStatusFile \/ UnlockStatus
    BY <1>1 DEF LockForStatus, ChangeStatus, OpenStatusFile, CloseStatusFile,
                UnlinkStatusFile, RenameStatusFile, UnlockStatus
<1>2. CASE Succeed \/ GiveUp \/ Repeat \/ Fail \/ StartComputation \/ EndComputation
    BY <1>2 DEF Succeed, GiveUp, Repeat, Fail, StartComputation, EndComputation
<1>3. CASE RemoveDirectory
    BY <1>3 DEF RemoveDirectory
<1>4. CASE SwapObject
    BY <1>4 DEF SwapObject
<1>5. CASE DestroyObject
    BY <1>5 DEF DestroyObject
<1>6. CASE Load
    BY <1>6 DEF Load
<1>7. CASE LoadErases
    BY <1>7 DEF LoadErases
<1>8. CASE LockForLoad \/ LoadFails \/ Resume
    BY <1>8 DEF LockForLoad, LoadFails, Resume
<1>9. ASSUME NEW t \in {"main", "compute"}, ReturnFromCallback(t) \/ SetProgress(t)
      PROVE  Allocation'
    BY <1>9 DEF ReturnFromCallback, SetProgress
<1>10. ASSUME NEW t \in Threads, Ask(t) \/ LockToRead(t) \/ ReadStatus(t) \/
              ReadProgress(t) \/ UnlockRead(t)
      PROVE  Allocation'
    BY <1>10 DEF Ask, LockToRead, ReadStatus, ReadProgress, UnlockRead
<1>11. CASE Dies
    BY <1>11 DEF Dies
<1>12. CASE UNCHANGED vars
    BY <1>12 DEF vars
<1> QED
    BY <1>1, <1>2, <1>3, <1>4, <1>5, <1>6, <1>7, <1>8, <1>9, <1>10, <1>11, <1>12
    DEF Next, SetWorkUnitStatus, GetWorkUnitStatus, ReadsNull, Kill, LabelIsNoString,
        LoadCrashes

\* Between the change of the status and the next handler nobody changes it.
LEMMA WorkingNext ==
    ASSUME TypeOK, Places, Allocation, Working, [Next]_vars
    PROVE  Working'
<1> USE DEF TypeOK, Places, Allocation, Working, Locked, Runs, Goto, objects, asking,
            files, history, Objects, NULL, LoadAs, New
<1>1. CASE ChangeStatus
    BY <1>1 DEF ChangeStatus
<1>2. CASE LockForStatus \/ OpenStatusFile \/ CloseStatusFile \/ UnlinkStatusFile \/
           RenameStatusFile \/ UnlockStatus
    BY <1>2 DEF LockForStatus, OpenStatusFile, CloseStatusFile, UnlinkStatusFile,
                RenameStatusFile, UnlockStatus
<1>3. CASE StartComputation
    BY <1>3 DEF StartComputation
<1>4. CASE EndComputation
    BY <1>4 DEF EndComputation
<1>5. CASE Succeed \/ GiveUp \/ Repeat \/ Fail
    BY <1>5 DEF Succeed, GiveUp, Repeat, Fail
<1>6. CASE RemoveDirectory
    BY <1>6 DEF RemoveDirectory
<1>7. CASE SwapObject
    BY <1>7 DEF SwapObject
<1>8. CASE DestroyObject
    BY <1>8 DEF DestroyObject
<1>9. CASE Load
    BY <1>9 DEF Load
<1>10. CASE LoadErases
    BY <1>10 DEF LoadErases
<1>11. CASE LockForLoad \/ LoadFails \/ Resume
    BY <1>11 DEF LockForLoad, LoadFails, Resume
<1>12. ASSUME NEW t \in {"main", "compute"}, ReturnFromCallback(t) \/ SetProgress(t)
      PROVE  Working'
    BY <1>12 DEF ReturnFromCallback, SetProgress
<1>13. ASSUME NEW t \in Threads, Ask(t) \/ LockToRead(t) \/ ReadStatus(t) \/
              ReadProgress(t) \/ UnlockRead(t)
      PROVE  Working'
    BY <1>13 DEF Ask, LockToRead, ReadStatus, ReadProgress, UnlockRead
<1>14. CASE Dies
    BY <1>14 DEF Dies
<1>15. CASE UNCHANGED vars
    BY <1>15 DEF vars
<1> QED
    BY <1>1, <1>2, <1>3, <1>4, <1>5, <1>6, <1>7, <1>8, <1>9, <1>10, <1>11, <1>12, <1>13,
       <1>14, <1>15
    DEF Next, SetWorkUnitStatus, GetWorkUnitStatus, ReadsNull, Kill, LabelIsNoString,
        LoadCrashes

\* A view is taken under the mutex; progress, which is written without it, is only
\* shown of an object whose status stays.
LEMMA ReadingNext ==
    ASSUME TypeOK, Places, Locking, Allocation, Working, Reading, [Next]_vars
    PROVE  Reading'
<1> USE DEF TypeOK, Places, Locking, Allocation, Working, Reading, ViewIsConsistent,
            Locked, Holding, Threads, Runs, Goto, objects, asking, files, history,
            Objects, NULL, Free, Acquire, LoadAs, New, AtWork, Missing
<1>1. CASE ChangeStatus
    BY <1>1 DEF ChangeStatus
<1>2. CASE LockForStatus \/ OpenStatusFile \/ CloseStatusFile \/ UnlinkStatusFile \/
           RenameStatusFile \/ UnlockStatus
    BY <1>2 DEF LockForStatus, OpenStatusFile, CloseStatusFile, UnlinkStatusFile,
                RenameStatusFile, UnlockStatus
<1>3. CASE Succeed \/ GiveUp \/ Repeat \/ Fail \/ StartComputation \/ EndComputation
    BY <1>3 DEF Succeed, GiveUp, Repeat, Fail, StartComputation, EndComputation
<1>4. CASE RemoveDirectory
    BY <1>4 DEF RemoveDirectory
<1>5. CASE SwapObject
    BY <1>5 DEF SwapObject
<1>6. CASE DestroyObject
    BY <1>6 DEF DestroyObject
<1>7. CASE Load
    BY <1>7 DEF Load
<1>8. CASE LoadErases
    BY <1>8 DEF LoadErases
<1>9. CASE LockForLoad \/ LoadFails \/ Resume
    BY <1>9 DEF LockForLoad, LoadFails, Resume
<1>10. ASSUME NEW t \in {"main", "compute"}, SetProgress(t) PROVE Reading'
    BY <1>10 DEF SetProgress
<1>11. ASSUME NEW t \in {"main", "compute"}, ReturnFromCallback(t)
      PROVE  Reading'
    BY <1>11 DEF ReturnFromCallback
<1>12. ASSUME NEW t \in Threads, Ask(t) PROVE Reading'
    BY <1>12 DEF Ask
<1>13. ASSUME NEW t \in Threads, LockToRead(t) PROVE Reading'
    BY <1>13 DEF LockToRead
<1>14. ASSUME NEW t \in Threads, ReadStatus(t) PROVE Reading'
    BY <1>14 DEF ReadStatus
<1>15. ASSUME NEW t \in Threads, ReadProgress(t) PROVE Reading'
    BY <1>15 DEF ReadProgress
<1>16. ASSUME NEW t \in Threads, UnlockRead(t) PROVE Reading'
    BY <1>16 DEF UnlockRead
<1>17. CASE Dies
    BY <1>17 DEF Dies
<1>18. CASE UNCHANGED vars
    BY <1>18 DEF vars
<1> QED
    BY <1>1, <1>2, <1>3, <1>4, <1>5, <1>6, <1>7, <1>8, <1>9, <1>10, <1>11, <1>12, <1>13,
       <1>14, <1>15, <1>16, <1>17, <1>18
    DEF Next, SetWorkUnitStatus, GetWorkUnitStatus, ReadsNull, Kill, LabelIsNoString,
        LoadCrashes

\* Each file operation moves the last status to its next place.
LEMMA StoredNext ==
    ASSUME Places, Stored, [Next]_vars
    PROVE  Stored'
<1> USE DEF Places, Stored, Locked, Runs, Goto, objects, asking, files, history, LoadAs
<1>1. CASE ChangeStatus
    BY <1>1 DEF ChangeStatus
<1>2. CASE OpenStatusFile
    BY <1>2 DEF OpenStatusFile
<1>3. CASE CloseStatusFile
    BY <1>3 DEF CloseStatusFile
<1>4. CASE UnlinkStatusFile
    BY <1>4 DEF UnlinkStatusFile
<1>5. CASE RenameStatusFile
    BY <1>5 DEF RenameStatusFile
<1>6. CASE LockForStatus \/ UnlockStatus
    BY <1>6 DEF LockForStatus, UnlockStatus
<1>7. CASE Succeed \/ GiveUp \/ Repeat \/ Fail \/ StartComputation \/ EndComputation
    BY <1>7 DEF Succeed, GiveUp, Repeat, Fail, StartComputation, EndComputation
<1>8. CASE RemoveDirectory
    BY <1>8 DEF RemoveDirectory
<1>9. CASE SwapObject \/ DestroyObject
    BY <1>9 DEF SwapObject, DestroyObject
<1>10. CASE Load
    BY <1>10 DEF Load
<1>11. CASE LoadErases
    BY <1>11 DEF LoadErases
<1>12. CASE LockForLoad \/ LoadFails \/ Resume
    BY <1>12 DEF LockForLoad, LoadFails, Resume
<1>13. ASSUME NEW t \in {"main", "compute"}, ReturnFromCallback(t) \/ SetProgress(t)
      PROVE  Stored'
    BY <1>13 DEF ReturnFromCallback, SetProgress
<1>14. ASSUME NEW t \in Threads, Ask(t) \/ LockToRead(t) \/ ReadStatus(t) \/
              ReadProgress(t) \/ UnlockRead(t)
      PROVE  Stored'
    BY <1>14 DEF Ask, LockToRead, ReadStatus, ReadProgress, UnlockRead
<1>15. CASE Dies
    BY <1>15 DEF Dies
<1>16. CASE UNCHANGED vars
    BY <1>16 DEF vars
<1> QED
    BY <1>1, <1>2, <1>3, <1>4, <1>5, <1>6, <1>7, <1>8, <1>9, <1>10, <1>11, <1>12, <1>13,
       <1>14, <1>15, <1>16
    DEF Next, SetWorkUnitStatus, GetWorkUnitStatus, ReadsNull, Kill, LabelIsNoString,
        LoadCrashes

\* The parts together are inductive.
LEMMA InvariantNext == IInv /\ [Next]_vars => IInv'
BY TypesNext, LockingNext, AllocationNext, WorkingNext, ReadingNext, StoredNext DEF IInv

LEMMA Invariant == Spec => []IInv
BY InvariantInit, InvariantNext, PTL DEF Spec
-----------------------------------------------------------------------------
(* Theorems *)

\* Slot, objects and files keep their types (struct _BoincWorkUnit).
THEOREM StatusChangeIsTyped == Spec => []TypeOK
<1>1. IInv => TypeOK
    BY DEF IInv
<1> QED
    BY <1>1, Invariant, PTL

\* No reader of the status meets an object that boincSchedulerErase has freed.
THEOREM ReadersMeetLiveObjects == Spec => []ReadsLiveObject
<1>1. IInv => ReadsLiveObject
    BY DEF IInv, Allocation, ReadsLiveObject, NULL
<1> QED
    BY <1>1, Invariant, PTL

\* A reader that sees progress sees the status it belongs to, although
\* boincProxyChangeWorkUnitProgress takes no lock.
THEOREM ViewsAreConsistent == Spec => []ViewIsConsistent
<1>1. IInv => ViewIsConsistent
    BY DEF IInv, Reading
<1> QED
    BY <1>1, Invariant, PTL

\* No thread asks for the status while it has the mutex itself, from inside a
\* callback or otherwise.
THEOREM NoThreadBlocksItself == Spec => []NoSelfDeadlock
<1>1. IInv => NoSelfDeadlock
    BY DEF IInv, Places, Locking, NoSelfDeadlock, Locked, Holding, Threads
<1> QED
    BY <1>1, Invariant, PTL

\* After a kill between any two steps the last storable status, or the one before
\* it, is on disk, unless a file operation failed.
THEOREM FileIsNeverFarBehind == Spec => []FileFollowsStatus
<1>1. IInv => FileFollowsStatus
    BY DEF IInv, Stored, FileFollowsStatus, Storing
<1> QED
    BY <1>1, Invariant, PTL
=============================================================================
