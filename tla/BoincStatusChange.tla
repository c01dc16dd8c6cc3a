-------------------------- MODULE BoincStatusChange --------------------------
(***************************************************************************)
(* One slot of the scheduler, lock by lock and file operation by file      *)
(* operation: the main thread changes its status, in memory and on disk,   *)
(* replaces its object when the work unit is reported, and loads it after  *)
(* a kill; the compute thread reports its progress; the user interface     *)
(* asks for status and progress at any time, and each thread may ask from  *)
(* inside the status callback.  BoincScheduler has each handler as one     *)
(* step; this module is about what others see, and a kill finds, in the    *)
(* middle of it.                                                           *)
(*                                                                         *)
(* When a handler starts next (delays, the other slot) is left open.       *)
(***************************************************************************)
EXTENDS Naturals, FiniteSets

CONSTANTS Faults

FaultKinds == {
    "early", \* the user interface asks before the slots are loaded
    "kill",  \* the process is killed
    "files", \* uploads fail with the error of a file until the work unit is given up
    "write", \* the temporary status file cannot be opened, or not renamed
    "full"}  \* the disk is full when it is closed

ASSUME FaultsAssumption == Faults \subseteq FaultKinds

VARIABLES
    slot,     \* scheduler->workunits[i]: an object, or NULL
    alive,    \* the objects that are allocated
    status, progress, \* fields of each object; progress: some, or none
    mutex,    \* scheduler->mutex: the thread that has it, or Free
    pc,       \* what main and compute do next
    goal,     \* the status that the next handler of main sets
    ask,      \* each thread in boincSchedulerGetWorkUnitStatus
    view,     \* the status that it has read there
    seen,     \* ... and the progress
    tmp, file, \* the temporary and the status file
    previous, current, \* history: the last storable statuses since the load
    failed    \* history: a file operation failed since the directory was made

objects == <<slot, alive, status, progress>>
asking == <<ask, view, seen>>
files == <<tmp, file>>
history == <<previous, current, failed>>
vars == <<objects, mutex, pc, goal, asking, files, history>>

Threads == {"main", "compute", "ui"}
Objects == {1, 2}
NULL == 0
Free == "free"
Missing == "Missing"
Empty == "Empty"

Storable == {"Downloading", "Waiting", "Computing", "Finished", "Uploading"}
Status == Storable \cup {"Created", "Initializing", "Completed", "Failed"}

\* What the field storable says that boincSchedulerSetWorkUnitStatus reads.  The row
\* of a status is that of the label before it, when reading and when writing, so that
\* a label stands for the status that wrote it.  The row of Failed is past the end
\* of the table: it says anything.
RowIsStorable(s) ==
    IF s = "Failed" THEN BOOLEAN ELSE {s \in Storable}

\* The statuses in which files are moved, or a work unit computed.
AtWork == {"Downloading", "Computing", "Uploading"}

Goto(t, step) == pc' = [pc EXCEPT ![t] = step]
Acquire(t) == mutex = Free /\ mutex' = t
Release == mutex' = Free

\* A thread that is asking from inside a callback does nothing else.
Runs(t, step) == pc[t] = step /\ ask[t] = "no"

\* The process ends; what is on disk stays.
Dies ==
    /\ slot' = NULL /\ alive' = {}
    /\ mutex' = Free
    /\ pc' = [main |-> "load", compute |-> "none"]
    /\ ask' = [t \in Threads |-> "no"]
    /\ view' = [t \in Threads |-> Missing] /\ seen' = [t \in Threads |-> FALSE]
    /\ UNCHANGED <<status, progress, goal, files, history>>
-----------------------------------------------------------------------------
(* boincSchedulerSetWorkUnitStatus *)

\* A slip: the mutex is not taken.
DoNotLock ==
    /\ Runs("main", "start")
    /\ Goto("main", "memory")
    /\ UNCHANGED <<objects, mutex, goal, asking, files, history>>

LockForStatus ==
    /\ Runs("main", "start")
    /\ Acquire("main") /\ Goto("main", "memory")
    /\ UNCHANGED <<objects, goal, asking, files, history>>

\* boincWorkUnitSetStatus.
ChangeStatus ==
    /\ Runs("main", "memory")
    /\ \E storable \in RowIsStorable(goal) :
       LET stores == status[slot] # goal /\ storable
       IN  /\ Goto("main", IF stores THEN "open" ELSE "unlock")
           /\ previous' = IF stores THEN current ELSE previous
           /\ current' = IF stores THEN goal ELSE current
    /\ status' = [status EXCEPT ![slot] = goal]
    /\ progress' = [progress EXCEPT ![slot] = IF status[slot] # goal THEN FALSE ELSE @]
    /\ UNCHANGED <<slot, alive, mutex, goal, asking, files, failed>>

OpenStatusFile ==
    /\ Runs("main", "open")
    /\ \/ tmp' = Empty /\ Goto("main", "close") /\ UNCHANGED failed
       \/ /\ "write" \in Faults
          /\ Goto("main", "unlock") /\ failed' = TRUE /\ UNCHANGED tmp
    /\ UNCHANGED <<objects, mutex, goal, asking, file, previous, current>>

\* A slip: the label is still in the buffer when the file is renamed.
LeaveInBuffer ==
    /\ Runs("main", "close")
    /\ Goto("main", "unlink")
    /\ UNCHANGED <<objects, mutex, goal, asking, files, history>>

\* fwrite puts the label into the buffer, fclose writes it; its result is not
\* looked at.
CloseStatusFile ==
    /\ Runs("main", "close")
    /\ \/ tmp' = current /\ UNCHANGED failed
       \/ "full" \in Faults /\ failed' = TRUE /\ UNCHANGED tmp
    /\ Goto("main", "unlink")
    /\ UNCHANGED <<objects, mutex, goal, asking, file, previous, current>>

\* What the row of Failed has as its label need not be a string.
LabelIsNoString ==
    /\ Runs("main", "close") /\ current = "Failed"
    /\ Dies

UnlinkStatusFile ==
    /\ Runs("main", "unlink")
    /\ file' = Missing
    /\ Goto("main", "rename")
    /\ UNCHANGED <<objects, mutex, goal, asking, tmp, history>>

RenameStatusFile ==
    /\ Runs("main", "rename")
    /\ \/ file' = tmp /\ tmp' = Missing /\ UNCHANGED failed
       \/ "write" \in Faults /\ failed' = TRUE /\ UNCHANGED files
    /\ Goto("main", "unlock")
    /\ UNCHANGED <<objects, mutex, goal, asking, previous, current>>

\* A slip: the callback is called under the lock.
CallUnderLock ==
    /\ Runs("main", "unlock")
    /\ Goto("main", "callback")
    /\ UNCHANGED <<objects, mutex, goal, asking, files, history>>

UnlockStatus ==
    /\ Runs("main", "unlock")
    /\ Release /\ Goto("main", "callback")
    /\ UNCHANGED <<objects, goal, asking, files, history>>

ReturnFromCallback(t) ==
    /\ Runs(t, "callback")
    /\ Goto(t, IF t = "main" THEN "work" ELSE "compute")
    /\ UNCHANGED <<objects, mutex, goal, asking, files, history>>
-----------------------------------------------------------------------------
(* What main does once the status is set *)

NextStatus == [Created |-> "Initializing", Initializing |-> "Downloading",
    Downloading |-> "Waiting", Waiting |-> "Computing", Finished |-> "Uploading",
    Uploading |-> "Completed", Failed |-> "Completed"]

Succeed ==
    /\ Runs("main", "work") /\ goal \in DOMAIN NextStatus
    /\ goal' = NextStatus[goal] /\ Goto("main", "start")
    /\ UNCHANGED <<objects, mutex, asking, files, history>>

\* After too many tries: the event Failed, of which boincSchedulerCompleted is the
\* handler.
GiveUp ==
    /\ "files" \in Faults
    /\ Runs("main", "work") /\ goal = "Uploading"
    /\ goal' = "Failed" /\ Goto("main", "start")
    /\ UNCHANGED <<objects, mutex, asking, files, history>>

\* The event is put back, and sets the same status again.
Repeat ==
    /\ Runs("main", "work")
    /\ goal \in {"Created", "Downloading", "Waiting", "Finished", "Completed"}
    /\ Goto("main", "start")
    /\ UNCHANGED <<objects, mutex, goal, asking, files, history>>

\* boincProxyChangeWorkUnitProgress takes no lock.  In a transfer it is called by
\* the main thread, in a computation by the thread of the application.
SetProgress(t) ==
    /\ IF t = "main" THEN Runs(t, "work") /\ status[slot] \in {"Downloading", "Uploading"}
       ELSE Runs(t, "compute")
    /\ progress' = [progress EXCEPT ![slot] = TRUE]
    /\ Goto(t, "callback")
    /\ UNCHANGED <<slot, alive, status, mutex, goal, asking, files, history>>

\* An exchange fails: boincSchedulerSetWorkUnitError, a locked section and a
\* callback.
Fail ==
    /\ Runs("main", "work")
    /\ goal \in {"Initializing", "Downloading", "Uploading", "Completed"}
    /\ mutex = Free
    /\ Goto("main", "callback")
    /\ UNCHANGED <<objects, mutex, goal, asking, files, history>>

StartComputation ==
    /\ Runs("main", "work") /\ goal = "Computing"
    /\ pc' = [main |-> "wait", compute |-> "compute"]
    /\ UNCHANGED <<objects, mutex, goal, asking, files, history>>

EndComputation ==
    /\ Runs("compute", "compute") /\ pc["main"] = "wait"
    /\ goal' \in {"Finished", "Completed"}
    /\ pc' = [main |-> "start", compute |-> "none"]
    /\ UNCHANGED <<objects, mutex, asking, files, history>>
-----------------------------------------------------------------------------
(* boincSchedulerErase, after the report *)

New == CHOOSE o \in Objects : o \notin alive

\* The directory goes, then there is a second object.
RemoveDirectory ==
    /\ Runs("main", "work") /\ goal = "Completed"
    /\ tmp' = Missing /\ file' = Missing
    /\ previous' = Missing /\ current' = Missing /\ failed' = FALSE
    /\ alive' = alive \cup {New}
    /\ status' = [status EXCEPT ![New] = "Created"]
    /\ progress' = [progress EXCEPT ![New] = FALSE]
    /\ Goto("main", "swap")
    /\ UNCHANGED <<slot, mutex, goal, asking>>

\* A slip: the old object is freed before the slot has the new one.
FreeOldFirst ==
    /\ Runs("main", "swap")
    /\ alive' = alive \ {slot}
    /\ Goto("main", "destroy")
    /\ UNCHANGED <<slot, status, progress, mutex, goal, asking, files, history>>

\* Lock, store the pointer, unlock.
SwapObject ==
    /\ Runs("main", "swap") /\ mutex = Free
    /\ slot' \in alive \ {slot}
    /\ Goto("main", "destroy")
    /\ UNCHANGED <<alive, status, progress, mutex, goal, asking, files, history>>

DestroyObject ==
    /\ Runs("main", "destroy")
    /\ alive' = {slot}
    /\ goal' = "Created" /\ Goto("main", "start")
    /\ UNCHANGED <<slot, status, progress, mutex, asking, files, history>>
-----------------------------------------------------------------------------
(* boincSchedulerLoad, under the mutex from beginning to end *)

LockForLoad ==
    /\ Runs("main", "load")
    /\ Acquire("main") /\ Goto("main", "read")
    /\ UNCHANGED <<objects, goal, asking, files, history>>

\* The project page cannot be had: no object.
LoadFails ==
    /\ Runs("main", "read")
    /\ Release /\ Goto("main", "load")
    /\ UNCHANGED <<objects, goal, asking, files, history>>

\* A slip: what the file says is the status.
AnyLabel(content) == {content}

\* boincSchedulerReadWorkUnitStatus.  From an empty file fscanf reads nothing, which
\* is not taken for an error: the buffer is not initialised, and may be as good as
\* no label, or still hold the one of the slot that was read before.  A label that the
\* row of Failed gave is found there again.
Labels == Storable \cup {"Failed"}
StatusIn(content) ==
    IF content \in Labels THEN {content}
    ELSE {"Created"} \cup (IF content = Empty THEN Labels ELSE {})

LoadAs(s) ==
    /\ Runs("main", "read")
    /\ Release /\ Goto("main", "loaded")
    /\ slot' = New /\ alive' = {New} /\ goal' = s
    /\ status' = [status EXCEPT ![New] = s]
    /\ progress' = [progress EXCEPT ![New] = FALSE]
    /\ UNCHANGED asking

Load ==
    /\ \E s \in StatusIn(file) : LoadAs(s)
    /\ previous' = file /\ current' = file
    /\ UNCHANGED <<files, failed>>

\* The search for a label ends at kBoincWorkUnitLastStatus, behind the last row: a
\* text that is none of the labels is compared with what is there, which need not be
\* a string.
LoadCrashes ==
    /\ Runs("main", "read") /\ file = Empty
    /\ Dies

\* The rest of the work unit cannot be loaded: its directory is removed.
LoadErases ==
    /\ file # Missing
    /\ LoadAs("Created")
    /\ tmp' = Missing /\ file' = Missing
    /\ previous' = Missing /\ current' = Missing /\ failed' = FALSE

\* After the callback for each slot, the event of the load; those of Computing,
\* Uploading and Failed set no status of that name.
Resume ==
    /\ Runs("main", "loaded")
    /\ Goto("main", IF goal \in {"Computing", "Uploading", "Failed"} THEN "work" ELSE "start")
    /\ UNCHANGED <<objects, mutex, goal, asking, files, history>>

Kill == "kill" \in Faults /\ Dies
-----------------------------------------------------------------------------
(* boincSchedulerGetWorkUnitStatus *)

\* The user interface asks when it likes; main and compute in the callback.
MayAsk(t) ==
    IF t = "ui" THEN slot # NULL \/ "early" \in Faults ELSE pc[t] \in {"callback", "loaded"}

Ask(t) ==
    /\ ask[t] = "no" /\ MayAsk(t)
    /\ ask' = [ask EXCEPT ![t] = "lock"]
    /\ UNCHANGED <<objects, mutex, pc, goal, view, seen, files, history>>

LockToRead(t) ==
    /\ ask[t] = "lock"
    /\ Acquire(t)
    /\ ask' = [ask EXCEPT ![t] = "status"]
    /\ UNCHANGED <<objects, pc, goal, view, seen, files, history>>

\* boincWorkUnitGetStatus.
ReadStatus(t) ==
    /\ ask[t] = "status" /\ slot # NULL
    /\ view' = [view EXCEPT ![t] = status[slot]]
    /\ ask' = [ask EXCEPT ![t] = "progress"]
    /\ UNCHANGED <<objects, mutex, pc, goal, seen, files, history>>

ReadsNull(t) == ask[t] = "status" /\ slot = NULL /\ Dies

ReadProgress(t) ==
    /\ ask[t] = "progress"
    /\ seen' = [seen EXCEPT ![t] = progress[slot]]
    /\ ask' = [ask EXCEPT ![t] = "unlock"]
    /\ UNCHANGED <<objects, mutex, pc, goal, view, files, history>>

UnlockRead(t) ==
    /\ ask[t] = "unlock"
    /\ Release
    /\ ask' = [ask EXCEPT ![t] = "no"]
    /\ view' = [view EXCEPT ![t] = Missing] /\ seen' = [seen EXCEPT ![t] = FALSE]
    /\ UNCHANGED <<objects, pc, goal, files, history>>
-----------------------------------------------------------------------------
Init ==
    /\ slot = NULL /\ alive = {}
    /\ status = [o \in Objects |-> "Created"] /\ progress = [o \in Objects |-> FALSE]
    /\ mutex = Free
    /\ pc = [main |-> "load", compute |-> "none"]
    /\ goal = "Created"
    /\ ask = [t \in Threads |-> "no"]
    /\ view = [t \in Threads |-> Missing] /\ seen = [t \in Threads |-> FALSE]
    /\ tmp = Missing /\ file = Missing
    /\ previous = Missing /\ current = Missing /\ failed = FALSE

SetWorkUnitStatus ==
    \/ LockForStatus \/ ChangeStatus \/ OpenStatusFile \/ CloseStatusFile
    \/ UnlinkStatusFile \/ RenameStatusFile \/ UnlockStatus \/ LabelIsNoString

GetWorkUnitStatus(t) ==
    Ask(t) \/ LockToRead(t) \/ ReadStatus(t) \/ ReadsNull(t) \/ ReadProgress(t) \/ UnlockRead(t)

Next ==
    \/ SetWorkUnitStatus
    \/ \E t \in {"main", "compute"} : ReturnFromCallback(t) \/ SetProgress(t)
    \/ Succeed \/ GiveUp \/ Repeat \/ Fail \/ StartComputation \/ EndComputation
    \/ RemoveDirectory \/ SwapObject \/ DestroyObject
    \/ LockForLoad \/ LoadFails \/ Load \/ LoadCrashes \/ LoadErases \/ Resume \/ Kill
    \/ \E t \in Threads : GetWorkUnitStatus(t)

Spec == Init /\ [][Next]_vars
-----------------------------------------------------------------------------
(* Safety *)

FileContents == Labels \cup {Missing, Empty}

\* Types of the slot, its object and its files.
TypeOK ==
    /\ slot \in Objects \cup {NULL} /\ alive \subseteq Objects
    /\ status \in [Objects -> Status] /\ progress \in [Objects -> BOOLEAN]
    /\ mutex \in Threads \cup {Free}
    /\ goal \in Status
    /\ {tmp, file, previous, current} \subseteq FileContents

\* Who asks for the status reads an object that is allocated, or NULL before the
\* load, never the one that boincSchedulerErase frees.
ReadsLiveObject ==
    \A t \in Threads : ask[t] \in {"status", "progress"} => slot \in alive \cup {NULL}

\* Status and progress that are read together belong together, although progress
\* is written without the lock.
ViewIsConsistent ==
    \A t \in Threads : ask[t] = "unlock" /\ seen[t] => view[t] \in AtWork

\* No thread waits for a mutex that it has itself ("This has to be done with the
\* mutex unlocked", BoincScheduler.c:505).
NoSelfDeadlock == \A t \in Threads : ask[t] = "lock" => mutex # t

Storing == pc["main"] \in {"open", "close", "unlink", "rename"}

\* What a kill finds on disk: the last stored status, or inside a change the one
\* before it, or no file but the new one under its temporary name.  Excepted is a work
\* unit of which a file operation has failed: its file may be older, or empty.
FileFollowsStatus ==
    pc["main"] \notin {"load", "read"} /\ ~failed =>
        \/ file = current
        \/ Storing /\ file = previous
        \/ Storing /\ file = Missing /\ tmp = current
=============================================================================
