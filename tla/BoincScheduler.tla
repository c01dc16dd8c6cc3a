--------------------------- MODULE BoincScheduler ---------------------------
(***************************************************************************)
(* The event loop of boinc-lite (BoincScheduler.c): the main thread takes  *)
(* due events from the queue and handles each to its end; compute threads  *)
(* of the application post the event that ends a computation; the process  *)
(* may be killed at any moment, also inside a handler, and started again   *)
(* from the status files it wrote.                                         *)
(*                                                                         *)
(* One action per case of boincSchedulerHandleEvents.  A handler shares    *)
(* with the compute threads only the queue, to which they append under its *)
(* lock, so a handler is one step; being killed inside one is KilledInside.*)
(* What a handler asks of the server, the disk and the application is a    *)
(* nondeterministic outcome; the failures among them are listed by the     *)
(* constant Faults.  Not modelled here: texts (names, URLs, messages), the *)
(* progress, the error shown to the user, statistics, memory exhaustion.   *)
(***************************************************************************)
EXTENDS BoincQueue

CONSTANTS
    NbWorkUnits,  \* slots of the scheduler (nbworkunits, 2 in the code)
    BusyDelay,    \* wait until a refused promotion is asked again (5)
    LoadDelay,    \* wait until a failed load is tried again (15)
    RetryBase,    \* default wait after a failure, constant part (10)
    RetryStep,    \* default wait after a failure, part per try (10)
    ServerDelays, \* waits that a server may ask for instead
    LoadTries,    \* failed loads after which the scheduler gives up (4)
    UploadTries,  \* tries before a file error gives the work unit up (10)
    MaxTries,     \* bound: the count of tries of an event stops here
    Faults        \* the failures that the environment may produce

FaultKinds == {
    "load",       \* project page or authentication fails when loading
    "unreadable", \* status file or work unit description cannot be loaded
    "stuck",      \* ... nor can the directory of that slot be removed
    "server",     \* an exchange with the server fails
    "files",      \* a result file cannot be opened for its upload, or the data
                  \* server refuses it with the number of that error (3)
    "compute",    \* the application reports that a computation failed
    "launch",     \* the compute callback cannot start the computation
    "write",      \* a status file cannot be written or renamed
    "remove",     \* the directory of a reported work unit is not removed
    "kill",       \* the process is killed, between or inside handlers
    "torn",       \* ... even between the unlink and the rename of a file
    "unguarded" } \* HandleEvents is called when no event is due

ASSUME SlotsAssumption == NbWorkUnits \in Nat \ {0}
ASSUME DelaysAssumption ==
    /\ {BusyDelay, LoadDelay} \subseteq Nat \ {0}
    /\ {RetryBase, RetryStep} \subseteq Nat
    /\ ServerDelays \subseteq Nat \ {0}
ASSUME TriesAssumption ==
    /\ {LoadTries, UploadTries, MaxTries} \subseteq Nat \ {0}
    /\ LoadTries <= MaxTries /\ UploadTries <= MaxTries
ASSUME FaultsAssumption == Faults \subseteq FaultKinds

WorkUnits == 0..NbWorkUnits - 1

VARIABLES
    process, \* of the operating system: running, killed or crashed
    queue,   \* scheduler->queue
    status,  \* scheduler->workunits[i]->status, Null when there is no object
    disk,    \* the status named by the file workunit.status of each slot
    threads, \* compute threads the application runs for each slot
    done     \* history: what has happened to the work each slot was given

vars == <<process, queue, status, disk, threads, done>>
-----------------------------------------------------------------------------
(* Data *)

Null == "Null"
NoFile == "NoFile"

Status == {"Created", "Initializing", "Downloading", "Waiting", "Computing",
           "Finished", "Uploading", "Completed", "Failed"}

\* A slip: the two rows of the way back to the server are not storable.
StorableToComputing == {"Downloading", "Waiting", "Computing"}

\* What BoincStatusInfos, which has no row for Defined, marks as storable.
\* It has no row for Failed either: see StoreResults.
Storable == {"Downloading", "Waiting", "Computing", "Finished", "Uploading"}

\* The statuses that boincSchedulerCountDownloading counts.
Pending == {"Initializing", "Downloading", "Waiting"}

Milestones == {"received", "computed", "uploaded", "failed",
               "told_ok", "told_failed"}

Event(time, type, i) == [time |-> time, type |-> type, index |-> i, tries |-> 0]
LoadEvent == Event(Epoch, "Load", 0)

\* A slip: the statuses of the other slots are not counted.
NoneIsUnchecked(set, i) == TRUE

NoneIs(set, i) == \A j \in WorkUnits \ {i} : status[j] \notin set

\* boincSchedulerRegenerate without a maximum: put the event back, later.
Regenerate(q, event, delay) ==
    LET tries == IF event.tries < MaxTries THEN event.tries + 1 ELSE MaxTries
        wait == IF delay > 0 THEN delay ELSE RetryBase + RetryStep * tries
    IN  Put(q, [event EXCEPT !.time = Now + wait, !.tries = tries])

\* boincSchedulerSetWorkUnitStatus writes the file only when the status
\* changes.  It returns no error: a write or rename that fails is forgotten,
\* with the old file in place or (rename failed after unlink) without one.
\* The row of Failed is read past the end of the table: it may say not
\* storable, or give a label that is stored and found again the same way.
StoreResults(old, new, file) ==
    CASE old = new -> {file}
      [] old # new /\ new \in Storable ->
            {new} \cup (IF "write" \in Faults THEN {file, NoFile} ELSE {})
      [] old # new /\ new = "Failed" -> {file, "Failed"}
      [] OTHER -> {file}

\* The same for two changes in a row.
StoreTwice(old, first, second, file) ==
    UNION {StoreResults(first, second, f) : f \in StoreResults(old, first, file)}
-----------------------------------------------------------------------------
(* The main loop: HasEvents, HandleEvents *)

Handles(type, i) ==
    /\ process = "running"
    /\ HasEvent(queue)
    /\ Head(queue).type = type
    /\ Head(queue).index = i

Rest == Tail(queue)

\* Slips: the event is looked at but not taken out of the queue before it is put
\* back; or it is freed as after the last try.
RetryTwice(delays) ==
    \E d \in delays : queue' = Regenerate(queue, Head(queue), d)
RetryNever(delays) == queue' = Rest

\* The outcome that most handlers share: record the error, try again later.
RetryAfter(delays) ==
    \E d \in delays : queue' = Regenerate(Rest, Head(queue), d)
DelaysOfError == {0} \cup ServerDelays

SetStatus(i, s) == status' = [status EXCEPT ![i] = s]
SetFile(i, files) == \E f \in files : disk' = [disk EXCEPT ![i] = f]
Achieve(i, what) == done' = [done EXCEPT ![i] = @ \cup what]
PostNext(type, i) == queue' = Put(Rest, Event(Now, type, i))
-----------------------------------------------------------------------------
(* Event -1: boincSchedulerLoad *)

\* Project page and authentication come before any slot, so this failure
\* leaves none.  The event is freed for good at once after a fatal error (libcurl
\* or the parser cannot start), after LoadTries failures otherwise.
LoadFails ==
    /\ Handles("Load", 0)
    /\ "load" \in Faults
    /\ \/ queue' = Rest
       \/ /\ Head(queue).tries + 1 < LoadTries
          /\ queue' = Regenerate(Rest, Head(queue), LoadDelay)
    /\ UNCHANGED <<process, status, disk, threads, done>>

\* The order in which the events of the first n slots leave the queue: each is
\* put at the current time, that of a computing slot at absolute time 0.
IsLoadOrder(order, n, loaded) ==
    /\ \A i \in 0..n - 1 : \E p \in 1..n : order[p] = i
    /\ \A p, r \in 1..n : p < r =>
          \/ /\ loaded[order[p]] = "Computing"
             /\ loaded[order[r]] # "Computing"
          \/ /\ (loaded[order[p]] = "Computing") = (loaded[order[r]] = "Computing")
             /\ order[p] < order[r]

\* A slip: every slot starts from the beginning, whatever its file says.
LoadedAsCreated(i, loaded) ==
    Event(IF loaded[i] = "Computing" THEN Epoch ELSE Now, "Created", i)

LoadedEvent(i, loaded) ==
    Event(IF loaded[i] = "Computing" THEN Epoch ELSE Now, loaded[i], i)

\* Slot by slot: the file gives the status, no file gives Created.  A slot that
\* cannot be loaded (bad) is erased, with the work in it.  If that fails too, the load ends there:
\* slot n has an object but no event and the slots behind it have no object.
LoadSlots(n, bad, stuckAs) ==
    LET FromFile(i) == IF disk[i] = NoFile THEN "Created" ELSE disk[i]
        loaded == [i \in WorkUnits |->
            CASE i < n -> IF i \in bad THEN "Created" ELSE FromFile(i)
              [] i = n -> stuckAs
              [] i > n -> Null]
    IN  /\ Handles("Load", 0)
        /\ status' = loaded
        /\ \E order \in [1..n -> 0..n - 1] :
              /\ IsLoadOrder(order, n, loaded)
              /\ queue' = [p \in 1..n |-> LoadedEvent(order[p], loaded)]
        /\ UNCHANGED <<process, threads, done>>

Stored == {i \in WorkUnits : disk[i] # NoFile}

LoadSucceeds ==
    \E bad \in SUBSET Stored :
        /\ bad # {} => "unreadable" \in Faults
        /\ LoadSlots(NbWorkUnits, bad, Null)
        /\ disk' = [i \in WorkUnits |-> IF i \in bad THEN NoFile ELSE disk[i]]

LoadStops ==
    /\ "stuck" \in Faults
    /\ \E n \in Stored, bad \in SUBSET Stored :
        /\ bad \subseteq 0..n - 1
        /\ \E s \in {disk[n], "Created"} : LoadSlots(n, bad, s)
        /\ \E f \in {disk[n], NoFile} :
              disk' = [i \in WorkUnits |->
                          IF i \in bad THEN NoFile ELSE IF i = n THEN f ELSE disk[i]]
-----------------------------------------------------------------------------
(* Fetching a work unit *)

HandleCreated(i) ==
    /\ Handles("Created", i)
    /\ \/ /\ NoneIs(Pending, i)
          /\ SetStatus(i, "Initializing")
          /\ PostNext("Initializing", i)
       \/ /\ ~NoneIs(Pending, i)
          /\ SetStatus(i, "Created")
          /\ RetryAfter({BusyDelay})
    /\ UNCHANGED <<process, disk, threads, done>>

RequestWork(i) ==
    /\ Handles("Initializing", i)
    /\ done' = [done EXCEPT ![i] = {"received"}]
    /\ PostNext("Downloading", i)
    /\ UNCHANGED <<process, status, disk, threads>>

RequestWorkFails(i) ==
    /\ Handles("Initializing", i)
    /\ "server" \in Faults
    /\ RetryAfter(DelaysOfError)
    /\ UNCHANGED <<process, status, disk, threads, done>>

\* A slip: the status changes in memory only.
DownloadUnstored(i) ==
    /\ Handles("Downloading", i)
    /\ SetStatus(i, "Downloading")
    /\ \/ PostNext("Waiting", i)
       \/ "server" \in Faults /\ RetryAfter(DelaysOfError)
    /\ UNCHANGED <<process, disk, threads, done>>

Download(i) ==
    /\ Handles("Downloading", i)
    /\ SetStatus(i, "Downloading")
    /\ SetFile(i, StoreResults(status[i], "Downloading", disk[i]))
    /\ \/ PostNext("Waiting", i)
       \/ "server" \in Faults /\ RetryAfter(DelaysOfError)
    /\ UNCHANGED <<process, threads, done>>
-----------------------------------------------------------------------------
(* Computing it *)

\* A slip: the event is posted, the status stays behind.
PromoteWithoutStatus(i) ==
    /\ Handles("Waiting", i)
    /\ SetStatus(i, "Waiting")
    /\ SetFile(i, StoreResults(status[i], "Waiting", disk[i]))
    /\ IF NoneIs({"Computing"}, i) THEN PostNext("Computing", i) ELSE RetryAfter({BusyDelay})
    /\ UNCHANGED <<process, threads, done>>

HandleWaiting(i) ==
    /\ Handles("Waiting", i)
    /\ \/ /\ NoneIs({"Computing"}, i)
          /\ SetStatus(i, "Computing")
          /\ SetFile(i, StoreTwice(status[i], "Waiting", "Computing", disk[i]))
          /\ PostNext("Computing", i)
       \/ /\ ~NoneIs({"Computing"}, i)
          /\ SetStatus(i, "Waiting")
          /\ SetFile(i, StoreResults(status[i], "Waiting", disk[i]))
          /\ RetryAfter({BusyDelay})
    /\ UNCHANGED <<process, threads, done>>

\* A slip: the callbacks of the repository return 1, taken for an error.
ComputeAndRetry(i) ==
    /\ Handles("Computing", i)
    /\ threads' = [threads EXCEPT ![i] = @ + 1]
    /\ RetryAfter({0})
    /\ UNCHANGED <<process, status, disk, done>>

\* The callback starts a thread; what it returns is not looked at.
Compute(i) ==
    /\ Handles("Computing", i)
    /\ queue' = Rest
    /\ \/ threads' = [threads EXCEPT ![i] = @ + 1]
       \/ "launch" \in Faults /\ UNCHANGED threads
    /\ UNCHANGED <<process, status, disk, done>>

\* A slip: an end is posted for a computation that is over.
ComputationEndsAgain(i) ==
    /\ process = "running"
    /\ status[i] = "Computing"
    /\ threads' = [threads EXCEPT ![i] = @ - 1]
    /\ Achieve(i, {"computed"})
    /\ queue' = Put(queue, Event(Now, "Finished", i))
    /\ UNCHANGED <<process, status, disk>>

\* A compute thread calls boincSchedulerChangeWorkUnitStatus and ends.
ComputationEnds(i) ==
    /\ process = "running"
    /\ threads[i] > 0
    /\ threads' = [threads EXCEPT ![i] = @ - 1]
    /\ \/ /\ Achieve(i, {"computed"})
          /\ queue' = Put(queue, Event(Now, "Finished", i))
       \/ /\ "compute" \in Faults
          /\ Achieve(i, {"failed"})
          /\ queue' = Put(queue, Event(Now, "Failed", i))
    /\ UNCHANGED <<process, status, disk>>
-----------------------------------------------------------------------------
(* Giving the result back *)

HandleFinished(i) ==
    /\ Handles("Finished", i)
    /\ \/ /\ NoneIs({"Uploading"}, i)
          /\ SetStatus(i, "Uploading")
          /\ SetFile(i, StoreTwice(status[i], "Finished", "Uploading", disk[i]))
          /\ PostNext("Uploading", i)
       \/ /\ ~NoneIs({"Uploading"}, i)
          /\ SetStatus(i, "Finished")
          /\ SetFile(i, StoreResults(status[i], "Finished", disk[i]))
          /\ RetryAfter({BusyDelay})
    /\ UNCHANGED <<process, threads, done>>

Upload(i) ==
    /\ Handles("Uploading", i)
    /\ Achieve(i, {"uploaded"})
    /\ PostNext("Completed", i)
    /\ UNCHANGED <<process, status, disk, threads>>

\* The status of a refusal is taken for an error code (boincProxyUploadXMLEnd), and
\* 3 is kBoincFileSystem: both are the fault files.
UploadFails(i) ==
    /\ Handles("Uploading", i)
    /\ \/ "server" \in Faults /\ RetryAfter(DelaysOfError)
       \/ "files" \in Faults /\ Head(queue).tries < UploadTries /\ RetryAfter({0})
    /\ UNCHANGED <<process, status, disk, threads, done>>

\* Too many tries, of whatever kind, and now the error of a file: the work unit is
\* given up.
UploadGivesUp(i) ==
    /\ Handles("Uploading", i)
    /\ "files" \in Faults /\ Head(queue).tries >= UploadTries
    /\ SetStatus(i, "Failed")
    /\ SetFile(i, StoreResults(status[i], "Failed", disk[i]))
    /\ Achieve(i, {"failed"})
    /\ PostNext("Failed", i)
    /\ UNCHANGED <<process, threads>>

\* The cases Failed and Completed share boincSchedulerCompleted.
HandlesReport(i) == Handles("Completed", i) \/ Handles("Failed", i)
\* A slip: the flag for a failed work unit is dropped.
ToldAlwaysOk == "told_ok"

Told == IF Head(queue).type = "Failed" THEN "told_failed" ELSE "told_ok"

\* The server is told and the slot starts afresh with an empty directory.
ReportAndErase(i) ==
    /\ HandlesReport(i)
    /\ SetStatus(i, "Created")
    /\ disk' = [disk EXCEPT ![i] = NoFile]
    /\ Achieve(i, {Told})
    /\ PostNext("Created", i)
    /\ UNCHANGED <<process, threads>>

\* A slip: the slot is erased although the server did not answer.
EraseUnreported(i) ==
    /\ HandlesReport(i)
    /\ "server" \in Faults
    /\ SetStatus(i, "Created")
    /\ disk' = [disk EXCEPT ![i] = NoFile]
    /\ PostNext("Created", i)
    /\ UNCHANGED <<process, threads, done>>

\* No answer, though the report may have arrived.
ReportFails(i) ==
    /\ HandlesReport(i)
    /\ "server" \in Faults
    /\ SetStatus(i, "Completed")
    /\ \E told \in SUBSET {Told} : Achieve(i, told)
    /\ RetryAfter({0})
    /\ UNCHANGED <<process, disk, threads>>

\* Told, but only a part of the directory is removed.
EraseFails(i) ==
    /\ HandlesReport(i)
    /\ "remove" \in Faults
    /\ SetStatus(i, "Completed")
    /\ SetFile(i, {disk[i], NoFile})
    /\ Achieve(i, {Told})
    /\ RetryAfter({0})
    /\ UNCHANGED <<process, threads>>
-----------------------------------------------------------------------------
(* Time, and the life of the process *)

Tick ==
    /\ process = "running"
    /\ \E k \in DOMAIN queue : queue[k].time > Now
    /\ queue' = Elapse(queue)
    /\ UNCHANGED <<process, status, disk, threads, done>>

Dies(how) ==
    /\ process' = how
    /\ queue' = << >>
    /\ status' = [i \in WorkUnits |-> Null]
    /\ threads' = [i \in WorkUnits |-> 0]

Killed ==
    /\ process = "running"
    /\ "kill" \in Faults
    /\ Dies("killed")
    /\ UNCHANGED <<disk, done>>

\* What a handler that is cut short may leave in the status file of its slot.
Promotion(type, i) ==
    CASE type = "Waiting" /\ NoneIs({"Computing"}, i) -> {"Computing"}
      [] type = "Finished" /\ NoneIs({"Uploading"}, i) -> {"Uploading"}
      [] OTHER -> {}
FilesInside(type, i) ==
    LET first == StoreResults(status[i], type, disk[i])
        second == UNION {StoreTwice(status[i], type, s, disk[i]) : s \in Promotion(type, i)}
    IN  {disk[i]} \cup first \cup second
          \cup (IF "torn" \in Faults /\ (first \cup second) # {disk[i]} THEN {NoFile} ELSE {})

\* The process is killed while it handles the due event.
KilledInside(i) ==
    /\ "kill" \in Faults
    /\ Dies("killed")
    /\ \/ /\ Handles("Initializing", i)
          /\ done' = [done EXCEPT ![i] = {"received"}]
          /\ UNCHANGED disk
       \/ /\ \E type \in {"Downloading", "Waiting", "Finished"} :
                Handles(type, i) /\ SetFile(i, FilesInside(type, i))
          /\ UNCHANGED done
       \/ /\ HandlesReport(i)
          /\ SetFile(i, {disk[i], NoFile})
          /\ Achieve(i, {Told})

\* boincSchedulerHandleEvents reads the event it got before it tests for NULL.
HandleNoEvent ==
    /\ process = "running"
    /\ "unguarded" \in Faults
    /\ ~HasEvent(queue)
    /\ Dies("crashed")
    /\ UNCHANGED <<disk, done>>

\* The label read past the end of BoincStatusInfos need not be a string.
BadLabel(i) ==
    /\ Handles("Uploading", i)
    /\ "files" \in Faults /\ Head(queue).tries >= UploadTries
    /\ Dies("crashed")
    /\ UNCHANGED <<disk, done>>

\* boincSchedulerCreate in a new process.
Start ==
    /\ process # "running"
    /\ process' = "running"
    /\ queue' = <<LoadEvent>>
    /\ UNCHANGED <<status, disk, threads, done>>
-----------------------------------------------------------------------------
Init ==
    /\ process = "running"
    /\ queue = <<LoadEvent>>
    /\ status = [i \in WorkUnits |-> Null]
    /\ disk = [i \in WorkUnits |-> NoFile]
    /\ threads = [i \in WorkUnits |-> 0]
    /\ done = [i \in WorkUnits |-> {}]

HandleLoad == LoadFails \/ LoadSucceeds \/ LoadStops

HandleWorkUnit(i) ==
    \/ HandleCreated(i) \/ RequestWork(i) \/ RequestWorkFails(i) \/ Download(i)
    \/ HandleWaiting(i) \/ Compute(i)
    \/ HandleFinished(i) \/ Upload(i) \/ UploadFails(i) \/ UploadGivesUp(i)
    \/ ReportAndErase(i) \/ ReportFails(i) \/ EraseFails(i)

Next ==
    \/ HandleLoad
    \/ \E i \in WorkUnits : HandleWorkUnit(i) \/ ComputationEnds(i)
    \/ Tick
    \/ Killed \/ HandleNoEvent \/ Start
    \/ \E i \in WorkUnits : KilledInside(i) \/ BadLabel(i)

Spec == Init /\ [][Next]_vars
-----------------------------------------------------------------------------
(* Type correctness *)

EventTypes == Status \cup {"Load"}
Events == [time : Int, type : EventTypes, index : WorkUnits, tries : 0..MaxTries]

\* Every variable keeps its type (struct _BoincScheduler, struct _BoincEvent).
TypeOK ==
    /\ process \in {"running", "killed", "crashed"}
    /\ queue \in Seq(Events)
    /\ status \in [WorkUnits -> Status \cup {Null}]
    /\ disk \in [WorkUnits -> Storable \cup {"Failed", NoFile}]
    /\ threads \in [WorkUnits -> Nat]
    /\ done \in [WorkUnits -> SUBSET Milestones]
-----------------------------------------------------------------------------
(* Safety *)

\* A slot has at most one thing that will move it on: one queued event or one
\* compute thread.  Two of them would handle one work unit twice: upload it
\* twice, or erase it while it computes.  Nothing in the code checks this, each
\* handler must consume its event and post exactly one.
AtMostOneToken ==
    /\ \A p, r \in DOMAIN queue : queue[p].index = queue[r].index => p = r
    /\ \A i \in WorkUnits : threads[i] <= 1
    /\ \A p \in DOMAIN queue : threads[queue[p].index] = 0

\* What a slot may be while an event of each type waits for it.
StatusesAt(type) ==
    CASE type = "Created" -> {"Created"}
      [] type = "Initializing" -> {"Initializing"}
      [] type = "Downloading" -> {"Initializing", "Downloading"}
      [] type = "Waiting" -> {"Downloading", "Waiting"}
      [] type = "Computing" -> {"Computing"}
      [] type = "Finished" -> {"Computing", "Finished"}
      [] type = "Uploading" -> {"Uploading"}
      [] type = "Completed" -> {"Uploading", "Completed"}
      [] type = "Failed" -> {"Computing", "Failed", "Completed"}
      [] type = "Load" -> {Null}

\* A handler sets the status its event names without looking at the old one;
\* the event in the queue and the status of the slot must therefore agree.
EventsMatchStatus ==
    /\ \A p \in DOMAIN queue : status[queue[p].index] \in StatusesAt(queue[p].type)
    /\ \A i \in WorkUnits : threads[i] > 0 => status[i] = "Computing"

\* The event list stays sorted by time, so that its head alone tells whether
\* something is due (boincQueueHasEventLocked).
QueueSorted == SortedByTime(queue)

\* "Only one workunit is computed at once" (BoincLite.h:38).
AtMostOneComputing ==
    \A i, j \in WorkUnits :
        status[i] = "Computing" /\ status[j] = "Computing" => i = j

\* "... and at most one workunit is waiting to be executed" (BoincLite.h:39): the
\* slots that hold or fetch work not computed yet.
AtMostOnePending ==
    \A i, j \in WorkUnits :
        status[i] \in Pending /\ status[j] \in Pending => i = j

\* Uploads go one after the other: one slot at a time is in Uploading.
AtMostOneUploading ==
    \A i, j \in WorkUnits :
        status[i] = "Uploading" /\ status[j] = "Uploading" => i = j

\* The server is told of success only for a work unit that was computed and
\* uploaded, and of failure only for one that failed; a result is uploaded only
\* after it was computed.  Status files outlive the process, the rest does not.
ReportsAreTruthful ==
    \A i \in WorkUnits :
        /\ "told_ok" \in done[i] => "uploaded" \in done[i]
        /\ "told_failed" \in done[i] => "failed" \in done[i]
        /\ "uploaded" \in done[i] => "computed" \in done[i]

\* A slot that is about to ask for new work.
AsksForWork(i) ==
    /\ disk[i] = NoFile
    /\ status[i] \in {Null, "Created", "Initializing"}

\* A work unit that was computed is not forgotten: when its slot asks for other
\* work, the server has been told how it ended.  It holds while files can be read back
\* and none is torn; else the load takes the slot for empty, or erases it.
ComputedWorkIsReported ==
    \A i \in WorkUnits :
        AsksForWork(i) /\ "computed" \in done[i]
            => done[i] \cap {"told_ok", "told_failed"} # {}

\* Every slot with a work unit object has an event or a thread that will move it.
NoSlotIsStranded ==
    \A i \in WorkUnits :
        status[i] # Null =>
            \/ threads[i] > 0
            \/ \E p \in DOMAIN queue : queue[p].index = i

\* The status file tells what the process knows: a restart finds each work unit
\* where it was.  Completed is the one status after which the file lags behind.
DiskFollowsStatus ==
    \A i \in WorkUnits :
        /\ status[i] \in Storable => disk[i] = status[i]
        /\ status[i] \in {"Created", "Initializing"} => disk[i] = NoFile

\* The process never dies of its own doing.
NeverCrashes == process # "crashed"
-----------------------------------------------------------------------------
(* Properties of steps *)

Successors(s) ==
    CASE s = "Created" -> {"Initializing"}
      [] s = "Initializing" -> {"Downloading"}
      [] s = "Downloading" -> {"Waiting", "Computing"}
      [] s = "Waiting" -> {"Computing"}
      [] s = "Computing" -> {"Finished", "Uploading", "Completed", "Created"}
      [] s = "Finished" -> {"Uploading"}
      [] s = "Uploading" -> {"Failed", "Completed", "Created"}
      [] s \in {"Failed", "Completed"} -> {"Completed", "Created"}
      [] s = Null -> Status

\* While the process runs, a work unit object only moves along its life cycle.
LifeCycle ==
    [][\A i \in WorkUnits :
          status'[i] # Null => status'[i] \in Successors(status[i]) \cup {status[i]}]_vars

\* "The only moment that the application has a pointer to a workunit is during
\* the computation and the scheduler will not make any changes to the workunit in
\* that state" (BoincWorkUnit.c:193-196), which is why it is read without a lock.
UntouchedWhileComputing ==
    [][\A i \in WorkUnits : threads[i] > 0 /\ process' = "running"
          => status'[i] = status[i] /\ disk'[i] = disk[i]]_vars

\* A work unit whose result was uploaded is not computed again, not even by the
\* process that is started next.
UploadedIsNotRecomputed ==
    [][\A i \in WorkUnits : threads'[i] > threads[i] => "uploaded" \notin done[i]]_vars
-----------------------------------------------------------------------------
(* What all this is for *)

\* How far the work of slot i is, as the next process would find it.
StageOf(i) ==
    CASE "told_ok" \in done[i] -> "reported"
      [] "told_ok" \notin done[i] /\ disk[i] \in {"Finished", "Uploading"} -> "computed"
      [] "told_ok" \notin done[i] /\ disk[i] \in {"Downloading", "Waiting", "Computing"} -> "held"
      [] OTHER -> "none"

WorkUnit == INSTANCE WorkUnitLifecycle WITH
    Slots <- WorkUnits,
    stage <- [i \in WorkUnits |-> StageOf(i)],
    computing <- {i \in WorkUnits : status[i] = "Computing"}

\* The scheduler implements the life cycle: through retries, lost answers,
\* directories that are not removed and kills inside handlers, each work unit is
\* accepted, computed (from the start again after a kill), kept, reported and only
\* then replaced.  Holds while computations do not fail and files can be written.
ImplementsLifecycle == WorkUnit!Spec
-----------------------------------------------------------------------------
(* Liveness *)

\* The main loop calls HandleEvents again and again; computations end; time
\* passes; a server that is asked again and again answers in the end.
Fairness ==
    /\ WF_vars(HandleLoad) /\ SF_vars(LoadSucceeds)
    /\ WF_vars(Tick)
    /\ \A i \in WorkUnits :
        /\ WF_vars(HandleWorkUnit(i))
        /\ WF_vars(ComputationEnds(i))
        /\ SF_vars(RequestWork(i))
        /\ SF_vars(Download(i) /\ queue' = Put(Rest, Event(Now, "Waiting", i)))
        /\ SF_vars(Upload(i))
        /\ SF_vars(ReportAndErase(i))
    /\ WF_vars(Start)

FairSpec == Spec /\ Fairness

\* From some time on the process is not killed any more.
StaysUp == <>[](process = "running")

\* A downloaded work unit gets computed.
DownloadedIsComputed ==
    StaysUp => \A i \in WorkUnits : (status[i] = "Waiting") ~> (status[i] = "Computing")

\* A computed result gets through to the server, this one or that of another
\* slot: a slot in Finished asks every BusyDelay whether another one uploads, and
\* can find the other one uploading each time.
SomeResultGetsThrough ==
    StaysUp => \A i \in WorkUnits :
        ("computed" \in done[i])
            ~> (\E j \in WorkUnits : done[j] \cap {"told_ok", "told_failed"} # {})

\* The scheduler never falls idle: it computes again and again.
KeepsComputing == StaysUp => []<>(\E i \in WorkUnits : threads[i] > 0)
=============================================================================
