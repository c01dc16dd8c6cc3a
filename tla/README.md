# Formal models of boinc-lite

boinc-lite is the small BOINC client of volunteer computing: it asks a project
server for work units, downloads them, lets the application compute them, uploads
the results and reports. This directory holds TLA+ models of it, the TLC runs
that check them on small instances, and proofs for every size. Paths below are
relative to `src/`.

1. [Inventory](#1-inventory)
2. [Plan](#2-plan)
3. [The scheduler model](#3-the-scheduler-model)
4. [The models of the other parts](#4-the-models-of-the-other-parts)
5. [Runs](#5-runs)
6. [Disagreements with the documentation](#6-disagreements-with-the-documentation)
7. [Proofs](#7-proofs)
8. [What is not modelled](#8-what-is-not-modelled)

To check: `tlc -config SchedulerFaults.cfg MCBoincScheduler.tla` (and the other
.cfg files), `tlapm BoincExclusionProofs.tla` (and the other *Proofs modules).

## 1. Inventory

| Component | Source | State | Operations |
|---|---|---|---|
| Scheduler event loop | `src/BoincScheduler.c`, main loop in `src/BoincLite.c` | two slots (a work unit object with a status, or NULL), an event queue, proxy, configuration | `Create`, `HasEvents`, `HandleEvents` (one case per event type), `ChangeWorkUnitStatus`, `GetWorkUnitStatus`, `Destroy` |
| Event queue | `src/BoincUtil.c` 172-301 | list of events sorted by second, mutex | `Put`, `HasEvent`, `Get`, `Destroy` |
| Work units and their files | `src/BoincWorkUnit.c`, `BoincUtil.c` 100-169 | status, error, cpu time, files; a directory per slot with `workunit.status`, `workunit.xml` | `SetStatus`, `SetError`, store, load, remove, rename |
| Proxy | `src/BoincProxy.c` | authenticator, host id, name of project | `Init`, `Authenticate`, `RequestWork`, `LoadWorkUnit`, `DownloadFile`, `UploadFile`, `WorkUnitExecuted` |
| HTTP | `src/linux-gnu/BoincHttp.c` | one shared curl handle | get, post, download into a temporary file |
| Configuration | `src/BoincConfiguration.c` | strings and numbers under a mutex, one file | load, store, get, set, update from a file |
| Mutexes, threads | `src/linux-gnu/BoincMutex.c`, `src/BoincLite.c` | one mutex each for scheduler, queue, configuration | lock, unlock; `computeAsync` starts a thread |
| XML parser, errors, log, hash, memory | `src/linux-gnu/`, `src/BoincError.c`, `src/BoincMem.h` | none that outlives a call | |

How they interact. `main` calls `boincSchedulerHasEvents` and
`boincSchedulerHandleEvents` in a loop. Each event names a slot; its handler does
one exchange with the server (through the proxy and HTTP), or moves files, or
calls the application's compute callback, then sets the status of the slot (in
memory, and in the status file when the status is storable) and posts the next
event, or the same one for later. The application computes in a thread of its own
and ends by posting `Finished` or `Failed` through
`boincSchedulerChangeWorkUnitStatus`. A user interface reads statuses and receives
the status callback from yet other threads. The status files are all that
survives the process.

What is hard, per component, and what makes the component correct:

* **Scheduler.** No handler looks at the status it leaves: it is the event that
  says where a slot stands. So each slot must have exactly one event or one thread
  at any time, and the event must agree with the status, although handlers fail
  half-way, events are retried, threads append at any moment and the process is
  killed. On top of that: one work unit computed at a time, one waiting, one
  upload; true reports; no computed work lost; no slot stranded.
* **Event queue.** Order by time, stable for equal times; looking only at the
  head is right only while the list is sorted.
* **Work unit files.** The file must be what a restart needs: never ahead of what
  happened, never behind by more than what can be done again.
* **Proxy, HTTP.** Retry after a reply parsed half-way; posting several files
  through one callback and one buffer; callbacks that point into stack frames.
* **Configuration.** Two writers, a kill in the middle of a store.

`PROJECT.json` lists each hazard with its line and the properties that cover it.

## 2. Plan

| Order | Module | About | Status |
|---|---|---|---|
| 1 | `BoincQueue` | the sorted list | modelled, proved |
| 2 | `BoincScheduler` (uses 1) | event loop, compute threads, status files, kills and restarts | modelled, proved (safety) |
| 3 | `WorkUnitLifecycle` | abstract: what a client promises of its work units; 2 implements it by a refinement mapping | modelled, proved |
| 4 | `BoincStatusChange` | one slot lock by lock and file operation by file operation: main loop, compute thread, user interface, status callback, a kill anywhere | modelled, proved (safety) |
| 5 | `BoincProxyWorkUnit` | a reply parsed into a work unit, retry after a failed parse, downloads, the progress callback of HTTP | modelled, proved (safety) |
| 6 | `BoincProxyUpload` | upload of a result: announcement, post through the read callback, answer, retry | modelled, proved (safety) |
| 7 | `BoincConfiguration` | load, set, the store by two threads, kill inside a store | modelled, proved (safety) |

The scheduler has each handler as one step with several outcomes. Modules 4 to 6
open these steps: 4 the change of a status with its file, 5 the handlers of
Initializing and Downloading and the load, 6 the handler of Uploading. They leave the
queue and the delays out, and let the next attempt start at any time.

Each invariant and each property of steps that a run checks is a theorem by now; what
stays with TLC is liveness. Left for later: an abstract specification of the transfer of
one work unit that 5 and 6 implement, in the way 2 implements 3.

## 3. The scheduler model

`BoincQueue` has the list operations on sequences. A time is what is left until
an event is due, so that the clock needs no bound: `Elapse` is the passing of a
second, and an event that is due keeps time 0. The absolute time 0 that
`boincSchedulerLoad` gives to the events of computing slots, to have them first,
is `Epoch`.

`BoincScheduler` has these variables.

| Variable | Code |
|---|---|
| `process` | running, killed, or crashed by the program itself |
| `queue` | `scheduler->queue`: events with time, type, slot, tries |
| `status[i]` | `scheduler->workunits[i]->status`; `Null` when there is no object |
| `disk[i]` | the label in `workunit.status` of slot i; `NoFile` |
| `threads[i]` | compute threads the application runs for slot i |
| `done[i]` | history: received, computed, uploaded, failed, told_ok, told_failed |

One action per case of `boincSchedulerHandleEvents`, split by outcome:

| Event | Actions | Code (`src/BoincScheduler.c`) |
|---|---|---|
| -1 (Load) | `LoadSucceeds`, `LoadFails`, `LoadStops` | 411-515, 729-747 |
| Created | `HandleCreated` | 749-773 |
| Initializing | `RequestWork`, `RequestWorkFails` | 192-216, 775-784 |
| Downloading | `Download` | 218-269, 786-802 |
| Waiting | `HandleWaiting` | 804-827 |
| Computing | `Compute` | 271-282, 829-838 |
| Finished | `HandleFinished` | 840-864 |
| Uploading | `Upload`, `UploadFails`, `UploadGivesUp`, `BadLabel` | 284-327, 866-883 |
| Completed, Failed | `ReportAndErase`, `ReportFails`, `EraseFails` | 329-363, 680-700, 885-905 |
| (none due) | `HandleNoEvent` | 707-720 |

and besides them `ComputationEnds` (the compute thread), `Tick`, `Killed`,
`KilledInside` (a kill in the middle of a handler), `Start` (a new process).

A handler is one step because the only thing it shares with other threads is the
queue, where they append under its mutex: an append in the middle of a handler
has the same effect as one before or after it (events of equal time leave in the
order in which they were put, and both orders are steps of the model). What a
kill in the middle leaves in the files is `KilledInside`.

Details of the code that the model keeps:

* `boincSchedulerSetWorkUnitStatus` (559-619) always returns NULL, though the
  caller at 763 and others test the result: when the file cannot be written the
  old one stays, or none, and the program goes on (`StoreResults`, fault `write`).
* `BoincStatusInfos` (59-76) has no row for Defined, the third of the eleven statuses
  (`include/BoincLite.h` 195-209), so from Downloading on row and status are off by
  one. Reading and writing use the same shifted row,
  so labels are consistent, but which statuses are storable follows from it:
  Downloading to Uploading. `Failed` reads past the end of the table: nothing may
  be stored, or some label, or the process may crash (`BadLabel`).
* `boincRenameFile` unlinks the target before the rename (fault `torn`).
* The tries of an event count every failure; the file error of an upload gives
  up when they reach `UploadTries`. The status that the data server gives with a refusal
  is taken for an error code (`BoincProxy.c` 916), and 3 is that of a file error: the
  fault `files` stands for both.
* A failed load of one slot whose directory cannot be removed ends the load: that
  slot has an object but no event, the slots behind it have no object (`LoadStops`).
* A slot that cannot be loaded is erased with the work in it. The history `done` is not
  touched by that, so that computed work that is lost there counts as lost.
* The value the compute callback returns is dropped (fault `launch`).

**What it implements.** `WorkUnitLifecycle` has of each slot a stage (none, held,
computed, reported) and the set of slots that are being computed. `StageOf` maps a
slot to its stage: reported once the server was told, until the slot is erased; else
by the label on disk, since the files are what a kill leaves. So a kill in the middle
of a handler is a step `Stop` of the abstract specification that may move one slot
with it, and all queue operations, retries and lost answers are stuttering. The
refinement holds while computations do not fail and files can be written (the faults
of `scheduler_progress`): a failed computation is reported without having been
`computed`, and without its file the scheduler forgets more than a promise allows.

**Faults.** The constant `Faults` says which failures the environment produces. A
property is checked under the largest set of faults under which the code keeps
it; that a set has to leave something out is said in the run's `about`.

**Bounds.** `MaxTries` stops the count of an event's tries; the code compares tries
only with `LoadTries` and `UploadTries` and computes delays from them, so from
`UploadTries` on more tries change nothing but the delay. Times are bounded by the
delays. Two slots are what the code has (`nbworkunits` = 2).

## 4. The models of the other parts

### `BoincStatusChange`: what others see in the middle of a handler

One slot. `slot` is the pointer in `scheduler->workunits`, `alive` the objects that are
allocated, `status` and `progress` their fields, `mutex` that of the scheduler, `tmp` and
`file` the two names of the status file. `pc` says what the main and the compute thread
do next, `ask`, `view` and `seen` where each thread is in `GetWorkUnitStatus`.

| Actions | Code |
|---|---|
| `LockForStatus`, `ChangeStatus`, `OpenStatusFile`, `CloseStatusFile`, `UnlinkStatusFile`, `RenameStatusFile`, `UnlockStatus`, `ReturnFromCallback` | `BoincScheduler.c` 559-619, `BoincUtil.c` 152-169 |
| `Succeed`, `GiveUp`, `Repeat`, `Fail`, `StartComputation`, `EndComputation` | the next event of the slot, `BoincScheduler.c` 707-909 |
| `SetProgress` | `BoincProxy.c` 1011-1021: takes no lock |
| `RemoveDirectory`, `SwapObject`, `DestroyObject` | `boincSchedulerErase`, 329-363 |
| `LockForLoad`, `Load`, `LoadFails`, `LoadCrashes`, `LoadErases`, `Resume` | `boincSchedulerLoad`, 365-515 |
| `Ask`, `LockToRead`, `ReadStatus`, `ReadsNull`, `ReadProgress`, `UnlockRead` | 929-941 |
| `LabelIsNoString` | the label past the end of the table, 590-596 |
| `Kill` | the process is killed between any two steps |

Any thread may ask for the status from inside the callback, which is what
`NoSelfDeadlock` is about. From an empty status file `fscanf` reads nothing, and the
code goes on with an uninitialised buffer: `StatusIn` allows Created and every label. A
text that is none of the labels is compared with what lies behind the table, since the
loop goes on to `kBoincWorkUnitLastStatus`: that may crash (`LoadCrashes`).

Row and status are off by one, when a status is stored and when it is read, so a label
stands for the status that wrote it. The row of Failed lies behind the table: what it
says of storable is any value (`RowIsStorable`), and its label is some text, which a
start in the same surroundings finds there again, or no string at all.
A user interface that asks before the load has made the objects dereferences NULL
(`ReadsNull`, fault `early`). Nothing is bounded: the state space is finite.

### `BoincProxyWorkUnit`: from the reply to the report

`wu` is the work unit object as the parser leaves it: file infos by number, in the order
of their creation, with `names` and `next`, and the `head` of each of its lists, 0 being
NULL. A reply is a sequence of the elements that the parser acts on. `phase` is what the
slot's next event is about, `saved` what the status file says, `reply` is
`workResponse.xml`, `files` the working directory, `cursor` the loop over the inputs,
`attached` the progress callback of the HTTP handle. `unsent` is history: the last
request was not sent.

| Actions | Code |
|---|---|
| `Element`, `Refer`, `ParseFirst`, `Parse`, `IsEmpty` | `BoincProxy.c` 379-677, `linux-gnu/BoincXMLParser.c` 24-81 |
| `Receive`, `ReceiveCut`, `RequestFails` | `boincProxyRequestWork`, 756-896 |
| `StartDownload`, `Skip`, `Fetch`, `FetchFails`, `Downloaded` | `boincSchedulerDownload`, `BoincScheduler.c` 218-269, `boincProxyDownloadFile` |
| `Compute`, `ComputeCrashes`, `Report`, `ReportFails` | `BoincScheduler.c` 271-363, `BoincProxy.c` 680-754 |
| `Restart`, `RestartFresh`, `RestartErases` | `boincSchedulerLoad` |
| `OtherExchange` | the other slot's use of the shared handle |
| `Detach`, `Rename` | `boincHttpCommon`, `linux-gnu/BoincHttp.c` 83-142 |
| `NotSent` | the returns before the transfer: a URL that is too long (`boincProxyGet`, 172-175), a file that cannot be opened (`BoincHttp.c` 96-99) |

The object is not reset between two requests, so a reply that is cut leaves its parts
and the next one is parsed on top of them. What the code relies on is that the search
for a file info meets the newest first, that `app_version` and `result` start new lists,
and that a restart parses only the last whole reply.

It relies on the server too, and `RepliesAssumption` says on what: a file is described
before it is referred to, and referred to once in a reply (`RefersToItsFiles`: a second
reference would push a file info that is on a list already, and join the lists or close
a circle); each result has one name (`NamesItsResults`: `boincProxyWUXMLEnd` sets the
name of an object only once); the inputs are opened under different names and the
application generates none of them (`HasInputsOfItsOwn`: else one would overwrite the
other, or not be fetched).

Instance: two work units that share one input and the application file, whose own
inputs have different names at the server and one name at the application, and a reply
without work. `MaxFiles` = 8 bounds the file infos that one object collects: a whole
reply has four, so two replies fit into one object, which is what makes the second one
meet what the first one left.

### `BoincProxyUpload`: the upload of a result

`step` and `file` are where `boincSchedulerUpload` and `boincProxyUploadFile` are, `error`
and `tries` the code of the last error and the tries of the event, `data` is the
`BoincProxyPostData` of the post under way, `curl` says how the body stands, `body` has the bytes that libcurl got, as pairs of file and position, `handles` counts open
files. `stored`, `unsaid`, `garbled` and `cut` (a file of this post could not be opened)
are history.

| Actions | Code |
|---|---|
| `CallbackReads`, `CallbackCannotOpen`, `CallbackAtEnd` | `boincProxyPostCallback`, `BoincProxy.c` 122-150 |
| `StartPost`, `CloseFile` | `boincProxyPost`, 152-166 |
| `Announce`, `Announced`, `PostData`, `PostDataFails`, `Stored`, `Refused`, `RefusedSilently`, `PostFails` | `boincProxyUploadFile`, 898-1009 |
| `Garbled` | `boincXMLParse`, `linux-gnu/BoincXMLParser.c` 83-133 |
| `Retry`, `GiveUp`, `Finish` | `BoincScheduler.c` 284-327, 866-883 |
| `CurlHasAll`, `ConnectionBreaks` | libcurl, external |

A file that cannot be opened in the middle of a post ends the body as its end does: the
callback returns 0 for both. What happens then is the server's: a request with fewer bytes
than its Content-Length gets no answer but an error, and any other may be answered, also
one whose length has wrapped around, of which libcurl has sent only the first part
(`Delivered`). The server has a file only when it got the whole of it (`Accepted`).

Instance: a file of four bytes and an empty one, a buffer of two, headers of one, two,
three and five bytes: shorter than the buffer, as long (a case that `EndsWhole` has to leave
out) and longer. Sizes are counted modulo `Word` = 7 so that the two longest headers and the
first file wrap around, to nothing and to a part, and nothing else does. `UploadTries` = 2:
a file error at the first failures is tried again, a later one gives up.
`MaxGarbled` = 1: an unparsable answer can come at any file, and only the count of lost handles depends on how often.

### `BoincConfiguration`

`conf` are the parameters, one for each kind of life: given by the server (`hostid`), set
by the user in two parts (`email`, `password`), counted (`total`), and never stored
(`authenticator`). `disk` has `config.xml` and `config.xml.tmp`, `handle` says where the
file is now that a thread writes, `buffer` what it has printed.

| Actions | Code |
|---|---|
| `Open`, `OpenFails`, `PrintParameter`, `Close`, `Unlink`, `Rename` | `boincConfigurationStore`, `BoincConfiguration.c` 313-342, `BoincUtil.c` 152-169 |
| `Load` | `boincConfigurationLoad`, 271-311 |
| `InitProxy`, `Update`, `Count`, `ReadLogin`, `Authenticate` | the main loop's sets and stores: `BoincProxy.c` 193-309, `BoincConfiguration.c` 271-291, `BoincScheduler.c` 894-901 |
| `StartChange`, `SetLogin` | `boincProxyChangeAuthentication`, 311-353 |
| `Kill` | the process is killed between any two steps |

Two threads that store write one file through two handles and may each unlink what the
other has renamed; the model has the file under its name, under the temporary name, or
under none. With overlapping calls almost nothing can be promised, so the properties say
"unless two calls overlapped" (`overlap`); `configuration_saves` and `configuration_login`
show what an overlap does. `full` marks a disk that was full when the file was closed,
which nobody looks at. `torn` is "cut" after a kill between unlink and rename and "lost"
when the next start then found no file: the histories `stored`, `counted` and `saved` go
on through it, and the properties name it as their third exception.

Bounds: `MaxTotal` = 2 work units counted (a first and a later store), `MaxKills` = 2 (a
kill in the store that a start does), `MaxChanges` = 1 change of login, with two logins,
one of which the application sets at each start.

## 5. Runs

In the runs of the scheduler delays and tries are scaled down (5, 10, 15 seconds to 1 or 2; 4 and 10 tries to
1 or 2): what matters is which event is due before which, and every order of
two delays occurs since ticks and handlers interleave freely.

| Run | Faults | Shows |
|---|---|---|
| `scheduler_faults` | all | one token per slot, events agree with statuses, queue sorted, true reports, life cycle, no change to a work unit that is being computed |
| `scheduler_restarts` | all but `write`, `stuck`, `compute` | one computing, one pending, status file equal to the status, uploaded work never computed again, through any number of kills |
| `scheduler_progress` | `server`, `remove`, `kill` | no slot stranded, computed work reported before its slot asks for more; liveness below; the refinement of `WorkUnitLifecycle` |
| `scheduler_unguarded` | `unguarded` | violation, section 6 |
| `scheduler_failed_computation` | `compute`, `server`, `kill` | violation, section 6 |
| `scheduler_torn_file` | `kill`, `torn` | violation, section 6 |
| `status_change` | all | readers see live objects and values that belong together, no callback deadlocks, the file is the last stored status, the one before, or waits under its temporary name |
| `proxy_work_unit` | all | file lists end, the last reply's result is reported, inputs are there, the callback is detached after each request that was sent |
| `proxy_upload` | all | body in order and whole, uploads stored, files closed; the upload gets through or is given up; with the limits of section 6 |
| `configuration` | all | a whole copy on disk, counted work units stay counted, one login in use; for calls that do not overlap |
| `configuration_saves` | none | violation, section 6 |
| `configuration_login` | none | violation, section 6 |

`proxy_upload` and `configuration` turn the deadlock check off: an upload ends (done, given
up, or crashed), and a program whose configuration does not parse has failed and stays so.

**Fairness of the scheduler.** Weak fairness of each handler and of the load: the main loop calls
`HandleEvents` whenever something is due. Weak fairness of `Tick`: time passes. Weak
fairness of `ComputationEnds`: the application's computation terminates. Weak
fairness of `Start`: a stopped client is started again. Strong fairness of the
successful outcomes of exchanges: a server that is asked again and again answers
at last. The liveness properties assume further that kills end some day
(`StaysUp`); with kills for ever nothing can be promised.

**Fairness of the upload.** Weak fairness of `Progress`, all steps that go on: libcurl
calls the callback until the body ends, and the scheduler repeats a failed upload.
Success is not assumed by fairness: `GetsThrough` has the premise that trouble stops
some day, and that no body meets the limits that `EndsWhole` names. That the work unit was
given up, or the process crashed, are outcomes it allows.

Shown: a downloaded work unit gets computed; a computed result gets through, that
of this slot or of another one; the scheduler computes again and again. The
stronger "each computed result is reported" does not hold: a slot in Finished
polls every `BusyDelay`, and if the other slot's uploads happen to be under way at
each poll it waits for ever (TLC shows the loop). With the long computations the
client is made for this does not occur, and no document promises otherwise.

Each property has a mutant: a definition with a plausible slip (`RetryTwice`,
`PromoteWithoutStatus`, `StorableToComputing`, ...) which stands beside the one it
replaces, marked "a slip", and under which TLC finds the property violated.

## 6. Disagreements with the documentation

* **`scheduler_unguarded`.** `boincSchedulerHandleEvents` reads `event->eventType`
  (717) before it tests `event` (722). The examples in `include/BoincLite.h` (89-93,
  250) call it unguarded.
* **`scheduler_failed_computation`.** "Only one workunit is computed at once"
  (`include/BoincLite.h:38`). A failed computation goes from Computing to Completed,
  which is not storable: the file says Computing until the report is answered.
  The other slot is promoted meanwhile, and a restart computes both.
* **`scheduler_torn_file`.** A kill between unlink and rename loses a computed
  result; `doc/BoincLite.tex:68-70` says that the work unit's information is on disk
  at any stage.

* **`configuration_saves`.** `boincSchedulerChangeAuthentication` "saves it for future
  use" (`include/BoincLite.h:298-302`). Two threads store through one temporary file
  and without a lock: the main loop can unlink the file that the change has just put
  in place and then find no temporary file to rename. The change has returned
  without error, and there is no configuration on disk.
* **`configuration_login`.** "After a successful call to this function, all subsequent
  request to the server will use the new login" (`include/BoincLite.h:300-302`).
  `boincProxyAuthenticate` reads the login, asks the server and sets the authenticator;
  a change in between sets its three parts, and then the main loop puts the
  authenticator of the old login over the new one.

Limits of the code that the properties name, because without them they do not hold:

* `EndsWhole`: the read callback returns 0, which ends the body, when a file cannot be
  opened (`BoincProxy.c` 131-132) and when a file before the last one ends exactly where
  the buffer does, since `feof` is only true after a read that wanted more; and the sizes
  are added in an unsigned int.
* `UploadedIsStored`: an answer with a status other than 0 and no message is taken
  for success (`RefusedSilently`). A file whose size with that of its header does not fit
  an unsigned int is announced and sent too short, and a server may accept that.
* `GetsThrough`: the file error that gives a work unit up may be the first of its kind, if
  `UploadTries` tries failed before it for other reasons.
* `HandlesAreClosed`: each answer that does not parse costs one open file
  (`boincXMLParse` returns before `fclose`).
* `ComputesItsInputs`: after a reply that broke off in the middle of the parse the
  work unit still has its file infos. If an earlier reply had a file of another name
  that is opened under the same name, the later download can overwrite the right
  one. A reply cut short and then one without work leave a work unit without a
  result, and `Compute` dereferences NULL (`ComputeCrashes`).
* `CallbackIsReset`: a download whose URL is too long, or whose temporary file cannot be
  opened, leaves the callback attached, with its pointer into a frame that is gone.
* `OneLoginInUse`, `OneCopyIsWhole`, `CountIsKept`: none holds when two calls overlapped.
  The last two except a full disk, and a kill between unlink and rename followed by a
  start: it finds no file, does not look for the temporary one, and goes on with the
  preset login and a count of 0.
* `ComputedWorkIsReported`: besides torn files, work is forgotten when its status or its
  reply cannot be read at the start, for the load erases the slot then.
* `FileFollowsStatus`: once an operation on the status file has failed, the file may stay
  behind, or be empty. In `DiskFollowsStatus` the fault `write` is left out for that.
* `NoSlotIsStranded`: a slot is stranded when its directory can neither be loaded nor
  removed, or when the application cannot start its computation.

## 7. Proofs

For any number of slots, any delays and numbers of tries (the named ASSUMEs of
`BoincScheduler`), checked by TLAPS:

| Module | Theorem | Says | Assumes of `Faults` |
|---|---|---|---|
| `BoincSchedulerProofs` | `PutKeepsSorted` | a put into a sorted list gives a sorted list | |
| | `PutIsFair` | what stands before a new entry is exactly what is not later than it | |
| | `TypeCorrectness` | `Spec => []TypeOK` | |
| | `QueueStaysSorted` | `Spec => []QueueSorted` | |
| | `OneTokenPerSlot` | `Spec => []AtMostOneToken` | |
| | `EventsAgreeWithStatus` | `Spec => []EventsMatchStatus` | |
| | `ComputingIsUntouched` | `Spec => UntouchedWhileComputing` | |
| | `LifeCycleIsKept` | `Spec => LifeCycle` | |
| | `NoneIsStranded` | `Spec => []NoSlotIsStranded` | no `launch`, `stuck` |
| `BoincExclusionProofs` | `OneComputing` | `Spec => []AtMostOneComputing` | files are kept |
| | `OneUploading` | `Spec => []AtMostOneUploading` (in no run) | no `kill`, `unguarded`, `files` |
| `BoincFileProofs` | `FilesFollowStatus` | `Spec => []DiskFollowsStatus` | files are kept |
| | `OnePending` | `Spec => []AtMostOnePending` | files are kept |
| | `ReportsAreTrue` | `Spec => []ReportsAreTruthful` | |
| | `ComputedIsReported` | `Spec => []ComputedWorkIsReported` | files are kept, no `torn`, `unreadable` |
| | `UploadedStaysUploaded` | `Spec => UploadedIsNotRecomputed` | files are kept |
| `BoincLifecycleProofs` | `LifecycleIsImplemented` | `Spec => ImplementsLifecycle` | files are kept, no `torn`, `unreadable`, `files` |

"Files are kept" (`FilesAreKept`) is: none of `write`, `stuck`, `compute`. Where nothing
is said, the theorem holds under every set of faults; where something is, a run shows
the violation or the property's comment names it. The argument, in layers:

1. *Types and order.* A handler takes the head of the queue and puts at most one
   event (`Moves`); what `Put`, `Tail` and `Elapse` do to a list is proved in
   the first section of `BoincSchedulerProofs` from the definition of the walk. That the walk stops somewhere
   (`PutPositionProperties`) needs that a set of naturals has a least element.
2. *Tokens.* `AtMostOneToken` and `EventsMatchStatus` are not inductive: a load event
   beside loaded slots would give each slot a second event. `Tokens` adds that a load
   event is alone (`LoadIsAlone`) and that a dead process has nothing
   (`DeadIsEmpty`). Then a handler's slot has no other event and no thread, and
   `MovesKeepTokens` covers every handler that posts; `Compute`, the end of a thread,
   the load and the death of the process are treated on their own.
   With `Tokens` the properties of steps are read off each handler: the event says
   what the status was, and a slot with a thread has no event.
3. *Exclusion.* `HandleWaiting` scans the statuses of the other slots, which settles
   one life of the process (`OneLifeInv`, for the three scans alike). After a kill the
   files decide. `Exclusive` says: all slots
   are loaded or none; a loaded slot is Computing in memory iff on disk; at most one
   file says Computing; a Failed event has left Computing. The last part is where a
   failed computation breaks the argument, as run `scheduler_failed_computation`
   shows; `write` and `stuck` break the second and the first.
4. *Files.* `Follows` says which file a status may have. `AtMostOnePending` is about
   statuses and not inductive, since a restart makes statuses of files; `OneHolds`
   counts a slot when its status or its file is pending.
5. *Reports.* A status alone does not say what happened before it. `Vouches` says that a
   queued event of a type is there only with the history that led to it, and
   `FilesVouch` the same of the label on disk, from which a load makes the event
   again. This holds under all faults: a file that lags vouches for less.
6. *Histories.* `Consistent` relates the file to the history the other way round: no
   file and `computed` means reported, `uploaded` means that the file is not one from
   which the work would be computed again. `DownloadsAreNew` is needed because the old
   history of a slot stays until the server hands out new work.
7. *Refinement.* The stage of a slot depends on its history and its file only
   (`Stage`). With 3 to 6 each handler's effect on its slot is one of the five moves of
   `WorkUnitLifecycle` or none (`Advances`): a report finds the slot at computed or
   reported, the end of a computation finds it at held. A death is `Stop`, with the
   move the handler had made; a load restarts the one computation whose file says
   Computing. `torn`, `unreadable` and the failures are excluded because then a slot
   loses or skips a stage, which the abstract specification does not allow.

About an upload, for any files, header lengths, buffer and word, under all faults:

| Module | Theorem | Says |
|---|---|---|
| `BoincProxyUploadProofs` | `UploadsAreStored` | `Spec => []UploadedIsStored` |
| | `FilesAreClosed` | `Spec => []HandlesAreClosed` |
| | `BodiesAreInOrder` | `Spec => []BodyInOrder` |
| | `BodiesEndWhole` | `Spec => []EndsWhole` |
| | `UploadIsTyped` | `Spec => []TypeOK` |

* `UploadInv`: the loop over the files is at one of them while it uploads. `HandleInv`: a file
  that is open is the one of the post under way,
  and each unparsable answer has cost one more.
* `BodyInv`: the position in the files is the length of the body, and the byte at each
  place of the body is the one that belongs there. So a body of the length of its files is
  the files (`FullBody`), which is what a server answered to when the sizes fit
  (`DeliveredIsWhole`), and `StoredInv` follows: the files before the one under way are at
  the server, or were refused without a message. A post has one file or two, so that the
  concatenation and the total, which the model has as folds, are computed by cases
  (`ConcatenationProperties`, `TotalProperties`) and no induction is needed.
* `EndInv`: the place in an open file is a multiple of the buffer, so an empty read comes
  only at the end of a file that fills its last buffer, or when
  a file was not opened; and what is announced is the
  total modulo the word.

About one slot's status and its file, between any two steps of three threads, under
all faults:

| Module | Theorem | Says |
|---|---|---|
| `BoincStatusChangeProofs` | `ReadersMeetLiveObjects` | `Spec => []ReadsLiveObject` |
| | `ViewsAreConsistent` | `Spec => []ViewIsConsistent` |
| | `NoThreadBlocksItself` | `Spec => []NoSelfDeadlock` |
| | `FileIsNeverFarBehind` | `Spec => []FileFollowsStatus` |
| | `StatusChangeIsTyped` | `Spec => []TypeOK` |

* `Locking`: the mutex is the main thread's in its locked steps and else that of the one
  thread that is reading, which says of two threads at most one is inside. A thread asks
  only from outside a locked section, whence `NoSelfDeadlock`.
* `Allocation`: the object in the slot is the only one, but for the two steps of an
  erase in which the new object is in the slot and the old one not yet freed. So what a
  reader takes from the slot is alive when it has the mutex.
* `Working` and `Reading`: progress is shown only of an object at work. The main thread
  changes status and progress in one locked step, and the setter of progress, which
  takes no lock, runs only where the status cannot change, so a reader that has seen the
  status still sees the one it belongs to.
* `Stored`: under which of the two names the last storable status is, at each place of
  the main thread.

About the configuration, for any logins, host ids and bounds, under all faults:

| Module | Theorem | Says |
|---|---|---|
| `BoincConfigurationProofs` | `StoreKeepsACopy` | `Spec => []OneCopyIsWhole` |
| | `NoCountIsLost` | `Spec => []CountIsKept` |
| | `RequestsUseTheLogin` | `Spec => []OneLoginInUse` |
| | `ConfigurationIsTyped` | `Spec => []TypeOK` |

* `OneCaller`: the properties exclude overlapping calls, so that one thread at most is in
  a call, and the parts below need to look at one place of one thread.
* `Storing`: what a thread has printed are the parameters as they are in memory, and
  nothing else goes into the temporary file. It relies on it that no call changes a
  parameter between `Open` and `Rename`.
* `OnDisk`: until the unlink the old file is there, after it the whole new one under the
  temporary name; the count in both is not below what was counted and stored. A kill in
  between leaves `torn` at "cut" and no file, and the next start makes it "lost".
* `Agreement`: which of the three parts of the login are already the new ones.

About a work unit, from the reply to the report, for any replies as the server makes them
(`RepliesAssumption`), of any number and length, under all faults:

| Module | Theorem | Says |
|---|---|---|
| `BoincProxyWorkUnitProofs` | `ListsAreFinite` | `Spec => []ListsEnd` |
| | `LastResultIsReported` | `Spec => []ReportsTheLastResult` |
| | `InputsAreComputed` | `Spec => []ComputesItsInputs` |
| | `CallbackIsDetached` | `Spec => []CallbackIsReset` |
| | `WorkUnitIsTyped` | `Spec => []TypeOK` |

* *The recursion.* `ParseFirst` is a recursive function, which is a CHOOSE, so a function
  that satisfies its equation has to be shown to exist. `RunExists` builds the record of
  the first n elements, `RunsAgree` says that records agree, and `ParsingStep` puts them
  together. Inductions are by the least counterexample (`LeastOfNaturals`).
* *Lists.* That a list ends is said without recursion: every nonempty set of file infos
  has one whose `next` leads out of it (`IsLinked`, `ListsEnd`). What a list has is said
  by the sets that hold it (`Holds`).
* *Parsing.* `Follows` relates a work unit to the first n elements of the reply that are
  parsed into it: each file described so far has a file info of this reply, and those not
  referred to are on no list (`FilesKnown`); the result is the one begun or named last
  (`ResultKnown`); the list of inputs has each input (`HasInputs`) and, if the object was
  blank before, nothing else (`HasOnlyInputs`). A reference to a file then finds a file
  info of this reply, since the search meets the newest first, and one that is on no
  list, since it is the first reference: the push makes no circle. Under the slip
  `Oldest` it would find one that an earlier reply put on a list.
* *The slot.* `Phases`: without a cut reply a request begins with a blank object, and what
  is saved goes with a whole reply on disk. `Loading`: from the reply to the report the
  object has that reply's result and inputs. `Fetching`: each input has arrived or is on
  the list from the cursor on, and all that is on it is an input, which is why a file that
  arrives does not overwrite another input.

Only model-checked: the liveness properties `DownloadedIsComputed`,
`SomeResultGetsThrough`, `KeepsComputing` and `GetsThrough` (fairness and ENABLED are
outside the prover's reach). Every other property of a passing run is a theorem.

## 8. What is not modelled

* Texts (URLs, messages, the XML of requests, log lines), hash and error records: pure
  functions or pure output. The models have "equal hash" and "an error".
* The error shown to the user and the cpu time: no step of the program depends on
  them. Their hazards are in `PROJECT.json` with this reason. The time in a report is
  the duration only when Finished is handled an odd number of times by the process that
  began the computation; otherwise it is a date, or 0.
* Markup that is not escaped when the configuration is stored, and values cut at 100
  characters: conversions of texts.
* The callbacks that ask the system for memory, CPU and disk: read only.
* `boincSchedulerDestroy`, `boincQueueDestroy`: the program never reaches them once the
  scheduler runs (the main loop is endless, and its signal handler destroys only when
  there is no scheduler).
* Two threads on the one curl handle (a change of login during a transfer): undefined
  in libcurl, so every outcome would have to be allowed. The models have each exchange
  as a step of its own.
* Whether a file that was downloaded without an error has the right contents: the code
  does not check it after the download, and neither does the model.
* Memory exhaustion. libcurl, expat, the server, the application and the operating
  system are external: the models have their outcomes.
