------------------------- MODULE BoincProxyWorkUnit -------------------------
(***************************************************************************)
(* The work unit of one slot, from the reply of the server to its report:  *)
(* the reply is saved in workResponse.xml and parsed into the work unit,   *)
(* element by element; a request that fails is repeated into the same      *)
(* object; the input files are downloaded; a restart parses the file again *)
(* into a fresh object.                                                    *)
(*                                                                         *)
(* A reply is a sequence of items, each an element of the reply that the   *)
(* parser acts on.  A file info is known by its number in the order of     *)
(* creation: names[f], next[f]; the lists of a work unit are heads and     *)
(* next pointers, with 0 for NULL, as in the code.                         *)
(***************************************************************************)
EXTENDS Naturals, Sequences, FiniteSetsExt

CONSTANTS
    Replies,   \* the replies of the server
    Generated, \* names of the files that the application generates
    OpenName,  \* the name under which each file is opened
    MaxFiles,  \* bound: file infos that one work unit object collects
    Faults

FaultKinds == {
    "network", \* an exchange fails, with or without a part of the answer
    "open",    \* the temporary file of an answer cannot be opened
    "url",     \* a URL is too long, or missing
    "garbled", \* the XML of a reply ends in the middle
    "kill"}    \* the process is killed and started again

Tags == {
    "request_delay", "file_info", "app_version", "file_ref", "result", "result>name"}
Lists == {"app", "input", "output"}
NoText == ""

ItemsOf(r, tag) == {k \in DOMAIN r : r[k].tag = tag}
InputsOf(r) == {k \in ItemsOf(r, "file_ref") : r[k].list = "input"}

\* A file is described before it is referred to, and referred to once.
RefersToItsFiles(r) ==
    \A k \in ItemsOf(r, "file_ref") :
        /\ r[k].list \in Lists
        /\ \E j \in ItemsOf(r, "file_info") : j < k /\ r[j].name = r[k].name
        /\ \A j \in ItemsOf(r, "file_ref") : r[j].name = r[k].name => j = k

\* Each name of a result belongs to the result begun last, which has no other.
NamesItsResults(r) ==
    /\ \A k \in ItemsOf(r, "result>name") : \E j \in ItemsOf(r, "result") :
          j < k /\ \A i \in (j + 1)..(k - 1) : r[i].tag \notin {"result", "result>name"}
    /\ \A j \in ItemsOf(r, "result") : \E k \in ItemsOf(r, "result>name") : j < k

\* No two inputs are opened under one name, and the application makes none of them.
HasInputsOfItsOwn(r) ==
    \A k \in InputsOf(r) :
        /\ r[k].name \notin Generated
        /\ \A j \in InputsOf(r) : OpenName[r[j].name] = OpenName[r[k].name] => j = k

ASSUME RepliesAssumption ==
    \A r \in Replies :
        /\ r \in Seq([tag : Tags, name : STRING, list : Lists \cup {NoText}])
        /\ RefersToItsFiles(r) /\ NamesItsResults(r) /\ HasInputsOfItsOwn(r)
ASSUME NamesAssumption ==
    /\ Generated \subseteq DOMAIN OpenName
    /\ \A r \in Replies : \A k \in DOMAIN r :
          r[k].tag \in {"file_info", "file_ref"} => r[k].name \in DOMAIN OpenName
ASSUME BoundAssumption == MaxFiles \in Nat
ASSUME FaultsAssumption == Faults \subseteq FaultKinds

VARIABLES
    wu,       \* the work unit object
    phase,    \* what the next event of the slot is about, or down
    saved,    \* the status file: none, or the phase to go on with
    reply,    \* workResponse.xml, when it has a whole reply
    files,    \* the files in the working directory
    cursor,   \* the file info the loop of boincSchedulerDownload is at
    attached, \* a progress callback is attached to the HTTP handle
    unsent,   \* history: the last request was not sent
    cut       \* history: an incomplete reply was parsed before the files were fetched

vars == <<wu, phase, saved, reply, files, cursor, attached, unsent, cut>>

NoReply == << >>
Absent == "absent"
Partial == "partial"
OpenNames == {OpenName[name] : name \in DOMAIN OpenName}
-----------------------------------------------------------------------------
(* Parsing *)

Fresh == [delay |-> FALSE, hasResult |-> FALSE, result |-> NoText,
          names |-> << >>, next |-> << >>, head |-> [list \in Lists |-> 0]]

Infos(w) == DOMAIN w.names
Described(w, name) == {f \in Infos(w) : w.names[f] = name}

\* A slip: the search starts at the file info that was described first.
Oldest(w, name) == Min(Described(w, name))

\* globalFileInfo grows at its head, so the search meets the last one first.
Newest(w, name) == Max(Described(w, name))

\* boincProxyAffectCurrentFileInfoFromName: push on the list that the reference is in.
Refer(w, name, list) ==
    LET f == Newest(w, name)
        first == w.head[list]
    IN  IF Described(w, name) = {} THEN w
        ELSE [w EXCEPT !.next[f] = IF first # 0 THEN first ELSE @,
                       !.head[list] = f]

\* A slip: the result object of the reply before is used again.
KeepResult(w) == IF w.hasResult THEN w ELSE [w EXCEPT !.hasResult = TRUE]

NewResult(w) ==
    [w EXCEPT !.hasResult = TRUE, !.result = NoText, !.head["output"] = 0]

\* boincProxyWUXMLBegin and boincProxyWUXMLEnd.  The name of a result is set only
\* once in an object; app and result are new objects each time.
Element(w, item) ==
    CASE item.tag = "request_delay" -> [w EXCEPT !.delay = TRUE]
      [] item.tag = "file_info" ->
            [w EXCEPT !.names = Append(@, item.name), !.next = Append(@, 0)]
      [] item.tag = "app_version" -> [w EXCEPT !.head["app"] = 0]
      [] item.tag = "file_ref" -> Refer(w, item.name, item.list)
      [] item.tag = "result" -> NewResult(w)
      [] item.tag = "result>name" ->
            [w EXCEPT !.result = IF @ = NoText THEN item.name ELSE @]

\* The work unit after the first n elements.
ParseFirst(w, items, n) ==
    LET parsed[k \in Nat] == IF k = 0 THEN w ELSE Element(parsed[k - 1], items[k])
    IN  parsed[n]

Parse(w, items) == ParseFirst(w, items, Len(items))

\* boincProxyLoadWorkUnit: there is no work for us, come back later.
IsEmpty(w) == w.names = << >> /\ w.delay

Loaded(items) == [Parse(Fresh, items) EXCEPT !.delay = FALSE]
-----------------------------------------------------------------------------
(* HTTP: one call on the shared handle *)

\* A slip: the callback is detached only after a transfer that went well.
DetachAfterSuccess(callback, ok) ==
    /\ unsent' = FALSE
    /\ attached' = (callback /\ ~ok)

\* boincHttpCommon, called with or without a callback: it is detached after the
\* transfer, however that went.
Detach(callback, ok) ==
    /\ unsent' = FALSE
    /\ attached' = FALSE

\* The error returns before the transfer, a URL that is too long (boincProxyGet,
\* boincProxyPost) and a file that cannot be opened, leave the callback attached.
NotSent(callback) ==
    /\ {"open", "url"} \cap Faults # {}
    /\ unsent' = TRUE
    /\ attached' = callback

\* boincHttpCommon renames its temporary file over the old one whatever came: a
\* whole answer, a part of it, or nothing, in which case the empty file goes.
Rename(path, content) == files' = [files EXCEPT ![path] = content]

\* Another slot has an exchange.
OtherExchange ==
    /\ phase # "down"
    /\ \/ Detach(attached, TRUE)
       \/ "network" \in Faults /\ Detach(attached, FALSE)
       \/ NotSent(attached)
    /\ UNCHANGED <<wu, phase, saved, reply, files, cursor, cut>>
-----------------------------------------------------------------------------
(* Request *)

HasRoomFor(items) == Len(Parse(wu, items).names) <= MaxFiles

\* boincProxyRequestWork with an answer that is parsed to its end.
Receive(r) ==
    /\ phase = "request" /\ HasRoomFor(r)
    /\ Detach(attached, TRUE)
    /\ reply' = r
    /\ LET w == Parse(wu, r)
       IN  \/ /\ IsEmpty(w)
              /\ wu' = w
              /\ UNCHANGED phase
           \/ /\ ~IsEmpty(w)
              /\ wu' = [w EXCEPT !.delay = FALSE]
              /\ phase' = "download"
    /\ UNCHANGED <<saved, files, cursor, cut>>

\* A slip: the error of the parse is not looked at.
ReceivePart(r) ==
    /\ phase = "request" /\ HasRoomFor(r)
    /\ "garbled" \in Faults
    /\ Detach(attached, TRUE)
    /\ \E n \in 0..Len(r) :
          /\ wu' = [ParseFirst(wu, r, n) EXCEPT !.delay = FALSE]
          /\ reply' = SubSeq(r, 1, n)
    /\ phase' = "download"
    /\ UNCHANGED <<saved, files, cursor, cut>>

\* The parser stops in the middle; what it has done stays done.
ReceiveCut(r) ==
    /\ phase = "request" /\ HasRoomFor(r)
    /\ "garbled" \in Faults
    /\ Detach(attached, TRUE)
    /\ \E n \in 0..Len(r) :
          wu' = [ParseFirst(wu, r, n) EXCEPT !.delay = FALSE]
    /\ cut' = TRUE
    /\ reply' = NoReply
    /\ UNCHANGED <<phase, saved, files, cursor>>

RequestFails ==
    /\ phase = "request"
    /\ \/ "network" \in Faults /\ Detach(attached, FALSE) /\ reply' = NoReply
       \/ NotSent(attached) /\ UNCHANGED reply
    /\ UNCHANGED <<wu, phase, saved, files, cursor, cut>>
-----------------------------------------------------------------------------
(* Download *)

StartDownload ==
    /\ phase = "download"
    /\ phase' = "fetch" /\ saved' = "download"
    /\ cursor' = wu.head["input"]
    /\ UNCHANGED <<wu, reply, files, attached, unsent, cut>>

Path(f) == OpenName[wu.names[f]]

\* A slip: only the existence of the file is looked at.
NeedsDownloadIfAbsent(f) == files[Path(f)] = Absent

\* boincWorkUnitFileNeedsDownload: no file, or not the one of the checksum.
NeedsDownload(f) == files[Path(f)] # wu.names[f]

AtFile == phase = "fetch" /\ cursor # 0
Wanted == wu.names[cursor] \notin Generated /\ NeedsDownload(cursor)

Skip ==
    /\ AtFile /\ ~Wanted
    /\ cursor' = wu.next[cursor]
    /\ UNCHANGED <<wu, phase, saved, reply, files, attached, unsent, cut>>

Fetch ==
    /\ AtFile /\ Wanted
    /\ Detach(TRUE, TRUE)
    /\ Rename(Path(cursor), wu.names[cursor])
    /\ cursor' = wu.next[cursor]
    /\ UNCHANGED <<wu, phase, saved, reply, cut>>

\* The error ends the loop, the event is put back.  A missing URL is an error
\* before the callback is attached, one that is too long after that.
FetchFails ==
    /\ AtFile /\ Wanted
    /\ \/ /\ "network" \in Faults
          /\ Detach(TRUE, FALSE)
          /\ \E content \in {Absent, Partial} : Rename(Path(cursor), content)
       \/ /\ \E callback \in {TRUE, attached} : NotSent(callback)
          /\ UNCHANGED files
    /\ phase' = "download" /\ cursor' = 0
    /\ UNCHANGED <<wu, saved, reply, cut>>

Downloaded ==
    /\ phase = "fetch" /\ cursor = 0
    /\ phase' = "compute" /\ saved' = "compute"
    /\ UNCHANGED <<wu, reply, files, cursor, attached, unsent, cut>>
-----------------------------------------------------------------------------
(* Computation and report *)

Compute ==
    /\ phase = "compute" /\ wu.hasResult
    /\ phase' = "report" /\ saved' = "report"
    /\ UNCHANGED <<wu, reply, files, cursor, attached, unsent, cut>>

Dies ==
    /\ phase' = "down"
    /\ wu' = Fresh /\ cursor' = 0
    /\ attached' = FALSE /\ unsent' = FALSE
    /\ UNCHANGED <<saved, reply, files, cut>>

\* boincSchedulerCompute writes its start time into wu->result.
ComputeCrashes == phase = "compute" /\ ~wu.hasResult /\ Dies

EraseDirectory ==
    /\ wu' = Fresh /\ cut' = FALSE /\ cursor' = 0
    /\ saved' = "none" /\ reply' = NoReply
    /\ files' = [path \in OpenNames |-> Absent]
    /\ phase' = "request"

\* boinProxyWorkUnitExecuted tells the server the name of the result.
Report ==
    /\ phase = "report"
    /\ Detach(attached, TRUE)
    /\ EraseDirectory

ReportFails ==
    /\ phase = "report"
    /\ \/ "network" \in Faults /\ Detach(attached, FALSE)
       \/ NotSent(attached)
    /\ UNCHANGED <<wu, phase, saved, reply, files, cursor, cut>>
-----------------------------------------------------------------------------
(* Kills and restarts *)

Kill == phase # "down" /\ "kill" \in Faults /\ Dies

RestartFresh ==
    /\ phase = "down" /\ saved = "none"
    /\ phase' = "request" /\ cut' = FALSE
    /\ UNCHANGED <<wu, saved, reply, files, cursor, attached, unsent>>

\* boincSchedulerLoad: the reply is parsed again.
Restart ==
    /\ phase = "down" /\ saved # "none"
    /\ ~IsEmpty(Parse(Fresh, reply))
    /\ wu' = Loaded(reply)
    /\ phase' = saved
    /\ cut' = (cut /\ saved # "download")
    /\ UNCHANGED <<saved, reply, files, cursor, attached, unsent>>

\* ... and gives an error when there is no work in it: the slot starts afresh.
RestartErases ==
    /\ phase = "down" /\ saved # "none"
    /\ IsEmpty(Parse(Fresh, reply))
    /\ EraseDirectory
    /\ UNCHANGED <<attached, unsent>>
-----------------------------------------------------------------------------
Init ==
    /\ wu = Fresh /\ phase = "request" /\ saved = "none" /\ reply = NoReply
    /\ files = [path \in OpenNames |-> Absent]
    /\ cursor = 0
    /\ attached = FALSE /\ unsent = FALSE /\ cut = FALSE

Next ==
    \/ \E r \in Replies : Receive(r) \/ ReceiveCut(r)
    \/ RequestFails
    \/ StartDownload \/ Skip \/ Fetch \/ FetchFails \/ Downloaded
    \/ Compute \/ ComputeCrashes \/ Report \/ ReportFails
    \/ OtherExchange
    \/ Kill \/ RestartFresh \/ Restart \/ RestartErases

Spec == Init /\ [][Next]_vars
-----------------------------------------------------------------------------
(* Safety *)

Pointers == Infos(wu) \cup {0}

\* Types of the work unit (struct _BoincWorkUnit): pointers lead to file infos.
TypeOK ==
    /\ wu.next \in [Infos(wu) -> Pointers]
    /\ wu.head \in [Lists -> Pointers]
    /\ wu.names \in Seq(DOMAIN OpenName) /\ Len(wu.names) <= MaxFiles
    /\ {wu.delay, wu.hasResult, attached, unsent, cut} \subseteq BOOLEAN
    /\ phase \in {"request", "download", "fetch", "compute", "report", "down"}
    /\ saved \in {"none", "download", "compute", "report"}
    /\ reply \in Replies \cup {NoReply}
    /\ files \in [OpenNames -> DOMAIN OpenName \cup {Absent, Partial}]
    /\ cursor \in Pointers

\* No list runs into a circle, however often a reply was parsed into the object:
\* the loops over them (BoincScheduler.c:235 and others) end.
ListsEnd ==
    \A ring \in SUBSET Infos(wu) : ring # {} => \E f \in ring : wu.next[f] \notin ring

HasWork(r) == ItemsOf(r, "result>name") # {}
ResultOf(r) == r[Max(ItemsOf(r, "result>name"))].name

\* What is reported in the end is the result of the reply that is on disk, also
\* after earlier replies that were parsed in part into the same object.
ReportsTheLastResult ==
    phase \in {"download", "fetch", "compute", "report"} /\ HasWork(reply)
        => wu.hasResult /\ wu.result = ResultOf(reply)

\* A file that is downloaded "should exists and have the same checksum than its
\* fileinfo" (test/BoincProxyTest.c).
FilesMatchTheirInfo ==
    phase = "compute" =>
        \A k \in InputsOf(reply) : files[OpenName[reply[k].name]] = reply[k].name

\* The computation finds the inputs of its reply, through failed and partial
\* downloads, kills and restarts, if no reply was parsed in part before.
ComputesItsInputs == cut \/ FilesMatchTheirInfo

\* "the callback attachement is reset after each call" (BoincHttp.h:106): it stays
\* attached only behind a call that made no transfer, because the URL is too long
\* or the file of the answer cannot be opened.  The callback has a pointer to a
\* variable of boincSchedulerDownload, which is gone when the next call is made.
CallbackIsReset == attached => unsent
=============================================================================
