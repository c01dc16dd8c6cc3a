-------------------------- MODULE BoincProxyUpload --------------------------
(***************************************************************************)
(* The upload of a result (boincSchedulerUpload, boincProxyUploadFile):    *)
(* for each file an announcement is posted, then a header and the file in  *)
(* one body, and the answer is parsed.  A failure anywhere goes back to    *)
(* the scheduler, which starts again with the first file, or gives the     *)
(* work unit up when the error is one of files and it was not the first.   *)
(*                                                                         *)
(* A post hands its files to libcurl through a read callback that is       *)
(* called with a buffer; the files, their sizes and the position are in    *)
(* a BoincProxyPostData: data.  A file is its length, the body the list    *)
(* of bytes <<number of the file, position>> that libcurl got.             *)
(***************************************************************************)
EXTENDS Integers, Sequences, SequencesExt

CONSTANTS
    DataLengths, \* of the files of the result, a sequence
    Headers,     \* the lengths that the header files may have
    Buffer,      \* how much libcurl asks for in one call (16384)
    Word,        \* sizes are counted in unsigned int (2^32)
    UploadTries, \* tries before a file error gives the work unit up (10)
    MaxGarbled,  \* bound: unparsable answers
    Faults

FaultKinds == {
    "network", \* no connection (or no URL for it), it breaks, or HTTP error
    "open",    \* a file cannot be opened
    "data",    \* a file of the result is not there
    "refused", \* the server refuses the file and says why
    "silent",  \* ... and does not say why
    "garbled"} \* the answer is not XML

ASSUME LengthsAssumption ==
    /\ DataLengths \in Seq(Nat)
    /\ Headers \subseteq Nat \ {0}
ASSUME BufferAssumption == {Buffer, Word} \subseteq Nat \ {0}
ASSUME TriesAssumption == UploadTries \in Nat
ASSUME BoundAssumption == MaxGarbled \in Nat
ASSUME FaultsAssumption == Faults \subseteq FaultKinds

VARIABLES
    step,    \* where boincProxyUploadFile is
    file,    \* which file of the result is being uploaded
    header,  \* the length of the header files
    data,    \* the BoincProxyPostData of the post under way
    curl,    \* sending, or how the body ended
    body,    \* the bytes handed to libcurl in this post
    handles, \* open FILE handles
    error,   \* the code of the last error: "file" is kBoincFileSystem
    tries,   \* of the Uploading event, counted up to UploadTries
    cut,     \* history: in this post a file could not be opened
    garbled, \* history: unparsable answers
    stored,  \* history: files the server has, whole
    unsaid   \* history: files the server refused without a message

event == <<error, tries>>
history == <<garbled, stored, unsaid>>
vars == <<step, file, header, data, curl, body, handles, cut, event, history>>

Files == DOMAIN DataLengths
Closed == -1

Total(lengths) == FoldSeq(LAMBDA n, sum : n + sum, 0, lengths)

\* The files one after the other.
Concatenation(lengths) ==
    FlattenSeq([k \in DOMAIN lengths |-> [p \in 1..lengths[k] |-> <<k, p>>]])
-----------------------------------------------------------------------------
(* One post *)

NoPost == [lengths |-> << >>, fileOffset |-> 0, fh |-> Closed,
           bytesRead |-> 0, contentLength |-> 0]

\* A slip: the record of the last post is used again.
StartPostWithOldOffset(lengths) ==
    /\ data' = [data EXCEPT !.lengths = lengths, !.bytesRead = 0,
                            !.contentLength = Total(lengths) % Word]
    /\ curl' = "sending"
    /\ body' = << >>
    /\ cut' = FALSE

StartPost(lengths) ==
    /\ data' = [NoPost EXCEPT !.lengths = lengths,
                              !.contentLength = Total(lengths) % Word]
    /\ curl' = "sending"
    /\ body' = << >>
    /\ cut' = FALSE

Sending == step \in {"announcing", "posting"} /\ curl = "sending"
InFile == data.fh # Closed
FilesLeft == data.fileOffset < Len(data.lengths)
Available(d) == d.lengths[d.fileOffset] - d.fh

Opened == IF InFile THEN data ELSE [data EXCEPT !.fileOffset = @ + 1, !.fh = 0]

\* A slip: the end of the file is noticed one call later.
EndsAtEmptyRead(n) == n = 0

\* fread says that the file ended only when it wanted more than there was.
EndsFile(n) == n < Buffer

\* A slip: the count is wider than the size it is compared with.
CountedWide(n) == data.bytesRead + n

Counted(n) == (data.bytesRead + n) % Word

\* boincProxyPostCallback with a file to read from.  An empty read ends the body,
\* whatever files are left.
CallbackReads ==
    /\ Sending
    /\ InFile \/ FilesLeft
    /\ LET d == Opened
           n == IF Available(d) < Buffer THEN Available(d) ELSE Buffer
           end == EndsFile(n)
       IN  /\ data' = [d EXCEPT !.fh = IF end THEN Closed ELSE @ + n,
                                !.bytesRead = Counted(n)]
           /\ body' = body \o [p \in 1..n |-> <<d.fileOffset, d.fh + p>>]
           /\ handles' = handles + (IF InFile THEN 0 ELSE 1) - (IF end THEN 1 ELSE 0)
           /\ curl' = IF n = 0 THEN "ended" ELSE "sending"
    /\ UNCHANGED <<step, file, header, cut, event, history>>

\* The callback has no way to say that a file cannot be opened: it ends the body.
CallbackCannotOpen ==
    /\ Sending /\ ~InFile /\ FilesLeft
    /\ "open" \in Faults
    /\ data' = [data EXCEPT !.fileOffset = @ + 1]
    /\ curl' = "ended"
    /\ cut' = TRUE
    /\ UNCHANGED <<step, file, header, body, handles, event, history>>

CallbackAtEnd ==
    /\ Sending /\ ~InFile /\ ~FilesLeft
    /\ curl' = "ended"
    /\ UNCHANGED <<step, file, header, data, body, handles, cut, event, history>>

\* libcurl need not ask for more than the content length it was told.
CurlHasAll ==
    /\ Sending /\ Len(body) >= data.contentLength
    /\ curl' = "ended"
    /\ UNCHANGED <<step, file, header, data, body, handles, cut, event, history>>

ConnectionBreaks ==
    /\ Sending
    /\ "network" \in Faults
    /\ curl' = "failed"
    /\ UNCHANGED <<step, file, header, data, body, handles, cut, event, history>>

\* A slip: the callback is trusted to have closed the file.
LeaveOpen == UNCHANGED <<data, handles>>

\* boincProxyPost closes what the callback left open.
CloseFile ==
    /\ data' = [data EXCEPT !.fh = Closed]
    /\ handles' = handles - (IF InFile THEN 1 ELSE 0)

\* The server got as many bytes as it was promised; a request that stops short of
\* its Content-Length gets no answer but an error.
Delivered == curl = "ended" /\ Len(body) >= data.contentLength

\* It got the files, and was promised no less: the sum of the sizes may wrap.
IsWhole == body = Concatenation(data.lengths) /\ data.contentLength = Len(body)
-----------------------------------------------------------------------------
(* The upload *)

GoOn(next) == step' = next /\ UNCHANGED <<file, event>>
Fail(code) == step' = "failed" /\ error' = code /\ UNCHANGED <<file, tries>>

\* The file with the announcement is written without a look at its handle.
Announce ==
    /\ step = "file" /\ file \in Files
    /\ \/ GoOn("announcing") /\ StartPost(<<header>>)
       \/ "open" \in Faults /\ GoOn("crashed") /\ UNCHANGED <<data, curl, body, cut>>
    /\ UNCHANGED <<header, handles, history>>

\* What the server says to the announcement is not looked at.
Announced ==
    /\ step = "announcing" /\ Delivered
    /\ CloseFile
    /\ GoOn("announced")
    /\ UNCHANGED <<header, curl, body, cut, history>>

\* What the server keeps of a body it accepts: the file if it got the file.
Accepted == IF IsWhole THEN stored \cup {file} ELSE stored

\* A post that was cut short fails; any other may, though the server has stored
\* the file.
PostFails ==
    /\ step \in {"announcing", "posting"} /\ curl # "sending"
    /\ ~Delivered \/ "network" \in Faults
    /\ CloseFile
    /\ Fail("other")
    /\ \/ UNCHANGED stored
       \/ step = "posting" /\ Delivered /\ stored' = Accepted
    /\ UNCHANGED <<header, curl, body, cut, garbled, unsaid>>

\* stat and md5 of the file, then the header of the upload.
PostData ==
    /\ step = "announced"
    /\ GoOn("posting") /\ StartPost(<<header, DataLengths[file]>>)
    /\ UNCHANGED <<header, handles, history>>

PostDataFails ==
    /\ step = "announced"
    /\ {"open", "data"} \cap Faults # {}
    /\ Fail("file")
    /\ UNCHANGED <<header, data, curl, body, handles, cut, history>>

Answered == step = "posting" /\ Delivered /\ CloseFile

NextFile == step' = "file" /\ file' = file + 1 /\ UNCHANGED event

\* A slip: the answer is not looked at, as that of the announcement.
RefusalUnread ==
    /\ Answered
    /\ "refused" \in Faults
    /\ NextFile
    /\ UNCHANGED <<header, curl, body, cut, history>>

Stored ==
    /\ Answered
    /\ stored' = Accepted
    /\ NextFile
    /\ UNCHANGED <<header, curl, body, cut, garbled, unsaid>>

\* A status other than 0, and then a message: only the message makes it an error.
\* Its code is the status, which may be the number of kBoincFileSystem.
Refused ==
    /\ Answered
    /\ "refused" \in Faults
    /\ Fail("file") \/ Fail("other")
    /\ UNCHANGED <<header, curl, body, cut, history>>

\* A status other than 0 and no message, or an empty one: taken for success.
RefusedSilently ==
    /\ Answered
    /\ "silent" \in Faults
    /\ unsaid' = unsaid \cup {file}
    /\ NextFile
    /\ UNCHANGED <<header, curl, body, cut, garbled, stored>>

\* boincXMLParse returns the error without closing the file.
Garbled ==
    /\ step = "posting" /\ Delivered
    /\ "garbled" \in Faults /\ garbled < MaxGarbled
    /\ data' = [data EXCEPT !.fh = Closed]
    /\ handles' = handles - (IF InFile THEN 1 ELSE 0) + 1
    /\ garbled' = garbled + 1
    /\ stored' \in {stored, Accepted}
    /\ Fail("other")
    /\ UNCHANGED <<header, curl, body, cut, unsaid>>

\* The failure is one of files, and not among the first.
IsLastTry == error = "file" /\ tries >= UploadTries

\* The scheduler puts the Uploading event back and handles it again.
Retry ==
    /\ step = "failed" /\ ~IsLastTry
    /\ step' = "file" /\ file' = 1
    /\ tries' = IF tries < UploadTries THEN tries + 1 ELSE tries
    /\ UNCHANGED <<header, data, curl, body, handles, error, cut, history>>

\* The work unit is Failed (BoincScheduler, UploadGivesUp).
GiveUp ==
    /\ step = "failed" /\ IsLastTry
    /\ GoOn("givenup")
    /\ UNCHANGED <<header, data, curl, body, handles, cut, history>>

\* boincSchedulerUpload has gone through the list: Completed is posted.
Finish ==
    /\ step = "file" /\ file \notin Files
    /\ GoOn("done")
    /\ UNCHANGED <<header, data, curl, body, handles, cut, history>>
-----------------------------------------------------------------------------
Init ==
    /\ step = "file" /\ file = 1
    /\ header \in Headers
    /\ data = NoPost /\ curl = "ended" /\ body = << >>
    /\ error = "none" /\ tries = 0
    /\ handles = 0 /\ cut = FALSE /\ garbled = 0
    /\ stored = {} /\ unsaid = {}

Progress ==
    \/ CallbackReads \/ CallbackAtEnd \/ CurlHasAll
    \/ Announce \/ Announced \/ PostData \/ Stored \/ PostFails
    \/ Retry \/ GiveUp \/ Finish

Next ==
    \/ Progress
    \/ CallbackCannotOpen \/ ConnectionBreaks
    \/ PostDataFails \/ Refused \/ RefusedSilently \/ Garbled

Spec == Init /\ [][Next]_vars
-----------------------------------------------------------------------------
(* Safety *)

\* The types of BoincProxyPostData and of the loop over the files.
TypeOK ==
    /\ step \in {"file", "announcing", "announced", "posting", "failed",
                "done", "givenup", "crashed"}
    /\ file \in 1..Len(DataLengths) + 1
    /\ header \in Headers
    /\ data \in [lengths : Seq(Nat), fileOffset : Nat, fh : Nat \cup {Closed},
                 bytesRead : 0..Word - 1, contentLength : 0..Word - 1]
    /\ data.fh # Closed => data.fileOffset \in DOMAIN data.lengths
    /\ curl \in {"sending", "ended", "failed"}
    /\ body \in Seq(Nat \X Nat)
    /\ error \in {"none", "file", "other"} /\ tries \in 0..UploadTries
    /\ cut \in BOOLEAN
    /\ {handles, garbled} \subseteq Nat
    /\ stored \subseteq Files /\ unsaid \subseteq Files

\* What libcurl gets is the files, each once, in their order, without a byte too
\* many or one left out, however the buffer cuts them.
BodyInOrder == IsPrefix(body, Concatenation(data.lengths))

Fits(lengths) == Total(lengths) < Word

\* No file but the last ends exactly where a buffer does.
Unaligned(lengths) == \A k \in 1..Len(lengths) - 1 : lengths[k] % Buffer # 0

\* When the callback says that the body ended ("Returning 0 will signal
\* end-of-file to the library", BoincHttp.h:66), the body is complete, but for
\* three limits: a file could not be opened (the callback can only return 0, as at
\* the end), a file before the last one fills its last buffer (the empty read at
\* its end cuts off the files behind it), or the sizes add up to more than a Word.
EndsWhole ==
    curl = "ended" /\ ~cut /\ Unaligned(data.lengths) /\ Fits(data.lengths) => IsWhole

FitsWithHeader(f) == Fits(<<header, DataLengths[f]>>)

\* A result counts as uploaded only when the server has each of its files whole,
\* or refused it without a message; a file whose size with that of its header does
\* not fit a Word is excepted, for libcurl stops at the length that wrapped.
UploadedIsStored ==
    step = "done" => \A f \in Files : FitsWithHeader(f) => f \in stored \cup unsaid

\* Between two posts no file is open, whatever went wrong before, but for the one
\* that each unparsable answer costs.
HandlesAreClosed ==
    step \notin {"announcing", "posting"} => handles = garbled
-----------------------------------------------------------------------------
(* Liveness *)

Trouble ==
    \/ CallbackCannotOpen \/ ConnectionBreaks \/ PostDataFails
    \/ Refused \/ RefusedSilently \/ Garbled
    \/ Announce /\ step' = "crashed"
    \/ PostFails /\ Delivered

FairSpec == Spec /\ WF_vars(Progress)

CanBeSent ==
    \A f \in Files : Unaligned(<<header, DataLengths[f]>>) /\ FitsWithHeader(f)

\* When things stop going wrong, the upload gets through in the end, whatever
\* state the failures left, if no body meets the limits of EndsWhole: unless the
\* scheduler has given the work unit up, which takes a file error (or a status of
\* the server with its number) after UploadTries failures, or the process crashed.
GetsThrough ==
    (<>[][~Trouble]_vars /\ CanBeSent) => <>(step \in {"done", "givenup", "crashed"})
=============================================================================
