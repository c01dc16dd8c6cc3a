----------------------- MODULE BoincProxyUploadProofs -----------------------
(***************************************************************************)
(* Proofs about BoincProxyUpload, for any files, header and buffer.        *)
(*                                                                         *)
(* Handles: a file that is open is the one of the post under way.          *)
(*                                                                         *)
(* What boincProxyPostCallback hands to libcurl: BodyInOrder.  A post has  *)
(* one file (the announcement) or two (header and data); Sum is where each *)
(* ends in the body, ByteAt which byte comes at a position.                *)
(*                                                                         *)
(* And when the callback says that the body ended, it has handed over      *)
(* everything: EndsWhole.  The place in a file is a multiple of the        *)
(* buffer, so an empty read comes only at the end of a file that fills its *)
(* last buffer, and Unaligned says that this can only be the last file.    *)
(* A body with as many bytes as were promised is then the file, so that    *)
(* the loop leaves behind only files that the server has: UploadedIsStored.*)
(***************************************************************************)
EXTENDS BoincProxyUpload, SequenceTheorems, TLAPS

Uploading == step \in {"announcing", "announced", "posting"}

\* The loop over the files is at one of them while it uploads.
UploadInv ==
    /\ file \in 1..Len(DataLengths) + 1
    /\ Uploading => file \in Files
    /\ step = "done" => file \notin Files

\* An open file belongs to the post under way; each unparsable answer has cost one.
HandleInv ==
    /\ "fh" \in DOMAIN data /\ "fileOffset" \in DOMAIN data
    /\ data.fh \in Nat \cup {Closed}
    /\ handles \in Int /\ garbled \in Int
    /\ handles = garbled + (IF InFile THEN 1 ELSE 0)
    /\ InFile => step \in {"announcing", "posting"}
-----------------------------------------------------------------------------
(* The loop over the files *)

LEMMA FilesAreNumbered == Files = 1..Len(DataLengths) /\ Len(DataLengths) \in Nat
BY LengthsAssumption DEF Files

LEMMA UploadInit == Init => UploadInv
BY FilesAreNumbered DEF Init, UploadInv, Uploading

LEMMA UploadNext == UploadInv /\ [Next]_vars => UploadInv'
<1> SUFFICES ASSUME UploadInv, [Next]_vars PROVE UploadInv'
    OBVIOUS
<1>1. CASE CallbackReads \/ CallbackAtEnd \/ CurlHasAll \/ CallbackCannotOpen \/ ConnectionBreaks
    <2>1. UNCHANGED <<step, file>>
        BY <1>1 DEF CallbackReads, CallbackAtEnd, CurlHasAll, CallbackCannotOpen, ConnectionBreaks
    <2> QED
        BY <2>1 DEF UploadInv, Uploading, Files
<1>2. CASE Announce \/ Announced \/ PostData \/ Finish \/ GiveUp
    BY <1>2 DEF Announce, Announced, PostData, Finish, GiveUp, GoOn, UploadInv, Uploading, Files
<1>3. CASE PostFails \/ PostDataFails \/ Refused \/ Garbled
    BY <1>3 DEF PostFails, PostDataFails, Refused, Garbled, Fail, UploadInv, Uploading, Files
<1>4. CASE Stored \/ RefusedSilently
    BY <1>4, FilesAreNumbered
       DEF Stored, RefusedSilently, Answered, NextFile, UploadInv, Uploading, Files
<1>5. CASE Retry
    BY <1>5, FilesAreNumbered DEF Retry, UploadInv, Uploading, Files
<1>6. CASE UNCHANGED vars
    BY <1>6 DEF vars, UploadInv, Uploading, Files
<1> QED
    BY <1>1, <1>2, <1>3, <1>4, <1>5, <1>6 DEF Next, Progress
-----------------------------------------------------------------------------
(* Open files *)

LEMMA HandleInit == Init => HandleInv
BY DEF Init, HandleInv, NoPost, InFile, Closed

LEMMA ReadKeepsHandles == HandleInv /\ CallbackReads => HandleInv'
<1> SUFFICES ASSUME HandleInv, CallbackReads PROVE HandleInv'
    OBVIOUS
<1> DEFINE d == Opened
           n == IF Available(d) < Buffer THEN Available(d) ELSE Buffer
<1>1. "fh" \in DOMAIN d /\ "fileOffset" \in DOMAIN d /\ d.fh \in Nat
    BY DEF HandleInv, Opened, InFile, Closed
<1>2. ~EndsFile(n) => n = Buffer
    BY DEF EndsFile
<1>3. /\ data' = [d EXCEPT !.fh = IF EndsFile(n) THEN Closed ELSE @ + n, !.bytesRead = Counted(n)]
      /\ handles' = handles + (IF InFile THEN 0 ELSE 1) - (IF EndsFile(n) THEN 1 ELSE 0)
      /\ UNCHANGED <<step, garbled>>
      /\ step \in {"announcing", "posting"}
    BY DEF CallbackReads, Sending, history
<1>4. DOMAIN data' = DOMAIN d
    BY <1>3
<1>5. data'.fh = IF EndsFile(n) THEN Closed ELSE d.fh + n
    BY <1>1, <1>3
<1> HIDE DEF d, n
<1>6. data'.fh \in Nat \cup {Closed} /\ (data'.fh = Closed <=> EndsFile(n))
    BY <1>1, <1>2, <1>5, BufferAssumption DEF Closed
<1>7. handles' = garbled' + (IF InFile' THEN 1 ELSE 0) /\ handles' \in Int /\ garbled' \in Int
    BY <1>3, <1>6 DEF HandleInv, InFile
<1> QED
    BY <1>1, <1>3, <1>4, <1>6, <1>7 DEF HandleInv

\* boincProxyPost closes what is open, and then a step of boincProxyUploadFile.
LEMMA CloseKeepsHandles ==
    ASSUME HandleInv, data' = [data EXCEPT !.fh = Closed], garbled' \in Int,
           handles' = handles - (IF InFile THEN 1 ELSE 0) + (garbled' - garbled)
    PROVE  HandleInv'
<1>1. DOMAIN data' = DOMAIN data /\ data'.fh = Closed
    BY DEF HandleInv
<1> QED
    BY <1>1 DEF HandleInv, InFile, Closed

\* A new post starts with nothing open.
LEMMA StartKeepsHandles ==
    ASSUME HandleInv, ~InFile, NEW lengths, StartPost(lengths), UNCHANGED <<handles, garbled>>
    PROVE  HandleInv'
<1>1. DOMAIN data' = DOMAIN NoPost /\ data'.fh = Closed
    BY DEF StartPost, NoPost
<1> QED
    BY <1>1 DEF HandleInv, InFile, Closed, NoPost

LEMMA HandleNext == HandleInv /\ [Next]_vars => HandleInv'
<1> SUFFICES ASSUME HandleInv, [Next]_vars PROVE HandleInv'
    OBVIOUS
<1> USE DEF history
<1>1. CASE CallbackReads
    BY <1>1, ReadKeepsHandles
<1>2. CASE CallbackCannotOpen
    BY <1>2 DEF CallbackCannotOpen, HandleInv, InFile
<1>3. CASE CallbackAtEnd \/ CurlHasAll \/ ConnectionBreaks
    BY <1>3 DEF CallbackAtEnd, CurlHasAll, ConnectionBreaks, HandleInv, InFile
<1>4. CASE Announce
    <2>1. ~InFile
        BY <1>4 DEF Announce, HandleInv
    <2>2. CASE StartPost(<<header>>)
        BY <1>4, <2>1, <2>2, StartKeepsHandles DEF Announce
    <2>3. CASE UNCHANGED <<data, curl, body, cut>>
        BY <1>4, <2>1, <2>3 DEF Announce, HandleInv, InFile
    <2> QED
        BY <1>4, <2>2, <2>3 DEF Announce
<1>5. CASE PostData
    BY <1>5, StartKeepsHandles DEF PostData, HandleInv
<1>6. CASE Announced \/ PostFails \/ Stored \/ Refused \/ RefusedSilently
    BY <1>6, CloseKeepsHandles
       DEF Announced, PostFails, Stored, Refused, RefusedSilently, Answered, CloseFile, HandleInv
<1>7. CASE Garbled
    BY <1>7, CloseKeepsHandles DEF Garbled, HandleInv
<1>8. CASE PostDataFails \/ Retry \/ GiveUp \/ Finish
    BY <1>8 DEF PostDataFails, Retry, GiveUp, Finish, Fail, GoOn, HandleInv, InFile
<1>9. CASE UNCHANGED vars
    BY <1>9 DEF vars, HandleInv, InFile
<1> QED
    BY <1>1, <1>2, <1>3, <1>4, <1>5, <1>6, <1>7, <1>8, <1>9 DEF Next, Progress

\* No failure of an upload leaves a file open, but for an answer that does not
\* parse, whatever the lengths of the files and the buffer are.
THEOREM FilesAreClosed == Spec => []HandlesAreClosed
<1>1. HandleInv => HandlesAreClosed
    BY DEF HandleInv, HandlesAreClosed
<1> QED
    BY HandleInit, HandleNext, <1>1, PTL DEF Spec
-----------------------------------------------------------------------------
(* The body of a post *)

Bytes == Nat \X Nat

Sum(lengths, k) ==
    IF k = 0 THEN 0 ELSE IF k = 1 THEN lengths[1] ELSE lengths[1] + lengths[2]

Size(lengths) == Sum(lengths, Len(lengths))

ByteAt(lengths, q) == IF q <= lengths[1] THEN <<1, q>> ELSE <<2, q - lengths[1]>>

IsPost(lengths) == lengths \in Seq(Nat) /\ Len(lengths) <= 2

\* The position in the files, and with it the length of the body.
DataInv ==
    /\ {"lengths", "fileOffset", "fh"} \subseteq DOMAIN data
    /\ IsPost(data.lengths)
    /\ data.fileOffset \in 0..Len(data.lengths)
    /\ data.fh \in Nat \cup {Closed}
    /\ InFile => data.fileOffset # 0 /\ data.fh <= data.lengths[data.fileOffset]

Position == IF InFile THEN Sum(data.lengths, data.fileOffset - 1) + data.fh
            ELSE Sum(data.lengths, data.fileOffset)

ByteInv ==
    /\ body \in Seq(Bytes)
    /\ Len(body) <= Size(data.lengths)
    /\ \A q \in 1..Len(body) : body[q] = ByteAt(data.lengths, q)

BodyInv ==
    /\ header \in Headers
    /\ DataInv
    /\ ByteInv
    /\ curl = "sending" => Len(body) = Position
-----------------------------------------------------------------------------
(* The concatenation of at most two files *)

LEMMA FlattenOne ==
    ASSUME NEW seqs, Len(seqs) = 1
    PROVE  FlattenSeq(seqs) = seqs[1]
<1> DEFINE Flat(f) == f = [i \in 1..Len(seqs) |-> IF i = 1 THEN seqs[i] ELSE f[i - 1] \o seqs[i]]
           g == [i \in 1..Len(seqs) |-> seqs[i]]
<1>1. FlattenSeq(seqs) = (CHOOSE f : Flat(f))[Len(seqs)]
    BY DEF FlattenSeq
<1>2. Flat(g)
    <2>1. g = [i \in 1..1 |-> seqs[i]]
        OBVIOUS
    <2>2. \A i \in 1..1 : i = 1
        OBVIOUS
    <2> HIDE DEF g
    <2> QED
        BY <2>1, <2>2
<1> HIDE DEF Flat
<1>3. Flat(CHOOSE f : Flat(f))
    BY <1>2, Zenon
<1> DEFINE h == CHOOSE f : Flat(f)
<1>4. Flat(h)
    BY <1>3
<1> HIDE DEF h
<1>5. h[1] = seqs[1]
    BY <1>4 DEF Flat
<1> QED
    BY <1>1, <1>5 DEF h

LEMMA FlattenTwo ==
    ASSUME NEW seqs, Len(seqs) = 2
    PROVE  FlattenSeq(seqs) = seqs[1] \o seqs[2]
<1> DEFINE Flat(f) == f = [i \in 1..Len(seqs) |-> IF i = 1 THEN seqs[i] ELSE f[i - 1] \o seqs[i]]
           g == [i \in 1..Len(seqs) |-> IF i = 1 THEN seqs[i] ELSE seqs[1] \o seqs[2]]
<1>1. FlattenSeq(seqs) = (CHOOSE f : Flat(f))[Len(seqs)]
    BY DEF FlattenSeq
<1>2. Flat(g)
    <2>1. g = [i \in 1..2 |-> IF i = 1 THEN seqs[i] ELSE seqs[1] \o seqs[2]]
        OBVIOUS
    <2>2. \A i \in 1..2 : i # 1 => i = 2 /\ g[i - 1] = seqs[1]
        OBVIOUS
    <2>3. \A i \in 1..2 : (IF i = 1 THEN seqs[i] ELSE seqs[1] \o seqs[2])
                        = (IF i = 1 THEN seqs[i] ELSE g[i - 1] \o seqs[i])
        BY <2>2
    <2> HIDE DEF g
    <2> QED
        BY <2>1, <2>3
<1> HIDE DEF Flat
<1>3. Flat(CHOOSE f : Flat(f))
    BY <1>2, Zenon
<1> DEFINE h == CHOOSE f : Flat(f)
<1>4. Flat(h)
    BY <1>3
<1> HIDE DEF h
<1>5. h[1] = seqs[1] /\ h[2] = h[1] \o seqs[2]
    BY <1>4 DEF Flat
<1> QED
    BY <1>1, <1>5 DEF h

LEMMA PostLength ==
    ASSUME NEW lengths, IsPost(lengths)
    PROVE  /\ Len(lengths) \in Nat
           /\ Len(lengths) = 0 \/ Len(lengths) = 1 \/ Len(lengths) = 2
<1> DEFINE n == Len(lengths)
<1>1. n \in Nat /\ n <= 2
    BY LenProperties DEF IsPost
<1> HIDE DEF n
<1>2. n = 0 \/ n = 1 \/ n = 2
    BY <1>1
<1> QED
    BY <1>1, <1>2 DEF n

\* A run of bytes of one file.
Run(k, m, n) == [p \in 1..n |-> <<k, m + p>>]

LEMMA RunProperties ==
    ASSUME NEW k \in Nat, NEW m \in Nat, NEW n \in Nat
    PROVE  /\ Run(k, m, n) \in Seq(Bytes) /\ Len(Run(k, m, n)) = n
           /\ \A p \in 1..n : Run(k, m, n)[p] = <<k, m + p>>
<1>1. Len(Run(k, m, n)) = n /\ \A p \in 1..n : Run(k, m, n)[p] = <<k, m + p>>
    BY DEF Run
<1>2. Run(k, m, n) \in [1..n -> Bytes]
    BY DEF Run, Bytes
<1> QED
    BY <1>1, <1>2, SeqDef

\* Each file starts in the body where those before it end.
LEMMA SumProperties ==
    ASSUME NEW lengths, IsPost(lengths), NEW k \in 1..Len(lengths)
    PROVE  /\ lengths[k] \in Nat /\ Sum(lengths, k - 1) \in Nat
           /\ Sum(lengths, k) = Sum(lengths, k - 1) + lengths[k]
           /\ Sum(lengths, k) <= Size(lengths)
           /\ \A p \in 1..lengths[k] : ByteAt(lengths, Sum(lengths, k - 1) + p) = <<k, p>>
<1>1. \A j \in 1..Len(lengths) : lengths[j] \in Nat
    BY DEF IsPost
<1>2. CASE k = 1
    BY <1>1, <1>2, PostLength DEF Sum, Size, ByteAt
<1>3. CASE k = 2
    <2>1. lengths[1] \in Nat /\ lengths[2] \in Nat /\ Len(lengths) = 2
        BY <1>1, <1>3, PostLength
    <2>2. Sum(lengths, k - 1) = lengths[1] /\ Sum(lengths, k) = lengths[1] + lengths[2]
        BY <1>3 DEF Sum
    <2>3. Size(lengths) = lengths[1] + lengths[2]
        BY <2>1 DEF Size, Sum
    <2>4. ASSUME NEW p \in 1..lengths[2] PROVE ByteAt(lengths, lengths[1] + p) = <<2, p>>
        <3>1. ~(lengths[1] + p <= lengths[1]) /\ (lengths[1] + p) - lengths[1] = p
            BY <2>1
        <3> QED
            BY <3>1 DEF ByteAt
    <2> QED
        BY <1>3, <2>1, <2>2, <2>3, <2>4
<1>4. k = 1 \/ k = 2
    <2>1. CASE Len(lengths) = 0
        BY <2>1
    <2>2. CASE Len(lengths) = 1
        BY <2>2
    <2>3. CASE Len(lengths) = 2
        BY <2>3
    <2> QED
        BY <2>1, <2>2, <2>3, PostLength
<1> QED
    BY <1>2, <1>3, <1>4

\* What the server is promised, byte by byte.
LEMMA ConcatenationProperties ==
    ASSUME NEW lengths, IsPost(lengths)
    PROVE  /\ Concatenation(lengths) \in Seq(Bytes)
           /\ Len(Concatenation(lengths)) = Size(lengths)
           /\ \A q \in 1..Size(lengths) : Concatenation(lengths)[q] = ByteAt(lengths, q)
<1> DEFINE Row(k) == [p \in 1..lengths[k] |-> <<k, p>>]
           rows == [k \in DOMAIN lengths |-> Row(k)]
<1>1. Concatenation(lengths) = FlattenSeq(rows)
    BY DEF Concatenation
<1>2. DOMAIN lengths = 1..Len(lengths) /\ \A k \in 1..Len(lengths) : lengths[k] \in Nat
    BY DEF IsPost
<1>3. ASSUME NEW k \in 1..Len(lengths)
      PROVE  /\ Row(k) \in Seq(Bytes) /\ Len(Row(k)) = lengths[k]
             /\ \A p \in 1..lengths[k] : Row(k)[p] = <<k, p>>
    <2>1. k \in Nat /\ lengths[k] \in Nat
        BY <1>2 DEF IsPost
    <2>2. Row(k) = Run(k, 0, lengths[k])
        BY DEF Run
    <2>3. \A p \in 1..lengths[k] : Row(k)[p] = <<k, p>>
        OBVIOUS
    <2> HIDE DEF Row
    <2> QED
        <3>1. Run(k, 0, lengths[k]) \in Seq(Bytes) /\ Len(Run(k, 0, lengths[k])) = lengths[k]
            BY <2>1, RunProperties
        <3> QED
            BY <2>2, <2>3, <3>1
<1> HIDE DEF Row
<1>4. /\ Len(rows) = Len(lengths)
      /\ \A k \in 1..Len(lengths) : rows[k] = Row(k)
    BY <1>2 DEF IsPost
<1>5. rows \in Seq(Seq(Bytes))
    BY <1>2, <1>3 DEF IsPost
<1> HIDE DEF rows
<1>6. CASE Len(lengths) = 0
    <2>1. rows = << >>
        BY <1>4, <1>5, <1>6
    <2>2. FlattenSeq(rows) = rows
        BY <1>4, <1>6 DEF FlattenSeq
    <2>3. Size(lengths) = 0
        BY <1>6 DEF Size, Sum
    <2>4. Concatenation(lengths) = << >> /\ << >> \in Seq(Bytes) /\ Len(<< >>) = 0
        BY <1>1, <2>1, <2>2, EmptySeq
    <2>5. 1..Size(lengths) = {}
        BY <2>3
    <2> QED
        BY <2>3, <2>4, <2>5
<1>7. CASE Len(lengths) = 1
    <2>1. rows[1] = Row(1) /\ Len(rows) = 1
        BY <1>4, <1>7
    <2>2. Concatenation(lengths) = Row(1)
        BY <1>1, <2>1, FlattenOne
    <2>3. /\ Row(1) \in Seq(Bytes) /\ Len(Row(1)) = lengths[1]
          /\ \A p \in 1..lengths[1] : Row(1)[p] = <<1, p>>
        BY <1>3, <1>7
    <2>4. Size(lengths) = lengths[1] /\ \A q \in 1..lengths[1] : ByteAt(lengths, q) = <<1, q>>
        BY <1>2, <1>7 DEF Size, Sum, ByteAt
    <2> QED
        BY <2>2, <2>3, <2>4
<1>8. CASE Len(lengths) = 2
    <2>1. rows[1] = Row(1) /\ rows[2] = Row(2) /\ Len(rows) = 2
        BY <1>4, <1>8
    <2>2. Concatenation(lengths) = Row(1) \o Row(2)
        BY <1>1, <2>1, FlattenTwo
    <2>3. /\ Row(1) \in Seq(Bytes) /\ Len(Row(1)) = lengths[1]
          /\ \A p \in 1..lengths[1] : Row(1)[p] = <<1, p>>
        BY <1>3, <1>8
    <2>4. /\ Row(2) \in Seq(Bytes) /\ Len(Row(2)) = lengths[2]
          /\ \A p \in 1..lengths[2] : Row(2)[p] = <<2, p>>
        BY <1>3, <1>8
    <2>5. Size(lengths) = lengths[1] + lengths[2] /\ lengths[1] \in Nat /\ lengths[2] \in Nat
        BY <1>2, <1>8 DEF Size, Sum
    <2>6. /\ Row(1) \o Row(2) \in Seq(Bytes)
          /\ Len(Row(1) \o Row(2)) = lengths[1] + lengths[2]
          /\ \A q \in 1..lengths[1] + lengths[2] : (Row(1) \o Row(2))[q] =
                IF q <= lengths[1] THEN Row(1)[q] ELSE Row(2)[q - lengths[1]]
        <3>1. /\ Row(1) \o Row(2) \in Seq(Bytes)
              /\ Len(Row(1) \o Row(2)) = Len(Row(1)) + Len(Row(2))
              /\ \A q \in 1..Len(Row(1)) + Len(Row(2)) : (Row(1) \o Row(2))[q] =
                    IF q <= Len(Row(1)) THEN Row(1)[q] ELSE Row(2)[q - Len(Row(1))]
            BY <2>3, <2>4, ConcatProperties
        <3> QED
            BY <2>3, <2>4, <3>1
    <2>7. ASSUME NEW q \in 1..lengths[1] + lengths[2]
          PROVE  (Row(1) \o Row(2))[q] = ByteAt(lengths, q)
        <3>1. CASE q <= lengths[1]
            BY <2>3, <2>5, <2>6, <3>1 DEF ByteAt
        <3>2. CASE ~(q <= lengths[1])
            <4>1. q - lengths[1] \in 1..lengths[2]
                BY <2>5, <3>2
            <4>2. Row(2)[q - lengths[1]] = <<2, q - lengths[1]>>
                BY <2>4, <4>1
            <4> QED
                BY <2>6, <3>2, <4>2 DEF ByteAt
        <3> QED
            BY <3>1, <3>2
    <2> QED
        BY <2>2, <2>5, <2>6, <2>7
<1> QED
    BY <1>6, <1>7, <1>8, PostLength

LEMMA BytesAreInOrder == DataInv /\ ByteInv => BodyInOrder
<1> SUFFICES ASSUME DataInv, ByteInv PROVE BodyInOrder
    OBVIOUS
<1> DEFINE c == Concatenation(data.lengths)
<1>1. /\ c \in Seq(Bytes) /\ Len(c) = Size(data.lengths)
      /\ \A q \in 1..Size(data.lengths) : c[q] = ByteAt(data.lengths, q)
    BY ConcatenationProperties DEF DataInv
<1> HIDE DEF c
<1>2. Len(body) <= Len(c) /\ body \in Seq(Bytes) /\ Len(body) \in Nat
    BY <1>1 DEF ByteInv
<1>3. \A q \in 1..Len(body) : body[q] = c[q]
    BY <1>1, <1>2 DEF ByteInv
<1>4. SubSeq(body, 1, Len(body)) = SubSeq(c, 1, Len(body))
    BY <1>1, <1>2, <1>3
<1> QED
    BY <1>2, <1>4 DEF BodyInOrder, IsPrefix, c
-----------------------------------------------------------------------------
(* The steps *)

LEMMA BodyInit == Init => BodyInv
BY DEF Init, BodyInv, DataInv, ByteInv, IsPost, NoPost, InFile, Closed, Size, Sum

\* A new post starts with an empty body.
LEMMA StartKeepsBody ==
    ASSUME BodyInv, header' = header, NEW lengths, StartPost(lengths),
           IsPost(lengths)
    PROVE  BodyInv'
<1>1. /\ DOMAIN data' = DOMAIN NoPost
      /\ data'.lengths = lengths /\ data'.fileOffset = 0 /\ data'.fh = Closed
    BY DEF StartPost, NoPost
<1>2. body' = << >>
    BY DEF StartPost
<1>3. DataInv'
    BY <1>1, PostLength DEF DataInv, IsPost, InFile, NoPost
<1>4. Size(lengths) \in Nat
    BY PostLength DEF IsPost, Size, Sum
<1>5. ByteInv'
    BY <1>1, <1>2, <1>4 DEF ByteInv
<1>6. Len(body') = Position'
    BY <1>1, <1>2 DEF Position, InFile, Sum
<1> QED
    BY <1>3, <1>5, <1>6 DEF BodyInv

\* Steps that hand over nothing, after which the post is over.
LEMMA EndKeepsBody ==
    ASSUME BodyInv, UNCHANGED <<header, body>>, curl' # "sending",
           DOMAIN data' = DOMAIN data, data'.lengths = data.lengths,
           data'.fileOffset \in 0..Len(data.lengths),
           data'.fh = Closed \/ UNCHANGED data
    PROVE  BodyInv'
<1>1. DataInv'
    BY DEF BodyInv, DataInv, InFile
<1>2. ByteInv'
    BY DEF BodyInv, ByteInv
<1> QED
    BY <1>1, <1>2 DEF BodyInv

\* The file that a call of the callback reads from, and its place in the body.
LEMMA OpenedProperties ==
    ASSUME BodyInv, CallbackReads
    PROVE  /\ IsPost(data.lengths)
           /\ DOMAIN Opened = DOMAIN data /\ Opened.lengths = data.lengths
           /\ Opened.fileOffset \in 1..Len(data.lengths)
           /\ Opened.fh \in Nat /\ Opened.fh <= data.lengths[Opened.fileOffset]
           /\ Len(body) = Sum(data.lengths, Opened.fileOffset - 1) + Opened.fh
<1> DEFINE d == Opened
           lengths == data.lengths
<1>1. IsPost(lengths) /\ Len(lengths) <= 2 /\ Len(body) = Position
    BY DEF BodyInv, DataInv, IsPost, CallbackReads, Sending
<1>2. CASE InFile
    BY <1>1, <1>2 DEF BodyInv, DataInv, Opened, Position, InFile, Closed
<1>3. CASE ~InFile
    <2>1. data.fileOffset < Len(lengths)
        BY <1>3 DEF CallbackReads, FilesLeft
    <2>2. d = [data EXCEPT !.fileOffset = @ + 1, !.fh = 0]
        BY <1>3 DEF Opened
    <2>3. DOMAIN d = DOMAIN data /\ d.lengths = lengths
          /\ d.fileOffset = data.fileOffset + 1 /\ d.fh = 0
        BY <2>2 DEF BodyInv, DataInv
    <2>4. d.fileOffset \in 1..Len(lengths) /\ lengths[d.fileOffset] \in Nat
        BY <1>1, <2>1, <2>3 DEF BodyInv, DataInv, IsPost
    <2>5. Len(body) = Sum(lengths, data.fileOffset) /\ Len(body) \in Nat
        BY <1>1, <1>3 DEF Position, BodyInv, ByteInv
    <2>6. d.fileOffset - 1 = data.fileOffset
        BY <2>3 DEF BodyInv, DataInv
    <2> QED
        BY <1>1, <2>3, <2>4, <2>5, <2>6
<1> QED
    BY <1>2, <1>3

LEMMA ReadKeepsBody == BodyInv /\ CallbackReads => BodyInv'
<1> SUFFICES ASSUME BodyInv, CallbackReads PROVE BodyInv'
    OBVIOUS
<1> DEFINE d == Opened
           n == IF Available(d) < Buffer THEN Available(d) ELSE Buffer
           lengths == data.lengths
<1>1. IsPost(lengths)
    BY OpenedProperties
<1>2. /\ DOMAIN d = DOMAIN data /\ d.lengths = lengths
      /\ d.fileOffset \in 1..Len(lengths)
      /\ d.fh \in Nat /\ d.fh <= lengths[d.fileOffset]
      /\ Len(body) = Sum(lengths, d.fileOffset - 1) + d.fh
    BY OpenedProperties
<1>3. /\ data' = [d EXCEPT !.fh = IF EndsFile(n) THEN Closed ELSE @ + n, !.bytesRead = Counted(n)]
      /\ body' = body \o [p \in 1..n |-> <<d.fileOffset, d.fh + p>>]
      /\ UNCHANGED header
    BY DEF CallbackReads
<1> DEFINE k == d.fileOffset
           at == d.fh
           start == Sum(lengths, k - 1)
           whole == lengths[k]
<1>4. /\ Available(d) = whole - at
      /\ whole \in Nat /\ at \in Nat /\ start \in Nat
      /\ Sum(lengths, k) = start + whole
      /\ start + whole <= Size(lengths)
      /\ \A p \in 1..whole : ByteAt(lengths, start + p) = <<k, p>>
      /\ at <= whole
      /\ k \in 1..Len(lengths)
      /\ Len(body) = start + at
    BY <1>1, <1>2, SumProperties DEF Available
<1>5. /\ n \in Nat /\ at + n <= whole
      /\ EndsFile(n) => at + n = whole
    <2> HIDE DEF at, whole, d
    <2>1. Buffer \in Nat
        BY BufferAssumption
    <2> QED
        BY <1>4, <2>1 DEF EndsFile
<1> HIDE DEF d, n
<1>6. /\ DOMAIN data' = DOMAIN data /\ data'.lengths = lengths
      /\ data'.fileOffset = k
      /\ data'.fh = IF EndsFile(n) THEN Closed ELSE at + n
    BY <1>2, <1>3 DEF BodyInv, DataInv
<1>7. whole = lengths[k]
    OBVIOUS
<1> HIDE DEF k, at, start, whole
<1>8. k \in Nat /\ k # 0 /\ k \in 0..Len(lengths)
    BY <1>1, <1>4, PostLength
<1>9. DataInv'
    BY <1>1, <1>4, <1>5, <1>6, <1>7, <1>8 DEF DataInv, InFile, Closed, BodyInv
<1> DEFINE new == Run(k, at, n)
<1>10. new \in Seq(Bytes) /\ Len(new) = n /\ \A p \in 1..n : new[p] = <<k, at + p>>
    BY <1>4, <1>5, <1>8, RunProperties
<1>11. body' = body \o new /\ body \in Seq(Bytes) /\ Len(body) \in Nat
    BY <1>3, LenProperties DEF BodyInv, ByteInv, Run, k, at
<1> HIDE DEF new
<1>12. /\ body \o new \in Seq(Bytes)
       /\ Len(body \o new) = Len(body) + Len(new)
       /\ \A q \in 1..Len(body) + Len(new) : (body \o new)[q] =
             IF q <= Len(body) THEN body[q] ELSE new[q - Len(body)]
    BY <1>10, <1>11, ConcatProperties
<1>13. body' \in Seq(Bytes) /\ Len(body') = start + at + n
    BY <1>4, <1>5, <1>10, <1>11, <1>12
<1>14. Len(body') <= Size(lengths)
    <2>1. Size(lengths) \in Nat
        BY <1>1, PostLength DEF IsPost, Size, Sum
    <2> DEFINE size == Size(lengths)
    <2> HIDE DEF size
    <2>2. size \in Nat /\ start + whole <= size
        BY <1>4, <2>1 DEF size
    <2>3. start + at + n <= size
        BY <1>4, <1>5, <2>2
    <2> QED
        BY <1>13, <2>3 DEF size
<1>15. ASSUME NEW q \in 1..Len(body')
       PROVE  body'[q] = ByteAt(lengths, q)
    <2>1. q \in Nat /\ q >= 1 /\ q <= start + at + n
        BY <1>4, <1>5, <1>13
    <2>2. CASE q <= start + at
        <3>1. body'[q] = body[q]
            BY <1>4, <1>5, <1>10, <1>11, <1>12, <2>1, <2>2
        <3>2. q \in 1..Len(body)
            BY <1>4, <2>1, <2>2
        <3> QED
            BY <3>1, <3>2 DEF BodyInv, ByteInv
    <2>3. CASE ~(q <= start + at)
        <3> DEFINE p == q - (start + at)
        <3>1. p \in 1..n /\ q = start + (at + p) /\ at + p \in 1..whole
            BY <1>4, <1>5, <2>1, <2>3
        <3>2. body'[q] = new[p]
            BY <1>4, <1>5, <1>10, <1>11, <1>12, <2>1, <2>3
        <3> HIDE DEF p
        <3>3. body'[q] = <<k, at + p>>
            BY <1>10, <3>1, <3>2
        <3>4. ByteAt(lengths, start + (at + p)) = <<k, at + p>>
            BY <1>4, <3>1
        <3> QED
            BY <3>1, <3>3, <3>4
    <2> QED
        BY <2>2, <2>3
<1>16. ByteInv'
    BY <1>6, <1>13, <1>14, <1>15 DEF ByteInv
<1>17. Len(body') = Position'
    <2>1. CASE EndsFile(n)
        <3>1. Position' = Sum(lengths, k)
            BY <1>6, <2>1 DEF Position, InFile
        <3> QED
            BY <1>4, <1>5, <1>13, <2>1, <3>1
    <2>2. CASE ~EndsFile(n)
        <3>1. data'.fh = at + n /\ data'.fh # Closed
            BY <1>4, <1>5, <1>6, <2>2 DEF Closed
        <3>2. Position' = start + (at + n)
            BY <1>6, <3>1 DEF Position, InFile, start
        <3> QED
            BY <1>4, <1>5, <1>13, <3>2
    <2> QED
        BY <2>1, <2>2
<1> QED
    BY <1>3, <1>9, <1>16, <1>17 DEF BodyInv

LEMMA CloseKeepsBody ==
    ASSUME BodyInv, UNCHANGED <<header, body, curl>>, curl # "sending",
           data' = [data EXCEPT !.fh = Closed]
    PROVE  BodyInv'
<1>1. DOMAIN data' = DOMAIN data /\ data'.lengths = data.lengths
      /\ data'.fileOffset = data.fileOffset /\ data'.fh = Closed
    BY DEF BodyInv, DataInv
<1> QED
    BY <1>1, EndKeepsBody DEF BodyInv, DataInv

LEMMA BodyNext == UploadInv /\ BodyInv /\ [Next]_vars => BodyInv'
<1> SUFFICES ASSUME UploadInv, BodyInv, [Next]_vars PROVE BodyInv'
    OBVIOUS
<1> USE DEF Closed
<1>1. CASE CallbackReads
    BY <1>1, ReadKeepsBody
<1>2. CASE CallbackCannotOpen
    <2>1. /\ DOMAIN data' = DOMAIN data /\ data'.lengths = data.lengths
          /\ data'.fileOffset = data.fileOffset + 1 /\ data'.fh = Closed
        BY <1>2 DEF CallbackCannotOpen, InFile, BodyInv, DataInv
    <2>2. data'.fileOffset \in 0..Len(data.lengths)
        BY <1>2, <2>1 DEF CallbackCannotOpen, FilesLeft, BodyInv, DataInv, IsPost
    <2> QED
        BY <1>2, <2>1, <2>2, EndKeepsBody DEF CallbackCannotOpen
<1>3. CASE CallbackAtEnd \/ CurlHasAll \/ ConnectionBreaks
    BY <1>3, EndKeepsBody DEF CallbackAtEnd, CurlHasAll, ConnectionBreaks, BodyInv, DataInv
<1>4. CASE Announce
    <2>1. CASE StartPost(<<header>>)
        <3>1. IsPost(<<header>>)
            BY LengthsAssumption DEF BodyInv, IsPost
        <3> QED
            BY <1>4, <2>1, <3>1, StartKeepsBody DEF Announce
    <2>2. CASE UNCHANGED <<data, curl, body, cut>>
        BY <1>4, <2>2 DEF Announce, BodyInv, DataInv, ByteInv, Position, InFile
    <2> QED
        BY <1>4, <2>1, <2>2 DEF Announce
<1>5. CASE PostData
    <2>1. file \in Files /\ DataLengths[file] \in Nat
        BY <1>5, LengthsAssumption DEF PostData, UploadInv, Uploading, Files
    <2>2. IsPost(<<header, DataLengths[file]>>)
        BY <2>1, LengthsAssumption DEF BodyInv, IsPost
    <2> QED
        BY <1>5, <2>2, StartKeepsBody DEF PostData
<1>6. CASE Announced \/ PostFails \/ Stored \/ Refused \/ RefusedSilently \/ Garbled
    BY <1>6, CloseKeepsBody
       DEF Announced, PostFails, Stored, Refused, RefusedSilently, Garbled, Answered, Delivered,
           CloseFile
<1>7. CASE PostDataFails \/ Retry \/ GiveUp \/ Finish \/ UNCHANGED vars
    BY <1>7
       DEF PostDataFails, Retry, GiveUp, Finish, vars, BodyInv, DataInv, ByteInv, Position, InFile
<1> QED
    BY <1>1, <1>2, <1>3, <1>4, <1>5, <1>6, <1>7 DEF Next, Progress

\* What libcurl gets is the header and the file, each once, in order, for every
\* length, every buffer and every failure.
THEOREM BodiesAreInOrder == Spec => []BodyInOrder
<1>1. BodyInv => BodyInOrder
    BY BytesAreInOrder DEF BodyInv
<1> QED
    BY UploadInit, UploadNext, BodyInit, BodyNext, <1>1, PTL DEF Spec

-----------------------------------------------------------------------------
(* The end of a body *)

EndInv ==
    /\ "contentLength" \in DOMAIN data
    /\ data.contentLength = Total(data.lengths) % Word
    /\ InFile => \E m \in Nat : data.fh = m * Buffer
    /\ curl = "ended" /\ ~cut /\ Unaligned(data.lengths) /\ Fits(data.lengths)
          => Len(body) = Size(data.lengths)
-----------------------------------------------------------------------------
(* The length that is announced *)

\* boincProxySetPostContentLength adds up what the callback will send.
LEMMA TotalProperties ==
    ASSUME NEW lengths, IsPost(lengths)
    PROVE  Total(lengths) = Size(lengths) /\ Size(lengths) \in Nat
<1> DEFINE S == DOMAIN lengths
           Folds(f) == f = [s \in SUBSET S |-> IF s = {} THEN 0 ELSE
                   lengths[CHOOSE x \in s : TRUE] + f[s \ {CHOOSE x \in s : TRUE}]]
           part(s, k) == IF k \in s THEN lengths[k] ELSE 0
           g == [s \in SUBSET S |-> part(s, 1) + part(s, 2)]
           h == CHOOSE f : Folds(f)
<1>1. Total(lengths) = h[S]
    BY DEF Total, FoldSeq, FoldFunction, FoldFunctionOnSet, MapThenFoldSet
<1>2. S = 1..Len(lengths) /\ \A k \in S : lengths[k] \in Nat /\ k \in {1, 2}
    <2>1. S = 1..Len(lengths) /\ \A k \in S : lengths[k] \in Nat
        BY DEF IsPost
    <2>2. CASE Len(lengths) = 0
        BY <2>1, <2>2
    <2>3. CASE Len(lengths) = 1
        BY <2>1, <2>3
    <2>4. CASE Len(lengths) = 2
        BY <2>1, <2>4
    <2> QED
        BY <2>2, <2>3, <2>4, PostLength
<1> HIDE DEF S
<1>3. ASSUME NEW s \in SUBSET S, NEW x \in s
      PROVE  part(s, 1) + part(s, 2) = lengths[x] + g[s \ {x}]
    <2>1. g[s \ {x}] = part(s \ {x}, 1) + part(s \ {x}, 2)
        OBVIOUS
    <2>2. CASE x = 1
        BY <1>2, <2>1, <2>2
    <2>3. CASE x = 2
        BY <1>2, <2>1, <2>3
    <2> QED
        BY <1>2, <2>2, <2>3
<1>4. part({}, 1) + part({}, 2) = 0
    OBVIOUS
<1>5. Folds(g)
    <2>1. ASSUME NEW s \in SUBSET S
          PROVE  part(s, 1) + part(s, 2) = IF s = {} THEN 0 ELSE
                    lengths[CHOOSE x \in s : TRUE] + g[s \ {CHOOSE x \in s : TRUE}]
        <3>1. CASE s = {}
            BY <1>4, <3>1
        <3>2. CASE s # {}
            <4>1. (CHOOSE x \in s : TRUE) \in s
                BY <3>2
            <4> DEFINE y == CHOOSE x \in s : TRUE
            <4>2. y \in s
                BY <4>1
            <4> HIDE DEF y, g, part
            <4>3. part(s, 1) + part(s, 2) = lengths[y] + g[s \ {y}]
                BY <1>3, <4>2
            <4> QED
                BY <3>2, <4>3 DEF y
        <3> QED
            BY <3>1, <3>2
    <2>2. g = [s \in SUBSET S |-> part(s, 1) + part(s, 2)]
        OBVIOUS
    <2> HIDE DEF g, part
    <2> QED
        BY <2>1, <2>2
<1> HIDE DEF g, Folds
<1>6. Folds(h)
    BY <1>5, Zenon
<1> HIDE DEF h
<1>7. ASSUME NEW s \in SUBSET S, s # {}
      PROVE  \E x \in s : h[s] = lengths[x] + h[s \ {x}]
    <2>1. (CHOOSE x \in s : TRUE) \in s
        BY <1>7
    <2> QED
        BY <1>6, <1>7, <2>1 DEF Folds
<1>8. h[{}] = 0
    BY <1>6 DEF Folds
<1>9. CASE Len(lengths) = 0
    <2>1. S = {}
        BY <1>2, <1>9
    <2> QED
        BY <1>1, <1>8, <1>9, <2>1 DEF Size, Sum
<1>10. CASE Len(lengths) = 1
    <2>1. S = {1} /\ S \ {1} = {}
        BY <1>2, <1>10
    <2>2. h[S] = lengths[1] + h[{}]
        BY <1>7, <2>1
    <2> QED
        BY <1>1, <1>2, <1>8, <1>10, <2>1, <2>2 DEF Size, Sum
<1>11. CASE Len(lengths) = 2
    <2>1. S = {1, 2} /\ S \ {1} = {2} /\ S \ {2} = {1} /\ {1} \ {1} = {} /\ {2} \ {2} = {}
        BY <1>2, <1>11
    <2>2. h[{1}] = lengths[1] + h[{}] /\ h[{2}] = lengths[2] + h[{}]
        BY <1>7, <2>1
    <2>3. h[S] = lengths[1] + h[{2}] \/ h[S] = lengths[2] + h[{1}]
        BY <1>7, <2>1
    <2>4. lengths[1] \in Nat /\ lengths[2] \in Nat
        BY <1>2, <2>1
    <2>5. Size(lengths) = lengths[1] + lengths[2]
        BY <1>11 DEF Size, Sum
    <2> QED
        BY <1>1, <1>8, <2>2, <2>3, <2>4, <2>5
<1> QED
    BY <1>9, <1>10, <1>11, PostLength

LEMMA SmallModulo == ASSUME NEW a \in Nat, NEW b \in Nat, a < b PROVE a % b = a
OBVIOUS

LEMMA MultipleModulo == ASSUME NEW m \in Nat, NEW b \in Nat \ {0} PROVE (m * b) % b = 0
OBVIOUS

LEMMA NextMultiple == ASSUME NEW m \in Nat, NEW b \in Nat PROVE (m + 1) * b = m * b + b
OBVIOUS

LEMMA BuffersArePositive == Buffer \in Nat \ {0} /\ Word \in Nat \ {0}
BY BufferAssumption
-----------------------------------------------------------------------------
(* The steps *)

LEMMA EndInit == Init => EndInv
<1> SUFFICES ASSUME Init PROVE EndInv
    OBVIOUS
<1>1. data = NoPost /\ body = << >> /\ IsPost(<< >>) /\ Len(<< >>) = 0
    BY DEF Init, IsPost
<1>2. Size(<< >>) = 0 /\ Total(<< >>) = 0
    BY <1>1, TotalProperties DEF Size, Sum
<1>3. 0 % Word = 0
    BY BuffersArePositive, SmallModulo
<1> QED
    BY <1>1, <1>2, <1>3 DEF EndInv, NoPost, InFile, Closed

LEMMA ReadKeepsEnd == BodyInv /\ EndInv /\ CallbackReads => EndInv'
<1> SUFFICES ASSUME BodyInv, EndInv, CallbackReads PROVE EndInv'
    OBVIOUS
<1> DEFINE d == Opened
           n == IF Available(d) < Buffer THEN Available(d) ELSE Buffer
           lengths == data.lengths
           k == d.fileOffset
           at == d.fh
           start == Sum(lengths, k - 1)
           whole == lengths[k]
<1>1. /\ IsPost(lengths) /\ DOMAIN d = DOMAIN data /\ d.lengths = lengths
      /\ k \in 1..Len(lengths)
      /\ at \in Nat /\ at <= whole
      /\ Len(body) = start + at
    BY OpenedProperties
<1>2. /\ whole \in Nat /\ start \in Nat
      /\ Sum(lengths, k) = start + whole
    BY <1>1, SumProperties
<1>3. d.contentLength = data.contentLength
    BY DEF Opened, EndInv
<1>4. /\ data' = [d EXCEPT !.fh = IF EndsFile(n) THEN Closed ELSE @ + n, !.bytesRead = Counted(n)]
      /\ body' = body \o [p \in 1..n |-> <<k, at + p>>]
      /\ curl' = IF n = 0 THEN "ended" ELSE "sending"
    BY DEF CallbackReads
<1>5. \E m \in Nat : at = m * Buffer
    <2>1. CASE InFile
        BY <2>1 DEF EndInv, Opened
    <2>2. CASE ~InFile
        <3>1. at = 0
            BY <2>2 DEF Opened, BodyInv, DataInv
        <3>2. 0 = 0 * Buffer
            BY BuffersArePositive
        <3> QED
            BY <3>1, <3>2
    <2> QED
        BY <2>1, <2>2
<1>6. Available(d) = whole - at
    BY <1>1 DEF Available
<1> HIDE DEF d, at, start, whole
<1>7. (n = 0 => at = whole) /\ (~EndsFile(n) => n = Buffer) /\ n \in Nat
    BY <1>1, <1>2, <1>6, BuffersArePositive DEF EndsFile
<1> HIDE DEF n
<1>8. /\ DOMAIN data' = DOMAIN data /\ data'.lengths = lengths
      /\ data'.contentLength = data.contentLength
      /\ data'.fh = IF EndsFile(n) THEN Closed ELSE at + n
    BY <1>1, <1>3, <1>4 DEF at, EndInv, BodyInv, DataInv
<1>9. ~EndsFile(n) => \E m \in Nat : data'.fh = m * Buffer
    <2> SUFFICES ASSUME ~EndsFile(n) PROVE \E m \in Nat : data'.fh = m * Buffer
        OBVIOUS
    <2>1. PICK m \in Nat : at = m * Buffer
        BY <1>5
    <2>2. data'.fh = (m + 1) * Buffer
        BY <1>7, <1>8, <2>1, NextMultiple, BuffersArePositive
    <2> QED
        BY <2>2
<1>10. ASSUME n = 0, Unaligned(lengths) PROVE Len(body') = Size(lengths)
    <2>1. PICK m \in Nat : whole = m * Buffer
        BY <1>5, <1>7, <1>10
    <2>2. whole % Buffer = 0
        BY <2>1, MultipleModulo, BuffersArePositive
    <2>3. k = Len(lengths)
        <3>1. k \notin 1..Len(lengths) - 1
            BY <1>10, <2>2 DEF Unaligned, whole
        <3> QED
            BY <1>1, <3>1, PostLength
    <2>4. body' = body
        <3>1. [p \in 1..n |-> <<k, at + p>>] = << >>
            BY <1>10
        <3>2. body \in Seq(Bytes)
            BY DEF BodyInv, ByteInv
        <3> QED
            BY <1>4, <3>1, <3>2, ConcatEmptySeq
    <2>5. Len(body) = start + whole
        BY <1>1, <1>7, <1>10
    <2> QED
        BY <1>2, <2>3, <2>4, <2>5 DEF Size
<1>11. InFile' => ~EndsFile(n)
    BY <1>8 DEF InFile
<1> QED
    BY <1>4, <1>8, <1>9, <1>10, <1>11 DEF EndInv

LEMMA StartKeepsEnd ==
    ASSUME NEW lengths, StartPost(lengths)
    PROVE  EndInv'
<1>1. /\ DOMAIN data' = DOMAIN NoPost /\ data'.lengths = lengths /\ data'.fh = Closed
      /\ data'.contentLength = Total(lengths) % Word /\ curl' = "sending"
    BY DEF StartPost, NoPost
<1> QED
    BY <1>1 DEF EndInv, InFile, NoPost

LEMMA CloseKeepsEnd ==
    ASSUME BodyInv, EndInv, UNCHANGED <<body, curl, cut>>, data' = [data EXCEPT !.fh = Closed]
    PROVE  EndInv'
<1>1. /\ DOMAIN data' = DOMAIN data /\ data'.lengths = data.lengths /\ data'.fh = Closed
      /\ data'.contentLength = data.contentLength
    BY DEF BodyInv, DataInv, EndInv
<1> QED
    BY <1>1 DEF EndInv, InFile

LEMMA EndNext == BodyInv /\ EndInv /\ [Next]_vars => EndInv'
<1> SUFFICES ASSUME BodyInv, EndInv, [Next]_vars PROVE EndInv'
    OBVIOUS
<1>1. CASE CallbackReads
    BY <1>1, ReadKeepsEnd
<1>2. CASE CallbackCannotOpen
    BY <1>2 DEF CallbackCannotOpen, EndInv, BodyInv, DataInv, InFile
<1>3. CASE CallbackAtEnd
    <2>1. data.fileOffset = Len(data.lengths)
        BY <1>3, PostLength DEF CallbackAtEnd, FilesLeft, BodyInv, DataInv
    <2>2. Len(body) = Size(data.lengths)
        BY <1>3, <2>1 DEF CallbackAtEnd, Sending, BodyInv, Position, Size
    <2> QED
        BY <1>3, <2>2 DEF CallbackAtEnd, EndInv, InFile
<1>4. CASE CurlHasAll
    <2>1. ASSUME Fits(data.lengths) PROVE Len(body) = Size(data.lengths)
        <3> DEFINE size == Size(data.lengths)
                   length == Len(body)
        <3>1. size \in Nat /\ Total(data.lengths) = size /\ length \in Nat /\ length <= size
            BY TotalProperties, LenProperties DEF BodyInv, DataInv, ByteInv
        <3>2. data.contentLength = size
            BY <2>1, <3>1, SmallModulo, BuffersArePositive DEF EndInv, Fits
        <3>3. length >= data.contentLength
            BY <1>4 DEF CurlHasAll
        <3> HIDE DEF size, length
        <3>4. length = size
            BY <3>1, <3>2, <3>3
        <3> QED
            BY <3>4 DEF size, length
    <2> QED
        BY <1>4, <2>1 DEF CurlHasAll, EndInv, InFile
<1>5. CASE ConnectionBreaks
    BY <1>5 DEF ConnectionBreaks, EndInv, InFile
<1>6. CASE Announce
    <2>1. CASE StartPost(<<header>>)
        BY <2>1, StartKeepsEnd
    <2>2. CASE UNCHANGED <<data, curl, body, cut>>
        BY <2>2 DEF EndInv, InFile
    <2> QED
        BY <1>6, <2>1, <2>2 DEF Announce
<1>7. CASE PostData
    BY <1>7, StartKeepsEnd DEF PostData
<1>8. CASE Announced \/ PostFails \/ Stored \/ Refused \/ RefusedSilently \/ Garbled
    BY <1>8, CloseKeepsEnd
       DEF Announced, PostFails, Stored, Refused, RefusedSilently, Garbled, Answered, CloseFile
<1>9. CASE PostDataFails \/ Retry \/ GiveUp \/ Finish \/ UNCHANGED vars
    BY <1>9 DEF PostDataFails, Retry, GiveUp, Finish, vars, EndInv, InFile
<1> QED
    BY <1>1, <1>2, <1>3, <1>4, <1>5, <1>6, <1>7, <1>8, <1>9 DEF Next, Progress

\* A body of the length of the files is the files.
LEMMA FullBody ==
    ASSUME BodyInv, EndInv, Fits(data.lengths), Len(body) = Size(data.lengths)
    PROVE  IsWhole
<1> DEFINE c == Concatenation(data.lengths)
           size == Size(data.lengths)
<1>1. IsPost(data.lengths) /\ size \in Nat /\ Total(data.lengths) = size
    BY TotalProperties DEF BodyInv, DataInv
<1>2. c \in Seq(Bytes) /\ Len(c) = size /\ \A q \in 1..size : c[q] = ByteAt(data.lengths, q)
    BY <1>1, ConcatenationProperties
<1>3. body \in Seq(Bytes) /\ \A q \in 1..Len(body) : body[q] = ByteAt(data.lengths, q)
    BY DEF BodyInv, ByteInv
<1>4. Len(body) = size
    OBVIOUS
<1> HIDE DEF c, size
<1>5. body = c
    BY <1>2, <1>3, <1>4, SeqEqual
<1>6. data.contentLength = size
    BY <1>1, SmallModulo, BuffersArePositive DEF EndInv, Fits
<1> QED
    BY <1>4, <1>5, <1>6 DEF IsWhole, c

LEMMA EndsAreWhole == BodyInv /\ EndInv => EndsWhole
BY FullBody DEF EndsWhole, EndInv

\* A body that ends without an error is everything that the server was promised, if
\* every file could be opened, no file but the last fills its last buffer and the
\* sizes fit their type.
THEOREM BodiesEndWhole == Spec => []EndsWhole
BY UploadInit, UploadNext, BodyInit, BodyNext, EndInit, EndNext, EndsAreWhole, PTL DEF Spec
-----------------------------------------------------------------------------
(* What counts as uploaded *)

\* The post of the data has the sizes of the file under way, and the loop has left
\* behind only what the server has or refused without a message.
StoredInv ==
    /\ step = "posting" => data.lengths = <<header, DataLengths[file]>>
    /\ \A f \in 1..file - 1 : FitsWithHeader(f) => f \in stored \cup unsaid

LEMMA StoredInit == Init => StoredInv
BY FilesAreNumbered DEF Init, StoredInv

\* What the server answered to is the file, when the sizes fit.
LEMMA DeliveredIsWhole ==
    ASSUME BodyInv, EndInv, Delivered, Fits(data.lengths)
    PROVE  IsWhole
<1> DEFINE size == Size(data.lengths)
           length == Len(body)
<1>1. size \in Nat /\ Total(data.lengths) = size /\ length \in Nat /\ length <= size
    BY TotalProperties, LenProperties DEF BodyInv, DataInv, ByteInv
<1>2. data.contentLength = size
    BY <1>1, SmallModulo, BuffersArePositive DEF EndInv, Fits
<1>3. length >= data.contentLength
    BY DEF Delivered
<1> HIDE DEF size, length
<1>4. length = size
    BY <1>1, <1>2, <1>3
<1> QED
    BY <1>4, FullBody DEF size, length

\* The steps of one file lose nothing.
LEMMA WithinOneFile ==
    ASSUME StoredInv, UNCHANGED <<file, header>>, stored \subseteq stored', unsaid' = unsaid,
           step' = "posting" => data'.lengths = <<header, DataLengths[file]>>
    PROVE  StoredInv'
BY DEF StoredInv, FitsWithHeader

\* The loop goes on when the server has the file, or is silent about it.
LEMMA ToTheNextFile ==
    ASSUME UploadInv, StoredInv, step = "posting", NextFile, UNCHANGED header,
           stored \subseteq stored', unsaid \subseteq unsaid',
           FitsWithHeader(file) => file \in stored' \cup unsaid'
    PROVE  StoredInv'
BY FilesAreNumbered DEF StoredInv, FitsWithHeader, UploadInv, Uploading, NextFile, Files

LEMMA StoredNext ==
    UploadInv /\ BodyInv /\ EndInv /\ StoredInv /\ [Next]_vars => StoredInv'
<1> SUFFICES ASSUME UploadInv, BodyInv, EndInv, StoredInv, [Next]_vars PROVE StoredInv'
    OBVIOUS
<1> USE DEF history
<1>1. CASE CallbackReads
    <2>1. data'.lengths = data.lengths
        BY <1>1 DEF CallbackReads, Opened, BodyInv, DataInv
    <2> QED BY <1>1, <2>1, WithinOneFile DEF CallbackReads, StoredInv
<1>2. CASE CallbackCannotOpen
    <2>1. data'.lengths = data.lengths
        BY <1>2 DEF CallbackCannotOpen, BodyInv, DataInv
    <2> QED BY <1>2, <2>1, WithinOneFile DEF CallbackCannotOpen, StoredInv
<1>3. CASE CallbackAtEnd \/ CurlHasAll \/ ConnectionBreaks
    BY <1>3, WithinOneFile DEF CallbackAtEnd, CurlHasAll, ConnectionBreaks, StoredInv
<1>4. CASE Announce \/ Announced \/ Finish \/ GiveUp
    BY <1>4, WithinOneFile DEF Announce, Announced, Finish, GiveUp, GoOn
<1>5. CASE PostData
    BY <1>5, WithinOneFile DEF PostData, GoOn, StartPost, NoPost
<1>6. CASE PostFails \/ PostDataFails \/ Refused \/ Garbled
    <2>1. stored \subseteq Accepted
        BY DEF Accepted
    <2> QED BY <1>6, <2>1, WithinOneFile
            DEF PostFails, PostDataFails, Refused, Garbled, Answered, Fail
<1>7. CASE Stored
    <2>1. FitsWithHeader(file) => Accepted = stored \cup {file}
        BY <1>7, DeliveredIsWhole DEF Stored, Answered, StoredInv, FitsWithHeader, Accepted
    <2> QED BY <1>7, <2>1, ToTheNextFile DEF Stored, Answered, Accepted
<1>8. CASE RefusedSilently
    BY <1>8, ToTheNextFile DEF RefusedSilently, Answered
<1>9. CASE Retry
    BY <1>9, FilesAreNumbered DEF Retry, StoredInv
<1>10. CASE UNCHANGED vars
    BY <1>10 DEF vars, StoredInv, FitsWithHeader
<1> QED
    BY <1>1, <1>2, <1>3, <1>4, <1>5, <1>6, <1>7, <1>8, <1>9, <1>10 DEF Next, Progress

\* boincSchedulerUpload goes on to Completed only with every file of the result
\* whole at the server, or refused without a message, through any failures and
\* retries: but for files whose size with that of the header does not fit a Word.
THEOREM UploadsAreStored == Spec => []UploadedIsStored
<1>1. UploadInv /\ StoredInv => UploadedIsStored
    BY FilesAreNumbered DEF UploadInv, StoredInv, UploadedIsStored
<1> QED
    BY UploadInit, UploadNext, BodyInit, BodyNext, EndInit, EndNext,
       StoredInit, StoredNext, <1>1, PTL DEF Spec
-----------------------------------------------------------------------------
(* Types *)

Record == [lengths : Seq(Nat), fileOffset : Nat, fh : Nat \cup {Closed},
           bytesRead : 0..Word - 1, contentLength : 0..Word - 1]

TypeInv ==
    /\ step \in {"file", "announcing", "announced", "posting", "failed",
                "done", "givenup", "crashed"}
    /\ data \in Record
    /\ curl \in {"sending", "ended", "failed"}
    /\ error \in {"none", "file", "other"} /\ tries \in 0..UploadTries
    /\ cut \in BOOLEAN
    /\ garbled \in Nat
    /\ stored \subseteq Files /\ unsaid \subseteq Files

LEMMA Remainders == ASSUME NEW n \in Int PROVE n % Word \in 0..Word - 1
BY BuffersArePositive

LEMMA TypeInit == Init => TypeInv
<1> SUFFICES ASSUME Init PROVE TypeInv
    OBVIOUS
<1>1. NoPost \in Record
    BY BuffersArePositive DEF NoPost, Record
<1>2. 0 \in 0..UploadTries
    BY TriesAssumption
<1> QED BY <1>1, <1>2 DEF Init, TypeInv

LEMMA StartKeepsTypes ==
    ASSUME NEW lengths, IsPost(lengths), StartPost(lengths)
    PROVE  data' \in Record /\ curl' = "sending" /\ cut' = FALSE
<1>1. Total(lengths) % Word \in 0..Word - 1
    BY TotalProperties, Remainders
<1>2. NoPost \in Record
    BY BuffersArePositive DEF NoPost, Record
<1> QED BY <1>1, <1>2 DEF StartPost, Record, IsPost

LEMMA NextIsRecord ==
    ASSUME data \in Record
    PROVE  /\ [data EXCEPT !.fileOffset = @ + 1] \in Record
           /\ [data EXCEPT !.fileOffset = @ + 1, !.fh = 0] \in Record
<1>1. PICK k \in Nat : k = data.fileOffset + 1
    BY DEF Record
<1>2. [data EXCEPT !.fileOffset = k] \in Record
    BY DEF Record
<1>3. [data EXCEPT !.fileOffset = k, !.fh = 0] \in Record
    BY DEF Record
<1> QED BY <1>1, <1>2, <1>3

LEMMA ReadKeepsTypes ==
    ASSUME BodyInv, TypeInv, CallbackReads
    PROVE  data' \in Record /\ curl' \in {"sending", "ended"}
<1> DEFINE d == Opened
           n == IF Available(d) < Buffer THEN Available(d) ELSE Buffer
           fh == IF EndsFile(n) THEN Closed ELSE d.fh + n
<1>1. data' = [d EXCEPT !.fh = fh, !.bytesRead = Counted(n)]
      /\ curl' \in {"sending", "ended"}
    BY DEF CallbackReads
<1>2. /\ d.fh \in Nat /\ d.fh <= d.lengths[d.fileOffset]
      /\ d.lengths[d.fileOffset] \in Nat
    <2>1. /\ IsPost(data.lengths) /\ d.lengths = data.lengths
          /\ d.fileOffset \in 1..Len(data.lengths)
          /\ d.fh \in Nat /\ d.fh <= data.lengths[d.fileOffset]
        BY OpenedProperties
    <2> QED BY <2>1, SumProperties
<1>3. d \in Record
    BY NextIsRecord DEF Opened, TypeInv
<1>4. n \in Nat BY <1>2, BuffersArePositive DEF Available
<1>5. Counted(n) \in 0..Word - 1
    <2>1. data.bytesRead \in Nat BY DEF TypeInv, Record
    <2> QED BY <1>4, <2>1, Remainders DEF Counted
<1> HIDE DEF n, d
<1>6. fh \in Nat \cup {Closed} BY <1>2, <1>4
<1> HIDE DEF fh
<1> QED BY <1>1, <1>3, <1>5, <1>6 DEF Record

LEMMA TypeNext == UploadInv /\ BodyInv /\ TypeInv /\ [Next]_vars => TypeInv'
<1> SUFFICES ASSUME UploadInv, BodyInv, TypeInv, [Next]_vars PROVE TypeInv'
    OBVIOUS
<1> USE DEF event, history
<1>1. CASE CallbackReads
    <2>1. data' \in Record /\ curl' \in {"sending", "ended"} BY <1>1, ReadKeepsTypes
    <2> QED BY <1>1, <2>1 DEF CallbackReads, TypeInv, Files
<1>2. CASE CallbackCannotOpen
    BY <1>2, NextIsRecord DEF CallbackCannotOpen, TypeInv, Files
<1>3. CASE CallbackAtEnd \/ CurlHasAll \/ ConnectionBreaks \/ PostDataFails \/ GiveUp
           \/ Finish \/ UNCHANGED vars
    BY <1>3 DEF CallbackAtEnd, CurlHasAll, ConnectionBreaks, PostDataFails, GiveUp, Finish,
                vars, GoOn, Fail, TypeInv, Files
<1>4. CASE Announce
    <2>1. CASE StartPost(<<header>>)
        <3>1. IsPost(<<header>>) BY LengthsAssumption DEF BodyInv, IsPost
        <3>2. data' \in Record /\ curl' = "sending" /\ cut' = FALSE
            BY <2>1, <3>1, StartKeepsTypes
        <3> QED BY <1>4, <3>2 DEF Announce, GoOn, TypeInv, Files
    <2>2. CASE UNCHANGED <<data, curl, body, cut>>
        BY <1>4, <2>2 DEF Announce, GoOn, TypeInv, Files
    <2> QED BY <1>4, <2>1, <2>2 DEF Announce
<1>5. CASE PostData
    <2>1. DataLengths[file] \in Nat
        BY <1>5, LengthsAssumption DEF PostData, UploadInv, Uploading, Files
    <2>2. IsPost(<<header, DataLengths[file]>>)
        BY <2>1, LengthsAssumption DEF BodyInv, IsPost
    <2>3. data' \in Record /\ curl' = "sending" /\ cut' = FALSE
        BY <1>5, <2>2, StartKeepsTypes DEF PostData
    <2> QED BY <1>5, <2>3 DEF PostData, GoOn, TypeInv, Files
<1>6. CASE Announced \/ PostFails \/ Stored \/ Refused \/ RefusedSilently \/ Garbled
    <2>1. data' \in Record
        BY <1>6 DEF Announced, PostFails, Stored, Refused, RefusedSilently, Garbled, Answered,
                    CloseFile, TypeInv, Record
    <2>2. /\ step = "posting" => file \in Files
          /\ Accepted \subseteq stored \cup {file}
        BY DEF UploadInv, Uploading, Accepted
    <2> QED BY <1>6, <2>1, <2>2
            DEF Announced, PostFails, Stored, Refused, RefusedSilently, Garbled, Answered,
                GoOn, Fail, NextFile, TypeInv, Files
<1>7. CASE Retry
    BY <1>7, TriesAssumption DEF Retry, TypeInv, Files
<1> QED
    BY <1>1, <1>2, <1>3, <1>4, <1>5, <1>6, <1>7 DEF Next, Progress

\* Position, sizes and open files keep their types (struct _BoincProxyPostData), and
\* a file is open only at a place where there is one.
THEOREM UploadIsTyped == Spec => []TypeOK
<1>1. UploadInv /\ HandleInv /\ BodyInv /\ TypeInv => TypeOK
    <2> SUFFICES ASSUME UploadInv, HandleInv, BodyInv, TypeInv PROVE TypeOK
        OBVIOUS
    <2>1. handles \in Nat BY DEF HandleInv, TypeInv
    <2>2. data.fh # Closed => data.fileOffset \in DOMAIN data.lengths
        <3>1. data.lengths \in Seq(Nat) BY DEF BodyInv, DataInv, IsPost
        <3>2. DOMAIN data.lengths = 1..Len(data.lengths) /\ Len(data.lengths) \in Nat
            BY <3>1, LenProperties
        <3> QED BY <3>2 DEF BodyInv, DataInv, InFile
    <2> QED BY <2>1, <2>2 DEF TypeOK, UploadInv, BodyInv, ByteInv, Bytes, TypeInv, Record
<1> QED
    BY <1>1, UploadInit, UploadNext, HandleInit, HandleNext, BodyInit, BodyNext,
       TypeInit, TypeNext, PTL DEF Spec
=============================================================================
