-------------------------- MODULE UploadStream_proofs --------------------------
(***************************************************************************)
(* UploadStream for every alphabet and signature, every limit and every    *)
(* way to cut a body and a file into pieces.                               *)
(*                                                                         *)
(* The inductive invariant says what the loop has between two chunks: the  *)
(* staged file is what was read of the upload, and prefix the beginning of *)
(* it, up to the length of the signature.                                  *)
(***************************************************************************)
EXTENDS UploadStream, SequenceTheorems, TLAPS

Least(m, n) == IF m < n THEN m ELSE n

Begin(n) == SubSeq(request.file, 1, n)

StreamInv ==
    /\ request \in [file : Seq(Bytes), framing : Nat, declares : BOOLEAN, form : Forms]
    /\ received \in 0..MaxBodyBytes
    /\ pc \in {"guard", "form"} =>
         /\ outcome = None /\ source = None /\ staged = None
         /\ read = 0 /\ prefix = <<>>
    /\ pc = "preserve" =>
         /\ outcome = None /\ source = None
         /\ read \in 0..Len(request.file) /\ read <= MaxFileBytes
         /\ staged = Begin(read)
         /\ prefix = Begin(Least(read, Len(PDF_SIGNATURE)))
    /\ pc \in {"guard", "form", "preserve", "done"}
    /\ StoredIsUploaded /\ RefusalsJustified

LEMMA Limits ==
    /\ MaxFileBytes \in Nat /\ OverheadBytes \in Nat /\ MaxBodyBytes \in Nat
    /\ MaxBodyBytes = MaxFileBytes + OverheadBytes
    /\ PDF_SIGNATURE \in Seq(Bytes) /\ Len(PDF_SIGNATURE) \in Nat \ {0}
  BY UploadAssumption, EmptySeq DEF MaxBodyBytes

(* Reading on: what is read after a chunk is what was read before it and   *)
(* the chunk, and what was taken of it for the prefix is the next of the   *)
(* file, until the prefix is as long as the signature.                     *)
LEMMA ReadOn ==
    ASSUME NEW file \in Seq(Bytes), NEW r \in Nat, NEW n \in Nat \ {0}, r + n <= Len(file),
           NEW size \in Nat
    PROVE  LET chunk == SubSeq(file, r + 1, r + n)
               before == SubSeq(file, 1, Least(r, size))
           IN  /\ SubSeq(file, 1, r) \o chunk = SubSeq(file, 1, r + n)
               /\ before \o Take(chunk, size - Len(before))
                    = SubSeq(file, 1, Least(r + n, size))
<1> DEFINE chunk == SubSeq(file, r + 1, r + n)
           before == SubSeq(file, 1, Least(r, size))
           k == Least(r, size)
<1>0. Len(file) \in Nat /\ DOMAIN file = 1..Len(file) /\ \A i \in 1..Len(file) : file[i] \in Bytes
  BY LenProperties, ElementOfSeq
<1>1. SubSeq(file, 1, r) \o chunk = SubSeq(file, 1, r + n)
  <2>1. 1 \in 1..(Len(file) + 1) /\ r \in (1 - 1)..Len(file) /\ r + n \in r..Len(file)
    BY <1>0
  <2> QED
    BY <2>1, ConcatAdjacentSubSeq
<1>2. /\ k \in 0..r /\ k <= size
      /\ Len(before) = k /\ before \in Seq(Bytes)
  <2>1. k \in 0..r /\ k <= size /\ k \in Int
    BY DEF Least
  <2>2. \A i \in 1..k : file[i] \in Bytes
    BY <1>0, <2>1
  <2> HIDE DEF k
  <2>3. SubSeq(file, 1, k) \in Seq(Bytes) /\ Len(SubSeq(file, 1, k)) = IF 1 <= k THEN k - 1 + 1 ELSE 0
    BY <2>1, <2>2, SubSeqProperties
  <2> QED
    BY <2>1, <2>3 DEF k
<1>3. /\ Len(chunk) = n /\ chunk \in Seq(Bytes)
  <2>1. r + 1 \in Int /\ r + n \in Int /\ \A i \in (r + 1)..(r + n) : file[i] \in Bytes
    BY <1>0
  <2>2. chunk \in Seq(Bytes)
        /\ Len(chunk) = IF r + 1 <= r + n THEN (r + n) - (r + 1) + 1 ELSE 0
    BY <2>1, SubSeqProperties
  <2> QED
    BY <2>2
<1>4. CASE r >= size
  <2>1. k = size /\ Least(r + n, size) = size
    BY <1>4 DEF Least
  <2>2. Take(chunk, size - Len(before)) = SubSeq(chunk, 1, 0)
    BY <1>2, <1>3, <2>1 DEF Take
  <2>3. SubSeq(chunk, 1, 0) = <<>>
    BY SubSeqEmpty
  <2>4. before \o <<>> = before
    BY <1>2, ConcatEmptySeq
  <2> QED
    BY <1>1, <2>1, <2>2, <2>3, <2>4
<1>5. CASE r < size
  <2> DEFINE m == Least(n, size - r)
  <2>1. k = r /\ m \in 1..n /\ Least(r + n, size) = r + m /\ r + m <= Len(file)
    BY <1>5 DEF Least
  <2>2. Take(chunk, size - Len(before)) = SubSeq(chunk, 1, m)
    BY <1>2, <1>3, <1>5, <2>1 DEF Take, Least
  <2> HIDE DEF m
  <2>3. SubSeq(chunk, 1, m) = SubSeq(file, r + 1, r + m)
    <3> DEFINE i == r + 1
               j == r + n
    <3>1. i \in 1..Len(file) /\ j \in 1..Len(file) /\ 1 \in 1..(j - i + 1) /\ m \in 1..(j - i + 1)
      BY <1>0, <2>1
    <3>2. i + 1 - 1 = r + 1 /\ i + m - 1 = r + m
      BY <2>1
    <3> HIDE DEF i, j
    <3>3. SubSeq(SubSeq(file, i, j), 1, m) = SubSeq(file, i + 1 - 1, i + m - 1)
      BY <1>2, <3>1, SubSeqOfSubSeq
    <3> QED
      BY <3>2, <3>3 DEF i, j
  <2>4. SubSeq(file, 1, r) \o SubSeq(file, r + 1, r + m) = SubSeq(file, 1, r + m)
    <3>1. 1 \in 1..(Len(file) + 1) /\ r \in (1 - 1)..Len(file) /\ r + m \in r..Len(file)
      BY <1>0, <2>1
    <3> QED
      BY <3>1, ConcatAdjacentSubSeq
  <2> QED
    BY <1>1, <2>1, <2>2, <2>3, <2>4
<1>6. r >= size \/ r < size
  OBVIOUS
<1> QED
  BY <1>4, <1>5, <1>6, Zenon

LEMMA InitStream == Init => StreamInv
<1> SUFFICES ASSUME Init PROVE StreamInv
  OBVIOUS
<1>1. request.file \in Seq(Bytes) /\ request \in Requests
  <2>1. PICK n \in 0..(MaxFileBytes + 1) : request.file \in [1..n -> Bytes]
    BY DEF Init, Requests
  <2> QED
    BY <2>1, Limits, SeqDef DEF Init
<1>2. request \in [file : Seq(Bytes), framing : Nat, declares : BOOLEAN, form : Forms]
  BY <1>1, Limits DEF Requests
<1>3. 0 \in 0..MaxBodyBytes
  BY Limits
<1> QED
  BY <1>2, <1>3, UploadAssumption DEF Init, StreamInv, StoredIsUploaded, RefusalsJustified

LEMMA StreamStep == StreamInv /\ [Next]_vars => StreamInv'
<1> SUFFICES ASSUME StreamInv, [Next]_vars PROVE StreamInv'
  OBVIOUS
<1> DEFINE file == request.file
<1>0. /\ file \in Seq(Bytes) /\ Len(file) \in Nat /\ request.framing \in Nat
      /\ received \in Nat /\ Body(request) = Len(file) + request.framing
  BY LenProperties, Limits DEF StreamInv, Body
<1>1. CASE UNCHANGED vars
  BY <1>1 DEF vars, StreamInv, Begin, StoredIsUploaded, RefusalsJustified
<1>2. CASE Guard
  BY <1>0, <1>2, Limits, UploadAssumption
     DEF Guard, Answer, StreamInv, StoredIsUploaded, RefusalsJustified
<1>3. ASSUME NEW n \in 1..MaxMessage, Receive(n)
      PROVE  StreamInv'
  <2>1. n \in Nat
    BY UploadAssumption
  <2> QED
    BY <1>0, <1>3, <2>1, Limits, UploadAssumption
       DEF Receive, Answer, StreamInv, StoredIsUploaded, RefusalsJustified
<1>4. CASE FormFails
  BY <1>4, UploadAssumption
     DEF FormFails, Answer, StreamInv, StoredIsUploaded, RefusalsJustified
<1>5. CASE ParseForm
  <2>1. CASE request.form = "pdf"
    <3>1. Begin(0) = <<>> /\ Least(0, Len(PDF_SIGNATURE)) = 0
      BY SubSeqEmpty, Limits DEF Begin, Least
    <3> QED
      BY <1>0, <1>5, <2>1, <3>1, Limits, UploadAssumption
         DEF ParseForm, StreamInv, Begin, StoredIsUploaded, RefusalsJustified
  <2>2. CASE request.form # "pdf"
    <3>1. /\ pc = "form" /\ pc' = "done" /\ outcome' \in {"invalid_request", "unsupported_media_type"}
          /\ UNCHANGED <<request, received, read, staged, prefix, source>>
      BY <1>5, <2>2 DEF ParseForm, Answer
    <3> QED
      BY <3>1 DEF StreamInv, StoredIsUploaded, RefusalsJustified
  <2> QED
    BY <2>1, <2>2
<1>6. ASSUME NEW n \in 1..MaxChunk, ReadChunk(n)
      PROVE  StreamInv'
  <2>1. /\ n \in Nat \ {0} /\ pc = "preserve" /\ read' = read + n /\ read + n <= Len(file)
        /\ read \in Nat /\ UNCHANGED <<request, received, source>>
    BY <1>0, <1>6, UploadAssumption DEF ReadChunk, StreamInv
  <2>2. CASE read' > MaxFileBytes
    <3>1. pc' = "done" /\ outcome' = "upload_too_large" /\ staged' = None
      BY <1>6, <2>2 DEF ReadChunk, Discard, Answer
    <3>2. Len(file) > MaxFileBytes
      BY <1>0, <2>1, <2>2, Limits
    <3> QED
      BY <2>1, <3>1, <3>2 DEF StreamInv, StoredIsUploaded, RefusalsJustified
  <2>3. CASE ~(read' > MaxFileBytes)
    <3>1. /\ staged' = Begin(read) \o Chunk(n)
          /\ prefix' = prefix \o Take(Chunk(n), Len(PDF_SIGNATURE) - Len(prefix))
          /\ prefix = Begin(Least(read, Len(PDF_SIGNATURE)))
          /\ UNCHANGED <<pc, outcome>>
      BY <1>6, <2>1, <2>3 DEF ReadChunk, StreamInv
    <3>2. /\ staged' = SubSeq(file, 1, read + n)
          /\ prefix' = SubSeq(file, 1, Least(read + n, Len(PDF_SIGNATURE)))
      <4> DEFINE size == Len(PDF_SIGNATURE)
                 chunk == SubSeq(file, read + 1, read + n)
                 before == SubSeq(file, 1, Least(read, size))
      <4>1. size \in Nat
        BY Limits
      <4>2. /\ staged' = SubSeq(file, 1, read) \o chunk
            /\ prefix' = before \o Take(chunk, size - Len(before))
        BY <3>1 DEF Chunk, Begin
      <4> HIDE DEF size, file
      <4>3. /\ SubSeq(file, 1, read) \o chunk = SubSeq(file, 1, read + n)
            /\ before \o Take(chunk, size - Len(before))
                 = SubSeq(file, 1, Least(read + n, size))
        BY <1>0, <2>1, <4>1, ReadOn
      <4> QED
        BY <4>2, <4>3 DEF size
    <3>3. read' \in 0..Len(file) /\ read' <= MaxFileBytes
      BY <1>0, <2>1, <2>3, Limits
    <3> QED
      BY <2>1, <3>1, <3>2, <3>3, UploadAssumption
         DEF StreamInv, Begin, StoredIsUploaded, RefusalsJustified
  <2> QED
    BY <2>2, <2>3
<1>7. CASE PreserveFails
  BY <1>7 DEF PreserveFails, Discard, Answer, StreamInv, StoredIsUploaded, RefusalsJustified
<1>8. CASE Publish
  <2>1. /\ pc = "preserve" /\ read = Len(file) /\ UNCHANGED <<request, received, read, prefix>>
        /\ read <= MaxFileBytes /\ staged = SubSeq(file, 1, read) /\ source = None
        /\ prefix = SubSeq(file, 1, Least(read, Len(PDF_SIGNATURE)))
    BY <1>8 DEF Publish, StreamInv, Begin
  <2>2. read > 0 /\ prefix = PDF_SIGNATURE <=> IsPdf(file)
    <3> DEFINE size == Len(PDF_SIGNATURE)
    <3>1. SubSeq(PDF_SIGNATURE, 1, size) = PDF_SIGNATURE /\ SubSeq(file, 1, Len(file)) = file
      BY <1>0, Limits, SubSeqFull
    <3>2. CASE size <= Len(file)
      <4>1. Least(read, size) = size /\ read > 0
        BY <1>0, <2>1, <3>2, Limits DEF Least
      <4> QED
        BY <2>1, <3>1, <3>2, <4>1 DEF IsPdf, IsPrefix
    <3>3. CASE ~(size <= Len(file))
      <4>1. Least(read, size) = Len(file)
        BY <1>0, <2>1, <3>3, Limits DEF Least
      <4>2. prefix = file /\ Len(file) # size
        BY <1>0, <2>1, <3>1, <3>3, <4>1, Limits
      <4> QED
        BY <3>3, <4>2 DEF IsPdf, IsPrefix
    <3> QED
      BY <3>2, <3>3
  <2>3. CASE IsPdf(file)
    <3>1. source' = staged /\ staged' = None /\ pc' = "done" /\ outcome' = "accepted"
      BY <1>8, <2>2, <2>3 DEF Publish, Answer
    <3>2. source' = file /\ Len(file) <= MaxFileBytes
      BY <1>0, <2>1, <3>1, SubSeqFull
    <3> QED
      BY <2>1, <2>3, <3>1, <3>2 DEF StreamInv, StoredIsUploaded, RefusalsJustified
  <2>4. CASE ~IsPdf(file)
    <3>1. source' = source /\ staged' = None /\ pc' = "done" /\ outcome' = "invalid_pdf"
      BY <1>8, <2>2, <2>4 DEF Publish, Discard, Answer
    <3> QED
      BY <2>1, <2>4, <3>1 DEF StreamInv, StoredIsUploaded, RefusalsJustified
  <2> QED
    BY <2>3, <2>4
<1>9. CASE Done
  BY <1>1, <1>9 DEF Done
<1> QED
  BY <1>1, <1>2, <1>3, <1>4, <1>5, <1>6, <1>7, <1>8, <1>9 DEF Next

LEMMA StreamHolds == Spec => []StreamInv
  BY InitStream, StreamStep, PTL DEF Spec

(* However the body and the file are cut into pieces, an accepted upload   *)
(* is stored byte for byte, within the limit and with the signature; one   *)
(* that is not accepted leaves no file.                                    *)
THEOREM StoredIsUploadedHolds == Spec => []StoredIsUploaded
<1>1. StreamInv => StoredIsUploaded
  BY DEF StreamInv
<1> QED
  BY <1>1, StreamHolds, PTL

(* The ingress guard, the loop's limit and the signature check refuse only *)
(* what is over a limit or not a PDF.                                      *)
THEOREM RefusalsJustifiedHolds == Spec => []RefusalsJustified
<1>1. StreamInv => RefusalsJustified
  BY DEF StreamInv
<1> QED
  BY <1>1, StreamHolds, PTL

===============================================================================
