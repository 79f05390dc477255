---------------------------- MODULE UploadStream ----------------------------
(***************************************************************************)
(* The bytes of one POST /v1/runs: the ingress guard that counts the body  *)
(* (UploadBodyLimitMiddleware), the route that parses the form and checks  *)
(* its one part (submit_run, validate_submission), and the loop that       *)
(* stages the file in chunks (UploadPreserver.preserve).                   *)
(*                                                                         *)
(* A byte is a member of Bytes; framing is what multipart adds to the      *)
(* file; the server delivers no more and no less than the Content-Length,  *)
(* when one is declared.  An empty chunk changes nothing and is left out.  *)
(***************************************************************************)
EXTENDS Integers, Sequences, SequencesExt

CONSTANTS Bytes, PDF_SIGNATURE, MaxFileBytes, OverheadBytes, MaxMessage, MaxChunk, None

ASSUME UploadAssumption ==
    /\ PDF_SIGNATURE \in Seq(Bytes) \ {<<>>}
    /\ {MaxFileBytes, OverheadBytes, MaxMessage, MaxChunk} \subseteq Nat \ {0}
    /\ None \notin {"accepted", "upload_too_large", "invalid_pdf"}

VARIABLES
    request,    \* what the client sends
    pc,
    received,   \* limited_receive: the bytes handed to the form parser
    read,       \* bytes of the file read from the spooled form
    staged,     \* source-upload.tmp, None when there is none
    prefix,     \* preserve: the first bytes seen
    source,     \* source/original.pdf
    outcome     \* the answer: None while there is none

vars == <<request, pc, received, read, staged, prefix, source, outcome>>

MaxBodyBytes == MaxFileBytes + OverheadBytes

Forms == {"pdf", "wrong_body", "wrong_parts", "wrong_media", "wrong_name"}

(* One more byte than either limit allows; PDFs of any content, refused    *)
(* forms with one content.                                                 *)
Requests ==
    [file : UNION {[1..n -> Bytes] : n \in 0..(MaxFileBytes + 1)},
     framing : 1..(OverheadBytes + 1), declares : BOOLEAN, form : Forms]

Body(r) == Len(r.file) + r.framing

Init ==
    /\ request \in Requests
    /\ pc = "guard"
    /\ received = 0 /\ read = 0
    /\ staged = None /\ prefix = <<>> /\ source = None
    /\ outcome = None

Answer(code) == pc' = "done" /\ outcome' = code

-----------------------------------------------------------------------------

(* A declared length over the limit is refused before anything is read.    *)
Guard ==
    /\ pc = "guard"
    /\ IF request.declares /\ Body(request) > MaxBodyBytes
       THEN Answer("upload_too_large")
       ELSE IF request.form = "wrong_body"
       THEN Answer("unsupported_media_type")
       ELSE pc' = "form" /\ UNCHANGED outcome
    /\ UNCHANGED <<request, received, read, staged, prefix, source>>

(* One http.request message of n bytes. *)
Receive(n) ==
    /\ pc = "form"
    /\ received + n <= Body(request)
    /\ IF received + n > MaxBodyBytes
       THEN Answer("upload_too_large") /\ UNCHANGED received
       ELSE received' = received + n /\ UNCHANGED <<pc, outcome>>
    /\ UNCHANGED <<request, read, staged, prefix, source>>

(* The client goes away, or the body cannot be parsed. *)
FormFails ==
    /\ pc = "form"
    /\ Answer("invalid_request")
    /\ UNCHANGED <<request, received, read, staged, prefix, source>>

ParseForm ==
    /\ pc = "form"
    /\ received = Body(request)
    /\ CASE request.form = "pdf" -> pc' = "preserve" /\ staged' = <<>> /\ UNCHANGED outcome
         [] request.form = "wrong_media" -> Answer("unsupported_media_type") /\ UNCHANGED staged
         [] OTHER -> Answer("invalid_request") /\ UNCHANGED staged
    /\ UNCHANGED <<request, received, read, prefix, source>>

(* preserve's loop: the limit is checked before the chunk is written.      *)
Chunk(n) == SubSeq(request.file, read + 1, read + n)

Take(s, k) == SubSeq(s, 1, IF k < Len(s) THEN k ELSE Len(s))

Discard(code) == Answer(code) /\ staged' = None

ReadChunkMutant(n) ==
    /\ pc = "preserve"
    /\ read + n <= Len(request.file)
    /\ read' = read + n
    /\ IF read' > MaxFileBytes
       THEN Discard("upload_too_large") /\ UNCHANGED prefix
       ELSE /\ staged' = staged \o Chunk(n)
            /\ prefix' = IF prefix = <<>>
                         THEN Take(Chunk(n), Len(PDF_SIGNATURE)) ELSE prefix
            /\ UNCHANGED <<pc, outcome>>
    /\ UNCHANGED <<request, received, source>>
ReadChunk(n) ==
    /\ pc = "preserve"
    /\ read + n <= Len(request.file)
    /\ read' = read + n
    /\ IF read' > MaxFileBytes
       THEN Discard("upload_too_large") /\ UNCHANGED prefix
       ELSE /\ staged' = staged \o Chunk(n)
            /\ prefix' = prefix \o Take(Chunk(n), Len(PDF_SIGNATURE) - Len(prefix))
            /\ UNCHANGED <<pc, outcome>>
    /\ UNCHANGED <<request, received, source>>

PreserveFailsMutant ==
    /\ pc = "preserve"
    /\ Answer("failed")
    /\ UNCHANGED <<request, received, read, staged, prefix, source>>
PreserveFails ==
    /\ pc = "preserve"
    /\ Discard("failed")
    /\ UNCHANGED <<request, received, read, prefix, source>>

Publish ==
    /\ pc = "preserve"
    /\ read = Len(request.file)
    /\ IF read > 0 /\ prefix = PDF_SIGNATURE
       THEN /\ source' = staged /\ staged' = None
            /\ Answer("accepted")
       ELSE Discard("invalid_pdf") /\ UNCHANGED source
    /\ UNCHANGED <<request, received, read, prefix>>

Done == pc = "done" /\ UNCHANGED vars

Next ==
    \/ Guard \/ FormFails \/ ParseForm \/ PreserveFails \/ Publish \/ Done
    \/ \E n \in 1..MaxMessage : Receive(n)
    \/ \E n \in 1..MaxChunk : ReadChunk(n)

Spec == Init /\ [][Next]_vars

-----------------------------------------------------------------------------
(* Properties. *)

IsPdf(file) == IsPrefix(PDF_SIGNATURE, file)

(* However the body and the file are cut into pieces, an accepted upload   *)
(* is stored byte for byte, is within the limit and starts as a PDF; one   *)
(* that is not accepted leaves no file.                                    *)
StoredIsUploaded ==
    /\ outcome = "accepted" =>
         source = request.file /\ Len(source) <= MaxFileBytes /\ IsPdf(source)
    /\ outcome \notin {None, "accepted"} => source = None /\ staged = None

(* No refusal is wrong: the two limits never turn away a file within the   *)
(* limit whose framing fits the overhead, the signature check no PDF.      *)
RefusalsJustified ==
    /\ outcome = "upload_too_large" =>
         Len(request.file) > MaxFileBytes \/ request.framing > OverheadBytes
    /\ outcome = "invalid_pdf" => ~IsPdf(request.file)
=============================================================================
