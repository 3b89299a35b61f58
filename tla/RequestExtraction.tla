------------------------- MODULE RequestExtraction --------------------------
(***************************************************************************)
(* The validated extractors of rest/src/extract.rs.  A "form" request is   *)
(* read by MultipartForm: part by part and chunk by chunk, files into      *)
(* temporary files of a directory all requests share, with limits on each  *)
(* field, each file and the whole.  A "json" request is read by            *)
(* ValidatedRequest: path, query, headers and body, each parsed and then   *)
(* validated.  The client may send anything, stop in the middle or go      *)
(* away; the storage may fail at any write.  Sizes are small numbers.      *)
(***************************************************************************)
EXTENDS Naturals, Sequences, FiniteSets, FiniteSetsExt

CONSTANTS
  Requests,
  MaxField, MaxFile, MaxTotal,   \* MultipartConfig
  Chunks,                        \* sizes of a chunk
  MaxParts                       \* bound: parts of a request

VARIABLES
  request,   \* each request's extraction
  disk,      \* the temporary directory: [owner, part, size] of its files
  sent       \* history: what the client has sent of each part, and its kind

vars == <<request, disk, sent>>

Sources == <<"path", "query", "headers", "body">>
None == {}
Some(v) == {v}
Status(code) ==
  IF code = "payload_too_large" THEN 413 ELSE IF code = "request_storage_failed" THEN 500 ELSE 400

\* at: "new", "next", "file", "text", "value" (a source is awaited), "handling", "failed", "gone"
New == [at |-> "new", fields |-> {}, files |-> {}, total |-> 0, size |-> 0,
        source |-> 1, verdict |-> <<>>, error |-> None]
Put(r, x) == request' = [request EXCEPT ![r] = x]
Part(r) == Len(sent[r])

\* Fault: only the file being written is removed.
DroppedLast(r) == {f \in disk : f.owner # r \/ f.part # Part(r)}
\* An error drops the extraction and, with it, the path of every temporary file.
Dropped(r) == {f \in disk : f.owner # r}
Fail(r, code, source) ==
  /\ Put(r, [request[r] EXCEPT !.at = "failed", !.error = Some([code |-> code, source |-> source])])
  /\ disk' = Dropped(r)

-----------------------------------------------------------------------------
(* MultipartForm::from_request                                             *)

\* checked_payload_size: the new size, if it is within the limit
checked_payload_size(current, additional, limit) ==
  IF current + additional > limit THEN None ELSE Some(current + additional)

Start(r) ==
  /\ request[r].at = "new" /\ UNCHANGED sent
  /\ \/ Put(r, [request[r] EXCEPT !.at = "next"]) /\ UNCHANGED disk
     \/ Fail(r, "invalid_request", "multipart")

\* the next part: unnamed, a file, or text
NextPart(r) ==
  /\ request[r].at = "next" /\ Part(r) < MaxParts
  /\ \/ Fail(r, "invalid_request", "multipart") /\ UNCHANGED sent
     \/ \E storage \in BOOLEAN :
          /\ sent' = [sent EXCEPT ![r] = Append(@, [kind |-> "file", size |-> 0])]
          /\ IF storage
             THEN /\ Put(r, [request[r] EXCEPT !.at = "file", !.size = 0])
                  /\ disk' = disk \cup {[owner |-> r, part |-> Part(r) + 1, size |-> 0]}
             ELSE Fail(r, "request_storage_failed", "multipart")
     \/ /\ sent' = [sent EXCEPT ![r] = Append(@, [kind |-> "text", size |-> 0])]
        /\ Put(r, [request[r] EXCEPT !.at = "text", !.size = 0]) /\ UNCHANGED disk

Send(r, n) == sent' = [sent EXCEPT ![r][Part(r)].size = @ + n]

\* a chunk of a file: both limits, then the write
FileChunk(r) ==
  \E n \in Chunks :
    LET size == checked_payload_size(request[r].size, n, MaxFile)
        total == checked_payload_size(request[r].total, n, MaxTotal) IN
    /\ request[r].at = "file" /\ Send(r, n)
    /\ IF size = None \/ total = None THEN Fail(r, "payload_too_large", "multipart")
       ELSE \E s \in size, t \in total :
              \/ /\ Put(r, [request[r] EXCEPT !.size = s, !.total = t])
                 /\ disk' = {IF f.owner = r /\ f.part = Part(r) THEN [f EXCEPT !.size = s] ELSE f : f \in disk}
              \/ Fail(r, "request_storage_failed", "multipart")

FileEnd(r) ==
  /\ request[r].at = "file" /\ UNCHANGED sent
  /\ \/ /\ Put(r, [request[r] EXCEPT !.at = "next", !.files = @ \cup {[part |-> Part(r), size |-> request[r].size]}])
        /\ UNCHANGED disk
     \/ Fail(r, "request_storage_failed", "multipart")

\* Fault: text is not counted in the whole.
TextUncounted(r) ==
  \E n \in Chunks :
    /\ request[r].at = "text" /\ Send(r, n)
    /\ IF checked_payload_size(request[r].size, n, MaxField) = None
       THEN Fail(r, "payload_too_large", "multipart")
       ELSE Put(r, [request[r] EXCEPT !.size = @ + n]) /\ UNCHANGED disk
TextChunk(r) ==
  \E n \in Chunks :
    LET total == checked_payload_size(request[r].total, n, MaxTotal) IN
    /\ request[r].at = "text" /\ Send(r, n)
    /\ IF checked_payload_size(request[r].size, n, MaxField) = None \/ total = None
       THEN Fail(r, "payload_too_large", "multipart")
       ELSE \E t \in total :
              Put(r, [request[r] EXCEPT !.size = @ + n, !.total = t]) /\ UNCHANGED disk
\* String::from_utf8 may refuse the text
TextEnd(r) ==
  /\ request[r].at = "text" /\ UNCHANGED sent
  /\ \/ /\ Put(r, [request[r] EXCEPT !.at = "next", !.fields = @ \cup {[part |-> Part(r), size |-> request[r].size]}])
        /\ UNCHANGED disk
     \/ Fail(r, "invalid_request", "multipart")

\* try_next fails: the body is malformed or ends early
Broken(r) ==
  /\ request[r].at \in {"next", "file", "text"} /\ UNCHANGED sent
  /\ Fail(r, "invalid_request", "multipart")
LastPart(r) ==
  /\ request[r].at = "next" /\ UNCHANGED <<disk, sent>>
  /\ Put(r, [request[r] EXCEPT !.at = "handling"])

-----------------------------------------------------------------------------
(* ValidatedRequest::from_request                                          *)

\* parse, then validate: "ok", "malformed" or "invalid" for each source
Verdicts == [1..4 -> {"ok", "malformed", "invalid"}]
StartValidated(r) ==
  /\ request[r].at = "new" /\ UNCHANGED <<disk, sent>>
  /\ \E v \in Verdicts : Put(r, [request[r] EXCEPT !.at = "value", !.verdict = v])

\* Fault: the body is awaited first.
AwaitedBodyFirst == <<"body", "path", "query", "headers">>
\* the order in which the four are awaited
Awaited == Sources

\* source i: what does not parse, or parses and is not valid, is the answer
Extract(r, i) ==
  /\ request[r].at = "value" /\ Awaited[request[r].source] = Sources[i] /\ UNCHANGED sent
  /\ CASE request[r].verdict[i] = "malformed" -> Fail(r, "invalid_request", Sources[i])
       [] request[r].verdict[i] = "invalid" -> Fail(r, "validation_failed", Sources[i])
       [] OTHER ->
            /\ UNCHANGED disk
            /\ Put(r, [request[r] EXCEPT !.at = IF request[r].source = 4 THEN "handling" ELSE "value",
                                         !.source = IF @ = 4 THEN 4 ELSE @ + 1])
ValidatedPath(r) == Extract(r, 1)
ValidatedQuery(r) == Extract(r, 2)
ValidatedHeader(r) == Extract(r, 3)
ValidatedJson(r) == Extract(r, 4)

-----------------------------------------------------------------------------
\* The client disconnects, or the handler ends: the form is dropped, or its
\* extraction, and its files are removed.
Drop(r) ==
  /\ request[r].at \notin {"new", "gone"} /\ sent' = [sent EXCEPT ![r] = <<>>]
  /\ Put(r, [New EXCEPT !.at = "gone"]) /\ disk' = Dropped(r)

Init == request = [r \in Requests |-> New] /\ disk = {} /\ sent = [r \in Requests |-> <<>>]
Next ==
  \E r \in Requests :
    \/ Start(r) \/ NextPart(r) \/ FileChunk(r) \/ FileEnd(r) \/ TextChunk(r) \/ TextEnd(r)
    \/ Broken(r) \/ LastPart(r) \/ StartValidated(r) \/ Drop(r)
    \/ ValidatedPath(r) \/ ValidatedQuery(r) \/ ValidatedHeader(r) \/ ValidatedJson(r)
Spec == Init /\ [][Next]_vars

-----------------------------------------------------------------------------
TypeOK ==
  \A r \in Requests :
    /\ request[r].at \in {"new", "next", "file", "text", "value", "handling", "failed", "gone"}
    /\ Part(r) \in 0..MaxParts

\* The temporary directory holds exactly the files of forms that are being read or
\* handled: no error, lost client or failed write leaves one behind, and what is on
\* disk never exceeds the aggregate limit of the requests that own it.
FilesOwned ==
  /\ \A f \in disk : request[f.owner].at \in {"next", "file", "text", "handling"}
  /\ \A r \in Requests :
       /\ MapThenSumSet(LAMBDA f : f.size, {f \in disk : f.owner = r}) <= MaxTotal
       /\ request[r].at = "handling" => {f.part : f \in {g \in disk : g.owner = r}} = {f.part : f \in request[r].files}

\* A handler sees the whole form: every part the client sent is a field or a file
\* of its size, and total_bytes is their sum; a refused one was over a limit.
FormComplete ==
  \A r \in Requests :
    /\ request[r].at = "handling" /\ request[r].verdict = <<>> =>
         /\ \A p \in 1..Part(r) :
              [part |-> p, size |-> sent[r][p].size] \in
                (IF sent[r][p].kind = "file" THEN request[r].files ELSE request[r].fields)
         /\ request[r].total = MapThenSumSet(LAMBDA p : sent[r][p].size, 1..Part(r))
    /\ \A e \in request[r].error : e.code = "payload_too_large" =>
         \/ MapThenSumSet(LAMBDA p : sent[r][p].size, 1..Part(r)) > MaxTotal
         \/ \E p \in 1..Part(r) :
              sent[r][p].size > (IF sent[r][p].kind = "file" THEN MaxFile ELSE MaxField)

\* A handler runs only on four values that were all parsed and validated, and the
\* error of a refused request names the first source, in the order path, query,
\* headers, body, that is wrong.
FirstErrorTold ==
  \A r \in Requests : request[r].verdict # <<>> =>
    LET wrong == {i \in 1..4 : request[r].verdict[i] # "ok"} IN
    /\ request[r].at = "handling" => wrong = {}
    /\ \A e \in request[r].error :
         wrong # {} /\ e.source = Sources[Min(wrong)] /\ Status(e.code) = 400
=============================================================================
