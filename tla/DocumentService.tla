--------------------------- MODULE DocumentService ---------------------------
(***************************************************************************)
(* Intake of invoices: upload_document and update_document of              *)
(* services/document_service.py, the file store, and the part of start_run *)
(* that makes a start idempotent.  The handlers are coroutines on the one  *)
(* event loop of the server: a request keeps the loop from one await to    *)
(* the next, and the only await is the reading of the uploaded file.       *)
(* The analysis itself is the WorkflowService module; here it is one step. *)
(***************************************************************************)
EXTENDS Naturals, FiniteSets

CONSTANTS
    Requests,       \* requests clients send; ids of the rows a request inserts
    Keys,           \* idempotency keys clients choose
    Contents,       \* file contents; two contents differ iff their checksums do
    Unreadable,     \* contents the text extraction raises on
    Unsupported,    \* contents sent with a content type that is not allowed
    MaxCrashes      \* bound on the number of crashes

NoKey     == "no key"
NoContent == "no content"
NoRequest == "no request"

ASSUME KeysAssumption     == NoKey \notin Keys
ASSUME ContentsAssumption == /\ NoContent \notin Contents
                             /\ Unreadable \subseteq Contents
                             /\ Unsupported \subseteq Contents
ASSUME RequestsAssumption == NoRequest \notin Requests
ASSUME CrashAssumption    == MaxCrashes \in Nat

VARIABLES
    documents,      \* ids of the finance_documents rows (the uploading request's)
    versions,       \* finance_document_versions rows
    files,          \* the file store: one content per document and version number
    runs,           \* agent_runs rows, by the request that created them
    request,        \* what each request asks for, holds in memory and was answered
    crashes         \* number of crashes so far

vars == <<documents, versions, files, runs, request, crashes>>

Kinds == {"upload", "update"}

NoAnswer  == [status |-> 0, doc |-> NoRequest, number |-> 0, run |-> NoRequest]
NoRunRow  == [status |-> "none", key |-> NoKey, doc |-> NoRequest, number |-> 0,
              analysed |-> NoContent]
IdleRequest == [pc |-> "idle", kind |-> "upload", key |-> NoKey, doc |-> NoRequest,
                content |-> NoContent, number |-> 0, latest |-> NoContent,
                answer |-> NoAnswer]

-----------------------------------------------------------------------------

At(q, pc)      == request[q].pc = pc
Become(q, req) == request' = [request EXCEPT ![q] = req]
Goto(q, pc)    == Become(q, [request[q] EXCEPT !.pc = pc])

Answer(q, answer) == Become(q, [request[q] EXCEPT !.pc = "done", !.answer = answer])
Refuse(q, status) == Answer(q, [NoAnswer EXCEPT !.status = status])

\* Mutant: an await between saving the file and starting the run.
SynchronousUntilStart == {"create_document", "prepare", "create_version"}

\* Mutant: the loop is not given back when the request ends.
SynchronousForever == {"create_document", "prepare", "create_version", "start_run",
                       "create_run", "analyse", "done"}

\* Where a handler holds the event loop; between "reading" and the next step it does not.
Synchronous == {"create_document", "prepare", "create_version", "start_run",
                "create_run", "analyse"}

LoopFree(q) == \A p \in Requests \ {q} : request[p].pc \notin Synchronous

\* get_run_by_idempotency_key; a request without a key never finds one.
ExistingRuns(k) == IF k = NoKey THEN {}
                   ELSE {r \in Requests : runs[r].status # "none" /\ runs[r].key = k}

\* Mutant: an analysis still in progress is answered with a code of its own.
ReplyProcessing(doc, number, r, status) ==
    [status |-> IF status = "running" THEN 102 ELSE 202,
     doc |-> doc, number |-> number, run |-> r]

\* DocumentStatus(run.status) has no member "running": the response cannot be built.
Reply(doc, number, r, status) ==
    [status |-> IF status = "running" THEN 500 ELSE 202,
     doc |-> doc, number |-> number, run |-> r]

Init ==
    /\ documents = {}
    /\ versions  = {}
    /\ files     = {}
    /\ runs      = [r \in Requests |-> NoRunRow]
    /\ request   = [q \in Requests |-> IdleRequest]
    /\ crashes   = 0

-----------------------------------------------------------------------------

\* A client sends a request; an update names a document the list shows.
Receive(q, kind, key, doc, content) ==
    /\ At(q, "idle")
    /\ kind = "update" => doc \in documents
    /\ kind = "upload" => doc = NoRequest
    /\ Become(q, [IdleRequest EXCEPT !.pc = "arrived", !.kind = kind, !.key = key,
                                     !.doc = doc, !.content = content])
    /\ UNCHANGED <<documents, versions, files, runs, crashes>>

\* The handler starts: content type, then the first look at the idempotency key.
CheckRequest(q) ==
    LET req == request[q] IN
    /\ At(q, "arrived") /\ LoopFree(q)
    /\ \/ req.content \in Unsupported /\ Refuse(q, 400)
       \/ /\ req.content \notin Unsupported
          /\ \E r \in ExistingRuns(req.key) :
                IF req.kind = "update" /\ runs[r].doc # req.doc
                THEN Refuse(q, 400)
                ELSE Answer(q, Reply(runs[r].doc, runs[r].number, r, runs[r].status))
       \/ /\ req.content \notin Unsupported
          /\ ExistingRuns(req.key) = {}
          /\ Goto(q, IF req.kind = "upload" THEN "create_document" ELSE "prepare")
    /\ UNCHANGED <<documents, versions, files, runs, crashes>>

\* upload_document commits the document row, then awaits upload.read().
CreateDocument(q) ==
    /\ At(q, "create_document")
    /\ documents' = documents \cup {q}
    /\ Become(q, [request[q] EXCEPT !.pc = "reading", !.doc = q, !.number = 1])
    /\ UNCHANGED <<versions, files, runs, crashes>>

VersionsOf(d) == {v \in versions : v.doc = d}

\* get_latest_version: the row with the highest number, if there is a row.
LatestVersions(d) == {v \in VersionsOf(d) : \A u \in VersionsOf(d) : u.number <= v.number}

\* update_document reads the latest version, commits title and tags, then awaits
\* upload.read(): number and checksum are from before the await.
Prepare(q) ==
    LET Read(number, latest) == Become(q, [request[q] EXCEPT !.pc = "reading",
                                              !.number = number, !.latest = latest])
    IN
    /\ At(q, "prepare")
    /\ \/ VersionsOf(request[q].doc) = {} /\ Read(1, NoContent)
       \/ \E v \in LatestVersions(request[q].doc) : Read(v.number + 1, v.checksum)
    /\ UNCHANGED <<documents, versions, files, runs, crashes>>

\* Mutant: the path of a file does not depend on the version number.
WrittenPerDocument(store, d, n, content) ==
    {IF f.doc = d THEN [f EXCEPT !.content = content] ELSE f : f \in store}
        \cup {[doc |-> d, number |-> n, content |-> content]}

\* path.write_bytes: clients send the revisions of an invoice under one file name.
Written(store, d, n, content) ==
    {f \in store : ~(f.doc = d /\ f.number = n)}
        \cup {[doc |-> d, number |-> n, content |-> content]}

\* Mutant: the checksum of the latest version is not compared.
IdenticalNever(req) == FALSE

Identical(req) == req.latest = req.content

\* save_upload writes the file first; only then is identical content refused.
SaveUpload(q) ==
    LET req == request[q] IN
    /\ At(q, "reading") /\ LoopFree(q)
    /\ files' = Written(files, req.doc, req.number, req.content)
    /\ IF Identical(req) THEN Refuse(q, 400) ELSE Goto(q, "create_version")
    /\ UNCHANGED <<documents, versions, runs, crashes>>

NumberTaken(d, n) == \E v \in versions : v.doc = d /\ v.number = n

\* create_version; the unique constraint turns a lost race into an internal error.
CreateVersion(q) ==
    LET req == request[q] IN
    /\ At(q, "create_version")
    /\ IF NumberTaken(req.doc, req.number)
       THEN Refuse(q, 500) /\ UNCHANGED versions
       ELSE /\ versions' = versions \cup
                 {[doc |-> req.doc, number |-> req.number, checksum |-> req.content]}
            /\ Goto(q, "start_run")
    /\ UNCHANGED <<documents, files, runs, crashes>>

\* Mutant: start_run trusts the handler's own look at the key.
RecheckedNever(k) == {}

Rechecked(k) == ExistingRuns(k)

\* start_run looks at the key again, after the await.  A run found now is answered
\* with this request's own document and version.
Recheck(q) ==
    LET req == request[q] IN
    /\ At(q, "start_run")
    /\ \/ /\ Rechecked(req.key) = {}
          /\ Goto(q, "create_run")
       \/ \E r \in Rechecked(req.key) :
             Answer(q, Reply(req.doc, req.number, r, runs[r].status))
    /\ UNCHANGED <<documents, versions, files, runs, crashes>>

CreateRun(q) ==
    LET req == request[q] IN
    /\ At(q, "create_run")
    /\ runs' = [runs EXCEPT ![q] = [NoRunRow EXCEPT !.status = "running", !.key = req.key,
                                       !.doc = req.doc, !.number = req.number]]
    /\ Goto(q, "analyse")
    /\ UNCHANGED <<documents, versions, files, crashes>>

\* The rest of start_run reads the stored file: unreadable content leaves the run
\* "running", otherwise the graph pauses for a person or fails.
Analyse(q) ==
    LET req == request[q] IN
    /\ At(q, "analyse")
    /\ \E f \in files, status \in {"running", "waiting_approval", "failed"} :
          /\ f.doc = req.doc /\ f.number = req.number
          /\ status = "running" <=> f.content \in Unreadable
          /\ runs' = [runs EXCEPT ![q] = [@ EXCEPT !.status = status,
                                                   !.analysed = f.content]]
          /\ Answer(q, Reply(req.doc, req.number, q, status))
    /\ UNCHANGED <<documents, versions, files, crashes>>

\* The server dies: requests in progress are lost, rows and files stay.
Crash ==
    /\ crashes < MaxCrashes
    /\ crashes' = crashes + 1
    /\ request' = [q \in Requests |-> IF request[q].pc \in {"idle", "done"} THEN request[q]
                                      ELSE [request[q] EXCEPT !.pc = "done"]]
    /\ UNCHANGED <<documents, versions, files, runs>>

-----------------------------------------------------------------------------

Proceed(q) ==
    \/ CheckRequest(q) \/ CreateDocument(q) \/ Prepare(q) \/ SaveUpload(q)
    \/ CreateVersion(q) \/ Recheck(q) \/ CreateRun(q) \/ Analyse(q)

Next ==
    \/ \E q \in Requests, kind \in Kinds, key \in Keys \cup {NoKey},
          doc \in Requests \cup {NoRequest}, content \in Contents :
             Receive(q, kind, key, doc, content)
    \/ \E q \in Requests : Proceed(q)
    \/ Crash

Spec == Init /\ [][Next]_vars

\* The event loop runs every coroutine that can go on; nobody has to send a request.
FairSpec == Spec /\ \A q \in Requests : WF_vars(Proceed(q))

-----------------------------------------------------------------------------
(* Properties *)

VersionRows == [doc : Requests, number : Nat, checksum : Contents]
FileRows    == [doc : Requests, number : Nat, content : Contents]
RunRows     == [status : {"none", "running", "waiting_approval", "failed"},
                key : Keys \cup {NoKey}, doc : Requests \cup {NoRequest},
                number : Nat, analysed : Contents \cup {NoContent}]
Answers     == [status : {0, 202, 400, 500}, doc : Requests \cup {NoRequest},
                number : Nat, run : Requests \cup {NoRequest}]
Locations   == {"idle", "arrived", "reading", "done"} \cup
               {"create_document", "prepare", "create_version", "start_run",
                "create_run", "analyse"}
RequestStates == [pc : Locations, kind : Kinds, key : Keys \cup {NoKey},
                  doc : Requests \cup {NoRequest}, content : Contents \cup {NoContent},
                  number : Nat, latest : Contents \cup {NoContent}, answer : Answers]

\* Rows, files and requests hold values of the code's types.
TypeOK ==
    /\ documents \subseteq Requests
    /\ versions \subseteq VersionRows
    /\ files \subseteq FileRows
    /\ runs \in [Requests -> RunRows]
    /\ request \in [Requests -> RequestStates]
    /\ crashes \in 0..MaxCrashes

\* However uploads and updates with one key overlap, and wherever the server dies
\* between them, at most one run is ever started for the key (README: "idempotent
\* upload start"), although the column has no unique constraint.
OneRunPerKey == \A p, q \in Requests :
    runs[p].status # "none" /\ runs[q].status # "none" /\ runs[p].key = runs[q].key
        => p = q \/ runs[p].key = NoKey

\* A run analyses exactly the content whose checksum its version row records, also
\* when another update overwrites the same path before or after.
AnalysedWhatWasChecked == \A r \in Requests :
    runs[r].analysed # NoContent =>
        [doc |-> runs[r].doc, number |-> runs[r].number, checksum |-> runs[r].analysed]
            \in versions

\* A document's history has no gaps and no version that repeats its predecessor,
\* although number and predecessor are read before the await and used after it.
VersionHistory == \A v \in versions : v.number > 1 =>
    \E u \in versions : /\ u.doc = v.doc /\ u.number = v.number - 1
                        /\ u.checksum # v.checksum

\* A stored file differs from its version's checksum only through a request that was
\* refused, failed or lost (or is about to be): an accepted one never damages a file.
StoredFileAccounted == \A v \in versions, f \in files :
    f.doc = v.doc /\ f.number = v.number /\ f.content # v.checksum =>
        \E q \in Requests :
            /\ request[q].doc = v.doc /\ request[q].number = v.number
            /\ request[q].content = f.content
            /\ \/ At(q, "create_version")
               \/ At(q, "done") /\ request[q].answer.status \in {0, 400, 500}

\* Every request is answered: no order of awaits leaves one waiting for the loop.
EveryRequestAnswered == \A q \in Requests : At(q, "arrived") ~> At(q, "done")

=============================================================================
