------------------------ MODULE DocumentServiceProofs ------------------------
(***************************************************************************)
(* Proofs about DocumentService: its types, mutual exclusion on the event  *)
(* loop, one run per idempotency key, that a run analyses the content its  *)
(* version was created for, that a document's history has no gaps, that    *)
(* every stored file is accounted for, that no request is ever stuck, and  *)
(* that each is answered if the loop runs what is ready.                   *)
(***************************************************************************)
EXTENDS DocumentService, TLAPS

\* Requests between two awaits: at most one of them is running on the loop.
LoopHeldByOne == \A p, q \in Requests :
    request[p].pc \in Synchronous /\ request[q].pc \in Synchronous => p = q

\* A request about to insert its run has just seen that nobody holds its key.
KeyUnclaimed == \A q \in Requests :
    At(q, "create_run") => ExistingRuns(request[q].key) = {}

\* From the writing of the file to the end of the request, the file holds what the
\* request sent; from create_version on, so does the version row.
OwnFile(req) == \A f \in files :
    f.doc = req.doc /\ f.number = req.number => f.content = req.content
OwnVersion(req) ==
    [doc |-> req.doc, number |-> req.number, checksum |-> req.content] \in versions
FileIsOwn == \A q \in Requests :
    /\ request[q].pc \in {"create_version", "start_run", "create_run", "analyse"}
         => OwnFile(request[q])
    /\ request[q].pc \in {"start_run", "create_run", "analyse"} => OwnVersion(request[q])

\* A request in the analysis has inserted its run.
RunBegun == \A q \in Requests : At(q, "analyse") =>
    /\ runs[q].status # "none"
    /\ runs[q].doc = request[q].doc /\ runs[q].number = request[q].number

\* A request that arrived has content, and its document is known before it is used.
Filled(req) ==
    /\ req.pc \notin {"idle", "done"} => req.content \in Contents
    /\ req.pc \notin {"idle", "arrived", "create_document", "done"} => req.doc \in Requests
    /\ req.pc = "arrived" /\ req.kind = "update" => req.doc \in Requests
RequestsFilled == \A q \in Requests : Filled(request[q])

TypeInv == TypeOK /\ RequestsFilled

-----------------------------------------------------------------------------

\* Type correctness is kept by a request whose new record is well typed.
LEMMA BecomeTyped ==
    ASSUME NEW q \in Requests, NEW req \in RequestStates, Become(q, req),
           request \in [Requests -> RequestStates]
    PROVE  request' \in [Requests -> RequestStates]
BY DEF Become

\* An answer is well typed whatever run it is built from.
LEMMA ReplyTyped ==
    ASSUME NEW doc \in Requests \cup {NoRequest}, NEW number \in Nat,
           NEW r \in Requests, NEW status
    PROVE  Reply(doc, number, r, status) \in Answers
BY DEF Reply, Answers

\* A request that is answered, refused or moved on stays well typed.
LEMMA AnswerTyped ==
    ASSUME NEW q \in Requests, NEW answer \in Answers, Answer(q, answer),
           request \in [Requests -> RequestStates]
    PROVE  request' \in [Requests -> RequestStates]
BY DEF Answer, Become, RequestStates, Locations

\* A refused request is within its type.
LEMMA RefuseTyped ==
    ASSUME NEW q \in Requests, NEW status \in {400, 500}, Refuse(q, status),
           request \in [Requests -> RequestStates]
    PROVE  request' \in [Requests -> RequestStates]
<1>1. [NoAnswer EXCEPT !.status = status] \in Answers
  BY DEF NoAnswer, Answers
<1> QED BY <1>1, AnswerTyped DEF Refuse

\* A request that moves on is within its type.
LEMMA GotoTyped ==
    ASSUME NEW q \in Requests, NEW pc \in Locations, Goto(q, pc),
           request \in [Requests -> RequestStates]
    PROVE  request' \in [Requests -> RequestStates]
BY DEF Goto, Become, RequestStates

\* Initially rows, files and requests are within their types.
LEMMA InitTyped == Init => TypeOK
<1> SUFFICES ASSUME Init PROVE TypeOK
  OBVIOUS
<1>1. IdleRequest \in RequestStates
  BY DEF IdleRequest, RequestStates, Locations, Kinds, NoAnswer, Answers
<1>2. NoRunRow \in RunRows
  BY DEF NoRunRow, RunRows
<1> QED BY <1>1, <1>2, CrashAssumption DEF Init, TypeOK, CrashAssumption

\* A request that arrives is within its type.
LEMMA ReceiveTyped ==
    ASSUME TypeOK, NEW q \in Requests, NEW kind \in Kinds, NEW key \in Keys \cup {NoKey},
           NEW doc \in Requests \cup {NoRequest}, NEW content \in Contents,
           Receive(q, kind, key, doc, content)
    PROVE  TypeOK'
<1> DEFINE req == [IdleRequest EXCEPT !.pc = "arrived", !.kind = kind, !.key = key,
                                      !.doc = doc, !.content = content]
<1>1. req \in RequestStates
  BY DEF IdleRequest, RequestStates, Locations, Kinds, NoAnswer, Answers
<1>2. request' \in [Requests -> RequestStates]
  <2> HIDE DEF req
  <2> QED BY <1>1, BecomeTyped DEF Receive, TypeOK, req
<1> QED BY <1>2 DEF Receive, TypeOK

\* A step of a handler keeps rows, files and requests within their types.
LEMMA ProceedTyped ==
    ASSUME TypeInv, NEW q \in Requests, Proceed(q)
    PROVE  TypeOK'
<1> DEFINE req == request[q]
<1> USE DEF TypeInv
<1>r. req \in RequestStates
  BY DEF TypeOK
<1>f. Filled(req)
  BY DEF RequestsFilled
<1>l. {"create_document", "prepare", "reading", "create_version", "start_run",
       "create_run", "analyse"} \subseteq Locations
  BY DEF Locations
<1>t. \A r \in Requests : /\ runs[r].doc \in Requests \cup {NoRequest}
                          /\ runs[r].number \in Nat
  BY DEF TypeOK, RunRows
<1>1. CASE CheckRequest(q)
  <2>1. request' \in [Requests -> RequestStates]
    <3>1. CASE Refuse(q, 400)
      BY <3>1, RefuseTyped DEF TypeOK
    <3>2. ASSUME NEW r \in Requests,
                 Answer(q, Reply(runs[r].doc, runs[r].number, r, runs[r].status))
          PROVE  request' \in [Requests -> RequestStates]
      BY <3>2, <1>t, ReplyTyped, AnswerTyped DEF TypeOK
    <3>3. ASSUME NEW pc \in {"create_document", "prepare"}, Goto(q, pc)
          PROVE  request' \in [Requests -> RequestStates]
      BY <3>3, <1>l, GotoTyped DEF TypeOK
    <3>4. \A r \in ExistingRuns(request[q].key) : r \in Requests
      BY DEF ExistingRuns
    <3> QED BY <1>1, <3>1, <3>2, <3>3, <3>4 DEF CheckRequest
  <2> QED BY <1>1, <2>1 DEF CheckRequest, TypeOK
<1>2. CASE CreateDocument(q)
  <2>1. [request[q] EXCEPT !.pc = "reading", !.doc = q, !.number = 1] \in RequestStates
    BY <1>r DEF RequestStates, Locations
  <2>2. request' \in [Requests -> RequestStates]
    BY <1>2, <2>1, BecomeTyped DEF CreateDocument, TypeOK
  <2> QED BY <1>2, <2>2 DEF CreateDocument, TypeOK
<1>3. CASE Prepare(q)
  <2>1. ASSUME NEW n \in Nat, NEW c \in Contents \cup {NoContent},
               Become(q, [request[q] EXCEPT !.pc = "reading", !.number = n, !.latest = c])
        PROVE  request' \in [Requests -> RequestStates]
    <3>1. [request[q] EXCEPT !.pc = "reading", !.number = n, !.latest = c] \in RequestStates
      BY <1>r DEF RequestStates, Locations
    <3> QED BY <2>1, <3>1, BecomeTyped DEF TypeOK
  <2>2. \A v \in LatestVersions(request[q].doc) :
           v.number + 1 \in Nat /\ v.checksum \in Contents \cup {NoContent}
    BY DEF LatestVersions, VersionsOf, TypeOK, VersionRows
  <2>3. request' \in [Requests -> RequestStates]
    BY <1>3, <2>1, <2>2 DEF Prepare
  <2> QED BY <1>3, <2>3 DEF Prepare, TypeOK
<1>4. CASE SaveUpload(q)
  <2>1. [doc |-> req.doc, number |-> req.number, content |-> req.content] \in FileRows
    BY <1>4, <1>r, <1>f DEF SaveUpload, At, Filled, RequestStates, FileRows
  <2>2. files' \subseteq FileRows
    BY <1>4, <2>1 DEF SaveUpload, Written, TypeOK
  <2>3. request' \in [Requests -> RequestStates]
    BY <1>4, <1>l, RefuseTyped, GotoTyped DEF SaveUpload, TypeOK
  <2> QED BY <1>4, <2>2, <2>3 DEF SaveUpload, TypeOK
<1>5. CASE CreateVersion(q)
  <2>1. [doc |-> req.doc, number |-> req.number, checksum |-> req.content] \in VersionRows
    BY <1>5, <1>r, <1>f DEF CreateVersion, At, Filled, RequestStates, VersionRows
  <2>2. versions' \subseteq VersionRows
    BY <1>5, <2>1 DEF CreateVersion, TypeOK
  <2>3. request' \in [Requests -> RequestStates]
    BY <1>5, <1>l, RefuseTyped, GotoTyped DEF CreateVersion, TypeOK
  <2> QED BY <1>5, <2>2, <2>3 DEF CreateVersion, TypeOK
<1>6. CASE Recheck(q)
  <2>1. request' \in [Requests -> RequestStates]
    <3>1. CASE Goto(q, "create_run")
      BY <3>1, <1>l, GotoTyped DEF TypeOK
    <3>2. ASSUME NEW r \in Requests, Answer(q, Reply(req.doc, req.number, r, runs[r].status))
          PROVE  request' \in [Requests -> RequestStates]
      <4>1. req.doc \in Requests \cup {NoRequest} /\ req.number \in Nat
        BY <1>r DEF RequestStates
      <4> QED BY <3>2, <4>1, ReplyTyped, AnswerTyped DEF TypeOK
    <3>3. \A r \in Rechecked(req.key) : r \in Requests
      BY DEF Rechecked, ExistingRuns
    <3> QED BY <1>6, <3>1, <3>2, <3>3 DEF Recheck
  <2> QED BY <1>6, <2>1 DEF Recheck, TypeOK
<1>7. CASE CreateRun(q)
  <2>1. [NoRunRow EXCEPT !.status = "running", !.key = req.key, !.doc = req.doc,
                         !.number = req.number] \in RunRows
    BY <1>r DEF RequestStates, NoRunRow, RunRows
  <2>2. runs' \in [Requests -> RunRows]
    BY <1>7, <2>1 DEF CreateRun, TypeOK
  <2>3. request' \in [Requests -> RequestStates]
    BY <1>7, <1>l, GotoTyped DEF CreateRun, TypeOK
  <2> QED BY <1>7, <2>2, <2>3 DEF CreateRun, TypeOK
<1>8. CASE Analyse(q)
  <2>1. PICK f \in files, status \in {"running", "waiting_approval", "failed"} :
            /\ runs' = [runs EXCEPT ![q] = [@ EXCEPT !.status = status,
                                                     !.analysed = f.content]]
            /\ Answer(q, Reply(req.doc, req.number, q, status))
    BY <1>8 DEF Analyse
  <2>2. f.content \in Contents /\ runs[q] \in RunRows
    BY DEF TypeOK, FileRows
  <2>3. [runs[q] EXCEPT !.status = status, !.analysed = f.content] \in RunRows
    BY <2>2 DEF RunRows
  <2>4. runs' \in [Requests -> RunRows]
    BY <2>1, <2>3 DEF TypeOK
  <2>5. request' \in [Requests -> RequestStates]
    <3>1. req.doc \in Requests \cup {NoRequest} /\ req.number \in Nat
      BY <1>r DEF RequestStates
    <3> QED BY <2>1, <3>1, ReplyTyped, AnswerTyped DEF TypeOK
  <2> QED BY <1>8, <2>4, <2>5 DEF Analyse, TypeOK
<1> QED BY <1>1, <1>2, <1>3, <1>4, <1>5, <1>6, <1>7, <1>8 DEF Proceed

\* No step of a request makes it forget its content or its document.
LEMMA ProceedFilled ==
    ASSUME TypeInv, NEW q \in Requests, Proceed(q)
    PROVE  RequestsFilled'
<1>1. Filled(request[q]) /\ request[q] \in RequestStates
  BY DEF TypeInv, TypeOK, RequestsFilled
<1>2. ASSUME NEW req, Become(q, req), Filled(req)
      PROVE  RequestsFilled'
  BY <1>2 DEF Become, RequestsFilled, TypeInv, TypeOK
<1>3. \A r : Filled([request[q] EXCEPT !.pc = "done", !.answer = r])
  BY <1>1 DEF Filled, RequestStates
<1>4. ASSUME NEW pc \in {"reading", "create_version", "start_run", "create_run", "analyse"},
             request[q].doc \in Requests, request[q].content \in Contents
      PROVE  Filled([request[q] EXCEPT !.pc = pc])
  BY <1>4, <1>1 DEF Filled, RequestStates
<1>5. CASE CheckRequest(q)
  <2>1. Filled([request[q] EXCEPT !.pc = IF request[q].kind = "upload"
                                         THEN "create_document" ELSE "prepare"])
    BY <1>5, <1>1 DEF CheckRequest, At, Filled, RequestStates, Kinds
  <2> QED BY <1>5, <1>2, <1>3, <2>1 DEF CheckRequest, Refuse, Answer, Goto
<1>6. CASE CreateDocument(q)
  <2>1. Filled([request[q] EXCEPT !.pc = "reading", !.doc = q, !.number = 1])
    BY <1>6, <1>1 DEF CreateDocument, At, Filled, RequestStates
  <2> QED BY <1>6, <1>2, <2>1 DEF CreateDocument
<1>7. CASE Prepare(q)
  <2>1. \A n, c : Filled([request[q] EXCEPT !.pc = "reading", !.number = n, !.latest = c])
    BY <1>7, <1>1 DEF Prepare, At, Filled, RequestStates
  <2> QED BY <1>7, <1>2, <2>1 DEF Prepare
<1>8. ASSUME request[q].pc \in {"reading", "create_version", "start_run", "create_run",
                               "analyse"}
      PROVE  request[q].doc \in Requests /\ request[q].content \in Contents
  BY <1>8, <1>1 DEF Filled
<1>9. CASE SaveUpload(q) \/ CreateVersion(q) \/ Recheck(q) \/ CreateRun(q) \/ Analyse(q)
  BY <1>9, <1>2, <1>3, <1>4, <1>8
     DEF SaveUpload, CreateVersion, Recheck, CreateRun, Analyse, At, Refuse, Answer, Goto
<1> QED BY <1>5, <1>6, <1>7, <1>9 DEF Proceed

\* A request that arrives is filled in as far as its handler will read it.
LEMMA ReceiveFilled ==
    ASSUME TypeInv, NEW q \in Requests, NEW kind \in Kinds, NEW key \in Keys \cup {NoKey},
           NEW doc \in Requests \cup {NoRequest}, NEW content \in Contents,
           Receive(q, kind, key, doc, content)
    PROVE  RequestsFilled'
<1> DEFINE req == [IdleRequest EXCEPT !.pc = "arrived", !.kind = kind, !.key = key,
                                      !.doc = doc, !.content = content]
<1>1. Filled(req)
  BY DEF Receive, TypeInv, TypeOK, Filled, IdleRequest
<1>2. Become(q, req)
  BY DEF Receive
<1> HIDE DEF req
<1> QED BY <1>1, <1>2 DEF Become, RequestsFilled, TypeInv, TypeOK

\* A crash answers nothing and forgets requests, which keeps types and fills.
LEMMA CrashTyped == ASSUME TypeInv, Crash PROVE TypeInv'
<1>1. \A q \in Requests : [request[q] EXCEPT !.pc = "done"] \in RequestStates
  BY DEF TypeInv, TypeOK, RequestStates, Locations
<1>2. request' \in [Requests -> RequestStates]
  BY <1>1 DEF Crash, TypeInv, TypeOK
<1>3. crashes' \in 0..MaxCrashes
  BY CrashAssumption DEF CrashAssumption, Crash, TypeInv, TypeOK
<1>4. RequestsFilled'
  BY DEF Crash, TypeInv, TypeOK, RequestStates, RequestsFilled, Filled
<1> QED BY <1>2, <1>3, <1>4 DEF Crash, TypeInv, TypeOK

\* TypeInv is inductive.
LEMMA TypeInductive == ASSUME TypeInv, [Next]_vars PROVE TypeInv'
<1>1. CASE UNCHANGED vars
  BY <1>1 DEF vars, TypeInv, TypeOK, RequestsFilled
<1> QED BY <1>1, ReceiveTyped, ReceiveFilled, ProceedTyped, ProceedFilled, CrashTyped
        DEF Next, TypeInv

\* Rows, files and requests always hold values of the code's types: whatever the
\* number of requests, keys and contents.
THEOREM IntakeTypeCorrect == Spec => []TypeOK
<1>1. Init => TypeInv
  <2>1. Init => RequestsFilled
    BY DEF Init, RequestsFilled, Filled, IdleRequest
  <2> QED BY <2>1, InitTyped DEF TypeInv
<1>2. TypeInv => TypeOK
  BY DEF TypeInv
<1> QED BY <1>1, <1>2, TypeInductive, PTL DEF Spec

-----------------------------------------------------------------------------

\* Where each step of a request leads.
LEMMA Destinations ==
    ASSUME TypeInv, NEW q \in Requests
    PROVE  /\ CheckRequest(q)   => request'[q].pc \in {"done", "create_document", "prepare"}
           /\ CreateDocument(q) => request'[q].pc = "reading"
           /\ Prepare(q)        => request'[q].pc = "reading"
           /\ SaveUpload(q)     => request'[q].pc \in {"done", "create_version"}
           /\ CreateVersion(q)  => request'[q].pc \in {"done", "start_run"}
           /\ Recheck(q)        => request'[q].pc \in {"done", "create_run"}
           /\ CreateRun(q)      => request'[q].pc = "analyse"
           /\ Analyse(q)        => request'[q].pc = "done"
<1>0. request \in [Requests -> RequestStates] /\ request[q] \in RequestStates
  BY DEF TypeInv, TypeOK
<1>1. \A pc : Goto(q, pc) => request'[q].pc = pc
  BY <1>0 DEF Goto, Become, RequestStates
<1>2. \A answer : Answer(q, answer) => request'[q].pc = "done"
  BY <1>0 DEF Answer, Become, RequestStates
<1>3. \A status : Refuse(q, status) => request'[q].pc = "done"
  BY <1>2 DEF Refuse
<1>4. ASSUME NEW d, NEW n, NEW c,
             Become(q, [request[q] EXCEPT !.pc = "reading", !.doc = d, !.number = n])
             \/ Become(q, [request[q] EXCEPT !.pc = "reading", !.number = n, !.latest = c])
      PROVE  request'[q].pc = "reading"
  BY <1>0, <1>4 DEF Become, RequestStates
<1>5. CheckRequest(q) => request'[q].pc \in {"done", "create_document", "prepare"}
  BY <1>1, <1>2, <1>3 DEF CheckRequest
<1>6. CreateDocument(q) \/ Prepare(q) => request'[q].pc = "reading"
  BY <1>4 DEF CreateDocument, Prepare
<1>7. SaveUpload(q) => request'[q].pc \in {"done", "create_version"}
  BY <1>1, <1>3 DEF SaveUpload
<1>8. CreateVersion(q) => request'[q].pc \in {"done", "start_run"}
  BY <1>1, <1>3 DEF CreateVersion
<1>9. Recheck(q) => request'[q].pc \in {"done", "create_run"}
  BY <1>1, <1>2 DEF Recheck
<1>10. CreateRun(q) => request'[q].pc = "analyse"
  BY <1>1 DEF CreateRun
<1>11. Analyse(q) => request'[q].pc = "done"
  BY <1>2 DEF Analyse
<1> QED BY <1>5, <1>6, <1>7, <1>8, <1>9, <1>10, <1>11

\* A step of one request leaves the others' records alone, and takes the event loop
\* only when it is free.
LEMMA ProceedLocal ==
    ASSUME TypeInv, NEW q \in Requests, Proceed(q)
    PROVE  /\ \A p \in Requests : p # q => request'[p] = request[p]
           /\ request'[q].pc \in Synchronous =>
                 request[q].pc \in Synchronous \/ LoopFree(q)
BY DEF Proceed, CheckRequest, CreateDocument, Prepare, SaveUpload, CreateVersion, Recheck,
       CreateRun, Analyse, Refuse, Answer, Goto, Become, At, Synchronous, TypeInv, TypeOK

\* Every step keeps the event loop with one request at most.
LEMMA LoopInductive ==
    ASSUME TypeInv, LoopHeldByOne, [Next]_vars
    PROVE  LoopHeldByOne'
<1>1. CASE UNCHANGED vars
  BY <1>1 DEF vars, LoopHeldByOne
<1>2. ASSUME NEW q \in Requests, NEW kind \in Kinds, NEW key \in Keys \cup {NoKey},
             NEW doc \in Requests \cup {NoRequest}, NEW content \in Contents,
             Receive(q, kind, key, doc, content)
      PROVE  LoopHeldByOne'
  BY <1>2 DEF Receive, Become, IdleRequest, LoopHeldByOne, Synchronous, TypeInv, TypeOK
<1>3. ASSUME NEW q \in Requests, Proceed(q)
      PROVE  LoopHeldByOne'
  BY <1>3, ProceedLocal DEF LoopHeldByOne, LoopFree
<1>4. CASE Crash
  BY <1>4 DEF Crash, LoopHeldByOne, Synchronous, TypeInv, TypeOK, RequestStates
<1> QED BY <1>1, <1>2, <1>3, <1>4 DEF Next

\* Only CreateRun enters the analysis, and it inserts the row.
LEMMA RunBegunInductive ==
    ASSUME TypeInv, RunBegun, [Next]_vars
    PROVE  RunBegun'
<1>1. CASE UNCHANGED vars
  BY <1>1 DEF vars, RunBegun, At
<1>2. ASSUME NEW q \in Requests, UNCHANGED runs,
             \A p \in Requests : p # q => request'[p] = request[p],
             request'[q].pc # "analyse"
      PROVE  RunBegun'
  BY <1>2 DEF RunBegun, At
<1>3. ASSUME NEW q \in Requests, NEW kind \in Kinds, NEW key \in Keys \cup {NoKey},
             NEW doc \in Requests \cup {NoRequest}, NEW content \in Contents,
             Receive(q, kind, key, doc, content)
      PROVE  RunBegun'
  BY <1>2, <1>3 DEF Receive, Become, IdleRequest, TypeInv, TypeOK
<1>4. ASSUME NEW q \in Requests, Proceed(q)
      PROVE  RunBegun'
  <2>0. \A p \in Requests : p # q => request'[p] = request[p]
    BY <1>4, ProceedLocal
  <2>1. CASE \/ CheckRequest(q) \/ CreateDocument(q) \/ Prepare(q) \/ SaveUpload(q)
             \/ CreateVersion(q) \/ Recheck(q)
    <3>1. UNCHANGED runs
      BY <2>1 DEF CheckRequest, CreateDocument, Prepare, SaveUpload, CreateVersion, Recheck
    <3> QED BY <2>0, <2>1, <3>1, <1>2, Destinations
  <2>2. CASE CreateRun(q)
    BY <2>0, <2>2 DEF CreateRun, Goto, Become, RunBegun, At, NoRunRow, TypeInv, TypeOK,
                      RequestStates
  <2>3. CASE Analyse(q)
    <3>1. request'[q].pc # "analyse"
      BY <2>3, Destinations
    <3>2. \A p \in Requests : p # q => runs'[p] = runs[p]
      BY <2>3 DEF Analyse, TypeInv, TypeOK
    <3> QED BY <2>0, <3>1, <3>2 DEF RunBegun, At
  <2> QED BY <1>4, <2>1, <2>2, <2>3 DEF Proceed
<1>5. CASE Crash
  BY <1>5 DEF Crash, RunBegun, At, TypeInv, TypeOK, RequestStates
<1> QED BY <1>1, <1>3, <1>4, <1>5 DEF Next

KeyInv == LoopHeldByOne /\ KeyUnclaimed /\ RunBegun /\ OneRunPerKey

\* Every step keeps a key with one run at most, and unclaimed while a request is about to
\* create its run.
LEMMA KeyInductive ==
    ASSUME TypeInv, KeyInv, [Next]_vars
    PROVE  KeyUnclaimed' /\ OneRunPerKey'
<1> USE DEF KeyInv
<1>1. CASE UNCHANGED vars
  BY <1>1 DEF vars, KeyUnclaimed, OneRunPerKey, ExistingRuns, At
<1>2. ASSUME NEW q \in Requests, NEW kind \in Kinds, NEW key \in Keys \cup {NoKey},
             NEW doc \in Requests \cup {NoRequest}, NEW content \in Contents,
             Receive(q, kind, key, doc, content)
      PROVE  KeyUnclaimed' /\ OneRunPerKey'
  BY <1>2 DEF Receive, Become, IdleRequest, KeyUnclaimed, OneRunPerKey, ExistingRuns, At,
              TypeInv, TypeOK
<1>3. ASSUME NEW q \in Requests, UNCHANGED runs,
             \A p \in Requests : p # q => request'[p] = request[p],
             request'[q].pc = "create_run" => ExistingRuns(request'[q].key) = {}
      PROVE  KeyUnclaimed' /\ OneRunPerKey'
  BY <1>3 DEF KeyUnclaimed, OneRunPerKey, ExistingRuns, At
<1>4. ASSUME NEW q \in Requests, Proceed(q)
      PROVE  KeyUnclaimed' /\ OneRunPerKey'
  <2>0. \A p \in Requests : p # q => request'[p] = request[p]
    BY <1>4, ProceedLocal
  <2>1. CASE CheckRequest(q) \/ CreateDocument(q) \/ Prepare(q) \/ SaveUpload(q)
                \/ CreateVersion(q)
    <3>1. request'[q].pc # "create_run" /\ UNCHANGED runs
      BY <2>1, Destinations
         DEF CheckRequest, CreateDocument, Prepare, SaveUpload, CreateVersion
    <3> QED BY <1>3, <2>0, <3>1
  <2>2. CASE Recheck(q)
    <3>1. UNCHANGED runs
      BY <2>2 DEF Recheck
    <3>2. request'[q].pc = "create_run" => ExistingRuns(request'[q].key) = {}
      BY <2>2 DEF Recheck, Rechecked, Answer, Goto, Become, TypeInv, TypeOK, RequestStates
    <3> QED BY <1>3, <2>0, <3>1, <3>2
  <2>3. CASE CreateRun(q) \/ Analyse(q)
    <3>1. request[q].pc \in Synchronous /\ request'[q].pc # "create_run"
      BY <2>3 DEF CreateRun, Analyse, At, Answer, Goto, Become, Synchronous,
                  TypeInv, TypeOK, RequestStates
    <3>2. \A p \in Requests : request'[p].pc # "create_run"
      BY <2>0, <3>1 DEF LoopHeldByOne, Synchronous
    <3>3. KeyUnclaimed'
      BY <3>2 DEF KeyUnclaimed, At
    <3>4. CASE CreateRun(q)
      <4>1. ExistingRuns(request[q].key) = {}
        BY <3>4 DEF CreateRun, KeyUnclaimed
      <4>2. /\ runs'[q].key = request[q].key
            /\ \A p \in Requests : p # q => runs'[p] = runs[p]
        BY <3>4 DEF CreateRun, NoRunRow, TypeInv, TypeOK
      <4> QED BY <3>3, <4>1, <4>2 DEF OneRunPerKey, ExistingRuns
    <3>5. CASE Analyse(q)
      <4>0. runs[q].status # "none"
        BY <3>5 DEF Analyse, RunBegun
      <4> QED BY <3>3, <3>5, <4>0 DEF Analyse, OneRunPerKey, TypeInv, TypeOK, RunRows
    <3> QED BY <2>3, <3>4, <3>5
  <2> QED BY <1>4, <2>1, <2>2, <2>3 DEF Proceed
<1>5. CASE Crash
  BY <1>5 DEF Crash, KeyUnclaimed, OneRunPerKey, ExistingRuns, At, TypeInv, TypeOK,
              RequestStates
<1> QED BY <1>1, <1>2, <1>4, <1>5 DEF Next

\* At most one run is ever started for an idempotency key.
THEOREM OneRunPerKeyHolds == Spec => []OneRunPerKey
<1>1. Init => TypeInv /\ KeyInv
  <2>1. Init => RequestsFilled
    BY DEF Init, RequestsFilled, Filled, IdleRequest
  <2>2. Init => KeyInv
    BY DEF Init, KeyInv, LoopHeldByOne, KeyUnclaimed, RunBegun, OneRunPerKey, IdleRequest, NoRunRow,
           Synchronous, At
  <2> QED BY <2>1, <2>2, InitTyped DEF TypeInv
<1>2. TypeInv /\ KeyInv /\ [Next]_vars => (TypeInv /\ KeyInv)'
  BY TypeInductive, LoopInductive, RunBegunInductive, KeyInductive DEF KeyInv
<1>3. KeyInv => OneRunPerKey
  BY DEF KeyInv
<1> QED BY <1>1, <1>2, <1>3, PTL DEF Spec

-----------------------------------------------------------------------------

\* While one request makes a step, no other holds the event loop.
LEMMA OthersAwait ==
    ASSUME TypeInv, LoopHeldByOne, NEW q \in Requests, Proceed(q)
    PROVE  \A p \in Requests : p # q => request'[p].pc \notin Synchronous
<1>1. \A p \in Requests : p # q => request'[p] = request[p]
  BY ProceedLocal
<1>2. request[q].pc \in Synchronous \/ LoopFree(q)
  BY DEF Proceed, CheckRequest, CreateDocument, Prepare, SaveUpload, CreateVersion, Recheck,
         CreateRun, Analyse, At, Synchronous
<1> QED BY <1>1, <1>2 DEF LoopFree, LoopHeldByOne

FileInv == LoopHeldByOne /\ RunBegun /\ FileIsOwn /\ AnalysedWhatWasChecked

\* The request that makes a step keeps, or acquires, its file and its version row.
LEMMA StepKeepsFile ==
    ASSUME TypeInv, FileIsOwn, NEW q \in Requests, Proceed(q)
    PROVE  /\ request'[q].pc \in {"create_version", "start_run", "create_run", "analyse"}
                => OwnFile(request[q])'
           /\ request'[q].pc \in {"start_run", "create_run", "analyse"}
                => OwnVersion(request[q])'
<1>0. request \in [Requests -> RequestStates] /\ request[q] \in RequestStates
  BY DEF TypeInv, TypeOK
<1>1. ASSUME NEW pc, Goto(q, pc)
      PROVE  /\ request'[q].doc = request[q].doc
             /\ request'[q].number = request[q].number
             /\ request'[q].content = request[q].content
  BY <1>0, <1>1 DEF Goto, Become, RequestStates
<1>6. \A status : Refuse(q, status) => request'[q].pc = "done"
  BY <1>0 DEF Refuse, Answer, Become, RequestStates
<1>2. CASE CheckRequest(q) \/ CreateDocument(q) \/ Prepare(q) \/ Analyse(q)
  BY <1>2, Destinations
<1>3. CASE SaveUpload(q)
  <2>1. ASSUME request'[q].pc = "create_version"
        PROVE  OwnFile(request[q])'
    <3>1. Goto(q, "create_version")
      BY <1>3, <2>1, <1>6 DEF SaveUpload
    <3> QED BY <1>3, <1>1, <3>1 DEF SaveUpload, Written, OwnFile
  <2> QED BY <1>3, <2>1, Destinations
<1>4. CASE CreateVersion(q)
  <2>1. ASSUME request'[q].pc = "start_run"
        PROVE  OwnFile(request[q])' /\ OwnVersion(request[q])'
    <3>1. /\ Goto(q, "start_run") /\ UNCHANGED files
          /\ [doc |-> request[q].doc, number |-> request[q].number,
              checksum |-> request[q].content] \in versions'
      BY <1>4, <2>1, <1>6 DEF CreateVersion
    <3>2. OwnFile(request[q])
      BY <1>4 DEF CreateVersion, At, FileIsOwn
    <3> QED BY <1>1, <3>1, <3>2 DEF OwnFile, OwnVersion
  <2> QED BY <1>4, <2>1, Destinations
<1>5. CASE Recheck(q) \/ CreateRun(q)
  <2>1. OwnFile(request[q]) /\ OwnVersion(request[q]) /\ UNCHANGED <<files, versions>>
    BY <1>5 DEF Recheck, CreateRun, At, FileIsOwn
  <2>2. request'[q].pc # "done" => \E pc : Goto(q, pc)
    BY <1>5, <1>0 DEF Recheck, CreateRun, Answer, Become, RequestStates
  <2> QED BY <1>1, <2>1, <2>2 DEF OwnFile, OwnVersion
<1> QED BY <1>2, <1>3, <1>4, <1>5 DEF Proceed

\* Every step keeps a request's file its own from the write to the analysis.
LEMMA FileInductive ==
    ASSUME TypeInv, FileInv, [Next]_vars
    PROVE  FileIsOwn' /\ AnalysedWhatWasChecked'
<1> USE DEF FileInv
<1>1. CASE UNCHANGED vars
  BY <1>1 DEF vars, FileIsOwn, OwnFile, OwnVersion, AnalysedWhatWasChecked
<1>2. ASSUME NEW q \in Requests, NEW kind \in Kinds, NEW key \in Keys \cup {NoKey},
             NEW doc \in Requests \cup {NoRequest}, NEW content \in Contents,
             Receive(q, kind, key, doc, content)
      PROVE  FileIsOwn' /\ AnalysedWhatWasChecked'
  <2>1. UNCHANGED <<files, versions, runs>>
    BY <1>2 DEF Receive
  <2>2. \A p \in Requests : request'[p] = request[p] \/ request'[p].pc = "arrived"
    BY <1>2 DEF Receive, Become, IdleRequest, TypeInv, TypeOK
  <2> QED BY <2>1, <2>2 DEF FileIsOwn, OwnFile, OwnVersion, AnalysedWhatWasChecked
<1>3. ASSUME NEW q \in Requests, Proceed(q)
      PROVE  FileIsOwn' /\ AnalysedWhatWasChecked'
  <2>1. FileIsOwn'
    BY <1>3, OthersAwait, StepKeepsFile DEF FileIsOwn, Synchronous
  <2>2. CASE ~Analyse(q) /\ ~CreateRun(q)
    <3>1. UNCHANGED runs /\ versions \subseteq versions'
      BY <1>3, <2>2 DEF Proceed, CheckRequest, CreateDocument, Prepare, SaveUpload,
                        CreateVersion, Recheck
    <3> QED BY <2>1, <3>1 DEF AnalysedWhatWasChecked
  <2>3. CASE CreateRun(q)
    BY <2>1, <2>3 DEF CreateRun, NoRunRow, AnalysedWhatWasChecked, TypeInv, TypeOK
  <2>4. CASE Analyse(q)
    <3>1. PICK f \in files, status \in {"running", "waiting_approval", "failed"} :
              /\ f.doc = request[q].doc /\ f.number = request[q].number
              /\ runs' = [runs EXCEPT ![q] = [@ EXCEPT !.status = status,
                                                       !.analysed = f.content]]
      BY <2>4 DEF Analyse
    <3>2. f.content = request[q].content /\ OwnVersion(request[q])
      BY <2>4, <3>1 DEF Analyse, At, FileIsOwn, OwnFile
    <3>3. runs[q].doc = request[q].doc /\ runs[q].number = request[q].number
      BY <2>4 DEF Analyse, RunBegun
    <3>4. /\ runs'[q].doc = request[q].doc /\ runs'[q].number = request[q].number
          /\ runs'[q].analysed = request[q].content
          /\ \A r \in Requests : r # q => runs'[r] = runs[r]
      BY <3>1, <3>2, <3>3 DEF TypeInv, TypeOK, RunRows
    <3>5. UNCHANGED versions
      BY <2>4 DEF Analyse
    <3> QED BY <2>1, <3>2, <3>4, <3>5 DEF AnalysedWhatWasChecked, OwnVersion
  <2> QED BY <2>2, <2>3, <2>4, <2>1
<1>4. CASE Crash
  <2>1. UNCHANGED <<files, versions, runs>>
    BY <1>4 DEF Crash
  <2>2. \A p \in Requests : request'[p] = request[p] \/ request'[p].pc = "done"
    BY <1>4 DEF Crash, TypeInv, TypeOK, RequestStates
  <2> QED BY <2>1, <2>2 DEF FileIsOwn, OwnFile, OwnVersion, AnalysedWhatWasChecked
<1> QED BY <1>1, <1>2, <1>3, <1>4 DEF Next

\* A run analyses the content whose checksum its version row records, however many
\* updates write the same path.
THEOREM AnalysisIsOfTheVersion == Spec => []AnalysedWhatWasChecked
<1>1. Init => TypeInv /\ FileInv
  <2>1. Init => RequestsFilled
    BY DEF Init, RequestsFilled, Filled, IdleRequest
  <2>2. Init => FileInv
    BY DEF Init, FileInv, LoopHeldByOne, RunBegun, FileIsOwn, AnalysedWhatWasChecked,
           IdleRequest, NoRunRow, Synchronous, At
  <2> QED BY <2>1, <2>2, InitTyped DEF TypeInv
<1>2. TypeInv /\ FileInv /\ [Next]_vars => (TypeInv /\ FileInv)'
  BY TypeInductive, LoopInductive, RunBegunInductive, FileInductive DEF FileInv
<1>3. FileInv => AnalysedWhatWasChecked
  BY DEF FileInv
<1> QED BY <1>1, <1>2, <1>3, PTL DEF Spec

-----------------------------------------------------------------------------
(* The history of a document *)

\* What a request read before the await is still a row when it is used: rows stay.
Prepared(req) ==
    /\ req.pc \in {"reading", "create_version"} /\ req.number > 1 =>
          \E u \in versions : /\ u.doc = req.doc /\ u.number = req.number - 1
                              /\ u.checksum = req.latest
    /\ req.pc = "create_version" => req.latest # req.content
AllPrepared == \A q \in Requests : Prepared(request[q])

HistoryInv == AllPrepared /\ VersionHistory

\* A step that leaves the rows alone, and its request prepared, keeps the history.
LEMMA KeepsHistory ==
    ASSUME HistoryInv, NEW q \in Requests, UNCHANGED versions,
           \A p \in Requests : p # q => request'[p] = request[p], Prepared(request'[q])
    PROVE  HistoryInv'
BY DEF HistoryInv, AllPrepared, Prepared, VersionHistory

\* Every step keeps requests prepared and the history without gaps.
LEMMA HistoryInductive ==
    ASSUME TypeInv, HistoryInv, [Next]_vars
    PROVE  HistoryInv'
<1>0. request \in [Requests -> RequestStates] /\ versions \subseteq VersionRows
  BY DEF TypeInv, TypeOK
<1>1. CASE UNCHANGED vars
  BY <1>1 DEF vars, HistoryInv, AllPrepared, Prepared, VersionHistory
<1>2. ASSUME NEW q \in Requests, NEW kind \in Kinds, NEW key \in Keys \cup {NoKey},
             NEW doc \in Requests \cup {NoRequest}, NEW content \in Contents,
             Receive(q, kind, key, doc, content)
      PROVE  HistoryInv'
  <2>1. /\ UNCHANGED versions /\ request'[q].pc = "arrived"
        /\ \A p \in Requests : p # q => request'[p] = request[p]
    BY <1>0, <1>2 DEF Receive, Become, IdleRequest
  <2> QED BY <2>1, KeepsHistory DEF Prepared
<1>3. ASSUME NEW q \in Requests, Proceed(q)
      PROVE  HistoryInv'
  <2> DEFINE req == request[q]
  <2>0. /\ \A p \in Requests : p # q => request'[p] = request[p]
        /\ req \in RequestStates
    BY <1>0, <1>3, ProceedLocal
  <2>1. CASE CheckRequest(q) \/ Recheck(q) \/ CreateRun(q) \/ Analyse(q)
    <3>1. UNCHANGED versions
      BY <2>1 DEF CheckRequest, Recheck, CreateRun, Analyse
    <3>2. request'[q].pc \notin {"reading", "create_version"}
      BY <2>1, Destinations
    <3> QED BY <2>0, <3>1, <3>2, KeepsHistory DEF Prepared
  <2>2. CASE CreateDocument(q)
    <3>1. /\ UNCHANGED versions /\ request'[q].pc = "reading" /\ request'[q].number = 1
      BY <1>0, <2>0, <2>2 DEF CreateDocument, Become, RequestStates
    <3> QED BY <2>0, <3>1, KeepsHistory DEF Prepared
  <2>3. CASE Prepare(q)
    <3>1. UNCHANGED versions /\ request'[q].pc = "reading"
      BY <2>3, Destinations DEF Prepare
    <3>2. ASSUME NEW n, NEW c,
                 Become(q, [request[q] EXCEPT !.pc = "reading", !.number = n, !.latest = c])
          PROVE  /\ request'[q].number = n /\ request'[q].latest = c
                 /\ request'[q].doc = request[q].doc
      BY <1>0, <2>0, <3>2 DEF Become, RequestStates
    <3>3. \/ request'[q].number = 1
          \/ \E v \in LatestVersions(request[q].doc) :
                /\ request'[q].number = v.number + 1 /\ request'[q].latest = v.checksum
                /\ request'[q].doc = request[q].doc
      BY <2>3, <3>2 DEF Prepare
    <3>4. \A v \in LatestVersions(request[q].doc) :
             v \in versions /\ v.doc = request[q].doc /\ v.number \in Nat
      BY <1>0 DEF LatestVersions, VersionsOf, VersionRows
    <3>5. request'[q].number > 1 =>
             \E u \in versions : /\ u.doc = request'[q].doc
                                 /\ u.number = request'[q].number - 1
                                 /\ u.checksum = request'[q].latest
      BY <3>3, <3>4
    <3> QED BY <2>0, <3>1, <3>5, KeepsHistory DEF Prepared
  <2>4. CASE SaveUpload(q)
    <3>1. UNCHANGED versions
      BY <2>4 DEF SaveUpload
    <3>2. CASE Refuse(q, 400)
      <4>1. request'[q].pc = "done"
        BY <1>0, <2>0, <3>2 DEF Refuse, Answer, Become, RequestStates
      <4> QED BY <2>0, <3>1, <4>1, KeepsHistory DEF Prepared
    <3>3. CASE ~Identical(req) /\ Goto(q, "create_version")
      <4>1. /\ request'[q].pc = "create_version" /\ request'[q].number = req.number
            /\ request'[q].doc = req.doc /\ request'[q].latest = req.latest
            /\ request'[q].content = req.content
        BY <1>0, <2>0, <3>3 DEF Goto, Become, RequestStates
      <4>2. Prepared(req) /\ req.pc = "reading" /\ req.latest # req.content
        BY <2>4, <3>3 DEF HistoryInv, AllPrepared, SaveUpload, At, Identical
      <4>3. Prepared(request'[q])
        BY <4>1, <4>2 DEF Prepared
      <4> QED BY <2>0, <3>1, <4>3, KeepsHistory
    <3> QED BY <2>4, <3>2, <3>3 DEF SaveUpload
  <2>5. CASE CreateVersion(q)
    <3>1. request'[q].pc \notin {"reading", "create_version"}
      BY <2>5, Destinations
    <3>2. CASE UNCHANGED versions
      BY <2>0, <3>1, <3>2, KeepsHistory DEF Prepared
    <3>3. CASE ~UNCHANGED versions
      <4> DEFINE new == [doc |-> req.doc, number |-> req.number, checksum |-> req.content]
      <4>1. versions' = versions \cup {new}
        BY <2>5, <3>3 DEF CreateVersion
      <4>2. Prepared(req) /\ req.pc = "create_version"
        BY <2>5 DEF HistoryInv, AllPrepared, CreateVersion, At
      <4>3. new.number > 1 => \E u \in versions : /\ u.doc = new.doc
                                                  /\ u.number = new.number - 1
                                                  /\ u.checksum # new.checksum
        BY <4>2 DEF Prepared
      <4> HIDE DEF new
      <4>4. VersionHistory'
        BY <4>1, <4>3 DEF HistoryInv, VersionHistory
      <4>5. AllPrepared'
        BY <2>0, <3>1, <4>1 DEF HistoryInv, AllPrepared, Prepared
      <4> QED BY <4>4, <4>5 DEF HistoryInv
    <3> QED BY <3>2, <3>3
  <2> QED BY <1>3, <2>1, <2>2, <2>3, <2>4, <2>5 DEF Proceed
<1>4. CASE Crash
  <2>1. UNCHANGED versions
    BY <1>4 DEF Crash
  <2>2. \A p \in Requests : request'[p] = request[p] \/ request'[p].pc = "done"
    BY <1>4 DEF Crash, TypeInv, TypeOK, RequestStates
  <2> QED BY <2>1, <2>2 DEF HistoryInv, AllPrepared, Prepared, VersionHistory
<1> QED BY <1>1, <1>2, <1>3, <1>4 DEF Next

\* However many updates race over the await, a document's history has no gap and no
\* version that repeats its predecessor (update_document).
THEOREM VersionHistoryHolds == Spec => []VersionHistory
<1>1. Init => TypeInv /\ HistoryInv
  <2>1. Init => RequestsFilled
    BY DEF Init, RequestsFilled, Filled, IdleRequest
  <2>2. Init => HistoryInv
    BY DEF Init, HistoryInv, AllPrepared, Prepared, VersionHistory, IdleRequest
  <2> QED BY <2>1, <2>2, InitTyped DEF TypeInv
<1>2. TypeInv /\ HistoryInv /\ [Next]_vars => (TypeInv /\ HistoryInv)'
  BY TypeInductive, HistoryInductive
<1>3. HistoryInv => VersionHistory
  BY DEF HistoryInv
<1> QED BY <1>1, <1>2, <1>3, PTL DEF Spec

-----------------------------------------------------------------------------
(* The file store *)

\* A request that has written its file keeps what it wrote, and for which version.
Wrote(q, f) ==
    /\ request[q].pc \in {"create_version", "start_run", "create_run", "analyse", "done"}
    /\ request[q].doc = f.doc /\ request[q].number = f.number
    /\ request[q].content = f.content

\* The writer of a file has not recorded it yet, was refused or lost, or recorded it.
Accounts(q, f) ==
    /\ Wrote(q, f)
    /\ \/ At(q, "create_version")
       \/ At(q, "done") /\ request[q].answer.status \in {0, 400, 500}
       \/ [doc |-> f.doc, number |-> f.number, checksum |-> f.content] \in versions

OneRowPerNumber == \A u, v \in versions : u.doc = v.doc /\ u.number = v.number => u = v

StoreInv == /\ \A f \in files : \E q \in Requests : Accounts(q, f)
            /\ \A q \in Requests : At(q, "done") \/ request[q].answer.status = 0
            /\ OneRowPerNumber

\* A step that writes no file and removes no row keeps the other writers' account.
LEMMA KeepsStore ==
    ASSUME StoreInv, NEW q \in Requests, files' = files, versions \subseteq versions',
           OneRowPerNumber',
           \A p \in Requests : p # q => request'[p] = request[p],
           \A f \in files : Accounts(q, f) => Accounts(q, f)',
           request'[q].pc = "done" \/ request'[q].answer.status = 0
    PROVE  StoreInv'
<1>1. ASSUME NEW f \in files PROVE \E p \in Requests : Accounts(p, f)'
  <2>1. PICK p \in Requests : Accounts(p, f)
    BY DEF StoreInv
  <2>2. CASE p = q
    BY <2>1, <2>2
  <2>3. CASE p # q
    BY <2>1, <2>3 DEF Accounts, Wrote, At
  <2> QED BY <2>2, <2>3
<1>2. (\A p \in Requests : At(p, "done") \/ request[p].answer.status = 0)'
  BY DEF StoreInv, At
<1> QED BY <1>1, <1>2 DEF StoreInv

\* Every step leaves each stored file with a request that accounts for it.
LEMMA StoreInductive ==
    ASSUME TypeInv, StoreInv, [Next]_vars
    PROVE  StoreInv'
<1>0. request \in [Requests -> RequestStates]
  BY DEF TypeInv, TypeOK
<1>1. CASE UNCHANGED vars
  BY <1>1 DEF vars, StoreInv, Accounts, Wrote, At, OneRowPerNumber
<1>2. ASSUME NEW q \in Requests, NEW kind \in Kinds, NEW key \in Keys \cup {NoKey},
             NEW doc \in Requests \cup {NoRequest}, NEW content \in Contents,
             Receive(q, kind, key, doc, content)
      PROVE  StoreInv'
  <2>1. /\ UNCHANGED <<files, versions>> /\ request[q].pc = "idle"
        /\ request'[q].answer.status = 0
        /\ \A p \in Requests : p # q => request'[p] = request[p]
    BY <1>0, <1>2 DEF Receive, Become, IdleRequest, NoAnswer, At
  <2>2. OneRowPerNumber'
    BY <2>1 DEF StoreInv, OneRowPerNumber
  <2> QED BY <2>1, <2>2, KeepsStore DEF Accounts, Wrote
<1>3. ASSUME NEW q \in Requests, Proceed(q)
      PROVE  StoreInv'
  <2> DEFINE req == request[q]
  <2>0. /\ \A p \in Requests : p # q => request'[p] = request[p]
        /\ req \in RequestStates
    BY <1>0, <1>3, ProceedLocal
  <2>g. ASSUME NEW pc, Goto(q, pc), ~At(q, "done")
        PROVE  /\ request'[q].pc = pc /\ request'[q].answer.status = 0
               /\ request'[q].doc = req.doc /\ request'[q].number = req.number
               /\ request'[q].content = req.content
    BY <1>0, <2>0, <2>g DEF Goto, Become, RequestStates, StoreInv, At
  <2>a. ASSUME NEW answer, Answer(q, answer)
        PROVE  /\ request'[q].pc = "done" /\ request'[q].answer = answer
               /\ request'[q].doc = req.doc /\ request'[q].number = req.number
               /\ request'[q].content = req.content
    BY <1>0, <2>0, <2>a DEF Answer, Become, RequestStates
  <2>1. CASE CheckRequest(q)
    <3>1. UNCHANGED <<files, versions>> /\ req.pc = "arrived"
      BY <2>1 DEF CheckRequest, At
    <3>2. request'[q].pc = "done" \/ request'[q].answer.status = 0
      BY <2>1, <2>a, <2>g, <3>1 DEF CheckRequest, Refuse, At
    <3>3. OneRowPerNumber'
      BY <3>1 DEF StoreInv, OneRowPerNumber
    <3> QED BY <2>0, <3>1, <3>2, <3>3, KeepsStore DEF Accounts, Wrote
  <2>2. CASE CreateDocument(q) \/ Prepare(q)
    <3>1. UNCHANGED <<files, versions>> /\ req.pc \in {"create_document", "prepare"}
      BY <2>2 DEF CreateDocument, Prepare, At
    <3>2. request'[q].answer = req.answer
      <4>1. CASE CreateDocument(q)
        BY <1>0, <2>0, <4>1 DEF CreateDocument, Become, RequestStates
      <4>2. CASE Prepare(q)
        BY <1>0, <2>0, <4>2 DEF Prepare, Become, RequestStates
      <4> QED BY <2>2, <4>1, <4>2
    <3>3. request'[q].answer.status = 0
      BY <3>1, <3>2 DEF StoreInv, At
    <3>4. OneRowPerNumber'
      BY <3>1 DEF StoreInv, OneRowPerNumber
    <3> QED BY <2>0, <3>1, <3>3, <3>4, KeepsStore DEF Accounts, Wrote
  <2>3. CASE SaveUpload(q)
    <3>n. PICK new : new = [doc |-> req.doc, number |-> req.number,
                            content |-> req.content]
      OBVIOUS
    <3>1. /\ UNCHANGED versions /\ req.pc = "reading"
          /\ \A f \in files' : f \in files \/ f = new
      BY <2>3, <3>n DEF SaveUpload, Written, At
    <3>2. /\ request'[q].doc = req.doc /\ request'[q].number = req.number
          /\ request'[q].content = req.content
          /\ \/ request'[q].pc = "done" /\ request'[q].answer.status = 400
             \/ request'[q].pc = "create_version" /\ request'[q].answer.status = 0
      BY <2>3, <2>a, <2>g, <3>1 DEF SaveUpload, Refuse, NoAnswer, At
    <3>3. Accounts(q, new)'
      BY <3>n, <3>1, <3>2 DEF Accounts, Wrote, At
    <3>4. ASSUME NEW f \in files PROVE \E p \in Requests : Accounts(p, f)'
      <4>1. PICK p \in Requests : Accounts(p, f)
        BY DEF StoreInv
      <4>2. p # q
        BY <3>1, <4>1 DEF Accounts, Wrote
      <4> QED BY <2>0, <3>1, <4>1, <4>2 DEF Accounts, Wrote, At
    <3>5. (\A p \in Requests : At(p, "done") \/ request[p].answer.status = 0)'
      BY <2>0, <3>2 DEF StoreInv, At
    <3>6. OneRowPerNumber'
      BY <3>1 DEF StoreInv, OneRowPerNumber
    <3>7. ASSUME NEW f \in files' PROVE (\E p \in Requests : Accounts(p, f))'
      <4>1. CASE f = new
        BY <3>3, <4>1
      <4>2. CASE f \in files
        BY <3>4, <4>2
      <4> QED BY <3>1, <3>7, <4>1, <4>2
    <3> QED BY <3>5, <3>6, <3>7 DEF StoreInv
  <2>4. CASE CreateVersion(q)
    <3> DEFINE row == [doc |-> req.doc, number |-> req.number, checksum |-> req.content]
    <3>0. files' = files /\ req.pc = "create_version"
      BY <2>4 DEF CreateVersion, At
    <3>1. CASE Refuse(q, 500) /\ UNCHANGED versions
      <4>1. /\ request'[q].pc = "done" /\ request'[q].answer.status = 500
            /\ request'[q].doc = req.doc /\ request'[q].number = req.number
            /\ request'[q].content = req.content
        BY <2>a, <3>1 DEF Refuse, NoAnswer
      <4>2. OneRowPerNumber'
        BY <3>1 DEF StoreInv, OneRowPerNumber
      <4>3. ASSUME NEW f \in files, Accounts(q, f) PROVE Accounts(q, f)'
        BY <4>1, <4>3 DEF Accounts, Wrote, At
      <4> QED BY <2>0, <3>0, <3>1, <4>1, <4>2, <4>3, KeepsStore
    <3>2. CASE /\ ~NumberTaken(req.doc, req.number)
               /\ versions' = versions \cup {row} /\ Goto(q, "start_run")
      <4>1. /\ request'[q].pc = "start_run" /\ request'[q].answer.status = 0
            /\ request'[q].doc = req.doc /\ request'[q].number = req.number
            /\ request'[q].content = req.content
        BY <2>g, <3>0, <3>2 DEF At
      <4>2. OneRowPerNumber'
        BY <3>2 DEF StoreInv, OneRowPerNumber, NumberTaken
      <4>3. ASSUME NEW f \in files, Accounts(q, f) PROVE Accounts(q, f)'
        BY <3>2, <4>1, <4>3 DEF Accounts, Wrote, At
      <4> QED BY <2>0, <3>0, <3>2, <4>1, <4>2, <4>3, KeepsStore
    <3> QED BY <2>4, <3>1, <3>2 DEF CreateVersion
  <2>5. CASE Recheck(q) \/ CreateRun(q) \/ Analyse(q)
    <3>1. UNCHANGED <<files, versions>> /\ req.pc \in {"start_run", "create_run", "analyse"}
      BY <2>5 DEF Recheck, CreateRun, Analyse, At
    <3>2. /\ request'[q].doc = req.doc /\ request'[q].number = req.number
          /\ request'[q].content = req.content
          /\ request'[q].pc = "done" \/ request'[q].answer.status = 0
          /\ request'[q].pc \in {"create_run", "analyse", "done"}
      <4>1. CASE Recheck(q)
        BY <2>a, <2>g, <3>1, <4>1 DEF Recheck, At
      <4>2. CASE CreateRun(q)
        BY <2>g, <3>1, <4>2 DEF CreateRun, At
      <4>3. CASE Analyse(q)
        BY <2>a, <4>3 DEF Analyse
      <4> QED BY <2>5, <4>1, <4>2, <4>3
    <3>3. OneRowPerNumber'
      BY <3>1 DEF StoreInv, OneRowPerNumber
    <3>4. ASSUME NEW f \in files, Accounts(q, f) PROVE Accounts(q, f)'
      BY <3>1, <3>2, <3>4 DEF Accounts, Wrote, At
    <3> QED BY <2>0, <3>1, <3>2, <3>3, <3>4, KeepsStore
  <2> QED BY <1>3, <2>1, <2>2, <2>3, <2>4, <2>5 DEF Proceed
<1>4. CASE Crash
  <2>1. UNCHANGED <<files, versions>>
    BY <1>4 DEF Crash
  <2>2. \A p \in Requests :
           \/ request'[p] = request[p]
           \/ /\ request[p].pc # "done" /\ request'[p] = [request[p] EXCEPT !.pc = "done"]
    BY <1>4 DEF Crash
  <2>3. \A p \in Requests :
           \/ request'[p] = request[p]
           \/ /\ request[p].pc # "done" /\ request'[p].pc = "done"
              /\ request'[p].answer = request[p].answer
              /\ request'[p].doc = request[p].doc /\ request'[p].number = request[p].number
              /\ request'[p].content = request[p].content
    BY <1>0, <2>2 DEF RequestStates
  <2>4. ASSUME NEW f \in files, NEW p \in Requests, Accounts(p, f)
        PROVE  Accounts(p, f)'
    BY <2>1, <2>3, <2>4 DEF StoreInv, Accounts, Wrote, At
  <2>5. (\A p \in Requests : At(p, "done") \/ request[p].answer.status = 0)'
    BY <2>3 DEF StoreInv, At
  <2>6. OneRowPerNumber'
    BY <2>1 DEF StoreInv, OneRowPerNumber
  <2> QED BY <2>1, <2>4, <2>5, <2>6 DEF StoreInv
<1> QED BY <1>1, <1>2, <1>3, <1>4 DEF Next

\* A stored file that is not its version's was written by a request that was refused,
\* failed or lost, or is about to be (save_upload writes before create_version).
THEOREM StoredFileAccountedHolds == Spec => []StoredFileAccounted
<1>1. Init => TypeInv /\ StoreInv
  <2>1. Init => RequestsFilled
    BY DEF Init, RequestsFilled, Filled, IdleRequest
  <2>2. Init => StoreInv
    BY DEF Init, StoreInv, OneRowPerNumber, IdleRequest, NoAnswer
  <2> QED BY <2>1, <2>2, InitTyped DEF TypeInv
<1>2. TypeInv /\ StoreInv /\ [Next]_vars => (TypeInv /\ StoreInv)'
  BY TypeInductive, StoreInductive
<1>3. TypeInv /\ StoreInv => StoredFileAccounted
  <2> SUFFICES ASSUME TypeInv, StoreInv, NEW v \in versions, NEW f \in files,
                      f.doc = v.doc, f.number = v.number, f.content # v.checksum
               PROVE  \E q \in Requests :
                        /\ request[q].doc = v.doc /\ request[q].number = v.number
                        /\ request[q].content = f.content
                        /\ \/ At(q, "create_version")
                           \/ At(q, "done") /\ request[q].answer.status \in {0, 400, 500}
    BY DEF StoredFileAccounted
  <2>1. PICK q \in Requests : Accounts(q, f)
    BY DEF StoreInv
  <2>2. [doc |-> f.doc, number |-> f.number, checksum |-> f.content] \notin versions
    BY DEF StoreInv, OneRowPerNumber
  <2> QED BY <2>1, <2>2 DEF Accounts, Wrote
<1> QED BY <1>1, <1>2, <1>3, PTL DEF Spec

-----------------------------------------------------------------------------
(* Progress: what is left of termination when scheduling is put aside *)

\* How many steps a request may still make.
StepsLeft(pc) ==
    CASE pc = "idle"            -> 8
      [] pc = "arrived"         -> 7
      [] pc \in {"create_document", "prepare"} -> 6
      [] pc = "reading"         -> 5
      [] pc = "create_version"  -> 4
      [] pc = "start_run"       -> 3
      [] pc = "create_run"      -> 2
      [] pc = "analyse"         -> 1
      [] OTHER                  -> 0

InProgress(q) == request[q].pc \notin {"idle", "done"}

FileOf(req) == \E f \in files : f.doc = req.doc /\ f.number = req.number

\* Whether a request can make its next step now: whatever it reads is there, and it has
\* the event loop or finds it free.
MayProceed(q) ==
    /\ InProgress(q)
    /\ request[q].pc \in {"arrived", "reading"} => LoopFree(q)
    /\ At(q, "prepare") => \/ VersionsOf(request[q].doc) = {}
                           \/ LatestVersions(request[q].doc) # {}
    /\ At(q, "analyse") => FileOf(request[q])

\* A request in progress can go on, or waits for one that can: the loop's holder.
NoRequestStuck == \A q \in Requests : InProgress(q) =>
    \/ MayProceed(q)
    \/ \E p \in Requests : request[p].pc \in Synchronous /\ MayProceed(p)

\* A request moves only forward, and what was answered or lost stays so.
RequestsDescend == \A q \in Requests :
    request'[q] # request[q] => StepsLeft(request'[q].pc) < StepsLeft(request[q].pc)

\* A document with versions has a latest one.
LatestExists == \A d \in Requests : VersionsOf(d) # {} => LatestVersions(d) # {}

\* From the writing of the file to the analysis, there is a file to read.
FileExists == \A q \in Requests :
    request[q].pc \in {"create_version", "start_run", "create_run", "analyse"}
        => FileOf(request[q])

\* A new row leaves each document with a latest version: the old one or the new.
LEMMA InsertKeepsLatest ==
    ASSUME TypeInv, LatestExists, NEW new \in VersionRows, versions' = versions \cup {new}
    PROVE  LatestExists'
<1> SUFFICES ASSUME NEW d \in Requests, VersionsOf(d)' # {}
             PROVE  \E v \in versions' : /\ v.doc = d
                                         /\ \A u \in versions' :
                                               u.doc = d => u.number <= v.number
  BY DEF LatestExists, LatestVersions, VersionsOf
<1>0. \A v \in versions' : v.number \in Nat
  BY DEF TypeInv, TypeOK, VersionRows
<1>1. CASE VersionsOf(d) = {}
  <2>1. \A v \in versions : v.doc # d
    BY <1>1 DEF VersionsOf
  <2>2. new.doc = d
    BY <2>1 DEF VersionsOf
  <2> QED BY <1>0, <2>1, <2>2
<1>2. CASE VersionsOf(d) # {}
  <2>1. PICK v \in versions : v.doc = d /\ \A u \in versions : u.doc = d => u.number <= v.number
    BY <1>2 DEF LatestExists, LatestVersions, VersionsOf
  <2>2. CASE new.doc = d /\ v.number <= new.number
    BY <1>0, <2>1, <2>2
  <2>3. CASE ~(new.doc = d /\ v.number <= new.number)
    BY <1>0, <2>1, <2>3
  <2> QED BY <2>2, <2>3
<1> QED BY <1>1, <1>2

\* Only CreateVersion touches the rows, and it inserts one.
LEMMA LatestInductive ==
    ASSUME TypeInv, LatestExists, [Next]_vars
    PROVE  LatestExists'
<1>1. CASE UNCHANGED versions
  BY <1>1 DEF LatestExists, LatestVersions, VersionsOf
<1>2. ASSUME NEW q \in Requests, CreateVersion(q), ~UNCHANGED versions
      PROVE  LatestExists'
  <2> DEFINE new == [doc |-> request[q].doc, number |-> request[q].number,
                     checksum |-> request[q].content]
  <2>1. versions' = versions \cup {new}
    BY <1>2 DEF CreateVersion
  <2>2. new \in VersionRows
    BY <1>2 DEF CreateVersion, At, TypeInv, TypeOK, RequestStates, RequestsFilled, Filled,
                VersionRows
  <2> HIDE DEF new
  <2> QED BY <2>1, <2>2, InsertKeepsLatest
<1>3. UNCHANGED versions \/ \E q \in Requests : CreateVersion(q)
  BY DEF Next, vars, Receive, Proceed, CheckRequest, CreateDocument, Prepare, SaveUpload,
         Recheck, CreateRun, Analyse, Crash
<1> QED BY <1>1, <1>2, <1>3

\* Nobody else runs while a request is between its file and its analysis.
LEMMA FileExistsInductive ==
    ASSUME TypeInv, LoopHeldByOne, FileExists, [Next]_vars
    PROVE  FileExists'
<1>0. request \in [Requests -> RequestStates]
  BY DEF TypeInv, TypeOK
<1>1. CASE UNCHANGED <<request, files>>
  BY <1>1 DEF FileExists, FileOf
<1>2. ASSUME NEW q \in Requests, NEW kind \in Kinds, NEW key \in Keys \cup {NoKey},
             NEW doc \in Requests \cup {NoRequest}, NEW content \in Contents,
             Receive(q, kind, key, doc, content)
      PROVE  FileExists'
  <2>1. UNCHANGED files /\ \A p \in Requests : request'[p] = request[p]
                                               \/ request'[p].pc = "arrived"
    BY <1>0, <1>2 DEF Receive, Become, IdleRequest
  <2> QED BY <2>1 DEF FileExists, FileOf
<1>3. ASSUME NEW q \in Requests, Proceed(q)
      PROVE  FileExists'
  <2>0. request[q] \in RequestStates
    BY <1>0
  <2>1. \A pc : Goto(q, pc) => /\ request'[q].doc = request[q].doc
                               /\ request'[q].number = request[q].number
    BY <1>0, <2>0 DEF Goto, Become, RequestStates
  <2>2. \A status : Refuse(q, status) => request'[q].pc = "done"
    BY <1>0, <2>0 DEF Refuse, Answer, Become, RequestStates
  <2>3. \A answer : Answer(q, answer) => request'[q].pc = "done"
    BY <1>0, <2>0 DEF Answer, Become, RequestStates
  <2>4. request'[q].pc \in {"create_version", "start_run", "create_run", "analyse"}
          => FileOf(request[q])'
    <3>1. CASE CheckRequest(q) \/ CreateDocument(q) \/ Prepare(q) \/ Analyse(q)
      BY <3>1, Destinations
    <3>2. CASE SaveUpload(q)
      <4>1. [doc |-> request[q].doc, number |-> request[q].number,
             content |-> request[q].content] \in files'
        BY <3>2 DEF SaveUpload, Written
      <4>2. request'[q].pc = "done" \/ Goto(q, "create_version")
        BY <3>2, <2>2 DEF SaveUpload
      <4> QED BY <2>1, <4>1, <4>2 DEF FileOf
    <3>3. CASE CreateVersion(q) \/ Recheck(q) \/ CreateRun(q)
      <4>1. FileOf(request[q]) /\ UNCHANGED files
        BY <3>3 DEF CreateVersion, Recheck, CreateRun, At, FileExists
      <4>2. request'[q].pc = "done" \/ \E pc : Goto(q, pc)
        BY <3>3, <2>2, <2>3 DEF CreateVersion, Recheck, CreateRun
      <4> QED BY <2>1, <4>1, <4>2 DEF FileOf
    <3> QED BY <1>3, <3>1, <3>2, <3>3 DEF Proceed
  <2>5. \A p \in Requests : p # q => request'[p].pc \notin Synchronous
    BY <1>3, OthersAwait
  <2> QED BY <2>4, <2>5 DEF FileExists, Synchronous
<1>4. CASE Crash
  <2>1. UNCHANGED files /\ \A p \in Requests : request'[p] = request[p]
                                               \/ request'[p].pc = "done"
    BY <1>0, <1>4 DEF Crash, RequestStates
  <2> QED BY <2>1 DEF FileExists, FileOf
<1> QED BY <1>1, <1>2, <1>3, <1>4 DEF Next, vars

\* Every step of a request leaves it fewer.
LEMMA StepsDescend ==
    ASSUME TypeInv, [Next]_vars
    PROVE  [RequestsDescend]_vars
<1>0. request \in [Requests -> RequestStates]
  BY DEF TypeInv, TypeOK
<1> SUFFICES ASSUME Next PROVE RequestsDescend
  OBVIOUS
<1>1. ASSUME NEW q \in Requests, \A p \in Requests : p # q => request'[p] = request[p],
             StepsLeft(request'[q].pc) < StepsLeft(request[q].pc)
      PROVE  RequestsDescend
  BY <1>1 DEF RequestsDescend
<1>2. ASSUME NEW q \in Requests, NEW kind \in Kinds, NEW key \in Keys \cup {NoKey},
             NEW doc \in Requests \cup {NoRequest}, NEW content \in Contents,
             Receive(q, kind, key, doc, content)
      PROVE  RequestsDescend
  <2>1. /\ request[q].pc = "idle" /\ request'[q].pc = "arrived"
        /\ \A p \in Requests : p # q => request'[p] = request[p]
    BY <1>0, <1>2 DEF Receive, Become, IdleRequest, At
  <2> QED BY <1>1, <2>1 DEF StepsLeft
<1>3. ASSUME NEW q \in Requests, Proceed(q)
      PROVE  RequestsDescend
  <2>1. \A p \in Requests : p # q => request'[p] = request[p]
    BY <1>3, ProceedLocal
  <2>2. StepsLeft(request'[q].pc) < StepsLeft(request[q].pc)
    <3>1. PICK pc : pc = request[q].pc
      OBVIOUS
    <3>2. PICK next : next = request'[q].pc
      OBVIOUS
    <3>3. \/ pc = "arrived"         /\ next \in {"done", "create_document", "prepare"}
          \/ pc = "create_document" /\ next = "reading"
          \/ pc = "prepare"         /\ next = "reading"
          \/ pc = "reading"         /\ next \in {"done", "create_version"}
          \/ pc = "create_version"  /\ next \in {"done", "start_run"}
          \/ pc = "start_run"       /\ next \in {"done", "create_run"}
          \/ pc = "create_run"      /\ next = "analyse"
          \/ pc = "analyse"         /\ next = "done"
      BY <1>3, <3>1, <3>2, Destinations
         DEF Proceed, CheckRequest, CreateDocument, Prepare, SaveUpload, CreateVersion, Recheck,
             CreateRun, Analyse, At
    <3>4. StepsLeft(next) < StepsLeft(pc)
      BY <3>3 DEF StepsLeft
    <3> QED BY <3>1, <3>2, <3>4
  <2> QED BY <1>1, <2>1, <2>2
<1>4. CASE Crash
  <2>1. \A p \in Requests : \/ request'[p] = request[p]
                            \/ /\ request[p].pc \in Locations \ {"idle", "done"}
                               /\ request'[p].pc = "done"
    BY <1>0, <1>4 DEF Crash, RequestStates
  <2>2. \A pc \in Locations \ {"idle", "done"} : StepsLeft("done") < StepsLeft(pc)
    BY DEF Locations, StepsLeft
  <2> QED BY <2>1, <2>2 DEF RequestsDescend
<1> QED BY <1>2, <1>3, <1>4 DEF Next

\* However uploads, updates and crashes interleave: a request in progress can make its next
\* step or waits for the one that holds the event loop, which can, and it is answered after
\* at most seven steps of its own.  Given that the loop runs what can go on, every request
\* is answered.
THEOREM IntakeNeverStuck == Spec => []NoRequestStuck /\ [][RequestsDescend]_vars
<1> DEFINE Inv == TypeInv /\ LoopHeldByOne /\ LatestExists /\ FileExists
<1>1. Init => Inv
  <2>1. Init => RequestsFilled
    BY DEF Init, RequestsFilled, Filled, IdleRequest
  <2>2. Init => LoopHeldByOne /\ LatestExists /\ FileExists
    BY DEF Init, LoopHeldByOne, LatestExists, VersionsOf, FileExists, IdleRequest, Synchronous
  <2> QED BY <2>1, <2>2, InitTyped DEF TypeInv
<1>2. Inv /\ [Next]_vars => Inv'
  BY TypeInductive, LoopInductive, LatestInductive, FileExistsInductive
<1>3. Inv => NoRequestStuck
  <2> SUFFICES ASSUME Inv, NEW q \in Requests, InProgress(q)
               PROVE  \/ MayProceed(q)
                      \/ \E p \in Requests : request[p].pc \in Synchronous /\ MayProceed(p)
    BY DEF NoRequestStuck
  <2>1. ASSUME NEW p \in Requests, InProgress(p),
               request[p].pc \in {"arrived", "reading"} => LoopFree(p)
        PROVE  MayProceed(p)
    BY <2>1 DEF MayProceed, LatestExists, FileExists, At, TypeInv, RequestsFilled, Filled
  <2>2. CASE LoopFree(q)
    BY <2>1, <2>2
  <2>3. CASE ~LoopFree(q)
    <3>1. PICK p \in Requests : request[p].pc \in Synchronous
      BY <2>3 DEF LoopFree
    <3>2. InProgress(p) /\ request[p].pc \notin {"arrived", "reading"}
      BY <3>1 DEF InProgress, Synchronous
    <3> QED BY <2>1, <3>1, <3>2
  <2> QED BY <2>2, <2>3
<1>4. Inv /\ [Next]_vars => [RequestsDescend]_vars
  BY StepsDescend
<1> HIDE DEF Inv, NoRequestStuck, RequestsDescend
<1> QED BY <1>1, <1>2, <1>3, <1>4, PTL DEF Spec

-----------------------------------------------------------------------------
(* Liveness: given that the loop runs what is ready, every request is answered   *)

\* The loop runs ready coroutines in the order in which they became ready: a request that
\* could go on again and again goes on.  The guard stands in place of ENABLED Proceed(q).
Scheduled(q) == <>[]~MayProceed(q) \/ []<><<Proceed(q)>>_vars

EachScheduled   == \A q \in Requests : Scheduled(q)
AlwaysScheduled == []EachScheduled

\* What a request in progress can rely on.
LoopInv     == TypeInv /\ LoopHeldByOne /\ NoRequestStuck
Serving     == []LoopInv /\ [][Next]_vars /\ [][RequestsDescend]_vars
Served(q)   == Serving /\ Scheduled(q)
AllServed   == \A q \in Requests : Served(q)

Holds(p) == request[p].pc \in Synchronous
LoopIdle == \A p \in Requests : ~Holds(p)
SoonIdle == <>LoopIdle

\* The bound on a request's steps, of the eight that a request may make.
LEMMA StepsBounded ==
  ASSUME NEW pc \in Locations
  PROVE  /\ StepsLeft(pc) \in 0..8
         /\ pc \in Synchronous => StepsLeft(pc) \in 1..6
         /\ pc \notin {"idle", "done"} => StepsLeft(pc) \in 1..7
         /\ pc = "idle" <=> StepsLeft(pc) = 8
BY DEF StepsLeft, Locations, Synchronous

\* The next step of a request leaves it fewer.
LEMMA ProceedIsCloser ==
  ASSUME TypeInv, TypeInv', NEW q \in Requests, NEW m \in Nat, NEW n \in Nat, n = m + 1,
         StepsLeft(request[q].pc) <= n, [RequestsDescend]_vars
  PROVE  \/ request'[q] = request[q]
         \/ StepsLeft(request'[q].pc) <= m
<1> SUFFICES ASSUME request'[q] # request[q] PROVE StepsLeft(request'[q].pc) <= m
  OBVIOUS
<1>1. StepsLeft(request'[q].pc) < StepsLeft(request[q].pc)
  BY DEF RequestsDescend, vars
<1>2. PICK i \in 0..8 : i = StepsLeft(request[q].pc)
  BY StepsBounded DEF TypeInv, TypeOK, RequestStates
<1>3. PICK j \in 0..8 : j = StepsLeft(request'[q].pc)
  BY StepsBounded DEF TypeInv, TypeOK, RequestStates
<1> QED
  BY <1>1, <1>2, <1>3

\* Every step of a handler moves it on.
LEMMA ProceedMoves ==
  ASSUME TypeInv, NEW q \in Requests, Proceed(q)
  PROVE  request'[q] # request[q]
BY Destinations
   DEF Proceed, CheckRequest, CreateDocument, Prepare, SaveUpload, CreateVersion, Recheck,
       CreateRun, Analyse, At

\* The loop's holder can go on.
LEMMA HolderMayProceed ==
  ASSUME LoopInv, NEW p \in Requests, Holds(p)
  PROVE  MayProceed(p)
BY DEF LoopInv, LoopHeldByOne, NoRequestStuck, Holds, InProgress, Synchronous

\* It keeps the loop, or nobody has it.
LEMMA HolderLeavesLoopIdle ==
  ASSUME LoopInv, NEW p \in Requests, Holds(p), [Next]_vars
  PROVE  Holds(p)' \/ LoopIdle'
<1>0. request \in [Requests -> RequestStates]
  BY DEF LoopInv, TypeInv, TypeOK
<1>1. CASE UNCHANGED vars
  BY <1>1 DEF vars, Holds
<1>2. ASSUME NEW q \in Requests, NEW kind \in Kinds, NEW key \in Keys \cup {NoKey},
             NEW doc \in Requests \cup {NoRequest}, NEW content \in Contents,
             Receive(q, kind, key, doc, content)
      PROVE  Holds(p)'
  BY <1>0, <1>2 DEF Receive, Become, At, Holds, Synchronous
<1>3. ASSUME NEW q \in Requests, Proceed(q)
      PROVE  Holds(p)' \/ LoopIdle'
  <2>1. \A r \in Requests : r # q => request'[r] = request[r]
    BY <1>3, ProceedLocal DEF LoopInv
  <2> QED
    BY <2>1 DEF LoopInv, LoopHeldByOne, Holds, LoopIdle
<1>4. CASE Crash
  BY <1>0, <1>4 DEF Crash, Holds, LoopIdle, RequestStates, Synchronous
<1> QED
  BY <1>1, <1>2, <1>3, <1>4 DEF Next

\* The holder of the loop, with n steps to go at most, gets to m or leaves the loop idle.
HoldsWithin(p, n) == Holds(p) /\ StepsLeft(request[p].pc) <= n
HolderNears(p, n, m) ==
    Served(p) => (HoldsWithin(p, n) => <>HoldsWithin(p, m) \/ SoonIdle)

\* One step.
LEMMA HolderOneStep ==
  ASSUME NEW p \in Requests, NEW m \in Nat, NEW n \in Nat, n = m + 1
  PROVE  HolderNears(p, n, m)
<1>1. LoopInv /\ LoopInv' /\ HoldsWithin(p, n) /\ [Next]_vars /\ [RequestsDescend]_vars
          => HoldsWithin(p, n)' \/ HoldsWithin(p, m)' \/ LoopIdle'
  BY HolderLeavesLoopIdle, ProceedIsCloser DEF HoldsWithin, LoopInv
<1>2. LoopInv /\ LoopInv' /\ HoldsWithin(p, n) /\ [Next]_vars /\ [RequestsDescend]_vars
        /\ <<Proceed(p)>>_vars
          => HoldsWithin(p, m)' \/ LoopIdle'
  BY HolderLeavesLoopIdle, ProceedIsCloser, ProceedMoves DEF HoldsWithin, LoopInv
<1>3. LoopInv /\ HoldsWithin(p, n) => MayProceed(p)
  BY HolderMayProceed DEF HoldsWithin
<1> HIDE DEF RequestsDescend, LoopInv, LoopIdle
<1> QED
  BY <1>1, <1>2, <1>3, PTL DEF HolderNears, Served, Serving, Scheduled, SoonIdle

\* Two steps.
LEMMA HolderTwoSteps ==
  ASSUME NEW p \in Requests, NEW m \in Nat, NEW n \in Nat, n = m + 2
  PROVE  HolderNears(p, n, m)
<1>1. PICK k \in Nat : n = k + 1 /\ k = m + 1
  OBVIOUS
<1>2. HolderNears(p, n, k) /\ HolderNears(p, k, m)
  BY <1>1, HolderOneStep
<1>3. Served(p) => []Served(p)
  BY PTL DEF Served, Serving, Scheduled
<1> QED
  BY <1>2, <1>3, PTL DEF HolderNears, SoonIdle

\* The loop is held for at most six steps.
LEMMA HolderLetsGo ==
  ASSUME NEW p \in Requests
  PROVE  Served(p) /\ Holds(p) => SoonIdle
<1>1. HolderNears(p, 6, 4)
  BY HolderTwoSteps
<1>2. HolderNears(p, 4, 2)
  BY HolderTwoSteps
<1>3. HolderNears(p, 2, 0)
  BY HolderTwoSteps
<1>4. LoopInv => (Holds(p) => HoldsWithin(p, 6)) /\ ~HoldsWithin(p, 0)
  <2> SUFFICES ASSUME LoopInv, Holds(p) PROVE HoldsWithin(p, 6) /\ ~HoldsWithin(p, 0)
    BY DEF HoldsWithin
  <2>1. StepsLeft(request[p].pc) \in 1..6
    BY StepsBounded DEF LoopInv, TypeInv, TypeOK, RequestStates, Holds
  <2> QED
    BY <2>1 DEF HoldsWithin
<1>5. Served(p) => []LoopInv /\ []Served(p)
  BY PTL DEF Served, Serving, Scheduled
<1> QED
  BY <1>1, <1>2, <1>3, <1>4, <1>5, PTL DEF HolderNears, SoonIdle

\* Again and again nobody has the loop.
LEMMA LoopComesFree == []AllServed => []SoonIdle
<1>1. AllServed => LoopIdle \/ SoonIdle
  BY HolderLetsGo DEF AllServed, LoopIdle
<1> QED
  BY <1>1, PTL DEF SoonIdle

\* A request in progress with n steps to go at most, on a loop that comes free.
Within(q, n)   == InProgress(q) /\ StepsLeft(request[q].pc) <= n
Nears(q, n, m) ==
    Served(q) /\ []SoonIdle => (Within(q, n) => <>(Within(q, m) \/ ~InProgress(q)))

\* One step more brings a request closer to its answer.
LEMMA OneStepFewer ==
  ASSUME NEW q \in Requests, NEW m \in Nat, NEW n \in Nat, n = m + 1
  PROVE  Nears(q, n, m)
<1>1. LoopInv /\ LoopInv' /\ Within(q, n) /\ [RequestsDescend]_vars
          => Within(q, n)' \/ Within(q, m)' \/ ~InProgress(q)'
  BY ProceedIsCloser DEF Within, LoopInv, InProgress
<1>2. LoopInv /\ LoopInv' /\ Within(q, n) /\ [RequestsDescend]_vars /\ <<Proceed(q)>>_vars
          => Within(q, m)' \/ ~InProgress(q)'
  BY ProceedIsCloser, ProceedMoves DEF Within, LoopInv, InProgress
<1>3. LoopInv /\ LoopIdle /\ Within(q, n) => MayProceed(q)
  BY DEF LoopInv, NoRequestStuck, LoopIdle, Holds, Within
<1> HIDE DEF RequestsDescend, LoopInv, LoopIdle
<1> QED
  BY <1>1, <1>2, <1>3, PTL DEF Nears, Served, Serving, Scheduled, SoonIdle

\* Two steps.
LEMMA TwoStepsFewer ==
  ASSUME NEW q \in Requests, NEW m \in Nat, NEW n \in Nat, n = m + 2
  PROVE  Nears(q, n, m)
<1>1. PICK k \in Nat : n = k + 1 /\ k = m + 1
  OBVIOUS
<1>2. Nears(q, n, k) /\ Nears(q, k, m)
  BY <1>1, OneStepFewer
<1>3. Served(q) => []Served(q)
  BY PTL DEF Served, Serving, Scheduled
<1> QED
  BY <1>2, <1>3, PTL DEF Nears

\* A request that arrived is answered, or lost with its server.
LEMMA RequestEnds ==
  ASSUME NEW q \in Requests
  PROVE  Served(q) /\ []SoonIdle => (At(q, "arrived") => <>At(q, "done"))
<1>1. Nears(q, 7, 6)
  BY OneStepFewer
<1>2. Nears(q, 6, 4) /\ Nears(q, 4, 2)
  BY TwoStepsFewer
<1>3. Nears(q, 2, 0)
  BY TwoStepsFewer
<1>4. LoopInv => (InProgress(q) => Within(q, 7)) /\ ~Within(q, 0)
  <2> SUFFICES ASSUME LoopInv, InProgress(q) PROVE Within(q, 7) /\ ~Within(q, 0)
    BY DEF Within
  <2>1. StepsLeft(request[q].pc) \in 1..7
    BY StepsBounded DEF LoopInv, TypeInv, TypeOK, RequestStates, InProgress
  <2> QED
    BY <2>1 DEF Within
<1>5. LoopInv /\ LoopInv' /\ ~At(q, "idle") /\ [RequestsDescend]_vars => ~At(q, "idle")'
  <2> SUFFICES ASSUME LoopInv, LoopInv', ~At(q, "idle"), [RequestsDescend]_vars,
                      request'[q] # request[q]
               PROVE  request'[q].pc # "idle"
    BY DEF At
  <2>1. StepsLeft(request'[q].pc) < StepsLeft(request[q].pc)
    BY DEF RequestsDescend, vars
  <2>2. PICK i \in 0..8 : i = StepsLeft(request[q].pc)
    BY StepsBounded DEF LoopInv, TypeInv, TypeOK, RequestStates
  <2>3. request'[q].pc = "idle" => StepsLeft(request'[q].pc) = 8
    BY StepsBounded DEF LoopInv, TypeInv, TypeOK, RequestStates
  <2> QED
    BY <2>1, <2>2, <2>3
<1>6. At(q, "arrived") => InProgress(q) /\ ~At(q, "idle")
  BY DEF At, InProgress
<1>7. ~InProgress(q) /\ ~At(q, "idle") => At(q, "done")
  BY DEF At, InProgress
<1>8. Served(q) => [](LoopInv) /\ []Served(q) /\ [][RequestsDescend]_vars
  <2> HIDE DEF LoopInv, RequestsDescend
  <2> QED
    BY PTL DEF Served, Serving, Scheduled
<1> HIDE DEF LoopInv, RequestsDescend
<1> QED
  BY <1>1, <1>2, <1>3, <1>4, <1>5, <1>6, <1>7, <1>8, PTL DEF Nears

\* Every request that arrives is answered or lost with the server, however uploads, updates
\* and crashes interleave: none waits for the loop for ever, for any number of requests.
THEOREM EveryRequestAnsweredHolds == Spec /\ AlwaysScheduled => EveryRequestAnswered
<1> SUFFICES ASSUME NEW q \in Requests
             PROVE  Spec /\ AlwaysScheduled => (At(q, "arrived") ~> At(q, "done"))
  BY DEF EveryRequestAnswered
<1>1. Spec => []Serving
  <2>1. Init => TypeInv /\ LoopHeldByOne
    BY InitTyped DEF Init, TypeInv, RequestsFilled, Filled, IdleRequest, LoopHeldByOne,
       Synchronous
  <2>2. TypeInv /\ LoopHeldByOne /\ [Next]_vars => TypeInv' /\ LoopHeldByOne'
    BY TypeInductive, LoopInductive
  <2> HIDE DEF RequestsDescend, NoRequestStuck
  <2> QED
    BY <2>1, <2>2, IntakeNeverStuck, PTL DEF Spec, Serving, LoopInv
<1>2. Serving /\ EachScheduled => AllServed
  BY DEF EachScheduled, AllServed, Served
<1>3. AllServed => Served(q)
  BY DEF AllServed
<1>4. Spec /\ AlwaysScheduled => []AllServed
  BY <1>1, <1>2, PTL DEF AlwaysScheduled
<1> QED
  BY <1>3, <1>4, LoopComesFree, RequestEnds, PTL
=============================================================================
