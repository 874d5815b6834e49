---------------------------- MODULE TenantApiProofs ----------------------------
(***************************************************************************)
(* Proofs about TenantApi: tenants are kept apart and concluded runs stay  *)
(* concluded, for every number of clients, runs and calls.  The second     *)
(* part describes what serving a call amounts to; the page's proofs build  *)
(* on it.                                                                  *)
(***************************************************************************)
EXTENDS TenantApi, TLAPS

\* A successful answer about one run carries exactly one row.
AnswersFilled == \A c \in Calls :
    At(c, "answered") /\ call[c].code \in {200, 202} /\ Req(c).op \in {"get", "resume"} =>
        \E row \in Rows : call[c].rows = {row}

\* Nobody has decided a run that does not exist yet.
UnbornUndecided == \A r \in Runs : ~Exists(r) => run[r].verdicts = {}

\* The inductive invariant behind TenantsApart.
ApiInv == ApiTypeOK /\ AnswersFilled /\ UnbornUndecided /\ TenantsApart

\* A request just sent is a state of a connection.
LEMMA SentTyped ==
    ASSUME NEW req \in AnyRequest PROVE Pending(req) \in CallStates
  BY DEF Pending, CallStates

\* So is a free connection.
LEMMA FreeTyped == FreeCall \in CallStates /\ FreeCall.pc = "free"
  BY DEF FreeCall, CallStates

\* So is an answer with a known code and rows.
LEMMA AnswerTyped ==
    ASSUME NEW req \in AnyRequest, NEW code \in Codes, NEW rows \in SUBSET Rows
    PROVE  [pc |-> "answered", req |-> req, code |-> code, rows |-> rows] \in CallStates
  BY DEF CallStates

\* So is work on a run.
LEMMA WorkTyped ==
    ASSUME NEW req \in AnyRequest, req.run \in Runs,
           NEW pc \in {"analysing", "deciding", "decided"}
    PROVE  [pc |-> pc, req |-> req] \in CallStates
  <1>1. [pc |-> pc, req |-> req] \in [pc : {"analysing", "deciding", "decided"}, req : AnyRequest]
    OBVIOUS
  <1> QED
    BY <1>1 DEF CallStates

\* So is a call whose process died.
LEMMA LostTyped ==
    ASSUME NEW req \in AnyRequest
    PROVE  [pc |-> "lost", req |-> req] \in CallStates
  BY DEF CallStates

\* Which fields a connection has, by its pc.
LEMMA CallFields ==
    ASSUME NEW st \in CallStates
    PROVE  /\ st.pc \in {"free", "sent", "lost", "analysing", "deciding", "decided", "answered"}
           /\ st.pc # "free" => st.req \in AnyRequest
           /\ st.pc \in {"analysing", "deciding", "decided"} => st.req.run \in Runs
           /\ st.pc = "answered" => st.code \in Codes /\ st.rows \subseteq Rows
  <1>1. CASE st = FreeCall
    BY <1>1, FreeTyped
  <1>2. CASE st \in [pc : {"sent", "lost"}, req : AnyRequest]
    BY <1>2
  <1>3. CASE st \in {s \in [pc : {"analysing", "deciding", "decided"}, req : AnyRequest] :
                          s.req.run \in Runs}
    BY <1>3
  <1>4. CASE st \in [pc : {"answered"}, req : AnyRequest, code : Codes, rows : SUBSET Rows]
    BY <1>4
  <1> QED
    BY <1>1, <1>2, <1>3, <1>4 DEF CallStates

\* The rows a step may leave: runs keep their organisation, and verdicts theirs.
Keeps == /\ run' \in [Runs -> RunRows]
         /\ \A r \in Runs : Exists(r) => Exists(r)' /\ run'[r].org = run[r].org
         /\ \A r \in Runs : \A v \in run'[r].verdicts :
               v.org = run'[r].org /\ <<v.org, v.email>> \in Accounts
         /\ UnbornUndecided'

\* OwnRun after the step, for a request of before it.
OwnAfter(req, r) == Known(req) /\ run'[r].status # None /\ run'[r].org = req.org

\* What a call may become: an answer or work that concerns the caller's own runs.
Lawful(st) ==
    /\ st.pc = "answered" => \A row \in st.rows : OwnAfter(st.req, row.run)
    /\ st.pc \in {"analysing", "deciding", "decided"} => OwnAfter(st.req, st.req.run)
    /\ st.pc = "answered" /\ st.code \in {200, 202} /\ st.req.op \in {"get", "resume"} =>
          \E row \in Rows : st.rows = {row}

\* Rows that do not change keep all that.
LEMMA UnchangedKeeps == ApiInv /\ UNCHANGED run => Keeps
  BY DEF ApiInv, ApiTypeOK, TenantsApart, UnbornUndecided, Keeps, Exists

\* A step that keeps the rows and makes one call lawful keeps the invariant.
LEMMA CallStep ==
    ASSUME ApiInv, NEW c \in Calls, NEW st \in CallStates, Become(c, st), Keeps, Lawful(st)
    PROVE  ApiInv'
  <1>1. call' \in [Calls -> CallStates]
    BY DEF ApiInv, ApiTypeOK, Become
  <1>2. \A d \in Calls : call'[d] = st \/ (d # c /\ call'[d] = call[d])
    BY DEF ApiInv, ApiTypeOK, Become
  <1>3. ApiTypeOK'
    BY <1>1 DEF Keeps, ApiTypeOK
  <1>4. ASSUME NEW d \in Calls
        PROVE  /\ At(d, "answered")' => \A row \in call'[d].rows : OwnRun(Req(d), row.run)'
               /\ call'[d].pc \in {"analysing", "deciding", "decided"} =>
                     OwnRun(Req(d), Req(d).run)'
               /\ At(d, "answered")' /\ call'[d].code \in {200, 202}
                  /\ Req(d)'.op \in {"get", "resume"} => \E row \in Rows : call'[d].rows = {row}
    <2>1. CASE call'[d] = st
      BY <2>1 DEF Lawful, At, Req, OwnRun, OwnAfter, Known, Exists
    <2>2. CASE call'[d] = call[d]
      <3>0. call[d] \in CallStates
        BY DEF ApiInv, ApiTypeOK
      <3>1. ASSUME NEW r \in Runs, NEW req, OwnRun(req, r) PROVE OwnRun(req, r)'
        BY <3>1 DEF OwnRun, Known, Keeps
      <3>2. At(d, "answered")' => \A row \in call'[d].rows : OwnRun(Req(d), row.run)'
        <4> SUFFICES ASSUME At(d, "answered"), NEW row \in call[d].rows
                     PROVE  OwnRun(Req(d), row.run)'
          BY <2>2 DEF At
        <4>1. row.run \in Runs
          BY <3>0, CallFields DEF At, Rows
        <4>2. OwnRun(Req(d), row.run)
          BY DEF ApiInv, TenantsApart
        <4> QED
          BY <4>1, <4>2, <2>2 DEF OwnRun, Known, Keeps, Req
      <3>3. call'[d].pc \in {"analysing", "deciding", "decided"} => OwnRun(Req(d), Req(d).run)'
        <4> SUFFICES ASSUME call[d].pc \in {"analysing", "deciding", "decided"}
                     PROVE  OwnRun(Req(d), Req(d).run)'
          BY <2>2
        <4>1. Req(d).run \in Runs /\ OwnRun(Req(d), Req(d).run)
          BY <3>0, CallFields DEF ApiInv, TenantsApart, Req
        <4> QED
          BY <4>1, <2>2 DEF OwnRun, Known, Keeps, Req
      <3>4. At(d, "answered")' /\ call'[d].code \in {200, 202}
            /\ Req(d)'.op \in {"get", "resume"} => \E row \in Rows : call'[d].rows = {row}
        BY <2>2 DEF ApiInv, AnswersFilled, At, Req
      <3> QED
        BY <3>2, <3>3, <3>4
    <2> QED
      BY <1>2, <2>1, <2>2
  <1>5. AnswersFilled'
    BY <1>4 DEF AnswersFilled
  <1>6. TenantsApart'
    BY <1>4 DEF TenantsApart, Keeps
  <1> QED
    BY <1>3, <1>5, <1>6 DEF ApiInv, Keeps

\* A connection in use holds a request.
LEMMA ReqTyped ==
    ASSUME ApiTypeOK, NEW c \in Calls, call[c].pc # "free"
    PROVE  Req(c) \in AnyRequest
  BY CallFields DEF ApiTypeOK, Req

\* What is said of an existing run is a row of an answer.
LEMMA RowTyped ==
    ASSUME ApiTypeOK, NEW r \in Runs, Exists(r)
    PROVE  RowOf(r) \in Rows /\ RowOf(r).run = r
  BY DEF ApiTypeOK, RowOf, Rows, RunRows, Exists

\* Sending a request keeps the invariant.
LEMMA SendKeeps ==
    ASSUME ApiInv, NEW c \in Calls, NEW req \in AnyRequest, Send(c, req)
    PROVE  ApiInv'
  <1>1. Lawful(Pending(req))
    BY DEF Lawful, Pending
  <1> QED
    BY <1>1, CallStep, SentTyped, UnchangedKeeps DEF Send

\* So does closing a connection.
LEMMA CloseKeeps ==
    ASSUME ApiInv, NEW c \in Calls, Close(c)
    PROVE  ApiInv'
  <1>1. Lawful(FreeCall)
    BY FreeTyped DEF Lawful
  <1> QED
    BY <1>1, CallStep, FreeTyped, UnchangedKeeps DEF Close

\* So does an error answer: it carries no rows.
LEMMA RefusalKeeps ==
    ASSUME ApiInv, NEW c \in Calls, NEW code \in Codes \ {200, 202}, call[c].pc # "free",
           Answer(c, code, {}), UNCHANGED run
    PROVE  ApiInv'
  <1> DEFINE st == [pc |-> "answered", req |-> Req(c), code |-> code, rows |-> {}]
  <1>1. st \in CallStates
    BY AnswerTyped, ReqTyped DEF ApiInv
  <1>2. Lawful(st)
    BY DEF Lawful
  <1>3. Become(c, st)
    BY DEF Answer
  <1> HIDE DEF st
  <1> QED
    BY <1>1, <1>2, <1>3, CallStep, UnchangedKeeps

\* So does an answer whose rows are the caller's own.
LEMMA RowsKeep ==
    ASSUME ApiInv, NEW c \in Calls, NEW code \in Codes, NEW rows \in SUBSET Rows,
           call[c].pc # "free", Keeps, Answer(c, code, rows),
           \A row \in rows : OwnAfter(Req(c), row.run),
           code \in {200, 202} /\ Req(c).op \in {"get", "resume"} =>
               \E row \in Rows : rows = {row}
    PROVE  ApiInv'
  <1> DEFINE st == [pc |-> "answered", req |-> Req(c), code |-> code, rows |-> rows]
  <1>1. st \in CallStates
    BY AnswerTyped, ReqTyped DEF ApiInv
  <1>2. Lawful(st)
    BY DEF Lawful
  <1>3. Become(c, st)
    BY DEF Answer
  <1> HIDE DEF st
  <1> QED
    BY <1>1, <1>2, <1>3, CallStep

\* The routes that only read keep the invariant.
LEMMA ReadsKeep ==
    ASSUME ApiInv, NEW c \in Calls
    PROVE  RefuseCaller(c) \/ RefuseBody(c) \/ ListRuns(c) \/ GetRun(c) \/ NotFound(c)
              \/ RefuseDecision(c) \/ RefuseUpload(c) => ApiInv'
  <1>1. RefuseCaller(c) \/ RefuseBody(c) \/ NotFound(c) \/ RefuseDecision(c)
           \/ RefuseUpload(c) => ApiInv'
    BY RefusalKeeps DEF RefuseCaller, RefuseBody, NotFound, RefuseDecision, RefuseUpload, Admitted,
       Arrived, At, Codes
  <1>2. ListRuns(c) => ApiInv'
    <2> SUFFICES ASSUME ListRuns(c) PROVE ApiInv'
      OBVIOUS
    <2> DEFINE rows == {RowOf(r) : r \in Listed(Req(c))}
    <2>1. rows \in SUBSET Rows
      BY RowTyped DEF ApiInv, Listed
    <2>2. \A row \in rows : OwnAfter(Req(c), row.run)
      BY RowTyped DEF Listed, ListRuns, Admitted, OwnRun, Known, Exists, ApiInv, OwnAfter
    <2>3. Req(c).op = "list" /\ Answer(c, 200, rows) /\ call[c].pc # "free" /\ UNCHANGED run
      BY DEF ListRuns, Admitted, Arrived, At
    <2> HIDE DEF rows
    <2> QED
      BY <2>1, <2>2, <2>3, RowsKeep, UnchangedKeeps DEF Codes
  <1>3. GetRun(c) => ApiInv'
    <2> SUFFICES ASSUME GetRun(c) PROVE ApiInv'
      OBVIOUS
    <2> DEFINE row0 == RowOf(Req(c).run)
    <2>1. Req(c).run \in Runs /\ Exists(Req(c).run) /\ OwnRun(Req(c), Req(c).run)
      BY DEF GetRun, TenantRun, Listed, Admitted, OwnRun
    <2>2. row0 \in Rows /\ OwnAfter(Req(c), row0.run)
      BY <2>1, RowTyped DEF ApiInv, GetRun, OwnRun, Known, Exists, OwnAfter
    <2>3. Answer(c, 200, {row0}) /\ call[c].pc # "free" /\ UNCHANGED run
      BY DEF GetRun, Admitted, Arrived, At
    <2> HIDE DEF row0
    <2> QED
      BY <2>2, <2>3, RowsKeep, UnchangedKeeps DEF Codes
  <1> QED
    BY <1>1, <1>2, <1>3

\* Whatever is asked for, the outcome concludes the run.
LEMMA OutcomesConclude == \A a : Outcomes(a) \subseteq Concluded
  BY DEF Outcomes, Concluded

\* Also when decisions race.
LEMMA MayConcludeConcludes ==
    ASSUME NEW r, NEW action PROVE MayConclude(r, action) \subseteq Concluded
  BY OutcomesConclude DEF MayConclude

\* Taking up, carrying out and answering a decision keep the invariant.
LEMMA DecisionsKeep ==
    ASSUME ApiInv, NEW c \in Calls
    PROVE  AcceptDecision(c) \/ Conclude(c) \/ AnswerDecision(c) => ApiInv'
  <1>1. AcceptDecision(c) => ApiInv'
    <2> SUFFICES ASSUME AcceptDecision(c) PROVE ApiInv'
      OBVIOUS
    <2> DEFINE r == Req(c).run
               v == Verdict(Req(c))
               st == [pc |-> "deciding", req |-> Req(c)]
    <2>1. Req(c) \in AnyRequest
      BY ReqTyped DEF ApiInv, AcceptDecision, Admitted, Arrived, At
    <2>2. r \in Runs /\ OwnRun(Req(c), r) /\ run[r] \in RunRows
      BY DEF AcceptDecision, TenantRun, Listed, Admitted, OwnRun, ApiInv, ApiTypeOK
    <2>3. v \in Verdicts /\ v.org = run[r].org /\ <<v.org, v.email>> \in Accounts
      BY <2>1, <2>2 DEF Verdict, Verdicts, AnyRequest, OwnRun, Known
    <2>4. \A q \in Runs :
             /\ run'[q] \in RunRows
             /\ run'[q].org = run[q].org /\ run'[q].status = run[q].status
             /\ run'[q].verdicts = IF q = r THEN run[q].verdicts \cup {v} ELSE run[q].verdicts
      BY <2>2, <2>3 DEF AcceptDecision, ApiInv, ApiTypeOK, RunRows
    <2>5. run' \in [Runs -> RunRows]
      BY <2>4 DEF AcceptDecision, ApiInv, ApiTypeOK
    <2>6. Keeps
      <3>1. \A q \in Runs : Exists(q) => Exists(q)' /\ run'[q].org = run[q].org
        BY <2>4 DEF Exists
      <3>2. ASSUME NEW q \in Runs, NEW w \in run'[q].verdicts
            PROVE  w.org = run'[q].org /\ <<w.org, w.email>> \in Accounts
        <4>1. w \in run[q].verdicts \/ (q = r /\ w = v)
          BY <2>4
        <4>2. w \in run[q].verdicts => w.org = run[q].org /\ <<w.org, w.email>> \in Accounts
          BY DEF ApiInv, TenantsApart
        <4> HIDE DEF v
        <4> QED
          BY <2>3, <2>4, <4>1, <4>2
      <3>3. UnbornUndecided'
        BY <2>2, <2>4 DEF UnbornUndecided, Exists, OwnRun, ApiInv
      <3> QED
        BY <2>5, <3>1, <3>2, <3>3 DEF Keeps
    <2>7. st \in CallStates
      BY <2>1, <2>2, WorkTyped
    <2>8. Lawful(st)
      BY <2>2, <2>4 DEF Lawful, OwnRun, Known, Exists, OwnAfter
    <2>9. Become(c, st)
      BY DEF AcceptDecision, Goto
    <2> HIDE DEF st
    <2> QED
      BY <2>6, <2>7, <2>8, <2>9, CallStep
  <1>2. Conclude(c) => ApiInv'
    <2> SUFFICES ASSUME Conclude(c) PROVE ApiInv'
      OBVIOUS
    <2> DEFINE r == Req(c).run
               st == [pc |-> "decided", req |-> Req(c)]
    <2>1. Req(c) \in AnyRequest
      BY ReqTyped DEF ApiInv, Conclude, At
    <2>2. r \in Runs /\ OwnRun(Req(c), r) /\ run[r] \in RunRows
      BY CallFields DEF Conclude, At, OwnRun, ApiInv, ApiTypeOK, TenantsApart, Req
    <2>3. PICK s \in MayConclude(r, Req(c).action) :
             run' = [run EXCEPT ![r] = [run[r] EXCEPT !.status = s]]
      BY DEF Conclude
    <2>4. s \in Concluded
      BY <2>3, MayConcludeConcludes
    <2>5. \A q \in Runs :
             /\ run'[q] \in RunRows
             /\ run'[q].org = run[q].org /\ run'[q].verdicts = run[q].verdicts
             /\ run'[q].status = IF q = r THEN s ELSE run[q].status
      BY <2>2, <2>3, <2>4 DEF ApiInv, ApiTypeOK, RunRows, Concluded, Statuses
    <2>6. Keeps
      BY <2>2, <2>3, <2>4, <2>5
         DEF Keeps, ApiInv, ApiTypeOK, TenantsApart, UnbornUndecided, Exists, OwnRun, None,
             Concluded
    <2>7. st \in CallStates
      BY <2>1, <2>2, WorkTyped
    <2>8. Lawful(st)
      BY <2>2, <2>4, <2>5 DEF Lawful, OwnRun, Known, Exists, None, Concluded, OwnAfter
    <2>9. Become(c, st)
      BY DEF Conclude, Goto
    <2> HIDE DEF st
    <2> QED
      BY <2>6, <2>7, <2>8, <2>9, CallStep
  <1>3. AnswerDecision(c) => ApiInv'
    <2> SUFFICES ASSUME AnswerDecision(c) PROVE ApiInv'
      OBVIOUS
    <2> DEFINE row0 == RowOf(Req(c).run)
    <2>1. Req(c).run \in Runs /\ OwnRun(Req(c), Req(c).run)
      BY CallFields DEF AnswerDecision, MayAnswer, At, ApiInv, ApiTypeOK, TenantsApart, Req
    <2>2. row0 \in Rows /\ OwnAfter(Req(c), row0.run)
      BY <2>1, RowTyped DEF ApiInv, AnswerDecision, OwnRun, Known, Exists, OwnAfter
    <2>3. Answer(c, 200, {row0}) /\ call[c].pc # "free" /\ UNCHANGED run
      BY DEF AnswerDecision, MayAnswer, At
    <2> HIDE DEF row0
    <2> QED
      BY <2>2, <2>3, RowsKeep, UnchangedKeeps DEF Codes
  <1> QED
    BY <1>1, <1>2, <1>3

\* Uploads keep it: a new run belongs to the caller's organisation.
LEMMA UploadsKeep ==
    ASSUME ApiInv, NEW c \in Calls
    PROVE  RepeatUpload(c) \/ StartUpload(c) \/ FinishAnalysis(c) => ApiInv'
  <1>1. ASSUME NEW r \in Runs, NEW s \in Statuses, Keeps, AnswerUpload(c, r, s),
               call[c].pc # "free", OwnAfter(Req(c), r)
        PROVE  ApiInv'
    <2>1. CASE s = "running"
      BY <1>1, <2>1, RowsKeep DEF AnswerUpload, UploadCode, Codes
    <2>2. CASE s # "running"
      <3> DEFINE rows == {[run |-> r, status |-> s]}
      <3>1. /\ rows \in SUBSET Rows
            /\ \A row \in rows : row.run = r
            /\ \E row \in Rows : rows = {row}
        <4>1. [run |-> r, status |-> s] \in Rows
          BY DEF Rows
        <4> QED
          BY <4>1
      <3>2. Answer(c, 202, rows)
        BY <1>1, <2>2 DEF AnswerUpload, UploadCode
      <3> HIDE DEF rows
      <3> QED
        BY <1>1, <3>1, <3>2, RowsKeep DEF Codes
    <2> QED
      BY <2>1, <2>2
  <1>2. RepeatUpload(c) => ApiInv'
    <2> SUFFICES ASSUME RepeatUpload(c) PROVE ApiInv'
      OBVIOUS
    <2>1. PICK r \in RunsWithKey(Req(c)) : AnswerUpload(c, r, run[r].status)
      BY DEF RepeatUpload
    <2>2. r \in Runs /\ Exists(r) /\ OwnAfter(Req(c), r) /\ UNCHANGED run
      BY <2>1 DEF RunsWithKey, Listed, RepeatUpload, Admitted, OwnAfter, Exists
    <2>3. run[r].status \in Statuses
      BY <2>2 DEF Exists, ApiInv, ApiTypeOK, RunRows
    <2>4. call[c].pc # "free"
      BY DEF RepeatUpload, Admitted, Arrived, At
    <2> QED
      BY <1>1, <2>1, <2>2, <2>3, <2>4, UnchangedKeeps
  <1>3. StartUpload(c) => ApiInv'
    <2> SUFFICES ASSUME StartUpload(c) PROVE ApiInv'
      OBVIOUS
    <2>1. PICK r \in Runs :
             /\ ~Exists(r)
             /\ run' = [run EXCEPT ![r] = [run[r] EXCEPT !.org = Req(c).org,
                                              !.key = Req(c).key, !.status = "running"]]
             /\ Become(c, [pc |-> "analysing", req |-> [Req(c) EXCEPT !.run = r]])
      BY DEF StartUpload
    <2> DEFINE req == [Req(c) EXCEPT !.run = r]
               st == [pc |-> "analysing", req |-> req]
    <2>2. Req(c) \in AnyRequest /\ Known(Req(c))
      BY ReqTyped DEF ApiInv, StartUpload, Admitted, Arrived, At
    <2>3. req \in AnyRequest /\ req.run = r /\ req.org = Req(c).org /\ Known(req)
      BY <2>2 DEF AnyRequest, Known
    <2>4. \A q \in Runs :
             /\ run'[q] \in RunRows
             /\ run'[q].verdicts = run[q].verdicts
             /\ run'[q].status = IF q = r THEN "running" ELSE run[q].status
             /\ run'[q].org = IF q = r THEN Req(c).org ELSE run[q].org
      BY <2>1, <2>2 DEF ApiInv, ApiTypeOK, RunRows, AnyRequest, Statuses
    <2>5. Keeps
      <3>1. run[r].verdicts = {}
        BY <2>1 DEF ApiInv, UnbornUndecided
      <3>2. run' \in [Runs -> RunRows]
        BY <2>1, <2>4 DEF ApiInv, ApiTypeOK
      <3> QED
        BY <2>1, <2>4, <3>1, <3>2
           DEF Keeps, Exists, ApiInv, TenantsApart, UnbornUndecided, None
    <2>6. st \in CallStates
      BY <2>3, WorkTyped
    <2>7. Lawful(st)
      BY <2>3, <2>4 DEF Lawful, OwnAfter, None
    <2> HIDE DEF st
    <2> QED
      BY <2>1, <2>5, <2>6, <2>7, CallStep DEF st
  <1>4. FinishAnalysis(c) => ApiInv'
    <2> SUFFICES ASSUME FinishAnalysis(c) PROVE ApiInv'
      OBVIOUS
    <2> DEFINE r == Req(c).run
    <2>1. PICK s \in {"waiting_approval", "failed", "running"} :
             /\ run' = [run EXCEPT ![r] = [run[r] EXCEPT !.status = s]]
             /\ AnswerUpload(c, r, s)
      BY DEF FinishAnalysis
    <2>2. r \in Runs /\ OwnRun(Req(c), r) /\ call[c].pc # "free"
      BY CallFields DEF FinishAnalysis, At, OwnRun, ApiInv, ApiTypeOK, TenantsApart, Req
    <2>3. \A q \in Runs :
             /\ run'[q] \in RunRows
             /\ run'[q].org = run[q].org /\ run'[q].verdicts = run[q].verdicts
             /\ run'[q].status = IF q = r THEN s ELSE run[q].status
      BY <2>1, <2>2 DEF ApiInv, ApiTypeOK, RunRows, Statuses
    <2>4. Keeps
      BY <2>1, <2>2, <2>3
         DEF Keeps, ApiInv, ApiTypeOK, TenantsApart, UnbornUndecided, Exists, OwnRun, None
    <2>5. OwnAfter(Req(c), r) /\ s \in Statuses
      BY <2>1, <2>2, <2>3 DEF OwnRun, OwnAfter, None, Statuses
    <2> QED
      BY <1>1, <2>1, <2>2, <2>4, <2>5
  <1> QED
    BY <1>2, <1>3, <1>4

\* A crash keeps it: only calls are lost.
LEMMA CrashKeeps == ApiInv /\ Crash => ApiInv'
  <1> SUFFICES ASSUME ApiInv, Crash PROVE ApiInv'
    OBVIOUS
  <1>1. ASSUME NEW c \in Calls
        PROVE  call'[c] \in CallStates /\ (call'[c] = call[c] \/ call'[c].pc = "lost")
    <2>1. CASE call[c].pc \in {"free", "answered"}
      BY <2>1 DEF Crash, ApiInv, ApiTypeOK
    <2>2. CASE call[c].pc \notin {"free", "answered"}
      BY <2>2, LostTyped, ReqTyped DEF Crash, ApiInv
    <2> QED
      BY <2>1, <2>2
  <1>2. call' \in [Calls -> CallStates] /\ UNCHANGED run
    BY <1>1 DEF Crash
  <1>3. ApiTypeOK' /\ UnbornUndecided'
    BY <1>2 DEF ApiInv, ApiTypeOK, UnbornUndecided, Exists
  <1>4. AnswersFilled'
    BY <1>1 DEF AnswersFilled, ApiInv, At, Req
  <1>5. TenantsApart'
    BY <1>1, <1>2 DEF TenantsApart, ApiInv, At, Req, OwnRun, Known, Exists
  <1> QED
    BY <1>3, <1>4, <1>5 DEF ApiInv

\* It holds at the start: nothing is decided, no call is under way.
LEMMA ApiInvInit == ApiInit => ApiInv
  <1> SUFFICES ASSUME ApiInit PROVE ApiInv
    OBVIOUS
  <1>1. NoRecord \in RunRows
    BY DEF NoRecord, RunRows, Verdicts
  <1>2. ASSUME NEW r \in Runs PROVE run[r] \in RunRows /\ run[r].verdicts = {}
    <2>1. CASE r \in DOMAIN Earlier
      BY <2>1, EarlierAssumption DEF ApiInit, NoRecord, RunRows, Statuses
    <2>2. CASE r \notin DOMAIN Earlier
      BY <2>2, <1>1 DEF ApiInit, NoRecord
    <2> QED
      BY <2>1, <2>2
  <1>3. ApiTypeOK
    BY <1>2, FreeTyped DEF ApiInit, ApiTypeOK
  <1> QED
    BY <1>2, <1>3, FreeTyped
       DEF ApiInit, ApiInv, AnswersFilled, UnbornUndecided, TenantsApart, At

\* The invariant is inductive.
LEMMA ApiInvStep == ApiInv /\ [ApiNext]_apiVars => ApiInv'
  <1> SUFFICES ASSUME ApiInv, [ApiNext]_apiVars PROVE ApiInv'
    OBVIOUS
  <1>1. ASSUME NEW c \in Calls, NEW req \in AnyRequest, Send(c, req) PROVE ApiInv'
    BY <1>1, SendKeeps
  <1>2. ASSUME NEW c \in Calls, Close(c) PROVE ApiInv'
    BY <1>2, CloseKeeps
  <1>3. ASSUME NEW c \in Calls, Serve(c) PROVE ApiInv'
    BY <1>3, ReadsKeep, DecisionsKeep, UploadsKeep DEF Serve
  <1>4. CASE Crash
    BY <1>4, CrashKeeps
  <1>5. CASE UNCHANGED apiVars
    BY <1>5 DEF apiVars, ApiInv, ApiTypeOK, AnswersFilled, UnbornUndecided, TenantsApart,
       At, Req, OwnRun, Known, Exists
  <1> QED
    BY <1>1, <1>2, <1>3, <1>4, <1>5 DEF ApiNext

\* For any clients, accounts and number of calls: an answer speaks of runs of the
\* caller's organisation only, work is on such runs, and so is every decision
\* (require_tenant_context and _get_tenant_run).
THEOREM TenantsApartHolds == ApiSpec => []TenantsApart
  <1>1. ApiInv => TenantsApart
    BY DEF ApiInv
  <1> QED
    BY ApiInvInit, ApiInvStep, <1>1, PTL DEF ApiSpec

\* Runs a decision can be about.
Settled == {"waiting_approval"} \cup Concluded

\* One analysis at a time, of a running run; decisions are about settled runs.
Stages ==
    /\ \A c \in Calls : At(c, "analysing") =>
          Req(c).op = "upload" /\ run[Req(c).run].status = "running"
    /\ \A c, d \in Calls : At(c, "analysing") /\ At(d, "analysing") => c = d
    /\ \A c \in Calls : At(c, "deciding") =>
          Req(c).op = "resume" /\ run[Req(c).run].status \in Settled
    /\ \A c \in Calls : At(c, "decided") => Req(c).op = "resume"

\* The invariant with the stages of the calls.
StagedInv == ApiInv /\ Stages

\* Only call c moves, and keeps its request.
Moves(c, pc) == /\ \A d \in Calls \ {c} : call'[d] = call[d]
                /\ call'[c].pc = pc /\ call'[c].req = call[c].req

\* Run r gets status s and nothing else changes but that.
StatusBecomes(r, s) ==
    \A q \in Runs : /\ run'[q].verdicts = run[q].verdicts
                    /\ run'[q].contested = run[q].contested
                    /\ run'[q].status = IF q = r THEN s ELSE run[q].status

\* What serving a call amounts to: an answer ...
Answers(c) ==
    /\ Moves(c, "answered") /\ UNCHANGED run
    /\ call[c].pc \in {"sent", "decided"}
    /\ call'[c].code \in {200, 202} /\ Req(c).op \in {"get", "resume"} =>
          call'[c].rows = {RowOf(Req(c).run)}

\* ... a decision taken up ...
Accepts(c) ==
    LET r == Req(c).run IN
    /\ Moves(c, "deciding") /\ At(c, "sent") /\ Req(c).op = "resume"
    /\ r \in Runs /\ run[r].status = "waiting_approval"
    /\ \A q \in Runs :
          /\ run'[q].status = run[q].status
          /\ run'[q].verdicts = IF q = r THEN run[q].verdicts \cup {Verdict(Req(c))}
                                ELSE run[q].verdicts
          /\ run'[q].contested = IF q = r THEN run[q].verdicts # {} ELSE run[q].contested

\* ... carried out ...
Concludes(c) == /\ Moves(c, "decided") /\ At(c, "deciding")
                /\ \E s \in Concluded : StatusBecomes(Req(c).run, s)

\* ... an analysis begun ...
Starts(c) ==
    /\ At(c, "sent") /\ Req(c).op = "upload" /\ LoopFree
    /\ \A d \in Calls \ {c} : call'[d] = call[d]
    /\ call'[c].pc = "analysing"
    /\ \E r \in Runs : /\ run[r].status = None
                       /\ StatusBecomes(r, "running")
                       /\ call'[c].req = [call[c].req EXCEPT !.run = r]

\* ... or finished.
Finishes(c) ==
    /\ Moves(c, "answered") /\ At(c, "analysing")
    /\ \E s \in {"waiting_approval", "failed", "running"} : StatusBecomes(Req(c).run, s)

\* So does answering.
LEMMA AnswerMoves ==
    ASSUME ApiTypeOK, NEW c \in Calls, NEW code, NEW rows, Answer(c, code, rows)
    PROVE  Moves(c, "answered") /\ call'[c].code = code /\ call'[c].rows = rows
  BY DEF ApiTypeOK, Answer, Become, Req, Moves

\* Serving a call is one of the five.
LEMMA ServeDoes ==
    ASSUME StagedInv, NEW c \in Calls, Serve(c)
    PROVE  Answers(c) \/ Accepts(c) \/ Concludes(c) \/ Starts(c) \/ Finishes(c)
  <1> USE DEF StagedInv
  <1>0. ApiTypeOK
    BY DEF ApiInv
  <1>1. RefuseCaller(c) \/ RefuseBody(c) \/ NotFound(c) \/ RefuseDecision(c)
           \/ RefuseUpload(c) => Answers(c)
    <2> SUFFICES ASSUME NEW code \in {401, 422, 404, 400}, Answer(c, code, {}),
                        UNCHANGED run, At(c, "sent")
                 PROVE  Answers(c)
      BY DEF RefuseCaller, RefuseBody, NotFound, RefuseDecision, RefuseUpload, Admitted, Arrived
    <2> QED
      BY <1>0, AnswerMoves DEF Answers, At
  <1>2. ListRuns(c) => Answers(c)
    <2> SUFFICES ASSUME ListRuns(c) PROVE Answers(c)
      OBVIOUS
    <2>1. Moves(c, "answered") /\ UNCHANGED run /\ At(c, "sent") /\ Req(c).op = "list"
      BY <1>0, AnswerMoves DEF ListRuns, Admitted, Arrived
    <2> QED
      BY <2>1 DEF Answers, At
  <1>3. GetRun(c) => Answers(c)
    BY <1>0, AnswerMoves DEF GetRun, Admitted, Arrived, Answers, At
  <1>4. AnswerDecision(c) => Answers(c)
    BY <1>0, AnswerMoves DEF AnswerDecision, MayAnswer, Answers, At
  <1>5. RepeatUpload(c) => Answers(c)
    <2> SUFFICES ASSUME RepeatUpload(c) PROVE Answers(c)
      OBVIOUS
    <2>1. Moves(c, "answered") /\ UNCHANGED run /\ At(c, "sent") /\ Req(c).op = "upload"
      BY <1>0, AnswerMoves DEF RepeatUpload, AnswerUpload, Admitted, Arrived
    <2> QED
      BY <2>1 DEF Answers, At
  <1>6. AcceptDecision(c) => Accepts(c)
    <2> SUFFICES ASSUME AcceptDecision(c) PROVE Accepts(c)
      OBVIOUS
    <2>1. Req(c).run \in Runs /\ Resumable(Req(c).run) /\ At(c, "sent")
          /\ Req(c).op = "resume"
      BY DEF AcceptDecision, TenantRun, Listed, Admitted, Arrived
    <2>2. Moves(c, "deciding")
      BY <1>0 DEF AcceptDecision, Goto, Become, Moves, Req, ApiTypeOK
    <2> QED
      BY <1>0, <2>1, <2>2 DEF AcceptDecision, Accepts, Resumable, ApiTypeOK, RunRows
  <1>7. Conclude(c) => Concludes(c)
    <2> SUFFICES ASSUME Conclude(c) PROVE Concludes(c)
      OBVIOUS
    <2>1. Req(c).run \in Runs
      BY <1>0, CallFields DEF Conclude, At, ApiTypeOK, Req
    <2>2. PICK s \in MayConclude(Req(c).run, Req(c).action) :
             run' = [run EXCEPT ![Req(c).run] = [run[Req(c).run] EXCEPT !.status = s]]
      BY DEF Conclude
    <2>3. StatusBecomes(Req(c).run, s)
      BY <1>0, <2>1, <2>2 DEF StatusBecomes, ApiTypeOK, RunRows
    <2>4. Moves(c, "decided")
      BY <1>0 DEF Conclude, Goto, Become, Moves, Req, ApiTypeOK
    <2> QED
      BY <2>2, <2>3, <2>4, MayConcludeConcludes DEF Conclude, Concludes
  <1>8. StartUpload(c) => Starts(c)
    <2> SUFFICES ASSUME StartUpload(c) PROVE Starts(c)
      OBVIOUS
    <2>1. PICK r \in Runs :
             /\ ~Exists(r)
             /\ run' = [run EXCEPT ![r] = [run[r] EXCEPT !.org = Req(c).org,
                                              !.key = Req(c).key, !.status = "running"]]
             /\ Become(c, [pc |-> "analysing", req |-> [Req(c) EXCEPT !.run = r]])
      BY DEF StartUpload
    <2>2. StatusBecomes(r, "running")
      BY <1>0, <2>1 DEF StatusBecomes, ApiTypeOK, RunRows
    <2>3. At(c, "sent") /\ Req(c).op = "upload" /\ LoopFree
      BY DEF StartUpload, Admitted, Arrived
    <2>4. /\ \A d \in Calls \ {c} : call'[d] = call[d]
          /\ call'[c].pc = "analysing" /\ call'[c].req = [call[c].req EXCEPT !.run = r]
      BY <1>0, <2>1 DEF Become, ApiTypeOK, Req
    <2> QED
      BY <2>1, <2>2, <2>3, <2>4 DEF Starts, Exists
  <1>9. FinishAnalysis(c) => Finishes(c)
    <2> SUFFICES ASSUME FinishAnalysis(c) PROVE Finishes(c)
      OBVIOUS
    <2>1. Req(c).run \in Runs
      BY <1>0, CallFields DEF FinishAnalysis, At, ApiTypeOK, Req
    <2>2. PICK s \in {"waiting_approval", "failed", "running"} :
             /\ run' = [run EXCEPT ![Req(c).run] = [run[Req(c).run] EXCEPT !.status = s]]
             /\ AnswerUpload(c, Req(c).run, s)
      BY DEF FinishAnalysis
    <2>3. StatusBecomes(Req(c).run, s)
      BY <1>0, <2>1, <2>2 DEF StatusBecomes, ApiTypeOK, RunRows
    <2>4. Moves(c, "answered")
      BY <1>0, <2>2, AnswerMoves DEF AnswerUpload
    <2> QED
      BY <2>2, <2>3, <2>4 DEF Finishes, FinishAnalysis
  <1> QED
    BY <1>1, <1>2, <1>3, <1>4, <1>5, <1>6, <1>7, <1>8, <1>9 DEF Serve

\* Work in progress is about an existing run.
LEMMA RequestsStay ==
    ASSUME ApiInv, NEW c \in Calls, call[c].pc \in {"analysing", "deciding", "decided"}
    PROVE  Req(c).run \in Runs /\ Exists(Req(c).run)
  BY CallFields DEF ApiInv, ApiTypeOK, TenantsApart, OwnRun, Req

\* Settled runs stay settled and concluded ones concluded, running ones run.
LEMMA ServeSettles ==
    ASSUME StagedInv, NEW c \in Calls, Serve(c), NEW r \in Runs
    PROVE  /\ run[r].status \in Settled => run'[r].status \in Settled
           /\ run[r].status \in Concluded => run'[r].status \in Concluded
           /\ run[r].status = "running" =>
                 run'[r].status = "running" \/ (At(c, "analysing") /\ Req(c).run = r)
  <1>1. CASE Answers(c)
    BY <1>1 DEF Answers
  <1>2. CASE Accepts(c)
    BY <1>2 DEF Accepts
  <1>3. CASE Concludes(c)
    BY <1>3 DEF Concludes, StatusBecomes, StagedInv, Stages, Settled, Concluded
  <1>4. CASE Starts(c)
    BY <1>4 DEF Starts, StatusBecomes, Settled, Concluded, None
  <1>5. CASE Finishes(c)
    BY <1>5 DEF Finishes, StatusBecomes, StagedInv, Stages, Settled, Concluded
  <1> QED
    BY <1>1, <1>2, <1>3, <1>4, <1>5, ServeDoes

\* Serving a call keeps the stages.
LEMMA StagesStep ==
    ASSUME StagedInv, NEW c \in Calls, Serve(c)
    PROVE  Stages'
  <1>0. ApiTypeOK /\ ApiInv /\ Stages
    BY DEF StagedInv, ApiInv
  <1>1. ASSUME NEW d \in Calls \ {c}, call'[d] = call[d]
        PROVE  /\ At(d, "analysing")' => Req(d)'.op = "upload"
               /\ At(d, "analysing")' /\ ~At(c, "analysing") => run'[Req(d)'.run].status = "running"
               /\ At(d, "deciding")' =>
                     Req(d)'.op = "resume" /\ run'[Req(d)'.run].status \in Settled
               /\ At(d, "decided")' => Req(d)'.op = "resume"
    <2>1. At(d, "analysing") \/ At(d, "deciding") => Req(d).run \in Runs
      BY <1>0, RequestsStay DEF At
    <2>2. At(d, "analysing") /\ ~At(c, "analysing") => run'[Req(d).run].status = "running"
      BY <1>0, <2>1, ServeSettles DEF Stages
    <2>3. At(d, "deciding") => run'[Req(d).run].status \in Settled
      BY <1>0, <2>1, ServeSettles DEF Stages
    <2> QED
      BY <1>0, <1>1, <2>2, <2>3 DEF Stages, At, Req
  <1>2. CASE Answers(c)
    <2>1. ~At(c, "analysing") /\ call'[c].pc = "answered"
          /\ \A d \in Calls \ {c} : call'[d] = call[d]
      BY <1>2 DEF Answers, At, Moves
    <2> QED
      BY <1>0, <1>1, <2>1 DEF Stages, At
  <1>3. CASE Accepts(c)
    <2>1. ~At(c, "analysing") /\ call'[c].pc = "deciding" /\ Req(c)' = Req(c)
          /\ \A d \in Calls \ {c} : call'[d] = call[d]
      BY <1>3 DEF Accepts, At, Moves, Req
    <2>2. Req(c).op = "resume" /\ run'[Req(c).run].status \in Settled
      BY <1>3 DEF Accepts, Settled
    <2> QED
      BY <1>0, <1>1, <2>1, <2>2 DEF Stages, At
  <1>4. CASE Concludes(c)
    <2>1. ~At(c, "analysing") /\ call'[c].pc = "decided" /\ Req(c)' = Req(c)
          /\ \A d \in Calls \ {c} : call'[d] = call[d]
      BY <1>4 DEF Concludes, At, Moves, Req
    <2>2. Req(c).op = "resume"
      BY <1>0, <1>4 DEF Concludes, Stages
    <2> QED
      BY <1>0, <1>1, <2>1, <2>2 DEF Stages, At
  <1>5. CASE Starts(c)
    <2>1. PICK r \in Runs : /\ run[r].status = None /\ StatusBecomes(r, "running")
                            /\ call'[c].req = [call[c].req EXCEPT !.run = r]
      BY <1>5 DEF Starts
    <2>2. call[c].req \in AnyRequest /\ call[c].req.op = "upload"
      BY <1>0, <1>5, ReqTyped DEF Starts, At, Req
    <2>3. call'[c].req.op = "upload" /\ call'[c].req.run = r
      BY <2>1, <2>2 DEF AnyRequest
    <2>4. run'[r].status = "running"
      BY <2>1 DEF StatusBecomes
    <2>5. /\ call'[c].pc = "analysing" /\ ~At(c, "analysing")
          /\ \A d \in Calls \ {c} : call'[d] = call[d] /\ ~At(d, "analysing")
      BY <1>5 DEF Starts, LoopFree, At
    <2> QED
      BY <1>0, <1>1, <2>3, <2>4, <2>5 DEF Stages, At, Req
  <1>6. CASE Finishes(c)
    <2>1. At(c, "analysing") /\ call'[c].pc = "answered"
          /\ \A d \in Calls \ {c} : call'[d] = call[d]
      BY <1>6 DEF Finishes, At, Moves
    <2>2. \A d \in Calls : ~At(d, "analysing")'
      BY <1>0, <2>1 DEF Stages, At
    <2> QED
      BY <1>0, <1>1, <2>1, <2>2 DEF Stages, At
  <1> QED
    BY <1>2, <1>3, <1>4, <1>5, <1>6, ServeDoes

\* The invariant with the stages is inductive.
LEMMA StagedInvStep == StagedInv /\ [ApiNext]_apiVars => StagedInv'
  <1> SUFFICES ASSUME StagedInv, [ApiNext]_apiVars PROVE Stages'
    BY ApiInvStep DEF StagedInv
  <1>0. ApiTypeOK /\ ApiInv /\ Stages
    BY DEF StagedInv, ApiInv
  <1>1. ASSUME NEW c \in Calls, NEW st, st.pc \in {"sent", "free"}, Become(c, st), UNCHANGED run
        PROVE  Stages'
    <2>1. \A d \in Calls : call'[d] = call[d] \/ call'[d].pc \in {"sent", "free"}
      BY <1>0, <1>1 DEF Become, ApiTypeOK
    <2> QED
      BY <1>0, <1>1, <2>1 DEF Stages, At, Req
  <1>2. ASSUME NEW c \in Calls, NEW req \in AnyRequest, Send(c, req) PROVE Stages'
    <2>1. Pending(req).pc = "sent"
      BY DEF Pending
    <2> QED
      BY <1>1, <1>2, <2>1 DEF Send
  <1>3. ASSUME NEW c \in Calls, Close(c) PROVE Stages'
    BY <1>1, <1>3, FreeTyped DEF Close
  <1>4. ASSUME NEW c \in Calls, Serve(c) PROVE Stages'
    BY <1>4, StagesStep
  <1>5. CASE Crash
    <2>1. \A d \in Calls : call'[d].pc \in {"free", "answered", "lost"}
      BY <1>5 DEF Crash
    <2> QED
      BY <2>1 DEF Stages, At
  <1>6. CASE UNCHANGED apiVars
    BY <1>0, <1>6 DEF Stages, apiVars, At, Req
  <1> QED
    BY <1>2, <1>3, <1>4, <1>5, <1>6 DEF ApiNext

\* And it holds at the start.
LEMMA StagedInvInit == ApiInit => StagedInv
  <1> SUFFICES ASSUME ApiInit PROVE Stages
    BY ApiInvInit DEF StagedInv
  <1>1. \A c \in Calls : call[c].pc = "free"
    BY FreeTyped DEF ApiInit
  <1> QED
    BY <1>1 DEF Stages, At

\* A concluded run stays concluded (it may still change from one outcome to another).
ConcludedStay == \A r \in Runs : run[r].status \in Concluded => run'[r].status \in Concluded

\* Every step of the API leaves concluded runs concluded.
LEMMA ConcludedStays == StagedInv /\ [ApiNext]_apiVars => ConcludedStay
  BY ServeSettles DEF ApiNext, apiVars, Send, Close, Crash, ConcludedStay

\* No request, answer, crash or repeated upload takes a concluded run back to waiting
\* (resume_run turns away everything that does not wait).
THEOREM ConcludedStaysHolds == ApiSpec => [][ConcludedStay]_apiVars
  <1> QED
    BY ConcludedStays, StagedInvInit, StagedInvStep, PTL DEF ApiSpec

=============================================================================
