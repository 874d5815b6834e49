------------------------------- MODULE TenantApi -------------------------------
(***************************************************************************)
(* The API as its clients meet it: who is let in (api/dependencies.py),    *)
(* what each route of api/v1/agent_runs.py and the upload route answer,    *)
(* and which rows of which organisation they read and change.  A call is   *)
(* executed by the server while its client may long have given up on it.   *)
(* What goes on inside start_run and resume_run is in WorkflowService;     *)
(* here an analysis and a carried-out decision are one step each.          *)
(***************************************************************************)
EXTENDS Naturals

CONSTANTS
    Clients,        \* connections calls come from
    Organizations,  \* rows of organizations, by slug
    Emails,         \* addresses clients send in X-User-Email
    Accounts,       \* rows of app_users: <<organization, email>>
    Tokens,         \* bearer tokens clients send
    ApiToken,       \* settings.api_token
    Keys,           \* idempotency keys of uploads
    Runs,           \* agent run ids
    Earlier,        \* Earlier[r]: the organisation of a run that waits from the start
    Calls           \* connections the server serves at once

ASSUME TenancyAssumption == /\ Accounts \subseteq Organizations \X Emails
                            /\ ApiToken \in Tokens
ASSUME NumberedAssumption == Runs \subseteq Nat \ {0} /\ Calls \subseteq Nat \ {0}
ASSUME EarlierAssumption  == /\ DOMAIN Earlier \subseteq Runs
                             /\ \A r \in DOMAIN Earlier : Earlier[r] \in Organizations

NoRun == 0
None  == "none"

Statuses  == {"running", "waiting_approval", "approved", "rejected", "failed"}
Concluded == {"approved", "rejected", "failed"}
Actions   == {"approve", "reject", "edit"}

\* The fields of the schema InvoiceFields, and one it does not have.
EditFields == {"supplier_name", "supplier_tax_id", "document_number", "issue_date",
               "due_date", "amount", "currency", "description"}

\* A body without edited_fields; an empty object is not the same.
NoEdits == {None}

\* A request: a route, the headers, the path and the body.
AnyRequest ==
    [from : Clients, op : {"list", "get", "resume", "upload"},
     token : Tokens, org : Organizations, email : Emails, run : Runs \cup {NoRun},
     key : Keys \cup {None}, action : Actions \cup {None},
     edits : (SUBSET (EditFields \cup {"category"})) \cup {NoEdits}]

VARIABLES
    run,    \* agent_runs: organization, key, status; history: who decided it
    call    \* the calls in progress

apiVars == <<run, call>>

Exists(r) == run[r].status # None

\* A row of an answer: what AgentRunListItem and AgentRunResponse say of a run.
RowOf(r) == [run |-> r, status |-> run[r].status]

FreeCall == [pc |-> "free"]

Pending(req) == [pc |-> "sent", req |-> req]
Req(c)       == call[c].req
At(c, pc)    == call[c].pc = pc

Become(c, state)      == call' = [call EXCEPT ![c] = state]
Goto(c, pc)           == Become(c, [pc |-> pc, req |-> Req(c)])
Answer(c, code, rows) == Become(c, [pc |-> "answered", req |-> Req(c),
                                    code |-> code, rows |-> rows])

\* start_run holds the event loop: nothing is dispatched or answered meanwhile.
LoopFree == \A c \in Calls : ~At(c, "analysing")

Arrived(c) == At(c, "sent") /\ LoopFree

NoRecord == [org |-> None, key |-> None, status |-> None, verdicts |-> {},
             contested |-> FALSE]

ApiInit ==
    /\ run = [r \in Runs |->
                 IF r \in DOMAIN Earlier
                 THEN [NoRecord EXCEPT !.org = Earlier[r], !.status = "waiting_approval"]
                 ELSE NoRecord]
    /\ call = [c \in Calls |-> FreeCall]

-----------------------------------------------------------------------------
(* Clients *)

\* Any client may send anything over a free connection.
Send(c, req) ==
    /\ At(c, "free")
    /\ Become(c, Pending(req))
    /\ UNCHANGED run

\* The connection closes behind an answer, or with the process that served it.
Close(c) ==
    /\ call[c].pc \in {"answered", "lost"}
    /\ Become(c, FreeCall)
    /\ UNCHANGED run

-----------------------------------------------------------------------------
(* require_tenant_context *)

Known(req) == /\ req.token = ApiToken
              /\ <<req.org, req.email>> \in Accounts

\* Unauthenticated calls end before their body is looked at.
RefuseCaller(c) ==
    /\ Arrived(c)
    /\ ~Known(Req(c))
    /\ Answer(c, 401, {})
    /\ UNCHANGED run

\* ApprovalDecisionRequest: an action, fields for an edit, and none the schema does
\* not know.
WellFormed(req) ==
    req.op = "resume" => /\ req.action \in Actions
                         /\ req.edits = NoEdits \/ req.edits \subseteq EditFields
                         /\ req.action = "edit" => req.edits # NoEdits

RefuseBody(c) ==
    /\ Arrived(c) /\ Known(Req(c))
    /\ ~WellFormed(Req(c))
    /\ Answer(c, 422, {})
    /\ UNCHANGED run

Admitted(c, op) == /\ Arrived(c) /\ Known(Req(c)) /\ WellFormed(Req(c))
                   /\ Req(c).op = op

-----------------------------------------------------------------------------
(* Reading *)

Listed(req) == {r \in Runs : Exists(r) /\ run[r].org = req.org}

ListRuns(c) ==
    /\ Admitted(c, "list")
    /\ Answer(c, 200, {RowOf(r) : r \in Listed(Req(c))})
    /\ UNCHANGED run

\* Mutant: the run is fetched by its id alone.
TenantRunById(req) == req.run \in Runs /\ Exists(req.run)

\* _get_tenant_run: a run of another organisation is as good as missing.
TenantRun(req) == req.run \in Listed(req)

GetRun(c) ==
    /\ Admitted(c, "get") /\ TenantRun(Req(c))
    /\ Answer(c, 200, {RowOf(Req(c).run)})
    /\ UNCHANGED run

NotFound(c) ==
    /\ Admitted(c, "get") \/ Admitted(c, "resume")
    /\ ~TenantRun(Req(c))
    /\ Answer(c, 404, {})
    /\ UNCHANGED run

-----------------------------------------------------------------------------
(* Deciding *)

Resumable(r) == run[r].status = "waiting_approval"

RefuseDecision(c) ==
    /\ Admitted(c, "resume") /\ TenantRun(Req(c))
    /\ ~Resumable(Req(c).run)
    /\ Answer(c, 400, {})
    /\ UNCHANGED run

Verdict(req) == [from |-> req.from, org |-> req.org, email |-> req.email,
                 action |-> req.action]

AcceptDecision(c) ==
    LET r == Req(c).run IN
    /\ Admitted(c, "resume") /\ TenantRun(Req(c))
    /\ Resumable(r)
    /\ run' = [run EXCEPT ![r] =
                 [run[r] EXCEPT !.verdicts  = run[r].verdicts \cup {Verdict(Req(c))},
                                !.contested = run[r].verdicts # {}]]
    /\ Goto(c, "deciding")

\* Any of them may fail: a draft that does not validate, or the step limit.
Outcomes(action) == {IF action = "reject" THEN "rejected" ELSE "approved", "failed"}

\* A decision taken alone is carried out.  With another one under way, or lost in a
\* crash behind its checkpoint, any of them may be, and a run that two requests
\* conclude together may come out rejected.
MayConclude(r, action) ==
    IF run[r].contested
    THEN {s \in Concluded : \/ s = "rejected"
                            \/ \E v \in run[r].verdicts : s \in Outcomes(v.action)}
    ELSE Outcomes(action)

\* In a thread of its own: an analysis on the event loop does not hold it up.
Conclude(c) ==
    /\ At(c, "deciding")
    /\ \E s \in MayConclude(Req(c).run, Req(c).action) :
          run' = [run EXCEPT ![Req(c).run] = [run[Req(c).run] EXCEPT !.status = s]]
    /\ Goto(c, "decided")

\* Mutant: the answer is read before the outcome is written.
MayAnswerEarly(c) == call[c].pc \in {"deciding", "decided"}

MayAnswer(c) == At(c, "decided")

\* The answer reads the row again, whoever wrote it last.
AnswerDecision(c) ==
    /\ MayAnswer(c) /\ LoopFree
    /\ Answer(c, 200, {RowOf(Req(c).run)})
    /\ UNCHANGED run

-----------------------------------------------------------------------------
(* Uploading *)

RunsWithKey(req) == {r \in Listed(req) : req.key # None /\ run[r].key = req.key}

\* The answer's status is a DocumentStatus, which knows no "running".
UploadCode(status) == IF status = "running" THEN 500 ELSE 202

AnswerUpload(c, r, status) ==
    Answer(c, UploadCode(status),
           IF status = "running" THEN {} ELSE {[run |-> r, status |-> status]})

\* _validate_upload: a file of a type the settings do not allow.
RefuseUpload(c) ==
    /\ Admitted(c, "upload")
    /\ Answer(c, 400, {})
    /\ UNCHANGED run

RepeatUpload(c) ==
    /\ Admitted(c, "upload")
    /\ \E r \in RunsWithKey(Req(c)) : AnswerUpload(c, r, run[r].status)
    /\ UNCHANGED run

\* create_run; run ids are handed out in order.
StartUpload(c) ==
    /\ Admitted(c, "upload")
    /\ RunsWithKey(Req(c)) = {}
    /\ \E r \in Runs :
          /\ ~Exists(r)
          /\ \A q \in Runs : q < r => Exists(q)
          /\ run' = [run EXCEPT ![r] =
                       [run[r] EXCEPT !.org = Req(c).org, !.key = Req(c).key,
                                      !.status = "running"]]
          /\ Become(c, [pc |-> "analysing", req |-> [Req(c) EXCEPT !.run = r]])

\* The graph pauses, fails, or the text could not be extracted (still "running").
FinishAnalysis(c) ==
    LET r == Req(c).run IN
    /\ At(c, "analysing")
    /\ \E s \in {"waiting_approval", "failed", "running"} :
          /\ run' = [run EXCEPT ![r] = [run[r] EXCEPT !.status = s]]
          /\ AnswerUpload(c, r, s)

-----------------------------------------------------------------------------

\* The process dies and is started again: its calls are lost, the rows stay.
Crash ==
    /\ call' = [c \in Calls |-> IF call[c].pc \in {"free", "answered"} THEN call[c]
                                ELSE [pc |-> "lost", req |-> Req(c)]]
    /\ UNCHANGED run

\* What the server does with a call.
Serve(c) ==
    \/ RefuseCaller(c) \/ RefuseBody(c) \/ ListRuns(c) \/ GetRun(c) \/ NotFound(c)
    \/ RefuseDecision(c) \/ AcceptDecision(c) \/ Conclude(c) \/ AnswerDecision(c)
    \/ RefuseUpload(c) \/ RepeatUpload(c) \/ StartUpload(c) \/ FinishAnalysis(c)

ApiNext ==
    \/ \E c \in Calls, req \in AnyRequest : Send(c, req)
    \/ \E c \in Calls : Close(c) \/ Serve(c)
    \/ Crash

ApiSpec == ApiInit /\ [][ApiNext]_apiVars

-----------------------------------------------------------------------------
(* Properties *)

Codes    == {200, 202, 400, 401, 404, 422, 500}
Rows     == [run : Runs, status : Statuses]
Verdicts == [from : Clients, org : Organizations, email : Emails,
             action : Actions \cup {None}]

RunRows == [org : Organizations \cup {None}, key : Keys \cup {None}, status : Statuses \cup {None},
            verdicts : SUBSET Verdicts, contested : BOOLEAN]

\* A call that runs an analysis or a decision is about a run.
CallStates ==
    {FreeCall} \cup [pc : {"sent", "lost"}, req : AnyRequest]
    \cup {s \in [pc : {"analysing", "deciding", "decided"}, req : AnyRequest] :
             s.req.run \in Runs}
    \cup [pc : {"answered"}, req : AnyRequest, code : Codes, rows : SUBSET Rows]

\* Calls and rows hold values of the schemas.
ApiTypeOK == /\ run \in [Runs -> RunRows]
             /\ call \in [Calls -> CallStates]

\* Whatever clients send, under whichever tenant header, overlapping or lost: an
\* answer speaks of runs of the caller's organisation only, the runs an analysis
\* or a decision works on are the caller's, and every decision on a run came from
\* an account of its organisation (README: "Agent never crosses tenant boundaries").
OwnRun(req, r) == Known(req) /\ Exists(r) /\ run[r].org = req.org

TenantsApart ==
    /\ \A c \in Calls : At(c, "answered") =>
          \A row \in call[c].rows : OwnRun(Req(c), row.run)
    /\ \A c \in Calls : call[c].pc \in {"analysing", "deciding", "decided"} =>
          OwnRun(Req(c), Req(c).run)
    /\ \A r \in Runs : \A v \in run[r].verdicts :
          v.org = run[r].org /\ <<v.org, v.email>> \in Accounts

=============================================================================
