--------------------------- MODULE WorkflowService ---------------------------
(***************************************************************************)
(* The agent workflow of services/workflow_service.py: start_run and       *)
(* resume_run, the LangGraph graph they drive, its checkpoints, and the    *)
(* rows they commit through the repositories.  Every repository call is    *)
(* one commit and one action, so a crash or another request may fall       *)
(* between any two of them.  Requests run in threads: start_run on the     *)
(* event loop of a server process, resume_run in worker threads.           *)
(***************************************************************************)
EXTENDS Naturals, FiniteSets

CONSTANTS
    Runs,           \* agent run ids; a run id also names the version it analyses
    Docs,           \* finance documents
    DocumentOf,     \* DocumentOf[r]: the document a run and its version belong to
    Loops,          \* event loops, one per server process: they run start_run
    Workers,        \* worker threads: they run resume_run
    Unreadable,     \* runs whose stored file the text extraction cannot read
    Decisions,      \* the payloads reviewers submit, among all that validate
    MaxAgentSteps,  \* settings.max_agent_steps
    MaxCrashes      \* bound on the number of crashes

Analysis == {"extract_fields", "supplier_lookup", "duplicate_check",
             "categorize_document", "calculate_confidence", "create_draft"}
Nodes    == Analysis \cup {"human_review", "approve_run", "reject_run", "END",
                          "none"}

RunStatuses == {"running", "waiting_approval", "approved", "rejected", "failed"}
Concluded   == {"approved", "rejected", "failed"}
DocStatuses == {"uploaded", "analyzing"} \cup (RunStatuses \ {"running"})

Payloads  == {p \in [action : {"approve", "edit", "reject"}, edits : BOOLEAN] :
                /\ p.action = "edit" => p.edits
                /\ p.action = "reject" => ~p.edits}
NoPayload == [action |-> "none", edits |-> FALSE]
NoRun     == 0

ASSUME RunsAssumption    == /\ Runs \subseteq Nat \ {NoRun}
                            /\ Unreadable \subseteq Runs
                            /\ DocumentOf \in [Runs -> Docs]
ASSUME DecisionsAssumption == Decisions \subseteq Payloads
ASSUME ThreadsAssumption == Loops \cap Workers = {}
ASSUME StepsAssumption   == MaxAgentSteps \in 4..30
ASSUME CrashAssumption   == MaxCrashes \in Nat

Threads == Loops \cup Workers

VARIABLES
    runStatus,      \* agent_runs.status, "none" before the row exists
    document,       \* finance_documents: status, latest_run_id, current version
    version,        \* finance_document_versions: processing_status, is_active
    draft,          \* draft_pre_entries of each run: status, whose fields it holds
    approval,       \* status of the latest approval_requests row of each run
    checkpoint,     \* latest state in LangGraph's checkpoint store, per run
    executed,       \* executed[r][n]: how often the body of node n ran for r
    thread,         \* what each request in progress holds in memory
    verdicts,       \* history: the decisions accepted by resume_run, per run
    crashes         \* number of crashes so far

database  == <<runStatus, document, version, draft, approval>>
vars      == <<database, checkpoint, executed, thread, verdicts, crashes>>

-----------------------------------------------------------------------------
(* The graph *)

\* The state a run starts from; only what the control depends on.
InitialState == [next |-> "extract_fields", steps |-> 0,
                 decision |-> NoPayload, final |-> "none"]

\* No checkpoint was ever written for the run.
NoCheckpoint == [InitialState EXCEPT !.next = "none"]

\* Mutant: the draft is never created before the pause.
NodeAfterWithoutDraft(n) ==
    CASE n = "extract_fields"       -> "supplier_lookup"
      [] n = "supplier_lookup"      -> "duplicate_check"
      [] n = "duplicate_check"      -> "categorize_document"
      [] n = "categorize_document"  -> "calculate_confidence"
      [] n = "calculate_confidence" -> "human_review"
      [] OTHER                      -> "END"

NodeAfter(n) ==
    CASE n = "extract_fields"       -> "supplier_lookup"
      [] n = "supplier_lookup"      -> "duplicate_check"
      [] n = "duplicate_check"      -> "categorize_document"
      [] n = "categorize_document"  -> "calculate_confidence"
      [] n = "calculate_confidence" -> "create_draft"
      [] n = "create_draft"         -> "human_review"
      [] OTHER                      -> "END"

\* Mutant: a rejection falls through to the approving node.
RouteAlwaysApproves(p) == "approve_run"

Route(p) == IF p.action \in {"approve", "edit"} THEN "approve_run" ELSE "reject_run"

\* Mutant: the limit bites one step early.
StepLimitReachedEarly(g) == g.steps + 1 >= MaxAgentSteps

StepLimitReached(g) == g.steps >= MaxAgentSteps

Advanced(g, final) == [g EXCEPT !.next = NodeAfter(g.next),
                                !.steps = @ + 1,
                                !.final = final]

\* A tool, a provider or the validation of a tool's arguments may raise here.
MayRaise(g) == \/ g.next \in Analysis \ {"calculate_confidence"}
               \/ g.next = "approve_run" /\ g.decision.edits

\* The draft a node leaves: create_draft and an edit upsert it with status "draft".
WrittenDraft(n) == [status |-> "draft",
                    fields |-> IF n = "create_draft" THEN "extracted" ELSE "edited"]

Drafts(g) == g.next = "create_draft" \/ (g.next = "approve_run" /\ g.decision.edits)

\* Mutant: the draft keeps its status when the run is rejected.
RejectedDraftKept(r) == draft[r]

RejectedDraft(r) == IF draft[r].status = "none" THEN draft[r]
                    ELSE [draft[r] EXCEPT !.status = "rejected"]

-----------------------------------------------------------------------------
(* Threads *)

IdleThread == [pc |-> "idle", run |-> NoRun, payload |-> NoPayload,
               graph |-> NoCheckpoint, saved |-> TRUE,
               outcome |-> "none", changes |-> {}, seen |-> {}]

At(t, pc)      == thread[t].pc = pc
Become(t, req) == thread' = [thread EXCEPT ![t] = req]
Goto(t, pc)    == Become(t, [thread[t] EXCEPT !.pc = pc])
Reset(t)       == Become(t, IdleThread)

\* The request goes on in the graph from state g, which no checkpoint holds yet.
Continue(t, g) == Become(t, [thread[t] EXCEPT !.pc = "graph", !.graph = g,
                                              !.saved = FALSE])

\* No request is working on the run.
Quiescent(r) == \A t \in Threads : thread[t].run # r

Init ==
    /\ runStatus   = [r \in Runs |-> "none"]
    /\ document    = [d \in Docs |-> [status |-> "uploaded", latest |-> NoRun,
                                      current |-> NoRun]]
    /\ version     = [r \in Runs |-> [status |-> "uploaded", active |-> FALSE]]
    /\ draft       = [r \in Runs |-> [status |-> "none", fields |-> "none"]]
    /\ approval    = [r \in Runs |-> "none"]
    /\ checkpoint  = [r \in Runs |-> NoCheckpoint]
    /\ executed    = [r \in Runs |-> [n \in Analysis |-> 0]]
    /\ thread      = [t \in Threads |-> IdleThread]
    /\ verdicts    = [r \in Runs |-> {}]
    /\ crashes     = 0

-----------------------------------------------------------------------------
(* start_run, on an event loop *)

\* create_run commits the row with its default status; ids are handed out in order.
CreateRun(t, r) ==
    /\ t \in Loops /\ At(t, "idle")
    /\ runStatus[r] = "none"
    /\ \A q \in Runs : q < r => runStatus[q] # "none"
    /\ runStatus' = [runStatus EXCEPT ![r] = "running"]
    /\ Become(t, [IdleThread EXCEPT !.pc = "mark_document", !.run = r])
    /\ UNCHANGED <<document, version, draft, approval, checkpoint, executed,
                   verdicts, crashes>>

\* update_document(status=analyzing, latest_run_id=run.id)
MarkDocument(t) ==
    LET r == thread[t].run IN
    /\ At(t, "mark_document")
    /\ document' = [document EXCEPT ![DocumentOf[r]] =
                       [@ EXCEPT !.status = "analyzing", !.latest = r]]
    /\ Goto(t, "mark_version")
    /\ UNCHANGED <<runStatus, version, draft, approval, checkpoint, executed,
                   verdicts, crashes>>

\* update_version(processing_status=analyzing)
MarkVersion(t) ==
    /\ At(t, "mark_version")
    /\ version' = [version EXCEPT ![thread[t].run] = [@ EXCEPT !.status = "analyzing"]]
    /\ Goto(t, "extract")
    /\ UNCHANGED <<runStatus, document, draft, approval, checkpoint, executed,
                   verdicts, crashes>>

\* _build_initial_state: read the file's text, then update_version again.
Extract(t) ==
    LET r == thread[t].run IN
    /\ At(t, "extract")
    /\ r \notin Unreadable
    /\ version' = [version EXCEPT ![r] = [@ EXCEPT !.status = "analyzing"]]
    /\ Continue(t, InitialState)
    /\ UNCHANGED <<runStatus, document, draft, approval, checkpoint, executed,
                   verdicts, crashes>>

\* The extraction raises outside _execute_graph: start_run swallows the exception
\* and no failure is recorded.
ExtractRaises(t) ==
    /\ At(t, "extract")
    /\ thread[t].run \in Unreadable
    /\ Reset(t)
    /\ UNCHANGED <<database, checkpoint, executed, verdicts, crashes>>

-----------------------------------------------------------------------------
(* The nodes.  LangGraph writes a node's checkpoint in the background: at any *)
(* moment between the end of the node and the end of the stream.             *)

NodeReady(t, n) == At(t, "graph") /\ thread[t].graph.next = n

SaveCheckpoint(t) ==
    /\ thread[t].pc \in {"graph", "fail"}
    /\ ~thread[t].saved
    /\ checkpoint' = [checkpoint EXCEPT ![thread[t].run] = thread[t].graph]
    /\ Become(t, [thread[t] EXCEPT !.saved = TRUE])
    /\ UNCHANGED <<database, executed, verdicts, crashes>>

AnalysisNode(t, n) ==
    LET g == thread[t].graph
        r == thread[t].run
    IN
    /\ n \in Analysis /\ NodeReady(t, n)
    /\ ~StepLimitReached(g)
    /\ executed' = [executed EXCEPT ![r][n] = @ + 1]
    /\ draft' = IF Drafts(g) THEN [draft EXCEPT ![r] = WrittenDraft(n)] ELSE draft
    /\ Continue(t, Advanced(g, g.final))
    /\ UNCHANGED <<runStatus, document, version, approval, checkpoint, verdicts,
                   crashes>>

\* With a resume payload interrupt() returns it: the graph takes the decision.
HumanReview(t) ==
    LET p == thread[t].payload IN
    /\ NodeReady(t, "human_review")
    /\ p # NoPayload
    /\ Continue(t, [thread[t].graph EXCEPT !.next = Route(p), !.decision = p])
    /\ UNCHANGED <<database, checkpoint, executed, verdicts, crashes>>

\* approve_run: keeps the draft, or merges the reviewer's fields into it.
ApproveNode(t) ==
    LET g == thread[t].graph
        r == thread[t].run
    IN
    /\ NodeReady(t, "approve_run")
    /\ ~StepLimitReached(g)
    /\ draft' = IF Drafts(g) THEN [draft EXCEPT ![r] = WrittenDraft("approve_run")]
                ELSE draft
    /\ Continue(t, Advanced(g, "approved"))
    /\ UNCHANGED <<runStatus, document, version, approval, checkpoint, executed,
                   verdicts, crashes>>

RejectNode(t) ==
    LET g == thread[t].graph
        r == thread[t].run
    IN
    /\ NodeReady(t, "reject_run")
    /\ ~StepLimitReached(g)
    /\ draft' = [draft EXCEPT ![r] = RejectedDraft(r)]
    /\ Continue(t, Advanced(g, "rejected"))
    /\ UNCHANGED <<runStatus, document, version, approval, checkpoint, executed,
                   verdicts, crashes>>

\* A node raises: at the step limit before it does anything, otherwise after its
\* body ran; a tool reported as failed may have committed the draft all the same.
NodeRaises(t) ==
    LET g == thread[t].graph
        r == thread[t].run
    IN
    /\ At(t, "graph")
    /\ \/ /\ StepLimitReached(g)
          /\ g.next \in Analysis \cup {"approve_run", "reject_run"}
          /\ UNCHANGED <<draft, executed>>
       \/ /\ ~StepLimitReached(g) /\ MayRaise(g)
          /\ executed' = IF g.next \in Analysis
                         THEN [executed EXCEPT ![r][g.next] = @ + 1] ELSE executed
          /\ \/ UNCHANGED draft
             \/ Drafts(g) /\ draft' = [draft EXCEPT ![r] = WrittenDraft(g.next)]
    /\ Goto(t, "fail")
    /\ UNCHANGED <<runStatus, document, version, approval, checkpoint, verdicts,
                   crashes>>

-----------------------------------------------------------------------------
(* resume_run, in a worker thread *)

\* Mutant: the status check only refuses runs that are still being analysed.
ResumableUnlessRunning(r) == runStatus[r] \notin {"none", "running"}

Resumable(r) == runStatus[r] = "waiting_approval"

\* A server process whose event loop start_run(r) does not block takes the request.
Dispatchable(r) == \E l \in Loops : thread[l].run # r

\* The status is read here; everything below acts on it much later.
AcceptDecision(t, r, p) ==
    /\ t \in Workers /\ At(t, "idle")
    /\ Dispatchable(r) /\ Resumable(r)
    /\ verdicts' = [verdicts EXCEPT ![r] = @ \cup {p}]
    /\ Become(t, [IdleThread EXCEPT !.pc = "load", !.run = r, !.payload = p])
    /\ UNCHANGED <<database, checkpoint, executed, crashes>>

\* Mutant: resuming starts the graph again from its initial state.
StateToResumeFromStart(r) == InitialState

StateToResume(r) == checkpoint[r]

\* stream_events(Command(resume=payload)): LangGraph loads the latest checkpoint.
\* Past human_review the payload has no taker: the stored decision goes on.
LoadCheckpoint(t) ==
    /\ At(t, "load")
    /\ Become(t, [thread[t] EXCEPT !.pc = "graph",
                                   !.graph = StateToResume(thread[t].run)])
    /\ UNCHANGED <<database, checkpoint, executed, verdicts, crashes>>

-----------------------------------------------------------------------------
(* The end of _execute_graph, the same for start_run and resume_run *)

StreamEnded(t) == At(t, "graph") /\ thread[t].saved

\* The graph stops at interrupt(): the run will wait for a person.
Pause(t) ==
    /\ StreamEnded(t)
    /\ thread[t].graph.next = "human_review" /\ thread[t].payload = NoPayload
    /\ Become(t, [thread[t] EXCEPT !.pc = "approval", !.outcome = "waiting_approval"])
    /\ UNCHANGED <<database, checkpoint, executed, verdicts, crashes>>

\* Mutant: a finished stream is recorded as approved, whatever its state holds.
FinalStatusAlwaysApproved(final) == "approved"

FinalStatus(final) == IF final = "approved" THEN "approved" ELSE "rejected"

\* get_state reads the latest checkpoint in the store, whoever wrote it.
GetState(t) ==
    /\ StreamEnded(t)
    /\ thread[t].graph.next = "END"
    /\ Become(t, [thread[t] EXCEPT !.pc = "update_run",
                     !.outcome = FinalStatus(checkpoint[thread[t].run].final)])
    /\ UNCHANGED <<database, checkpoint, executed, verdicts, crashes>>

CreateApproval(t) ==
    /\ At(t, "approval")
    /\ approval' = [approval EXCEPT ![thread[t].run] = "pending"]
    /\ Goto(t, "update_run")
    /\ UNCHANGED <<runStatus, document, version, draft, checkpoint, executed,
                   verdicts, crashes>>

UpdateRun(t) ==
    /\ At(t, "update_run")
    /\ runStatus' = [runStatus EXCEPT ![thread[t].run] = thread[t].outcome]
    /\ Goto(t, "read_document")
    /\ UNCHANGED <<document, version, draft, approval, checkpoint, executed,
                   verdicts, crashes>>

\* Mutant: the exception handler records the error but leaves the status.
FailureStatusKept(r) == runStatus[r]

FailureStatus(r) == "failed"

\* The except branch: whatever the run is by now becomes failed.  A run read as
\* failed is not written again, which is as good as writing it when it is read.
RecordFailure(t) ==
    LET r == thread[t].run IN
    /\ At(t, "fail") /\ thread[t].saved
    /\ runStatus' = [runStatus EXCEPT ![r] = FailureStatus(r)]
    /\ Become(t, [thread[t] EXCEPT !.pc = "read_document", !.outcome = "failed"])
    /\ UNCHANGED <<document, version, draft, approval, checkpoint, executed,
                   verdicts, crashes>>

\* Mutant: a new current version is published without the status.
SyncedDocumentStale(r, status) ==
    [document[DocumentOf[r]] EXCEPT !.latest = r, !.current = r]

SyncedDocument(r, status) == [status |-> status, latest |-> r, current |-> r]

\* _sync_document_status reads the document's row (the version number it reads with
\* it never changes) ...
ReadDocument(t) ==
    LET r == thread[t].run
        old == document[DocumentOf[r]]
        new == SyncedDocument(r, thread[t].outcome)
    IN
    /\ At(t, "read_document")
    /\ Become(t, [thread[t] EXCEPT !.pc = "sync_document",
                     !.changes = {c \in {"status", "latest", "current"} : old[c] # new[c]}])
    /\ UNCHANGED <<database, checkpoint, executed, verdicts, crashes>>

\* ... and the UPDATE sets the columns that are to differ from what was read, and no
\* other, whatever has been committed in between.
SyncDocument(t) ==
    LET r == thread[t].run
        new == SyncedDocument(r, thread[t].outcome)
        Column(old, c) == IF c \in thread[t].changes THEN new[c] ELSE old[c]
    IN
    /\ At(t, "sync_document")
    /\ document' = [document EXCEPT ![DocumentOf[r]] =
                       [status  |-> Column(@, "status"),
                        latest  |-> Column(@, "latest"),
                        current |-> Column(@, "current")]]
    /\ Goto(t, "sync_version")
    /\ UNCHANGED <<runStatus, version, draft, approval, checkpoint, executed,
                   verdicts, crashes>>

\* The commit before expired the version's row: every column is set, read or not.
SyncVersion(t) ==
    /\ At(t, "sync_version")
    /\ version' = [version EXCEPT ![thread[t].run] =
                      [status |-> thread[t].outcome, active |-> TRUE]]
    /\ Goto(t, "refresh_version")
    /\ UNCHANGED <<runStatus, document, draft, approval, checkpoint, executed,
                   verdicts, crashes>>

\* session.refresh(version): another request may have switched it off already.
RefreshVersion(t) ==
    LET r == thread[t].run IN
    /\ At(t, "refresh_version")
    /\ Become(t, [thread[t] EXCEPT !.pc = "read_versions",
                                   !.seen = IF version[r].active THEN {} ELSE {r}])
    /\ UNCHANGED <<database, checkpoint, executed, verdicts, crashes>>

\* Mutant: only the versions that came before are switched off.
OlderActiveVersions(r) ==
    {q \in Runs : q < r /\ DocumentOf[q] = DocumentOf[r] /\ version[q].active}

OtherActiveVersions(r) ==
    {q \in Runs : q # r /\ DocumentOf[q] = DocumentOf[r] /\ version[q].active}

\* deactivate_other_versions reads the other rows; its own stays as refreshed ...
ReadVersions(t) ==
    /\ At(t, "read_versions")
    /\ Become(t, [thread[t] EXCEPT !.pc = "deactivate",
                                   !.seen = @ \cup OtherActiveVersions(thread[t].run)])
    /\ UNCHANGED <<database, checkpoint, executed, verdicts, crashes>>

\* ... and writes the rows that are to differ from what was read: its own version on,
\* others off.  Here start_run's request ends.
DeactivateOthers(t) ==
    /\ At(t, "deactivate")
    /\ version' = [q \in Runs |->
                     IF q \in thread[t].seen
                     THEN [version[q] EXCEPT !.active = (q = thread[t].run)]
                     ELSE version[q]]
    /\ IF t \in Loops THEN Reset(t) ELSE Goto(t, "read_approval")
    /\ UNCHANGED <<runStatus, document, draft, approval, checkpoint, executed,
                   verdicts, crashes>>

-----------------------------------------------------------------------------
(* The end of resume_run: the approval request is resolved *)

\* Mutant: a failed run's request is resolved as well.
ResolvableThoughFailed(r) == approval[r] = "pending"

Resolvable(r) == approval[r] = "pending" /\ runStatus[r] # "failed"

ReadApproval(t) ==
    /\ At(t, "read_approval")
    /\ IF Resolvable(thread[t].run) THEN Goto(t, "resolve") ELSE Reset(t)
    /\ UNCHANGED <<database, checkpoint, executed, verdicts, crashes>>

\* Mutant: the action's name is stored instead of the approval status.
ResolutionByName(p) == p.action

Resolution(p) == CASE p.action = "approve" -> "approved"
                   [] p.action = "reject"  -> "rejected"
                   [] OTHER                -> "edited"

\* resolve_approval: with this request's action, whichever decision was carried out.
ResolveApproval(t) ==
    /\ At(t, "resolve")
    /\ approval' = [approval EXCEPT ![thread[t].run] = Resolution(thread[t].payload)]
    /\ Reset(t)
    /\ UNCHANGED <<runStatus, document, version, draft, checkpoint, executed,
                   verdicts, crashes>>

-----------------------------------------------------------------------------

\* The process dies: requests are gone, the database and the checkpoints stay.
Crash ==
    /\ crashes < MaxCrashes
    /\ crashes' = crashes + 1
    /\ thread' = [t \in Threads |-> IdleThread]
    /\ UNCHANGED <<database, checkpoint, executed, verdicts>>

\* What a request does once it is accepted.
Proceed(t) ==
    \/ MarkDocument(t) \/ MarkVersion(t) \/ Extract(t) \/ ExtractRaises(t)
    \/ LoadCheckpoint(t)
    \/ \E n \in Analysis : AnalysisNode(t, n)
    \/ HumanReview(t) \/ ApproveNode(t) \/ RejectNode(t) \/ NodeRaises(t)
    \/ SaveCheckpoint(t) \/ Pause(t) \/ GetState(t)
    \/ CreateApproval(t) \/ UpdateRun(t) \/ RecordFailure(t)
    \/ ReadDocument(t) \/ SyncDocument(t)
    \/ SyncVersion(t) \/ RefreshVersion(t) \/ ReadVersions(t) \/ DeactivateOthers(t)
    \/ ReadApproval(t) \/ ResolveApproval(t)

Next ==
    \/ \E t \in Loops, r \in Runs : CreateRun(t, r)
    \/ \E t \in Workers, r \in Runs, p \in Decisions : AcceptDecision(t, r, p)
    \/ \E t \in Threads : Proceed(t)
    \/ Crash

Spec == Init /\ [][Next]_vars

\* A request that was accepted is executed to its end: the interpreter's threads
\* are scheduled and every call returns.  Nobody is obliged to send a request.
FairSpec == Spec /\ \A t \in Threads : WF_vars(Proceed(t))

-----------------------------------------------------------------------------
(* Properties *)

DocumentRows == [status : DocStatuses, latest : Runs \cup {NoRun},
                 current : Runs \cup {NoRun}]
VersionRows  == [status : DocStatuses, active : BOOLEAN]
DraftRows    == [status : {"none", "draft", "rejected"},
                 fields : {"none", "extracted", "edited"}]

GraphStates == [next : Nodes, steps : 0..MaxAgentSteps,
                decision : Payloads \cup {NoPayload},
                final : {"none", "approved", "rejected"}]

Locations == {"idle", "mark_document", "mark_version", "extract", "graph", "fail",
              "approval", "update_run", "read_document", "sync_document",
              "sync_version", "refresh_version", "read_versions", "deactivate",
              "load", "read_approval", "resolve"}

RequestStates == [pc : Locations, run : Runs \cup {NoRun},
                  payload : Payloads \cup {NoPayload}, graph : GraphStates,
                  saved : BOOLEAN, outcome : {"none"} \cup (RunStatuses \ {"running"}),
                  changes : SUBSET {"status", "latest", "current"},
                  seen : SUBSET Runs]

\* Every row, checkpoint and request holds values of the code's enumerations.
TypeOK ==
    /\ runStatus \in [Runs -> {"none"} \cup RunStatuses]
    /\ document \in [Docs -> DocumentRows]
    /\ version \in [Runs -> VersionRows]
    /\ draft \in [Runs -> DraftRows]
    /\ approval \in [Runs -> {"none", "pending", "approved", "rejected", "edited"}]
    /\ checkpoint \in [Runs -> GraphStates]
    /\ executed \in [Runs -> [Analysis -> Nat]]
    /\ thread \in [Threads -> RequestStates]
    /\ verdicts \in [Runs -> SUBSET Payloads]
    /\ crashes \in 0..MaxCrashes

Favourable(p) == p.action \in {"approve", "edit"}

\* No final decision without a person: a run is approved only if somebody submitted
\* approve or edit for it, a draft holds other fields than the extracted ones only
\* if somebody submitted edits, and is marked rejected only if somebody rejected it;
\* whatever reviewers race, and wherever the process dies (README: "never posts a
\* final accounting entry without human approval").
HumanControl == \A r \in Runs :
    /\ runStatus[r] = "approved" => \E p \in verdicts[r] : Favourable(p)
    /\ draft[r].fields = "edited" => \E p \in verdicts[r] : p.edits
    /\ draft[r].status = "rejected" => \E p \in verdicts[r] : p.action = "reject"

\* Why: a state of the graph names the submitted decision it follows, and so does a
\* request.  V is the set of decisions submitted for the run, resp. for every run.
Justified(V, g) ==
    /\ g.decision \in V \cup {NoPayload}
    /\ g.next # "END" => g.final = "none"
    /\ g.final = "approved" \/ g.next = "approve_run" => Favourable(g.decision)
    /\ g.next = "reject_run" => g.decision.action = "reject"

Backed(V, req) == req.run \in Runs =>
    /\ Justified(V[req.run], req.graph)
    /\ req.payload \in V[req.run] \cup {NoPayload}
    /\ req.outcome = "approved" => \E p \in V[req.run] : Favourable(p)

\* HumanControl made inductive: whatever a checkpoint or a request may still do to
\* a run was submitted for that run.
HumanControlInv ==
    /\ HumanControl
    /\ \A r \in Runs : Justified(verdicts[r], checkpoint[r])
    /\ \A t \in Threads : Backed(verdicts, thread[t])

\* A run that waits can be reviewed: its draft and its approval request exist and
\* its checkpoint is one a decision can be applied to.
WaitingIsReviewable == \A r \in Runs :
    runStatus[r] = "waiting_approval" =>
        /\ draft[r].status # "none"
        /\ approval[r] # "none"
        /\ checkpoint[r].next \in {"human_review", "approve_run", "reject_run", "END"}

\* Pausing, resuming (twice at once, too) and crashing never run an analysis node a
\* second time: what it did is not replayed.
AnalysisRunsOnce == \A r \in Runs, n \in Analysis : executed[r][n] <= 1

\* A rejected run has a rejected draft (README: "mark run and draft as rejected").
RejectMarksRunAndDraft == \A r \in Runs :
    runStatus[r] = "rejected" => draft[r].status = "rejected"

\* A concluded run is never decided again ("Only waiting approval runs can be resumed").
DecisionIsFinal ==
    [][\A r \in Runs : runStatus[r] \in Concluded => runStatus'[r] = runStatus[r]]_vars

\* What the version list and the document page show has a run behind it whenever no
\* request is working on it: a version says what became of its run, and a document
\* what became of one of its runs, though requests of several runs write its row from
\* what each read before.  (Which of them is another matter: see README.)
DocStatusOf(s) == IF s = "running" THEN "analyzing" ELSE s
RunsOf(d) == {r \in Runs : DocumentOf[r] = d /\ runStatus[r] # "none"}
DocumentFollowsRun ==
    /\ \A r \in Runs : Quiescent(r) /\ runStatus[r] # "none" =>
          version[r].status = DocStatusOf(runStatus[r])
    /\ \A d \in Docs : RunsOf(d) # {} /\ (\A r \in RunsOf(d) : Quiescent(r)) =>
          \E r \in RunsOf(d) : document[d].status = DocStatusOf(runStatus[r])

\* The audit trail tells the truth: a resolved approval request, the run and the
\* draft name the same decision, and a decided run has no request left pending.
ApprovalMatchesOutcome == \A r \in Runs : Quiescent(r) =>
    /\ approval[r] = "approved" => runStatus[r] = "approved" /\ draft[r].status = "draft"
    /\ approval[r] = "edited"   => /\ runStatus[r] = "approved"
                                   /\ draft[r] = WrittenDraft("approve_run")
    /\ approval[r] = "rejected" => runStatus[r] = "rejected" /\ draft[r].status = "rejected"
    /\ runStatus[r] \in {"approved", "rejected"} => approval[r] # "pending"

\* Two requests that activate versions of one document, each from what it read
\* before the other wrote, never leave both active: that takes a third version, one
\* that has been activated too.  (README: with three it does happen.)
Activated(r) == version[r].status \notin {"uploaded", "analyzing"}
TwoActiveTakeAThird ==
    (\A t \in Threads : thread[t].pc \notin {"refresh_version", "read_versions",
                                             "deactivate"}) =>
        \A r, q \in Runs :
            r # q /\ version[r].active /\ version[q].active /\ DocumentOf[r] = DocumentOf[q]
                => \E s \in Runs \ {r, q} : DocumentOf[s] = DocumentOf[r] /\ Activated(s)

\* A run a person was asked about fails only through edits that somebody submitted:
\* the step budget never runs out between the pause and the decision.
NoWastedReview == \A r \in Runs :
    approval[r] # "none" /\ runStatus[r] = "failed" => \E p \in verdicts[r] : p.edits

\* As long as no process dies: analysis of a readable file ends with a pause or a
\* recorded failure, and a decision that was accepted concludes its run.
RunConcludes == [](crashes = 0) => \A r \in Runs :
    /\ (runStatus[r] = "running" /\ r \notin Unreadable) ~> (runStatus[r] # "running")
    /\ (verdicts[r] # {}) ~> (runStatus[r] \in Concluded)

\* With one reviewer at a time the service is the abstract approval process.
Approval == INSTANCE HumanApproval WITH phase <- runStatus
ImplementsHumanApproval == Approval!Spec

-----------------------------------------------------------------------------
(* What the documentation or the code says of the program, and does not hold *)

\* Every run that starts gets a final or waiting status, also when the file cannot
\* be read (README: "Persist audit trail, state, and final status").
EveryRunConcludes == \A r \in Runs : (runStatus[r] = "running") ~> (runStatus[r] # "running")

\* Only a person's rejection rejects a run (README: "keeping humans in control of
\* any final decision").
RejectedByHuman == \A r \in Runs :
    runStatus[r] = "rejected" => \E p \in verdicts[r] : p.action = "reject"

\* A rejection on record was carried out, at rest (README: "Reject: mark run and draft
\* as rejected").
RejectionIsCarriedOut == \A r \in Runs :
    Quiescent(r) /\ approval[r] = "rejected" =>
        runStatus[r] = "rejected" /\ draft[r].status = "rejected"

=============================================================================
