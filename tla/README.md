# A TLA+ verification of enterprise-finance-agent

The program takes invoices from finance teams, lets an agent analyse each one (extract fields,
find the supplier, look for duplicates, suggest a category, draft an entry), pauses, and carries
out what a person decides. This directory holds TLA+ models of that program, the TLC
configurations that check them on small instances, and TLAPS proofs of the properties that matter
most. Paths below are relative to the repository; `workflow_service.py` stands for
`src/app/services/workflow_service.py`, and so on.

## 1. The system

### Components

| Component | State it keeps | Operations | Hard behaviour | What makes it correct |
|---|---|---|---|---|
| Workflow service (`workflow_service.py`) | rows `agent_runs`, `approval_requests`, `draft_pre_entries`, statuses of documents and versions | `start_run`, `resume_run`, the nine graph nodes, `_execute_graph`, `_sync_document_status` | reviewers race; every repository call commits on its own, so a crash falls between any two; the outcome is read back from a shared checkpoint; a step budget | no final decision without a person; a waiting run can be reviewed; analysis is not replayed; decisions are final; run, document, draft and approval request agree |
| Graph runtime (langgraph, external) | one chain of checkpoints per run, in SQLite | `stream_events`, `interrupt`, `Command(resume=...)`, `get_state` | a resume continues from the latest checkpoint, whoever wrote it | modelled from its use |
| Document service and storage (`document_service.py`, `storage_service.py`, `api/v1/documents.py`) | `finance_documents`, `finance_document_versions`, files on disk | `upload_document`, `update_document`, `save_upload` | coroutines interleave at `await upload.read()`; what was read before is used after it; the file is written before its row | one run per idempotency key; the file analysed is the one whose checksum is on record; gapless version history |
| Agent tools (`agent_tools_service.py`) | `tool_executions`, the draft, usage rows | four tools through `_execute`: thread pool, timeout, retries, audit | a tool that timed out may still commit; the session is shared by two threads; a crash between effect and audit | one thread on the session at a time; one truthful audit row for each call the loop ends; bounded retries |
| Review data (node bodies and tool bodies) | extracted fields, match, duplicates, confidence, draft | the analysis nodes, `approve_run` with edits | a draft changes while other invoices are compared with it; thresholds and weights | repeated invoices are seen; an unknown supplier is not recommended; edits change what they name |
| Repositories and models | the tables | one committing method per change | read-then-write in `deactivate_other_versions` and `update_document`, of the columns that differ; columns without unique constraints | see their callers |
| Mock and OpenAI providers | none | `analyze`, `suggest` | parsing of amounts and dates, keyword rules | not modelled, see section 7 |
| Review page (`streamlit_app.py`) | `st.session_state`: list of runs, selected run | start, refresh, open, decide, change tenant | a click stops a script that waits, but not its call; the page decides a cached copy; client timeouts; it builds `edited_fields` itself | it decides the run it shows; it never races with itself; its copy never goes back |
| Authentication and tenancy (`api/dependencies.py`, `api/v1/agent_runs.py`, error handlers) | `organizations`, `app_users` | `require_tenant_context`, the run routes, the upload route | every route has to scope what it reads by the caller's organisation, also for calls whose client is gone | tenants stay apart; a concluded run stays concluded |
| Migrations and demo data (`alembic/`, `scripts/seed_demo.py`, `docker-compose.yml`) | the tables, `alembic_version`, demo rows | upgrade, downgrade, seed-demo, start of the API | SQLite commits every statement, PostgreSQL the script; seed-demo creates tables past the migration; two seeders | no API on half a schema; complete demo data |
| Organisations, suppliers, health, settings, logging | - | read-only listings, configuration | none | not modelled |

### How they interact

An HTTP upload runs the coroutine `upload_document` on the event loop of the one uvicorn process.
It inserts the document, awaits the bytes, writes the file, inserts the version and calls
`start_run`, which is synchronous: it **blocks the event loop** until the graph has paused or
failed. `resume_run` is a plain `def` endpoint and runs in a thread of the framework's pool, so
any number of decisions overlap with one another and, once accepted, with an upload. Both go
through `_execute_graph`: build the graph, stream it, read the state back (`get_state`), write the
approval request, the run, the document, the version and the other versions, each in a commit of
its own. The nodes call the tools, each tool runs in a one-thread pool on the same database
session and leaves an audit row. The review page is a Streamlit script that is run anew at every
click; it speaks to the API over HTTP with the tenant headers of its sidebar, keeps what was
answered in `session_state`, and gives up after 30 or 60 seconds while the API goes on. The
container migrates the database before it starts the API; `seed-demo` is run beside it.

### What is hard

`PROJECT.json` lists every hazard at its line with the properties aimed at it. The main ones:

* the status check of `resume_run` (line 167) and its effect are far apart; two decisions both pass;
* `get_state` (368) reads the thread's latest checkpoint, perhaps another reviewer's;
* a crash between a checkpoint and the rows that should follow it (370-400);
* a row is read, and later only the columns are written that differ from what was read (436 and
  `finance_repository.py` 139), while another request writes the same row;
* an exception outside `_execute_graph`'s `try` (141) that is swallowed (151);
* the second look at the idempotency key (103) is after an `await`, the first one before it;
* the file is written before its version row exists (`document_service.py` 111-124);
* a timed-out tool is waited for and then repeated, though it may have committed;
* edits are merged with the defaults of their schema and are not checked for duplicates again;
* a click on the page during a call starts another script, whose call overlaps with the first
  (`streamlit_app.py` 182-188), and the buttons carry no run;
* `seed-demo` creates tables and leaves no revision (`seed_demo.py` 10).

## 2. Modules

| Module | Models | Used by |
|---|---|---|
| `HumanApproval` | abstract: a run is analysed, pauses, is concluded once, as somebody asked (`Spec`); with several reviewers the outcome may be overruled (`ContestedSpec`) | refinement target |
| `WorkflowService` | `workflow_service.py` control, langgraph checkpoints, the rows written | `MCWorkflowService`, two proof modules |
| `DocumentService` | `document_service.py`, `storage_service.py`, the start of `start_run` | runs directly, proofs |
| `AgentTools` | `_execute` of `agent_tools_service.py`, draft upsert, audit | runs directly, proofs |
| `InvoiceReview` | bodies of nodes and tools: match, duplicates, score, draft, edits | `MCInvoiceReview`, proofs |
| `TenantApi` | the API as its clients meet it: admission, codes, rows answered, decisions and uploads under way | `ReviewPage`, proofs |
| `ReviewPage` | `streamlit_app.py` and other clients, composed with `TenantApi` | `MCReviewPage`, proofs |
| `Deployment` | the migration, `seed_demo.py`, the API container | runs directly, proofs |

`MC*` modules only give constants their values. `*Proofs` modules extend the module they prove
about and TLAPS. `PROJECT.json` maps each definition to the source lines it translates.

### WorkflowService

* One thread record per request: `pc` names the next commit or node, `graph` is the state LangGraph
  holds in memory, `saved` says whether the checkpoint store has it, `outcome` is the status about to
  be written, `changes` and `seen` are what an UPDATE of the document or the versions will set: what
  was read just before and differs.
* Each repository method that commits is one action (`CreateRun`, `MarkDocument`, `CreateApproval`,
  `UpdateRun`, `ReadDocument`/`SyncDocument`, `SyncVersion`, `RefreshVersion`/`ReadVersions`/
  `DeactivateOthers`, `ResolveApproval`), so another request or a crash may fall between any two.
* SQLAlchemy writes the columns that differ from what the session last read. Where another request
  may write in between and it matters, the read is an action of its own: the document's row, and the
  `is_active` of all versions of a document, the request's own among them. An update of an expired
  object (`SyncVersion`: the commit before expired it) sets every column. The drafts, approval
  requests and runs are written by requests of one run only; there the two readings differ in
  nothing, as the columns written depend on the run alone.
* `AnalysisNode`, `HumanReview`, `ApproveNode`, `RejectNode`, `NodeRaises` are the node bodies.
  Only what control depends on is kept of their data: the draft's status and whose fields it
  holds. LangGraph writes checkpoints in the background: `SaveCheckpoint` happens anywhere between
  the end of a node and the end of the stream, and an older one may be skipped.
* A resume loads the latest checkpoint. If it is past `human_review` the payload has no taker and
  the decision stored there is carried out.
* `Crash` loses the threads, keeps database and checkpoints.
* `verdicts` (the decisions accepted) and `executed` (executions per node) are history
  variables the properties speak about.
* A run id is also the id of the version it analyses: the program starts one run per version.

### DocumentService

* A handler keeps the loop from one `await` to the next (`Synchronous`, `LoopFree`); the only
  `await` is `upload.read()`, between `CreateDocument`/`Prepare` and `SaveUpload`. For a file the
  framework holds in memory the `await` returns at once; it yields for files spooled to disk (over
  1 MB). The model lets it always yield.
* Documents and runs are named by the request that inserts them. A content equals its checksum.
* All revisions of an invoice are sent under one file name, the worst case for the file store.
* The analysis is one step (`Analyse`); it is the subject of `WorkflowService`. No decisions are
  made here, so a run's status is `running`, `waiting_approval` or `failed`. A request for an unknown
  document (404), the title and the tags are left out.

### AgentTools

* `call` is the graph's thread in `_execute`, `worker[a]` the thread of attempt `a`. `Timeout` may
  come at any time before the future is done; `Join` is the exit of the `with` block, which waits.
* A draft tool reads whether a draft exists (`WorkerReads`) and commits (`WorkerCommits`).
  `categorize_document` commits a usage row in the same way.
* `RefuseArguments` is the exception of `DraftCreateArgs` outside `_execute`; such a call's outcome is
  `refused`, that of one for which `_execute` raises `raised`.
* A database that is down while the audit row is written is not modelled. One instance is one run.

### InvoiceReview

* The fields of an invoice are a supplier name, tax id, number, amount (a set, empty for `None`),
  currency, and a count of the remaining three. `Within` is the `ilike` of the queries.
* Confidence is computed in exact integers (1/60000, rounded as the code rounds to four digits);
  the code's float sums may differ in the last digit.
* With several candidate suppliers any of them may be taken (the code takes the first by name).
* A draft of an invoice without a number gets `DOC-<document id>` (`DocNumber`): the versions of one
  document get the same. The duplicate check runs before, on the invoice's own fields.
* Crashes and step limits are in `WorkflowService` and are not repeated here.
* `start_run` blocks the loop, so analyses of one process follow one another (`LoopFree`).

### TenantApi

* `call[c]` is a connection: free, sent, then what the server does with it, answered. `Crash` loses
  the calls in progress and no row. A client may leave at any time; the server is not told.
* The order of the guards is FastAPI's: token and tenant headers (401), body (422), then the route.
  `_get_tenant_run` answers 404 for another tenant's run.
* `start_run` holds the event loop (`LoopFree`): meanwhile nothing is dispatched or answered, but
  decisions go on in their threads.
* An accepted decision is one step, `Conclude`. With a single decision it ends as asked or `failed`;
  with two under way, or with one left behind a checkpoint by a crash, in what any of them may give or
  `rejected`. That is what `WorkflowService` allows: `ImplementsHumanApproval` backs the first half,
  the runs `two_approvals` and `crash_then_retry` show the second. No property of this module rests
  on which outcome it is.
* `NoEdits` is a body without `edited_fields`; an empty object is edits like any other, and accepted.
* `verdicts` and `contested` are history: who decided, and whether a decision was accepted while or
  after another one. Which allowed file is refused is left open (`RefuseUpload`).

### ReviewPage

* `page[s]` is a session: the tenant chosen, `selected` (the run in `session_state`), `shown` (what
  the screen shows), `drawn` (whether the two agree already) and `call`, the request its script waits
  for. Every click starts a script; the one that waits is stopped and its answer dropped (`Discard`),
  but its call goes on (Streamlit's `fastReruns`).
* The list of runs may be of any age and of another tenant, so `OpenRun` asks for any run.
* A script whose request fails ends there, so the review column is not drawn; behind a decision
  it was drawn before.
* `OthersSend` is everybody else: further people at other clients, with any request of `Requests`.
* The state of the widgets, notes and wording are left out. The page has one tenant and one account
  per session at a time, and switches while runs of the old one stay selected.

### Deployment

* `tables` and `rows` are what is committed, `stamped` is `alembic_version`. `Chunk` is what becomes
  visible at once: the rest of the script on PostgreSQL, one statement on SQLite, which also does not
  check foreign keys.
* What is left of a script (`todo`) is the set of positions in `Upgrade`, `Downgrade`, or the same order
  of tables in `create_all`; the next statement is the least of them (`First`).
* `create_all` looks for the tables first and then creates those it missed, in dependency order.
* `seed-demo` looks for a row and creates it in two steps, so another seeder may come between; the
  unique constraints then end the later one.
* An operator who downgrades stops the API first and runs no seeder meanwhile.
* `early` and `cut` are history: seed-demo on a database not migrated, and what was cut short, upgrade
  or downgrade.

## 3. Runs

| Run | Instance | Shows |
|---|---|---|
| `review_crash` | one run, two reviewers, one crash, every payload, 7 steps | `TypeOK`; `HumanControl`; `WaitingIsReviewable`; `AnalysisRunsOnce`; `NoWastedReview` |
| `single_reviewer` | two versions of one document, the second unreadable, one reviewer, two crashes, fairness | `RejectMarksRunAndDraft`, `DecisionIsFinal`, the refinement `ImplementsHumanApproval`, and liveness `RunConcludes` (of the behaviours in which nothing crashes) |
| `quiet_reviewer` | three readable versions of one document, one reviewer, no crash | `DocumentFollowsRun`, `ApprovalMatchesOutcome`, `TwoActiveTakeAThird` (requests read rows and flags first and write later) |
| `intake` | three uploads and updates, one key, a readable, a broken and a disallowed content, one crash, fairness | `TypeOK`, `OneRunPerKey`, `AnalysedWhatWasChecked`, `VersionHistory`, `StoredFileAccounted`, liveness `EveryRequestAnswered` |
| `tool_calls` | two calls, two retries (the default), one crash, fairness | `TypeOK`, `SessionNotShared`, `UpsertNotStale`, `AuditTellsTheTruth`, `RetriesAreExhausted`, liveness `EveryCallEnds` |
| `invoice_review` | three runs, two of one document, six invoices, two edits, two suppliers | `TypeOK`, `UnseenDuplicatesAreExplained`, `MatchesAreExact`, `UnknownSupplierNotRecommended`, `TaxIdFindsSupplier`, `DraftHoldsEdits` |
| `review_page` | two tenants, one run waiting and one to upload, one session with four clicks, one other client with a request, two connections, any number of crashes | `TypeOK`, `TenantsApart`, `PatientReviewerNeverRaces`, `CopyNeverGoesBack`, `DecidesWhatIsDrawn` |
| `deployment` | both databases, two seeders, four commands, one crash | `ServedSchemaIsComplete`, `FailuresAreExplained`, `NoDanglingReference`, `SeedIsComplete` |
| four more | section 4 | what a document says and the code does not do |

The largest have about 4.3 million states (`quiet_reviewer`) and 2.6 million (`review_page`),
one to two minutes each; `intake` takes about as long because of its liveness property; the others take well under a minute.
Every property of these runs has a mutant: a plausible bug (a dropped guard, a missing wait, a
swapped constant) in one definition of the model, under which TLC finds the property violated.

### Bounds, and why they are enough

* **Reviewers.** Two make the race of check and effect; a third repeats what the second does.
  `HumanControl` is proved for any number.
* **Crashes.** One crash separates any two commits; the second one in `single_reviewer` lets the
  recovery from a crash crash too.
* **Steps.** 7 is the least budget that suffices, 10 the default. Budgets below 7 are covered by the
  theorem `ShortBudgetNeverDecides`.
* **Runs.** One run is enough for what concerns a run alone. `DocumentFollowsRun` needs an older and
  a newer run of one document. Three readable ones are what it takes to leave two versions active; that a
  file which cannot be read does not disturb these properties is proved (section 5), not run. `RunConcludes`
  needs one run of either kind, and a decision while the other is uploaded. Uploads are handled by
  one event loop, as deployed (`docker-compose.yml` starts one uvicorn process).
* **Decisions.** `two_approvals` restricts reviewers to plain approvals, which makes its point
  sharper. All other runs use every payload that validates.
* **Requests.** A race for a key takes two uploads; the third request of `intake` is the second
  of two updates of a document, or the retry after a crash.
* **Attempts.** Two retries are the default; the proofs cover every number from 0 to 5. Two calls show
  that nothing of one call is left to the next.
* **Invoices.** Two runs of one document and one of another. A complete invoice, repeats with a zero or a missing amount, an ambiguous, an unknown and
  a contradictory supplier, a number that is too short, and nothing extracted.
* **Clicks and connections.** Two connections are one outstanding decision and whatever overlaps
  with it. Four clicks open a run, decide it, decide it again, and look; one request of somebody else
  is enough to contest a run. The theorems have no bound on any of them.
* **Commands and crashes.** Up, downgrade, downgrade again after a crash, and up is the longest story
  that ends in a new kind of state; two seeders make every race for a row or a table.
* Symmetry (workers, requests, runs) is used only in runs without liveness properties.
* `CHECK_DEADLOCK FALSE` everywhere: the server stops when nobody sends requests, which is normal.

### Fairness

`FairSpec` states weak fairness of what an accepted request does next, per thread: the interpreter
schedules its threads, and every database, file and langgraph call returns. Nothing obliges a client
to send a request, a reviewer to decide, a timeout to pass or a process to crash. In `DocumentService`
a coroutine is resumed once the loop is free; in `AgentTools` both the caller and the thread of an
attempt are scheduled, and a tool is taken to return or raise in the end, because leaving the `with`
block would wait for it for ever otherwise. The theorems on liveness write the fairness out (section 5,
*Liveness*) and assume strong fairness of the event loop. `ReviewPage` and `Deployment` state no fairness: nobody
has to click or to start anything, and only safety is asked of them.

## 4. Where the program and its documents disagree

Each of these is a run that TLC ends with a counterexample.

| Run | Property | What happens |
|---|---|---|
| `two_approvals` | `RejectedByHuman` | Two reviewers approve. The first one's graph finishes; the second one's checkpoint after `human_review` becomes the latest; the first request's `get_state` reads that one (no `final_action` yet) and records `rejected`. |
| `unreadable_file` | `EveryRunConcludes` | Text extraction raises outside the failure path; the run stays `running`, its document `analyzing`. |
| `crash_then_retry` | `RejectionIsCarriedOut` | A crash after an approval's checkpoint leaves the run waiting; a later rejection resumes the stored approval and is recorded as `rejected` beside an approved run. |
| `edit_refused` | `EditsReachTheRun` | The page always sends `category` among the edited fields; the schema forbids fields it does not know, so every "Edit and Approve" is answered 422 and the run goes on waiting. |

The models show more of the kind, without a run of their own:

* `DraftCreateArgs` is built before `_execute`: a draft that does not validate raises there and leaves no
  audit row (`RefuseArguments`, outcome `refused`), where `docs/architecture.md` says "Every tool call is
  audited"; `AuditTellsTheTruth` states both, a row of each call that returned or raised in `_execute` and
  none of the others;
* a tool commits in its own thread and `_execute` commits the audit row afterwards: a crash between the two
  leaves an effect without a row (outcome `lost` with `effects` at least 1);
* `InvoiceFields.currency` defaults to `BRL`, and every value of the edited fields that is not empty is
  merged: an edit of a due date makes an EUR draft a BRL one (`Merged`; `DraftHoldsEdits` states it), where
  `README.md` says "Edit: reviewer adjusts fields";
* with two reviewers `DecisionIsFinal` fails: two decisions pass the status check together and
  the later one overwrites what the other recorded (the same race as `two_approvals`);
* a crash between a run's final status and `resolve_approval` leaves the approval request pending for
  good, because the run cannot be resumed any more (`ApprovalMatchesOutcome` needs no crash);
* an `approve` request that carries `edited_fields` rewrites the draft (`ApproveNode`, `Drafts`),
  where `README.md` says "Approve: keep extracted draft as-is";
* an answer for a run that is still `running` cannot be built: `DocumentStatus` lacks that value and
  the request ends with status 500 (`Reply`);
* two requests of one document that read its row before each other's write leave a mixed row: the
  status of one run beside `latest_run_id` and version number of another; also without overlap the end
  of an older run sets both back after a newer one has started (`SyncDocument`; hence
  `DocumentFollowsRun` holds the status to *some* run of the document);
* with three versions two can stay active without a crash: a request that read its own version as
  switched off and then a second one as active, writes its own on and the second off, after a third
  one was switched on; likewise two requests that switch each other off leave none active
  (`DeactivateOthers`; hence `TwoActiveTakeAThird`);
* two versions of one document whose number cannot be read get drafts with one number, and without an
  amount nobody is told (`DraftOf`; hence the exception `TooLittleGiven`);
* two overlapping uploads with one key get two documents and one run; the answer to the second names
  its own document, which is never analysed (`Recheck`);
* an invoice with a registered tax id whose name finds several suppliers gets the first by name, which
  may be another one than the tax id's, marked ambiguous (`SupplierLookup`);
* `seed-demo` on a database that was not migrated leaves tables without a revision: `alembic upgrade
  head` then fails every time and the API never starts (`early` in `FailuresAreExplained`);
* on SQLite a downgrade cut short keeps its revision: the next start serves the API on what tables are
  left, and a second downgrade fails (`cut`).

## 5. What is proved

TLAPS proves these for every value of the constants that satisfies the named assumptions of the
modules. They need no bound on requests, runs, workers or invoices. Some hold only under a condition
that their statement names: one reviewer at a time (`Sole`), a step budget of seven or more, no crash, or
one reviewer, one upload and no crash together (`Undisturbed`). With a second reviewer, a crash or a
budget of six in its place, TLC finds a counterexample to each; uploads come one at a time
because the server has one event loop. The liveness theorems assume that what may go on is scheduled.

| Theorem | Says | Inductive invariant |
|---|---|---|
| `TypeCorrect` | `WorkflowService`: `[]TypeOK` | `TypeInv`: `TypeOK`, and every request is well formed (a busy thread has a run, a reporting one an outcome that matches its place, a graph state its step limit) |
| `HumanControlHolds` | `[]HumanControl` | `HumanControlInv` with `TypeInv` |
| `WaitingIsReviewableHolds`, `AnalysisRunsOnceHolds` | `[]WaitingIsReviewable`; `[]AnalysisRunsOnce` | `ReviewInv`: each request fits its run (`Fits`), each run's rows fit its checkpoint (`RowsFit`), a run has at most one request that started it (`StartedOnce`) |
| `ShortBudgetNeverDecides` | below seven steps no run is ever approved or rejected | `StepsInv`: a state of the graph has counted exactly the nodes before its next one |
| `NoWastedReviewHolds` | seven steps or more: `[]NoWastedReview` | `WasteInv`: `StepsInv` with the invariants above, and a request that fails after the pause carries edits somebody submitted (`AskedInv`) |
| `RejectMarksRunAndDraftHolds`, `DecisionIsFinalHolds` | `Sole`: `[]RejectMarksRunAndDraft`; `DecisionIsFinal` | `SoleInv`: a worker's request is the only one of its run, a finished graph rejects only over a rejection, a rejected row has a rejected draft (`Alone`, `Concludes`) |
| `OneReviewerImplementsHumanApproval` | `Sole`, seven steps or more: `Spec` implements `HumanApproval!Spec` with `phase <- runStatus` | `SoleInv` and `WasteInv` |
| `AnyReviewersImplementContestedApproval` | seven steps or more, any number of reviewers and crashes: `Spec` implements `HumanApproval!ContestedSpec` with `phase <- runStatus` | `WasteInv` |
| `ApprovalMatchesOutcomeHolds` | `Undisturbed`: `[]ApprovalMatchesOutcome` | `QuietInv`: one request per run, each at its place in the sequence of writes (`Served`), and a run no request works on has every row of its own in step (`Settled`) |
| `DocumentFollowsRunHolds` | `Undisturbed`: `[]DocumentFollowsRun` | `QuietInv`, and `DocumentInv`: a document's status is that of one of its runs, or a request is about to write it |
| `TwoActiveTakeAThirdHolds` | `Undisturbed`: `[]TwoActiveTakeAThird` | `ActiveInv`: of two active versions that have no third (`Rivals`) one belongs to a request that will still switch the other off, and a request that finds its own switched off switches the other off in turn (`Overtaken`) |
| `AcceptedRequestsEnd` | `[]NoRequestStuck` and `[][RequestsDescend]_vars`: an accepted request can always make its next step and has at most 35 left | `TypeInv` and `ReviewInv` |
| `RequestsReturn` | scheduled threads: `Busy(t) ~> ~Busy(t)` for every thread | `AcceptedRequestsEnd`, with `StepsLeft` as the measure |
| `RunConcludesHolds` | scheduled threads: `RunConcludes`, for any number of crashes the constants allow (it speaks of the behaviours without one) | `Attended`: a running run has a request analysing it, a decided one is concluded or has a request deciding it; with `TypeInv`, `ReviewInv` and `RequestsReturn` |
| `IntakeTypeCorrect` | `DocumentService`: `[]TypeOK` | `TypeOK` and `RequestsFilled`: a handler reads only what has been filled in |
| `OneRunPerKeyHolds` | `[]OneRunPerKey` | `LoopHeldByOne`, `KeyUnclaimed`, `RunBegun`, `OneRunPerKey` |
| `AnalysisIsOfTheVersion` | `[]AnalysedWhatWasChecked` | `LoopHeldByOne`, `RunBegun`, `FileIsOwn`, `AnalysedWhatWasChecked` |
| `VersionHistoryHolds` | `[]VersionHistory` | `HistoryInv`: the predecessor a request read before the await is still a row after it |
| `StoredFileAccountedHolds` | `[]StoredFileAccounted` | `StoreInv`: each file has a request that wrote it, which is about to record it, was refused or lost, or recorded it; one row per version number |
| `IntakeNeverStuck` | `[]NoRequestStuck` and `[][RequestsDescend]_vars`: a request can go on, or the one holding the loop can, seven steps of its own at most | `LoopHeldByOne`; a document with versions has a latest one (`LatestExists`); what is analysed has been written (`FileExists`) |
| `EveryRequestAnsweredHolds` | fair event loop: `EveryRequestAnswered` | `LoopInv`: `NoRequestStuck` with its invariants; the loop comes free again and again (`LoopComesFree`) |
| `ToolsTypeCorrect` | `AgentTools`: `[]TypeOK` | `TypeOK` and `Progress` (the last attempt submitted is the one waited for) |
| `SessionNotSharedHolds`, `UpsertNotStaleHolds` | one thread on the session; no stale upsert | `ThreadInv`: both together, with the type invariant |
| `RetriesAreExhaustedHolds` | `[]RetriesAreExhausted` | itself, with `TypeInv` |
| `AuditTellsTheTruthHolds` | `[]AuditTellsTheTruth` | `AuditInv`: a call in progress is pending and has no row yet, a row is the only one of its call and true, a call that returned or raised has one and no other has any |
| `CallsEndInTime` | `[]NoCallStuck` and `[][CallDescends]_vars`: a call can always go on, for eight steps and six more a retry at most | `ThreadInv`, and an attempt waited for has been submitted (`Submitted`) |
| `EveryCallEndsHolds` | scheduled threads: `EveryCallEnds` | `CallsEndInTime`, and only the call in progress is pending (`OnlyItsCallPends`) |
| `ReviewTypeCorrect` | `InvoiceReview`: `[]TypeOK` | `TypeOK` and `OwnDraft`: a draft exists only from the drafting on, so no run finds its own |
| `MatchesAreExactHolds` | `[]MatchesAreExact` | `NoneReported` and `MatchesAreExact` |
| `UnseenDuplicatesHold` | `[]UnseenDuplicatesAreExplained` | `RepeatInv`: one run is analysed at a time, and a run past the check reports every repeated draft it met that its invoice gives enough to grade |
| `TaxIdFindsSupplierHolds` | `[]TaxIdFindsSupplier` | `MatchRegistered`: from the lookup on, a match is what the registry gives for the run's fields |
| `DraftHoldsEditsHolds` | `DraftHoldsEdits` | `DraftOfFields`: a draft under review is the one made from the run's fields |
| `TenantsApartHolds` | `TenantApi`: `[]TenantsApart` | `ApiInv`: types, rows of an answer filled in, runs not yet there undecided, `TenantsApart` |
| `ConcludedStaysHolds` | a concluded run never waits or runs again | `StagedInv`: how far a call is and how far its run is fit together |
| `PageImplementsApi` | `ReviewPage!Spec` implements `TenantApi!ApiSpec` (same variables, every step a step of the API or a stutter) | `PageInv`: the page's types, and each session waits for its own call |
| `TypeOKHolds`, `TenantsApartOnPage` | `ReviewPage`: `[]TypeOK`; `[]TenantsApart` on the page | `PageInv`; the refinement |
| `DecidesWhatIsDrawnHolds` | `DecidesWhatIsDrawn` | `PageInv` |
| `CopyNeverGoesBackHolds` | `CopyNeverGoesBack` | `CopyInv`: what the page holds as decided is decided in the row, and so in every answer still to come to it |
| `PatientReviewerNeverRacesHolds` | `[]PatientReviewerNeverRaces` | `PatientInv`: a session that has not given up on a run waits for the only decision it sent, or the run is concluded |
| `DeploymentTypeCorrect`, `ServedSchemaIsCompleteHolds`, `FailuresAreExplainedHolds`, `NoDanglingReferenceHolds`, `SeedIsCompleteHolds` | `Deployment`: its type invariant and every property of the run, for any number of seeders, commands and crashes | `IInv`: what each script in progress says of the tables (`ServerInv`, `SeederInv`), the tables that a statement may rely on (`Sound`, `SchemaInv`), and a trusted revision's untouched database |
| `UnknownSupplierHolds` | `[]UnknownSupplierNotRecommended` | `UnmatchedScore`: without a supplier the confidence is at most 0.70 |

**HumanControl.** `runStatus = "approved"` has to trace back to a decision. The status is written by a
request from its `outcome`, the outcome comes from `checkpoint.final`, which another request may have
written, from a graph state in some thread's memory, which came from a checkpoint. So the invariant
says of all three places at once that what they hold is backed by a submitted decision of the same
run (`Justified` for graph states, `Backed` for requests). `verdicts` only grows, so other threads
stay backed; the step that submits a decision starts the request that carries it.

**WaitingIsReviewable, AnalysisRunsOnce.** `start_run` is alone with its run until it writes the
first status, since nothing else is offered for a run that does not wait; a decision finds a run that
waited, whose checkpoint is past the analysis, and stays past it whoever writes it. So an analysis
node is executed only by the request that started the run, at its place in the chain, once. What two
racing decisions, or the writes of a request that lost the race, leave behind is still past the analysis.

**One reviewer at a time.** With `Sole` a decision meets a run no other request works on: the checkpoint
it finds at the end is the one it wrote, so its outcome is the decision's. The status is written
by `start_run` only while the run is running and by `resume_run` only while it waits, which is
`DecisionIsFinal`, crash or no crash. Each such write is then a step of `HumanApproval`, and
everything between two writes a stutter; seven steps are needed because a shorter budget fails runs
that the abstract process does not fail. Without a crash the writes that follow the status (document,
approval request, draft) all happen, which gives the two properties about the quiet state.

**Contested decisions.** What several reviewers of one run may do to it is `ContestedSpec`, a weaker
abstract process: a run is never reopened, never concluded before somebody decided, approved only where
somebody approved or edited, and failed after the pause only over edits; but an outcome may be
overruled by another request that was under way, and may come out rejected though nobody asked for it.
`WasteInv` is enough, since only what each single write can carry matters. The two refinements are the two
halves of what `TenantApi` assumes of a decision (`MayConclude`): the answer is the decision's
if it is the only one, one of those `ContestedSpec` allows if several race.

**DocumentFollowsRun.** A version's row is written by requests of its own run only, so it follows the
run. The document's row is shared: a request that found the status as it should be will not write it,
though another may change it before the commit. What survives is that every status written is that of a
run of the document whose row is already final, or has a request behind it that still has to write.

**TwoActiveTakeAThird.** Requests activate their version first and read the others afterwards, so of two
that overlap the later activation is seen by nobody but sees the other. If it is switched off before it
reads its own flag back, it will write it on again, but then it also read the other as active and
switches that off: with two versions one of the two writes comes last. Only a third version can have
switched the other off before it was read and on after. A crash between activation and the rest leaves
both active, hence the condition.

**OneRunPerKey.** Between the second look at the key and the insertion of the run the handler does not
give up the loop (`LoopHeldByOne`), so what it saw is still true (`KeyUnclaimed`). The same argument
from `SaveUpload` on gives `AnalysedWhatWasChecked`: nobody else can write the file between the write
and the analysis. Both stop holding with an `await` between, which is what the mutants do.

**SessionNotShared.** The `with` block's exit waits for the attempt that timed out, so a new attempt
or a rollback starts only when no thread of the call is active.

**The page.** The page's specification is the API's with one client written out, so what holds of the
API for all clients holds on the page by `PageImplementsApi`. `CopyNeverGoesBack` needs more: a row
never goes back (`ConcludedStaysHolds`), the script that waits is the only one that stores an answer,
and a request sent after a copy was taken is answered from a row at least as new.
`PatientReviewerNeverRaces` follows from where the server reads the status again: an answer to a
decision is given only after its outcome is written, so who waited for it sees no buttons any more.

**Deployment.** The place of a script tells which tables are there: an upgrade under way on SQLite has
created what lies before its place, a downgrade has dropped it. Other scripts only add tables, and
`Upgrade` names a table after those it refers to (`CreationSound`), `Downgrade` before (`DropSound`), so
what is there always contains what it refers to, whoever is where; crashes leave a prefix of a script.
`create_all` skips only tables it saw, and nothing drops them meanwhile. Unless SQLite kept the revision
of a downgrade cut short (`Trusted`), a revision means all ten tables: an upgrade cut short leaves tables
without one, on which the next upgrade fails and the API does not start. If no upgrade was cut short
either (`Uncut`) and no seeder came too early, the tables of a database without a revision are exactly
those of the script under way (`Untouched`), so no statement fails.

**Progress.** The liveness theorems rest on facts that need no fairness, theorems of their own
(`AcceptedRequestsEnd`, `IntakeNeverStuck`, `CallsEndInTime`): whatever is in progress can make its next step,
or waits for something that can, and a bounded measure (`StepsLeft`) falls with each step. That
excludes a wait for a checkpoint, version row, file, thread or event loop that never comes.

**Liveness.** The step from there to the end needs scheduling. The prover knows no `ENABLED`, so the
theorems state the assumption with the guards of the steps in its place (`Scheduled(t)` and the like):
`[]<>~MayProceed(t) \/ []<><<Proceed(t)>>_vars` is `WF_vars(Proceed(t))` wherever `MayProceed(t)` is
`ENABLED <<Proceed(t)>>_vars`. That equality is not proved; TLC finds it on all states of the runs'
instances. `AlwaysScheduled` is the assumption for every thread, at all times. If
nothing happened from *n* steps to go, the guard would hold for good, so the step is taken and
*n - 1* or the end is reached; the lemmas that follow double the distance until it covers the
bound (35 for a request of the service, 38 for a call with five retries), because the prover has no
induction over the measure. Each is stated for one thread and an opaque goal (`Nears`, `Soon`), which
keeps the temporal steps propositional; the quantifier over threads is removed in a step without
temporal operators. `RunConcludes` needs in addition that somebody is at work on every run that is
owed something (`Attended`), which a crash breaks for good.

For the intake the theorem assumes more than the run: there the disjunct is `<>[]~MayProceed(q)`, strong fairness.
Of any number of requests one could otherwise find the loop taken whenever it looks; that it does not is what
asyncio provides, whose loop runs ready callbacks in the order of their arrival. TLC checks that weak
fairness is enough for the three requests of its run, where only finitely many can come in between;
for all finite numbers that would take an induction over the requests.

Only model-checked: that guards and `ENABLED` agree, and with that the liveness properties under
`FairSpec` as it is written with `WF_vars`. Every property of the passing runs is stated by a theorem,
the liveness properties under the assumptions above. Induction over data and
`ENABLED` are beyond the installed provers; no module that is proved about uses a `RECURSIVE` operator.

## 6. Not modelled

* Amount parsing and keyword rules of the mock providers: see below.
* Of the API: document, supplier and organisation listings, health and `demo_login`, which only read;
  the contents of answers beyond run and status.
* The OpenAI providers: what they answer is any member of a set.
* PDF and text decoding: it succeeds or raises.
* Settings, logging, middleware, and code nothing calls
  (`async_utils.py`, embedding and answer providers): no control of their own. Settings are CONSTANTS.
* Several server processes: the constants `Loops` and `Workers` allow them in `WorkflowService`, the
  other modules assume one, as deployed.

## 7. Plan

Done, in this order: `HumanApproval` and `WorkflowService`, `DocumentService`, `AgentTools`,
`InvoiceReview`, `TenantApi`, `ReviewPage`, `Deployment`, and the theorems above. Left:

1. `AmountParsing` and `CategoryRules`: the number patterns and the keyword rules as operators over
   small alphabets, against reference definitions (`1,234.56`; the keyword `tax` in `Tax ID:`).
2. A composition of `DocumentService` and `WorkflowService` through the run they share, so that
   decisions and uploads of new versions meet.
