------------------------ MODULE WorkflowServiceProofs ------------------------
(* Proofs about WorkflowService, for every number of runs, documents, event loops, *)
(* worker threads and crashes: types first; then that, however many reviewers race *)
(* for a run and wherever the process dies, nothing final happens that nobody      *)
(* submitted, a run that waits can be reviewed, and no analysis is repeated; last, *)
(* that requests end and conclude their runs.                                      *)
EXTENDS WorkflowService, TLAPS

\* A request in progress works on a run, and by the time it writes a status it
\* has one to write.
Reporting == {"approval", "update_run", "read_document", "sync_document", "sync_version"}

WellFormed(req) ==
    /\ req \in RequestStates
    /\ req.pc # "idle" => req.run \in Runs
    /\ req.pc \in Reporting => req.outcome # "none"

TypeInv == TypeOK /\ \A t \in Threads : WellFormed(thread[t])

\* One request changes, the others keep their state.
LEMMA BecomeFacts ==
  ASSUME thread \in [Threads -> RequestStates], NEW t \in Threads,
         NEW req, Become(t, req)
  PROVE  /\ thread'[t] = req
         /\ \A u \in Threads : u # t => thread'[u] = thread[u]
         /\ DOMAIN thread' = Threads
  BY DEF Become

\* A thread that takes a well-formed request leaves all threads well formed.
LEMMA BecomeWellFormed ==
  ASSUME TypeInv, NEW t \in Threads, NEW req, Become(t, req), WellFormed(req)
  PROVE  /\ thread' \in [Threads -> RequestStates]
         /\ \A u \in Threads : WellFormed(thread'[u])
  BY DEF Become, TypeInv, TypeOK, WellFormed

\* The state a run starts from, and the absence of a checkpoint, are states of the graph.
LEMMA InitialTyped == InitialState \in GraphStates /\ NoCheckpoint \in GraphStates
<1>1. InitialState \in GraphStates
  BY StepsAssumption DEF StepsAssumption, InitialState, GraphStates, Nodes, Analysis
<1>2. NoCheckpoint \in GraphStates
  BY <1>1 DEF NoCheckpoint, GraphStates, Nodes
<1> QED
  BY <1>1, <1>2

\* An idle thread is a well-formed request.
LEMMA IdleWellFormed == WellFormed(IdleThread)
  BY InitialTyped DEF IdleThread, WellFormed, Reporting, RequestStates, Locations, NoRun

\* Updating a request keeps it well formed.
LEMMA UpdatedWellFormed ==
  ASSUME NEW req, WellFormed(req), req.pc # "idle"
  PROVE  /\ \A pc \in Locations :
              (pc \in Reporting => req.outcome # "none")
                 => WellFormed([req EXCEPT !.pc = pc])
         /\ WellFormed([req EXCEPT !.saved = TRUE])
         /\ \A pc \in Locations, o \in RunStatuses \ {"running"} :
              WellFormed([req EXCEPT !.pc = pc, !.outcome = o])
         /\ \A g \in GraphStates :
              WellFormed([req EXCEPT !.pc = "graph", !.graph = g])
         /\ \A g \in GraphStates :
              WellFormed([req EXCEPT !.pc = "graph", !.graph = g, !.saved = FALSE])
         /\ \A pc \in {"read_versions", "deactivate"}, v \in SUBSET Runs :
              WellFormed([req EXCEPT !.pc = pc, !.seen = v])
         /\ \A c \in SUBSET {"status", "latest", "current"} :
              req.outcome # "none"
                 => WellFormed([req EXCEPT !.pc = "sync_document", !.changes = c])
<1> USE DEF WellFormed, RequestStates, Reporting
<1>1. \A pc \in Locations :
        (pc \in Reporting => req.outcome # "none")
           => WellFormed([req EXCEPT !.pc = pc])
  OBVIOUS
<1>2. WellFormed([req EXCEPT !.saved = TRUE])
  OBVIOUS
<1>3. \A pc \in Locations, o \in RunStatuses \ {"running"} :
        WellFormed([req EXCEPT !.pc = pc, !.outcome = o])
  BY DEF RunStatuses
<1>4. \A g \in GraphStates : WellFormed([req EXCEPT !.pc = "graph", !.graph = g])
  BY DEF Locations
<1>5. \A g \in GraphStates :
        WellFormed([req EXCEPT !.pc = "graph", !.graph = g, !.saved = FALSE])
  BY DEF Locations
<1>6. \A pc \in {"read_versions", "deactivate"}, v \in SUBSET Runs :
        WellFormed([req EXCEPT !.pc = pc, !.seen = v])
  BY DEF Locations
<1>7. \A c \in SUBSET {"status", "latest", "current"} :
        req.outcome # "none"
           => WellFormed([req EXCEPT !.pc = "sync_document", !.changes = c])
  BY DEF Locations
<1> QED
  BY <1>1, <1>2, <1>3, <1>4, <1>5, <1>6, <1>7

\* Updating a row keeps its type.
LEMMA UpdatedRows ==
  /\ \A d \in DocumentRows, s \in DocStatuses, r \in Runs :
       [d EXCEPT !.status = s, !.latest = r] \in DocumentRows
  /\ \A v \in VersionRows, s \in DocStatuses :
       [v EXCEPT !.status = s] \in VersionRows
  /\ \A v \in VersionRows, b \in BOOLEAN : [v EXCEPT !.active = b] \in VersionRows
  /\ \A d \in DraftRows : [d EXCEPT !.status = "rejected"] \in DraftRows
  /\ \A d \in DocumentRows : \A s \in DocStatuses, q, r \in Runs \cup {NoRun} :
       [status |-> s, latest |-> q, current |-> r] \in DocumentRows
  BY DEF DocumentRows, VersionRows, DraftRows

\* A node advances the graph within the step budget.
LEMMA AdvancedTyped ==
  ASSUME NEW g \in GraphStates, NEW final \in {"none", "approved", "rejected"},
         ~StepLimitReached(g)
  PROVE  Advanced(g, final) \in GraphStates
<1>1. NodeAfter(g.next) \in Nodes
  BY DEF NodeAfter, Nodes, Analysis
<1>2. g.steps + 1 \in 0..MaxAgentSteps
  BY StepsAssumption DEF StepsAssumption, GraphStates, StepLimitReached
<1> QED
  BY <1>1, <1>2 DEF Advanced, GraphStates



\* A decision taken at human_review leaves a state of the graph.
LEMMA DecidedTyped ==
  ASSUME NEW g \in GraphStates, NEW p \in Payloads
  PROVE  [g EXCEPT !.next = Route(p), !.decision = p] \in GraphStates
  BY DEF GraphStates, Route, Nodes


\* What a well-formed request carries.
LEMMA RequestFields ==
  ASSUME NEW req, WellFormed(req)
  PROVE  /\ req.graph \in GraphStates
         /\ req.graph.final \in {"none", "approved", "rejected"}
         /\ req.payload # NoPayload => req.payload \in Payloads
         /\ req.outcome # "none" => req.outcome \in RunStatuses \ {"running"}
         /\ req.seen \subseteq Runs
  BY DEF WellFormed, RequestStates, GraphStates

\* A draft written by a node is a draft row.
LEMMA WrittenDraftTyped == \A n \in Nodes : WrittenDraft(n) \in DraftRows
  BY DEF WrittenDraft, DraftRows

\* Counting an execution of a node keeps the counters natural numbers.
LEMMA CountedTyped ==
  ASSUME NEW e \in [Runs -> [Analysis -> Nat]], NEW r \in Runs, NEW n \in Analysis
  PROVE  [e EXCEPT ![r][n] = @ + 1] \in [Runs -> [Analysis -> Nat]]
  OBVIOUS

-----------------------------------------------------------------------------
(* Type correctness *)

\* TypeOK without the requests.
TablesOK ==
    /\ runStatus \in [Runs -> {"none"} \cup RunStatuses]
    /\ document \in [Docs -> DocumentRows]
    /\ version \in [Runs -> VersionRows]
    /\ draft \in [Runs -> DraftRows]
    /\ approval \in [Runs -> {"none", "pending", "approved", "rejected", "edited"}]
    /\ checkpoint \in [Runs -> GraphStates]
    /\ executed \in [Runs -> [Analysis -> Nat]]
    /\ verdicts \in [Runs -> SUBSET Payloads]
    /\ crashes \in 0..MaxCrashes

\* A step of one request keeps the types if its new state and the tables have theirs.
LEMMA StepTyped ==
  ASSUME TypeInv, TablesOK', NEW t \in Threads, NEW req, Become(t, req), WellFormed(req)
  PROVE  TypeInv'
<1>1. /\ thread' \in [Threads -> RequestStates]
      /\ \A u \in Threads : WellFormed(thread'[u])
  BY BecomeWellFormed
<1> QED
  BY <1>1 DEF TypeInv, TypeOK, TablesOK, WellFormed, GraphStates, RequestStates

\* Every step keeps rows, checkpoints and requests within their types, and requests well
\* formed: one case per action.
LEMMA TypeInductive == ASSUME TypeInv, [Next]_vars PROVE TypeInv'
<1>a. /\ TablesOK
      /\ thread \in [Threads -> RequestStates]
      /\ \A t \in Threads : WellFormed(thread[t])
  BY DEF TypeInv, TypeOK, TablesOK
<1>1. ASSUME NEW t \in Threads, MarkDocument(t) PROVE TypeInv'
  <2>a. /\ WellFormed(thread[t])
        /\ thread[t].pc # "idle" /\ thread[t].run \in Runs
    BY <1>a, <1>1 DEF MarkDocument, At, WellFormed
  <2> DEFINE req == [thread[t] EXCEPT !.pc = "mark_version"]
  <2>1. WellFormed(req)
    BY <1>a, <1>1, <2>a, UpdatedWellFormed DEF MarkDocument, At, Locations, Reporting, RunStatuses, TablesOK, Goto
  <2>2. TablesOK'
    BY <1>a, <1>1, <2>a, UpdatedRows, RunsAssumption DEF TablesOK, MarkDocument, database, RunsAssumption, DocStatuses
  <2>3. Become(t, req)
    BY <1>1 DEF MarkDocument, Goto
  <2> QED
    BY <2>1, <2>2, <2>3, StepTyped
<1>2. ASSUME NEW t \in Threads, MarkVersion(t) PROVE TypeInv'
  <2>a. /\ WellFormed(thread[t])
        /\ thread[t].pc # "idle" /\ thread[t].run \in Runs
    BY <1>a, <1>2 DEF MarkVersion, At, WellFormed
  <2> DEFINE req == [thread[t] EXCEPT !.pc = "extract"]
  <2>1. WellFormed(req)
    BY <1>a, <1>2, <2>a, UpdatedWellFormed DEF MarkVersion, At, Locations, Reporting, RunStatuses, TablesOK, Goto
  <2>2. TablesOK'
    BY <1>a, <1>2, <2>a, UpdatedRows DEF TablesOK, MarkVersion, database, DocStatuses
  <2>3. Become(t, req)
    BY <1>2 DEF MarkVersion, Goto
  <2> QED
    BY <2>1, <2>2, <2>3, StepTyped
<1>3. ASSUME NEW t \in Threads, Extract(t) PROVE TypeInv'
  <2>a. /\ WellFormed(thread[t])
        /\ thread[t].pc # "idle" /\ thread[t].run \in Runs
    BY <1>a, <1>3 DEF Extract, At, WellFormed
  <2> DEFINE req == [thread[t] EXCEPT !.pc = "graph", !.graph = InitialState,
                         !.saved = FALSE]
  <2>1. WellFormed(req)
    BY <1>a, <1>3, <2>a, UpdatedWellFormed, InitialTyped DEF Extract, At, Locations, Reporting, RunStatuses, TablesOK, Continue
  <2>2. TablesOK'
    BY <1>a, <1>3, <2>a, UpdatedRows DEF TablesOK, Extract, database, DocStatuses
  <2>3. Become(t, req)
    BY <1>3 DEF Extract, Continue
  <2> QED
    BY <2>1, <2>2, <2>3, StepTyped
<1>4. ASSUME NEW t \in Threads, ExtractRaises(t) PROVE TypeInv'
  <2>a. /\ WellFormed(thread[t])
        /\ thread[t].pc # "idle" /\ thread[t].run \in Runs
    BY <1>a, <1>4 DEF ExtractRaises, At, WellFormed
  <2> DEFINE req == IdleThread
  <2>1. WellFormed(req)
    BY <1>a, <1>4, <2>a, IdleWellFormed DEF ExtractRaises, At, Locations, Reporting, RunStatuses, TablesOK, Reset
  <2>2. TablesOK'
    BY <1>a, <1>4, <2>a DEF TablesOK, ExtractRaises, database
  <2>3. Become(t, req)
    BY <1>4 DEF ExtractRaises, Reset
  <2> QED
    BY <2>1, <2>2, <2>3, StepTyped
<1>5. ASSUME NEW t \in Threads, LoadCheckpoint(t) PROVE TypeInv'
  <2>a. /\ WellFormed(thread[t])
        /\ thread[t].pc # "idle" /\ thread[t].run \in Runs
    BY <1>a, <1>5 DEF LoadCheckpoint, At, WellFormed
  <2> DEFINE req == [thread[t] EXCEPT !.pc = "graph",
                         !.graph = checkpoint[thread[t].run]]
  <2>1. WellFormed(req)
    BY <1>a, <1>5, <2>a, UpdatedWellFormed DEF LoadCheckpoint, At, Locations, Reporting, RunStatuses, TablesOK, StateToResume
  <2>2. TablesOK'
    BY <1>a, <1>5, <2>a DEF TablesOK, LoadCheckpoint, database
  <2>3. Become(t, req)
    BY <1>5 DEF LoadCheckpoint, StateToResume
  <2> QED
    BY <2>1, <2>2, <2>3, StepTyped
<1>6. ASSUME NEW t \in Threads, NEW n \in Analysis, AnalysisNode(t, n) PROVE TypeInv'
  <2>a. /\ WellFormed(thread[t])
        /\ thread[t].pc # "idle" /\ thread[t].run \in Runs
    BY <1>a, <1>6 DEF AnalysisNode, At, WellFormed, NodeReady
  <2>b. /\ thread[t].graph \in GraphStates
        /\ thread[t].graph.final \in {"none", "approved", "rejected"}
        /\ thread[t].payload # NoPayload => thread[t].payload \in Payloads
    BY <2>a, RequestFields
  <2> DEFINE req == [thread[t] EXCEPT !.pc = "graph",
        !.graph = Advanced(thread[t].graph, thread[t].graph.final), !.saved = FALSE]
  <2>1. WellFormed(req)
    BY <1>a, <1>6, <2>a, <2>b, UpdatedWellFormed, AdvancedTyped DEF AnalysisNode, At, Locations, Reporting, RunStatuses, TablesOK, Continue, NodeReady
  <2>c. executed' \in [Runs -> [Analysis -> Nat]]
    BY <1>a, <1>6, <2>a, CountedTyped DEF TablesOK, AnalysisNode
  <2>d. draft' \in [Runs -> DraftRows]
    BY <1>a, <1>6, <2>a, WrittenDraftTyped DEF TablesOK, AnalysisNode, Nodes
  <2>2. TablesOK'
    BY <1>a, <1>6, <2>c, <2>d DEF TablesOK, AnalysisNode
  <2>3. Become(t, req)
    BY <1>6 DEF AnalysisNode, Continue, NodeReady
  <2> QED
    BY <2>1, <2>2, <2>3, StepTyped
<1>7. ASSUME NEW t \in Threads, HumanReview(t) PROVE TypeInv'
  <2>a. /\ WellFormed(thread[t])
        /\ thread[t].pc # "idle" /\ thread[t].run \in Runs
    BY <1>a, <1>7 DEF HumanReview, At, WellFormed, NodeReady
  <2>b. /\ thread[t].graph \in GraphStates
        /\ thread[t].graph.final \in {"none", "approved", "rejected"}
        /\ thread[t].payload # NoPayload => thread[t].payload \in Payloads
    BY <2>a, RequestFields
  <2> DEFINE req == [thread[t] EXCEPT !.pc = "graph",
        !.graph = [thread[t].graph EXCEPT !.next = Route(thread[t].payload),
                                          !.decision = thread[t].payload],
        !.saved = FALSE]
  <2>1. WellFormed(req)
    BY <1>a, <1>7, <2>a, <2>b, UpdatedWellFormed, DecidedTyped DEF HumanReview, At, Locations, Reporting, RunStatuses, TablesOK, Continue, NodeReady
  <2>2. TablesOK'
    BY <1>a, <1>7, <2>a, <2>b DEF TablesOK, HumanReview, database
  <2>3. Become(t, req)
    BY <1>7 DEF HumanReview, Continue, NodeReady
  <2> QED
    BY <2>1, <2>2, <2>3, StepTyped
<1>8. ASSUME NEW t \in Threads, ApproveNode(t) PROVE TypeInv'
  <2>a. /\ WellFormed(thread[t])
        /\ thread[t].pc # "idle" /\ thread[t].run \in Runs
    BY <1>a, <1>8 DEF ApproveNode, At, WellFormed, NodeReady
  <2>b. /\ thread[t].graph \in GraphStates
        /\ thread[t].graph.final \in {"none", "approved", "rejected"}
        /\ thread[t].payload # NoPayload => thread[t].payload \in Payloads
    BY <2>a, RequestFields
  <2> DEFINE req == [thread[t] EXCEPT !.pc = "graph", !.graph = Advanced(thread[t].graph, "approved"),
                         !.saved = FALSE]
  <2>1. WellFormed(req)
    BY <1>a, <1>8, <2>a, <2>b, UpdatedWellFormed, AdvancedTyped DEF ApproveNode, At, Locations, Reporting, RunStatuses, TablesOK, Continue, NodeReady
  <2>2. TablesOK'
    BY <1>a, <1>8, <2>a, <2>b, WrittenDraftTyped DEF TablesOK, ApproveNode, database, Nodes
  <2>3. Become(t, req)
    BY <1>8 DEF ApproveNode, Continue, NodeReady
  <2> QED
    BY <2>1, <2>2, <2>3, StepTyped
<1>9. ASSUME NEW t \in Threads, RejectNode(t) PROVE TypeInv'
  <2>a. /\ WellFormed(thread[t])
        /\ thread[t].pc # "idle" /\ thread[t].run \in Runs
    BY <1>a, <1>9 DEF RejectNode, At, WellFormed, NodeReady
  <2>b. /\ thread[t].graph \in GraphStates
        /\ thread[t].graph.final \in {"none", "approved", "rejected"}
        /\ thread[t].payload # NoPayload => thread[t].payload \in Payloads
    BY <2>a, RequestFields
  <2> DEFINE req == [thread[t] EXCEPT !.pc = "graph", !.graph = Advanced(thread[t].graph, "rejected"),
                         !.saved = FALSE]
  <2>1. WellFormed(req)
    BY <1>a, <1>9, <2>a, <2>b, UpdatedWellFormed, AdvancedTyped DEF RejectNode, At, Locations, Reporting, RunStatuses, TablesOK, Continue, NodeReady
  <2>2. TablesOK'
    BY <1>a, <1>9, <2>a, <2>b, UpdatedRows DEF TablesOK, RejectNode, database, RejectedDraft
  <2>3. Become(t, req)
    BY <1>9 DEF RejectNode, Continue, NodeReady
  <2> QED
    BY <2>1, <2>2, <2>3, StepTyped
<1>10. ASSUME NEW t \in Threads, NodeRaises(t) PROVE TypeInv'
  <2>a. /\ WellFormed(thread[t])
        /\ thread[t].pc # "idle" /\ thread[t].run \in Runs
    BY <1>a, <1>10 DEF NodeRaises, At, WellFormed
  <2>b. /\ thread[t].graph \in GraphStates
        /\ thread[t].graph.final \in {"none", "approved", "rejected"}
        /\ thread[t].payload # NoPayload => thread[t].payload \in Payloads
    BY <2>a, RequestFields
  <2> DEFINE req == [thread[t] EXCEPT !.pc = "fail"]
  <2>1. WellFormed(req)
    BY <1>a, <1>10, <2>a, <2>b, UpdatedWellFormed DEF NodeRaises, At, Locations, Reporting, RunStatuses, TablesOK, Goto
  <2>c. thread[t].graph.next \in Nodes
    BY <2>b DEF GraphStates
  <2>d. executed' \in [Runs -> [Analysis -> Nat]]
    <3>1. CASE executed' = executed
      BY <1>a, <3>1 DEF TablesOK
    <3>2. CASE thread[t].graph.next \in Analysis /\ executed' # executed
      <4>1. executed' = [executed EXCEPT ![thread[t].run][thread[t].graph.next] = @ + 1]
        BY <1>10, <3>2 DEF NodeRaises
      <4>2. executed \in [Runs -> [Analysis -> Nat]]
        BY <1>a DEF TablesOK
      <4> QED
        BY <2>a, <3>2, <4>1, <4>2, CountedTyped
    <3> QED
      BY <1>10, <3>1, <3>2 DEF NodeRaises
  <2>e. draft' \in [Runs -> DraftRows]
    BY <1>a, <1>10, <2>a, <2>c, WrittenDraftTyped DEF TablesOK, NodeRaises
  <2>2. TablesOK'
    BY <1>a, <1>10, <2>d, <2>e DEF TablesOK, NodeRaises
  <2>3. Become(t, req)
    BY <1>10 DEF NodeRaises, Goto
  <2> QED
    BY <2>1, <2>2, <2>3, StepTyped
<1>11. ASSUME NEW t \in Threads, SaveCheckpoint(t) PROVE TypeInv'
  <2>a. /\ WellFormed(thread[t])
        /\ thread[t].pc # "idle" /\ thread[t].run \in Runs
    BY <1>a, <1>11 DEF SaveCheckpoint, At, WellFormed
  <2>b. /\ thread[t].graph \in GraphStates
        /\ thread[t].graph.final \in {"none", "approved", "rejected"}
        /\ thread[t].payload # NoPayload => thread[t].payload \in Payloads
    BY <2>a, RequestFields
  <2> DEFINE req == [thread[t] EXCEPT !.saved = TRUE]
  <2>1. WellFormed(req)
    BY <1>a, <1>11, <2>a, <2>b, UpdatedWellFormed DEF SaveCheckpoint, At, Locations, Reporting, RunStatuses, TablesOK
  <2>2. TablesOK'
    BY <1>a, <1>11, <2>a, <2>b DEF TablesOK, SaveCheckpoint, database
  <2>3. Become(t, req)
    BY <1>11 DEF SaveCheckpoint
  <2> QED
    BY <2>1, <2>2, <2>3, StepTyped
<1>12. ASSUME NEW t \in Threads, Pause(t) PROVE TypeInv'
  <2>a. /\ WellFormed(thread[t])
        /\ thread[t].pc # "idle" /\ thread[t].run \in Runs
    BY <1>a, <1>12 DEF Pause, At, WellFormed, StreamEnded
  <2> DEFINE req == [thread[t] EXCEPT !.pc = "approval", !.outcome = "waiting_approval"]
  <2>1. WellFormed(req)
    BY <1>a, <1>12, <2>a, UpdatedWellFormed DEF Pause, At, Locations, Reporting, RunStatuses, TablesOK, StreamEnded
  <2>2. TablesOK'
    BY <1>a, <1>12, <2>a DEF TablesOK, Pause, database
  <2>3. Become(t, req)
    BY <1>12 DEF Pause, StreamEnded
  <2> QED
    BY <2>1, <2>2, <2>3, StepTyped
<1>13. ASSUME NEW t \in Threads, GetState(t) PROVE TypeInv'
  <2>a. /\ WellFormed(thread[t])
        /\ thread[t].pc # "idle" /\ thread[t].run \in Runs
    BY <1>a, <1>13 DEF GetState, At, WellFormed, StreamEnded
  <2>b. /\ thread[t].graph \in GraphStates
        /\ thread[t].graph.final \in {"none", "approved", "rejected"}
        /\ thread[t].payload # NoPayload => thread[t].payload \in Payloads
    BY <2>a, RequestFields
  <2> DEFINE req == [thread[t] EXCEPT !.pc = "update_run",
        !.outcome = FinalStatus(checkpoint[thread[t].run].final)]
  <2>1. WellFormed(req)
    BY <1>a, <1>13, <2>a, <2>b, UpdatedWellFormed DEF GetState, At, Locations, Reporting, RunStatuses, TablesOK, StreamEnded, FinalStatus
  <2>2. TablesOK'
    BY <1>a, <1>13, <2>a, <2>b DEF TablesOK, GetState, database
  <2>3. Become(t, req)
    BY <1>13 DEF GetState, StreamEnded, FinalStatus
  <2> QED
    BY <2>1, <2>2, <2>3, StepTyped
<1>14. ASSUME NEW t \in Threads, CreateApproval(t) PROVE TypeInv'
  <2>a. /\ WellFormed(thread[t])
        /\ thread[t].pc # "idle" /\ thread[t].run \in Runs
    BY <1>a, <1>14 DEF CreateApproval, At, WellFormed
  <2>b. /\ thread[t].outcome # "none"
        /\ thread[t].outcome \in RunStatuses \ {"running"}
    BY <1>14, <2>a, RequestFields DEF CreateApproval, At, WellFormed, Reporting
  <2> DEFINE req == [thread[t] EXCEPT !.pc = "update_run"]
  <2>1. WellFormed(req)
    BY <1>a, <1>14, <2>a, <2>b, UpdatedWellFormed DEF CreateApproval, At, Locations, Reporting, RunStatuses, TablesOK, Goto
  <2>2. TablesOK'
    BY <1>a, <1>14, <2>a, <2>b DEF TablesOK, CreateApproval, database
  <2>3. Become(t, req)
    BY <1>14 DEF CreateApproval, Goto
  <2> QED
    BY <2>1, <2>2, <2>3, StepTyped
<1>15. ASSUME NEW t \in Threads, UpdateRun(t) PROVE TypeInv'
  <2>a. /\ WellFormed(thread[t])
        /\ thread[t].pc # "idle" /\ thread[t].run \in Runs
    BY <1>a, <1>15 DEF UpdateRun, At, WellFormed
  <2>b. /\ thread[t].outcome # "none"
        /\ thread[t].outcome \in RunStatuses \ {"running"}
    BY <1>15, <2>a, RequestFields DEF UpdateRun, At, WellFormed, Reporting
  <2> DEFINE req == [thread[t] EXCEPT !.pc = "read_document"]
  <2>1. WellFormed(req)
    BY <1>a, <1>15, <2>a, <2>b, UpdatedWellFormed DEF UpdateRun, At, Locations, Reporting, RunStatuses, TablesOK, Goto
  <2>2. TablesOK'
    BY <1>a, <1>15, <2>a, <2>b DEF TablesOK, UpdateRun, database
  <2>3. Become(t, req)
    BY <1>15 DEF UpdateRun, Goto
  <2> QED
    BY <2>1, <2>2, <2>3, StepTyped
<1>16. ASSUME NEW t \in Threads, RecordFailure(t) PROVE TypeInv'
  <2>a. /\ WellFormed(thread[t])
        /\ thread[t].pc # "idle" /\ thread[t].run \in Runs
    BY <1>a, <1>16 DEF RecordFailure, At, WellFormed
  <2> DEFINE req == [thread[t] EXCEPT !.pc = "read_document", !.outcome = "failed"]
  <2>1. WellFormed(req)
    BY <1>a, <1>16, <2>a, UpdatedWellFormed DEF RecordFailure, At, Locations, Reporting, RunStatuses, TablesOK
  <2>2. TablesOK'
    BY <1>a, <1>16, <2>a 
       DEF TablesOK, RecordFailure, FailureStatus, RunStatuses
  <2>3. Become(t, req)
    BY <1>16 DEF RecordFailure
  <2> QED
    BY <2>1, <2>2, <2>3, StepTyped
<1>17. ASSUME NEW t \in Threads, SyncDocument(t) PROVE TypeInv'
  <2>a. /\ WellFormed(thread[t])
        /\ thread[t].pc # "idle" /\ thread[t].run \in Runs
    BY <1>a, <1>17 DEF SyncDocument, At, WellFormed
  <2>b. /\ thread[t].outcome # "none"
        /\ thread[t].outcome \in RunStatuses \ {"running"}
    BY <1>17, <2>a, RequestFields DEF SyncDocument, At, WellFormed, Reporting
  <2> DEFINE req == [thread[t] EXCEPT !.pc = "sync_version"]
             d   == DocumentOf[thread[t].run]
  <2>1. WellFormed(req)
    BY <2>a, <2>b, UpdatedWellFormed DEF Locations, Reporting
  <2>c. d \in Docs /\ document[d] \in DocumentRows
    BY <1>a, <2>a, RunsAssumption DEF TablesOK, RunsAssumption
  <2>d. document'[d] \in DocumentRows /\ document' = [document EXCEPT ![d] = document'[d]]
    <3>1. PICK s \in {thread[t].outcome, document[d].status},
               q \in {thread[t].run, document[d].latest},
               r \in {thread[t].run, document[d].current} :
               document' = [document EXCEPT ![d] =
                              [status |-> s, latest |-> q, current |-> r]]
      BY <1>17, <1>a, <2>a, <2>c DEF SyncDocument, SyncedDocument, TablesOK
    <3>2. s \in DocStatuses /\ q \in Runs \cup {NoRun} /\ r \in Runs \cup {NoRun}
      BY <2>a, <2>b, <2>c DEF DocumentRows, DocStatuses
    <3> QED
      BY <1>a, <2>c, <3>1, <3>2, UpdatedRows DEF TablesOK
  <2>2. TablesOK'
    BY <1>a, <1>17, <2>c, <2>d DEF TablesOK, SyncDocument
  <2>3. Become(t, req)
    BY <1>17 DEF SyncDocument, Goto
  <2> QED
    BY <2>1, <2>2, <2>3, StepTyped
<1>18. ASSUME NEW t \in Threads, SyncVersion(t) PROVE TypeInv'
  <2>a. /\ WellFormed(thread[t])
        /\ thread[t].pc # "idle" /\ thread[t].run \in Runs
    BY <1>a, <1>18 DEF SyncVersion, At, WellFormed
  <2>b. /\ thread[t].outcome # "none"
        /\ thread[t].outcome \in RunStatuses \ {"running"}
    BY <1>18, <2>a, RequestFields DEF SyncVersion, At, WellFormed, Reporting
  <2> DEFINE req == [thread[t] EXCEPT !.pc = "refresh_version"]
  <2>1. WellFormed(req)
    BY <1>a, <1>18, <2>a, <2>b, UpdatedWellFormed DEF SyncVersion, At, Locations, Reporting, RunStatuses, TablesOK, Goto
  <2>2. TablesOK'
    BY <1>a, <1>18, <2>a, <2>b DEF TablesOK, SyncVersion, database, DocStatuses, VersionRows
  <2>3. Become(t, req)
    BY <1>18 DEF SyncVersion, Goto
  <2> QED
    BY <2>1, <2>2, <2>3, StepTyped
<1>19. ASSUME NEW t \in Threads, ReadVersions(t) PROVE TypeInv'
  <2>a. /\ WellFormed(thread[t])
        /\ thread[t].pc # "idle" /\ thread[t].run \in Runs
    BY <1>a, <1>19 DEF ReadVersions, At, WellFormed
  <2> DEFINE req == [thread[t] EXCEPT !.pc = "deactivate",
                         !.seen = @ \cup OtherActiveVersions(thread[t].run)]
  <2>1. WellFormed(req)
    <3>1. thread[t].seen \cup OtherActiveVersions(thread[t].run) \in SUBSET Runs
      BY <2>a, RequestFields DEF OtherActiveVersions
    <3> QED
      BY <2>a, <3>1, UpdatedWellFormed
  <2>2. TablesOK'
    BY <1>a, <1>19, <2>a DEF TablesOK, ReadVersions, database
  <2>3. Become(t, req)
    BY <1>19 DEF ReadVersions
  <2> QED
    BY <2>1, <2>2, <2>3, StepTyped
<1>20. ASSUME NEW t \in Threads, DeactivateOthers(t) PROVE TypeInv'
  <2>a. /\ WellFormed(thread[t])
        /\ thread[t].pc # "idle" /\ thread[t].run \in Runs
    BY <1>a, <1>20 DEF DeactivateOthers, At, WellFormed
  <2> DEFINE req == IF t \in Loops THEN IdleThread
                    ELSE [thread[t] EXCEPT !.pc = "read_approval"]
  <2>1. WellFormed(req)
    BY <2>a, UpdatedWellFormed, IdleWellFormed DEF Locations, Reporting
  <2>b. \A q \in Runs : version[q] \in VersionRows
    BY <1>a DEF TablesOK
  <2>c. \A q \in Runs : (q = thread[t].run) \in BOOLEAN
    OBVIOUS
  <2>d. version' \in [Runs -> VersionRows]
    BY <1>20, <2>b, <2>c, UpdatedRows DEF DeactivateOthers
  <2>2. TablesOK'
    BY <1>a, <1>20, <2>d DEF TablesOK, DeactivateOthers
  <2>3. Become(t, req)
    BY <1>20 DEF DeactivateOthers, Goto, Reset
  <2> QED
    BY <2>1, <2>2, <2>3, StepTyped
<1>21. ASSUME NEW t \in Threads, ReadApproval(t) PROVE TypeInv'
  <2>a. WellFormed(thread[t]) /\ thread[t].pc # "idle"
    BY <1>a, <1>21 DEF ReadApproval, At
  <2> DEFINE req == IF Resolvable(thread[t].run) THEN [thread[t] EXCEPT !.pc = "resolve"]
                    ELSE IdleThread
  <2>1. WellFormed(req)
    BY <2>a, UpdatedWellFormed, IdleWellFormed DEF Locations, Reporting
  <2>2. TablesOK'
    BY <1>a, <1>21 DEF TablesOK, ReadApproval, database
  <2>3. Become(t, req)
    BY <1>21 DEF ReadApproval, Goto, Reset
  <2> QED
    BY <2>1, <2>2, <2>3, StepTyped
<1>22. ASSUME NEW t \in Threads, ResolveApproval(t) PROVE TypeInv'
  <2>a. thread[t].run \in Runs
    BY <1>a, <1>22 DEF ResolveApproval, At, WellFormed
  <2>b. Resolution(thread[t].payload) \in {"approved", "rejected", "edited"}
    BY DEF Resolution
  <2>2. TablesOK'
    BY <1>a, <1>22, <2>a, <2>b DEF TablesOK, ResolveApproval
  <2> QED
    BY <1>22, <2>2, IdleWellFormed, StepTyped DEF ResolveApproval, Reset
<1>23. ASSUME NEW t \in Loops, NEW r \in Runs, CreateRun(t, r) PROVE TypeInv'
  <2> DEFINE req == [IdleThread EXCEPT !.pc = "mark_document", !.run = r]
  <2>1. WellFormed(req)
    BY IdleWellFormed DEF WellFormed, RequestStates, Locations, Reporting
  <2>2. TablesOK'
    BY <1>a, <1>23 DEF TablesOK, CreateRun, RunStatuses
  <2> QED
    BY <1>23, <2>1, <2>2, StepTyped DEF CreateRun, Threads
<1>24. ASSUME NEW t \in Workers, NEW r \in Runs, NEW p \in Decisions,
              AcceptDecision(t, r, p) PROVE TypeInv'
  <2> DEFINE req == [IdleThread EXCEPT !.pc = "load", !.run = r, !.payload = p]
  <2>a. p \in Payloads
    BY DecisionsAssumption DEF DecisionsAssumption
  <2>1. WellFormed(req)
    BY <2>a, IdleWellFormed DEF WellFormed, RequestStates, Locations, Reporting
  <2>2. TablesOK'
    BY <1>a, <1>24, <2>a DEF TablesOK, AcceptDecision, database
  <2> QED
    BY <1>24, <2>1, <2>2, StepTyped DEF AcceptDecision, Threads
<1>25. ASSUME Crash PROVE TypeInv'
  <2>1. crashes' \in 0..MaxCrashes
    BY <1>a, <1>25, CrashAssumption DEF TablesOK, Crash, CrashAssumption
  <2>2. TablesOK'
    BY <1>a, <1>25, <2>1 DEF TablesOK, Crash, database
  <2> QED
    BY <1>25, <2>2, IdleWellFormed
       DEF Crash, TypeInv, TypeOK, TablesOK, WellFormed, GraphStates, RequestStates
<1>27. ASSUME NEW t \in Threads, ReadDocument(t) PROVE TypeInv'
  <2>a. /\ WellFormed(thread[t])
        /\ thread[t].pc # "idle" /\ thread[t].run \in Runs /\ thread[t].outcome # "none"
    BY <1>a, <1>27 DEF ReadDocument, At, WellFormed, Reporting
  <2>b. PICK c \in SUBSET {"status", "latest", "current"} :
          Become(t, [thread[t] EXCEPT !.pc = "sync_document", !.changes = c])
    BY <1>27 DEF ReadDocument
  <2>1. WellFormed([thread[t] EXCEPT !.pc = "sync_document", !.changes = c])
    BY <2>a, UpdatedWellFormed
  <2>2. TablesOK'
    BY <1>a, <1>27 DEF TablesOK, ReadDocument, database
  <2> QED
    BY <2>b, <2>1, <2>2, StepTyped
<1>28. ASSUME NEW t \in Threads, RefreshVersion(t) PROVE TypeInv'
  <2>a. /\ WellFormed(thread[t])
        /\ thread[t].pc # "idle" /\ thread[t].run \in Runs
    BY <1>a, <1>28 DEF RefreshVersion, At, WellFormed
  <2>b. PICK v \in SUBSET Runs :
          Become(t, [thread[t] EXCEPT !.pc = "read_versions", !.seen = v])
    BY <1>28, <2>a DEF RefreshVersion
  <2>1. WellFormed([thread[t] EXCEPT !.pc = "read_versions", !.seen = v])
    BY <2>a, UpdatedWellFormed
  <2>2. TablesOK'
    BY <1>a, <1>28 DEF TablesOK, RefreshVersion, database
  <2> QED
    BY <2>b, <2>1, <2>2, StepTyped
<1>26. ASSUME UNCHANGED vars PROVE TypeInv'
  BY <1>26 DEF vars, database, TypeInv, TypeOK, WellFormed, GraphStates, RequestStates
<1> QED
  BY <1>1, <1>2, <1>3, <1>4, <1>5, <1>6, <1>7, <1>8, <1>9, <1>10, <1>11, <1>12, <1>13,
     <1>14, <1>15, <1>16, <1>17, <1>18, <1>19, <1>20, <1>21, <1>22, <1>23, <1>24,
     <1>25, <1>26, <1>27, <1>28 DEF Next, Proceed

\* Initially everything is within its type.
LEMMA TypeInit == Init => TypeInv
<1>1. ASSUME Init PROVE TypeInv
  <2>1. TablesOK
    BY <1>1, InitialTyped, CrashAssumption
       DEF Init, TablesOK, CrashAssumption, DocumentRows, VersionRows, DraftRows,
           DocStatuses, NoRun
  <2> QED
    BY <1>1, <2>1, IdleWellFormed DEF Init, TablesOK, TypeOK, TypeInv, WellFormed
<1> QED
  BY <1>1

\* Rows, checkpoints and requests hold values of the code's enumerations, in every
\* deployment.
THEOREM TypeCorrect == Spec => []TypeOK
<1>1. TypeInv => TypeOK
  BY DEF TypeInv
<1> QED
  BY <1>1, TypeInit, TypeInductive, PTL DEF Spec

\* The steps that only read rows change nothing but what the request knows of them.
LEMMA ReadSteps ==
  ASSUME TypeInv, NEW t \in Threads, ReadDocument(t) \/ RefreshVersion(t) \/ ReadVersions(t)
  PROVE  /\ <<thread[t].pc, thread'[t].pc>> \in
                {<<"read_document", "sync_document">>, <<"refresh_version", "read_versions">>,
                 <<"read_versions", "deactivate">>}
         /\ thread'[t].run = thread[t].run /\ thread'[t].payload = thread[t].payload
         /\ thread'[t].outcome = thread[t].outcome /\ thread'[t].graph = thread[t].graph
         /\ thread'[t].saved = thread[t].saved
         /\ \A u \in Threads : u # t => thread'[u] = thread[u]
         /\ UNCHANGED <<database, checkpoint, executed, verdicts, crashes>>
<1>a. thread \in [Threads -> RequestStates] /\ thread[t] \in RequestStates
  BY DEF TypeInv, TypeOK
<1>1. CASE ReadDocument(t)
  <2>1. PICK c : Become(t, [thread[t] EXCEPT !.pc = "sync_document", !.changes = c])
    BY <1>1 DEF ReadDocument
  <2> QED
    BY <1>a, <1>1, <2>1 DEF ReadDocument, At, Become, RequestStates
<1>2. CASE RefreshVersion(t)
  <2>1. PICK v : Become(t, [thread[t] EXCEPT !.pc = "read_versions", !.seen = v])
    BY <1>2 DEF RefreshVersion
  <2> QED
    BY <1>a, <1>2, <2>1 DEF RefreshVersion, At, Become, RequestStates
<1>3. CASE ReadVersions(t)
  <2>1. PICK v : Become(t, [thread[t] EXCEPT !.pc = "deactivate", !.seen = v])
    BY <1>3 DEF ReadVersions
  <2> QED
    BY <1>a, <1>3, <2>1 DEF ReadVersions, At, Become, RequestStates
<1> QED
  BY <1>1, <1>2, <1>3

-----------------------------------------------------------------------------
(* Humans stay in control *)

ControlInv == TypeInv /\ HumanControlInv

-----------------------------------------------------------------------------
(* What moves through the graph stays justified *)

\* A run starts, and a request is idle, without a decision.
LEMMA JustifiedAtFirst ==
  ASSUME NEW V
  PROVE  Justified(V, InitialState) /\ Justified(V, NoCheckpoint)
  BY DEF Justified, InitialState, NoCheckpoint

\* The absence of a decision approves, rejects and edits nothing.
LEMMA NoPayloadUnfavourable ==
  ~Favourable(NoPayload) /\ NoPayload.action # "reject" /\ ~NoPayload.edits
  BY DEF Favourable, NoPayload

\* No node leads to approve_run or reject_run by itself: only a decision does.
LEMMA NodeAfterNode ==
  ASSUME NEW n
  PROVE  /\ n \in Analysis => NodeAfter(n) \notin {"approve_run", "reject_run", "END"}
         /\ n \notin Analysis => NodeAfter(n) = "END"
  BY DEF NodeAfter, Analysis

\* The fields of an advanced state.
LEMMA AdvancedFields ==
  ASSUME NEW g \in GraphStates, NEW final
  PROVE  /\ Advanced(g, final).next = NodeAfter(g.next)
         /\ Advanced(g, final).decision = g.decision
         /\ Advanced(g, final).final = final
  BY DEF Advanced, GraphStates

\* A node keeps the state justified; approve_run and reject_run set the final action
\* of the decision that led to them.
LEMMA JustifiedAdvanced ==
  ASSUME NEW V, NEW g \in GraphStates, Justified(V, g)
  PROVE  /\ g.next \in Analysis => Justified(V, Advanced(g, g.final))
         /\ g.next = "approve_run" => Justified(V, Advanced(g, "approved"))
         /\ g.next = "reject_run" => Justified(V, Advanced(g, "rejected"))
<1>1. ASSUME g.next \in Analysis PROVE Justified(V, Advanced(g, g.final))
  <2>1. g.next # "END"
    BY <1>1 DEF Analysis
  <2> QED
    BY <1>1, <2>1, AdvancedFields, NodeAfterNode DEF Justified
<1>2. ASSUME g.next = "approve_run" PROVE Justified(V, Advanced(g, "approved"))
  BY <1>2, AdvancedFields, NodeAfterNode DEF Justified, Analysis
<1>3. ASSUME g.next = "reject_run" PROVE Justified(V, Advanced(g, "rejected"))
  BY <1>3, AdvancedFields, NodeAfterNode DEF Justified, Analysis
<1> QED
  BY <1>1, <1>2, <1>3

\* A submitted decision justifies the route it takes.
LEMMA JustifiedDecided ==
  ASSUME NEW V, NEW g \in GraphStates, Justified(V, g), g.next = "human_review",
         NEW p \in V, p \in Payloads
  PROVE  Justified(V, [g EXCEPT !.next = Route(p), !.decision = p])
<1> DEFINE h == [g EXCEPT !.next = Route(p), !.decision = p]
<1>1. h.next = Route(p) /\ h.decision = p /\ h.final = g.final
  BY DEF GraphStates
<1>2. /\ Route(p) = "approve_run" => Favourable(p)
      /\ Route(p) = "reject_run" => p.action = "reject"
      /\ Route(p) # "END"
  BY DEF Route, Favourable, Payloads
<1>3. g.final = "none"
  BY DEF Justified
<1> HIDE DEF h
<1>4. Justified(V, h)
  BY <1>1, <1>2, <1>3 DEF Justified
<1> QED
  BY <1>4 DEF h

\* More decisions justify no less.
LEMMA JustifiedMonotone ==
  ASSUME NEW V, NEW W, V \subseteq W, NEW g, Justified(V, g)
  PROVE  Justified(W, g)
  BY DEF Justified

-----------------------------------------------------------------------------
(* What a request carries stays backed by the submitted decisions *)

\* An idle thread works on no run.
LEMMA BackedIdle == ASSUME NEW V PROVE Backed(V, IdleThread)
<1>1. IdleThread.run = NoRun /\ NoRun \notin Runs
  BY RunsAssumption DEF IdleThread, RunsAssumption
<1> QED
  BY <1>1 DEF Backed

\* Updating a request that is backed.
LEMMA BackedUpdated ==
  ASSUME NEW V, NEW req, WellFormed(req), req.pc # "idle", Backed(V, req)
  PROVE  /\ \A pc : Backed(V, [req EXCEPT !.pc = pc])
         /\ Backed(V, [req EXCEPT !.saved = TRUE])
         /\ \A pc, o : (o = "approved" => \E p \in V[req.run] : Favourable(p))
                         => Backed(V, [req EXCEPT !.pc = pc, !.outcome = o])
         /\ \A g : Justified(V[req.run], g)
                     => Backed(V, [req EXCEPT !.pc = "graph", !.graph = g])
         /\ \A g : Justified(V[req.run], g)
                     => Backed(V, [req EXCEPT !.pc = "graph", !.graph = g,
                                              !.saved = FALSE])
         /\ \A pc, v : Backed(V, [req EXCEPT !.pc = pc, !.seen = v])
         /\ \A pc, c : Backed(V, [req EXCEPT !.pc = pc, !.changes = c])
  BY DEF Backed, WellFormed, RequestStates

\* A step of one request that writes neither a run status nor a draft.
LEMMA StepBacked ==
  ASSUME HumanControlInv, thread \in [Threads -> RequestStates],
         NEW t \in Threads, NEW req, Become(t, req), Backed(verdicts, req),
         UNCHANGED verdicts, HumanControl',
         \A r \in Runs : Justified(verdicts[r], checkpoint'[r])
  PROVE  HumanControlInv'
  BY DEF HumanControlInv, Become

\* Steps that leave runs, drafts and decisions alone keep control.
LEMMA ControlUnchanged ==
  ASSUME HumanControlInv, UNCHANGED <<runStatus, draft, verdicts>>
  PROVE  HumanControl'
  BY DEF HumanControlInv, HumanControl

-----------------------------------------------------------------------------
(* Every step *)

\* A step of a request preserves the invariant.
LEMMA ProceedControl ==
  ASSUME ControlInv, NEW t \in Threads, Proceed(t)
  PROVE  HumanControlInv'
<1>a. /\ WellFormed(thread[t]) /\ Backed(verdicts, thread[t])
      /\ thread \in [Threads -> RequestStates] /\ HumanControlInv
      /\ \A r \in Runs : Justified(verdicts[r], checkpoint[r])
  BY DEF ControlInv, HumanControlInv, TypeInv, TypeOK
<1>b. thread[t].graph \in GraphStates
  BY <1>a, RequestFields
<1>c. ASSUME thread[t].pc # "idle"
      PROVE  /\ thread[t].run \in Runs
             /\ Justified(verdicts[thread[t].run], thread[t].graph)
  BY <1>a, <1>c DEF WellFormed, Backed
<1>d. /\ draft \in [Runs -> DraftRows] /\ runStatus \in [Runs -> {"none"} \cup RunStatuses]
      /\ HumanControl
  BY DEF ControlInv, HumanControlInv, TypeInv, TypeOK
<1>1. ASSUME MarkDocument(t) PROVE HumanControlInv'
  <2> DEFINE req == [thread[t] EXCEPT !.pc = "mark_version"]
  <2>1. Backed(verdicts, req)
    BY <1>a, <1>b, <1>c, <1>1, BackedUpdated DEF MarkDocument, At, Goto
  <2> QED
    BY <1>a, <1>1, <2>1, StepBacked, ControlUnchanged DEF MarkDocument, database, At, Goto
<1>2. ASSUME MarkVersion(t) PROVE HumanControlInv'
  <2> DEFINE req == [thread[t] EXCEPT !.pc = "extract"]
  <2>1. Backed(verdicts, req)
    BY <1>a, <1>b, <1>c, <1>2, BackedUpdated DEF MarkVersion, At, Goto
  <2> QED
    BY <1>a, <1>2, <2>1, StepBacked, ControlUnchanged DEF MarkVersion, database, At, Goto
<1>3. ASSUME Extract(t) PROVE HumanControlInv'
  <2> DEFINE req == [thread[t] EXCEPT !.pc = "graph", !.graph = InitialState,
                                    !.saved = FALSE]
  <2>1. Backed(verdicts, req)
    BY <1>a, <1>b, <1>c, <1>3, BackedUpdated, JustifiedAtFirst DEF Extract, At, Continue
  <2> QED
    BY <1>a, <1>3, <2>1, StepBacked, ControlUnchanged DEF Extract, database, At, Continue
<1>4. ASSUME ExtractRaises(t) PROVE HumanControlInv'
  <2> DEFINE req == IdleThread
  <2>1. Backed(verdicts, req)
    BY <1>a, <1>b, <1>c, <1>4, BackedIdle DEF ExtractRaises, Reset
  <2> QED
    BY <1>a, <1>4, <2>1, StepBacked, ControlUnchanged DEF ExtractRaises, database, Reset
<1>5. ASSUME LoadCheckpoint(t) PROVE HumanControlInv'
  <2> DEFINE req == [thread[t] EXCEPT !.pc = "graph",
                                    !.graph = checkpoint[thread[t].run]]
  <2>1. Backed(verdicts, req)
    BY <1>a, <1>b, <1>c, <1>5, BackedUpdated DEF LoadCheckpoint, At, StateToResume
  <2> QED
    BY <1>a, <1>5, <2>1, StepBacked, ControlUnchanged DEF LoadCheckpoint, database, At, StateToResume
<1>6. ASSUME Pause(t) PROVE HumanControlInv'
  <2> DEFINE req == [thread[t] EXCEPT !.pc = "approval", !.outcome = "waiting_approval"]
  <2>1. Backed(verdicts, req)
    BY <1>a, <1>b, <1>c, <1>6, BackedUpdated DEF Pause, At, StreamEnded
  <2> QED
    BY <1>a, <1>6, <2>1, StepBacked, ControlUnchanged DEF Pause, database, At, StreamEnded
<1>7. ASSUME CreateApproval(t) PROVE HumanControlInv'
  <2> DEFINE req == [thread[t] EXCEPT !.pc = "update_run"]
  <2>1. Backed(verdicts, req)
    BY <1>a, <1>b, <1>c, <1>7, BackedUpdated DEF CreateApproval, At, Goto
  <2> QED
    BY <1>a, <1>7, <2>1, StepBacked, ControlUnchanged DEF CreateApproval, database, At, Goto
<1>8. ASSUME SyncDocument(t) PROVE HumanControlInv'
  <2> DEFINE req == [thread[t] EXCEPT !.pc = "sync_version"]
  <2>1. Backed(verdicts, req)
    BY <1>a, <1>b, <1>c, <1>8, BackedUpdated DEF SyncDocument, At, Goto
  <2> QED
    BY <1>a, <1>8, <2>1, StepBacked, ControlUnchanged DEF SyncDocument, database, At, Goto
<1>9. ASSUME SyncVersion(t) PROVE HumanControlInv'
  <2> DEFINE req == [thread[t] EXCEPT !.pc = "refresh_version"]
  <2>1. Backed(verdicts, req)
    BY <1>a, <1>b, <1>c, <1>9, BackedUpdated DEF SyncVersion, At, Goto
  <2> QED
    BY <1>a, <1>9, <2>1, StepBacked, ControlUnchanged DEF SyncVersion, database, At, Goto
<1>10. ASSUME ReadVersions(t) PROVE HumanControlInv'
  <2> DEFINE req == [thread[t] EXCEPT !.pc = "deactivate",
                                    !.seen = @ \cup OtherActiveVersions(thread[t].run)]
  <2>1. Backed(verdicts, req)
    BY <1>a, <1>b, <1>c, <1>10, BackedUpdated DEF ReadVersions, At
  <2> QED
    BY <1>a, <1>10, <2>1, StepBacked, ControlUnchanged DEF ReadVersions, database, At
<1>11. ASSUME DeactivateOthers(t) PROVE HumanControlInv'
  <2> DEFINE req == IF t \in Loops THEN IdleThread
                    ELSE [thread[t] EXCEPT !.pc = "read_approval"]
  <2>1. Backed(verdicts, req)
    BY <1>a, <1>b, <1>c, <1>11, BackedUpdated, BackedIdle DEF DeactivateOthers, At, Goto, Reset
  <2> QED
    BY <1>a, <1>11, <2>1, StepBacked, ControlUnchanged DEF DeactivateOthers, database, At, Goto, Reset
<1>12. ASSUME ReadApproval(t) PROVE HumanControlInv'
  <2> DEFINE req == IF Resolvable(thread[t].run) THEN [thread[t] EXCEPT !.pc = "resolve"]
                    ELSE IdleThread
  <2>1. Backed(verdicts, req)
    BY <1>a, <1>b, <1>c, <1>12, BackedUpdated, BackedIdle DEF ReadApproval, At, Goto, Reset
  <2> QED
    BY <1>a, <1>12, <2>1, StepBacked, ControlUnchanged DEF ReadApproval, database, At, Goto, Reset
<1>13. ASSUME ResolveApproval(t) PROVE HumanControlInv'
  <2> DEFINE req == IdleThread
  <2>1. Backed(verdicts, req)
    BY <1>a, <1>b, <1>c, <1>13, BackedIdle DEF ResolveApproval, Reset
  <2> QED
    BY <1>a, <1>13, <2>1, StepBacked, ControlUnchanged DEF ResolveApproval, database, Reset
<1>14. ASSUME HumanReview(t) PROVE HumanControlInv'
  <2> DEFINE g == [thread[t].graph EXCEPT !.next = Route(thread[t].payload),
                                          !.decision = thread[t].payload]
             req == [thread[t] EXCEPT !.pc = "graph", !.graph = g, !.saved = FALSE]
  <2>1. /\ thread[t].pc # "idle" /\ thread[t].graph.next = "human_review"
        /\ thread[t].payload \in verdicts[thread[t].run]
    BY <1>a, <1>c, <1>14 DEF HumanReview, NodeReady, At, Backed
  <2>2. thread[t].payload \in Payloads
    BY <1>a, <1>14, RequestFields DEF HumanReview
  <2>3. Justified(verdicts[thread[t].run], g)
    BY <1>b, <1>c, <2>1, <2>2, JustifiedDecided
  <2> HIDE DEF g
  <2>4. Backed(verdicts, req)
    BY <1>a, <2>1, <2>3, BackedUpdated
  <2>5. Become(t, req) /\ UNCHANGED <<database, checkpoint, verdicts>>
    BY <1>14 DEF HumanReview, Continue, g
  <2> QED
    BY <1>a, <2>4, <2>5, StepBacked, ControlUnchanged DEF database
<1>15. ASSUME SaveCheckpoint(t) PROVE HumanControlInv'
  <2> DEFINE req == [thread[t] EXCEPT !.saved = TRUE]
  <2>1. thread[t].pc # "idle"
    BY <1>15 DEF SaveCheckpoint
  <2>2. Backed(verdicts, req)
    BY <1>a, <2>1, BackedUpdated
  <2>3. \A r \in Runs : Justified(verdicts[r], checkpoint'[r])
    BY <1>a, <1>c, <1>15, <2>1 DEF SaveCheckpoint, ControlInv, TypeInv, TypeOK
  <2> QED
    BY <1>a, <1>15, <2>2, <2>3, StepBacked, ControlUnchanged DEF SaveCheckpoint, database
<1>16. ASSUME GetState(t) PROVE HumanControlInv'
  <2> DEFINE o == FinalStatus(checkpoint[thread[t].run].final)
             req == [thread[t] EXCEPT !.pc = "update_run", !.outcome = o]
  <2>1. thread[t].pc # "idle"
    BY <1>16 DEF GetState, StreamEnded, At
  <2>2. o = "approved" => \E p \in verdicts[thread[t].run] : Favourable(p)
    BY <1>a, <1>c, <2>1, NoPayloadUnfavourable DEF FinalStatus, Justified
  <2> HIDE DEF o
  <2>3. Backed(verdicts, req)
    BY <1>a, <2>1, <2>2, BackedUpdated
  <2>4. Become(t, req) /\ UNCHANGED <<database, checkpoint, verdicts>>
    BY <1>16 DEF GetState, o
  <2> QED
    BY <1>a, <2>3, <2>4, StepBacked, ControlUnchanged DEF database
<1>17. ASSUME UpdateRun(t) PROVE HumanControlInv'
  <2> DEFINE req == [thread[t] EXCEPT !.pc = "read_document"]
  <2>1. thread[t].pc # "idle"
    BY <1>17 DEF UpdateRun, At
  <2>2. Backed(verdicts, req)
    BY <1>a, <2>1, BackedUpdated
  <2>3. HumanControl'
    BY <1>a, <1>c, <1>d, <1>17, <2>1 DEF UpdateRun, HumanControl, Backed
  <2> QED
    BY <1>a, <1>17, <2>2, <2>3, StepBacked DEF UpdateRun, Goto
<1>18. ASSUME RecordFailure(t) PROVE HumanControlInv'
  <2> DEFINE req == [thread[t] EXCEPT !.pc = "read_document", !.outcome = "failed"]
  <2>1. thread[t].pc # "idle"
    BY <1>18 DEF RecordFailure, At
  <2>2. Backed(verdicts, req)
    BY <1>a, <2>1, BackedUpdated
  <2>3. HumanControl'
    BY <1>d, <1>18 DEF RecordFailure, HumanControl, FailureStatus
  <2> QED
    BY <1>a, <1>18, <2>2, <2>3, StepBacked DEF RecordFailure
<1>23. ASSUME ReadDocument(t) PROVE HumanControlInv'
  <2>1. PICK c : Become(t, [thread[t] EXCEPT !.pc = "sync_document", !.changes = c])
    BY <1>23 DEF ReadDocument
  <2>2. Backed(verdicts, [thread[t] EXCEPT !.pc = "sync_document", !.changes = c])
    BY <1>a, <1>b, <1>c, <1>23, BackedUpdated DEF ReadDocument, At
  <2> QED
    BY <1>a, <1>23, <2>1, <2>2, StepBacked, ControlUnchanged DEF ReadDocument, database
<1>24. ASSUME RefreshVersion(t) PROVE HumanControlInv'
  <2>1. PICK v : Become(t, [thread[t] EXCEPT !.pc = "read_versions", !.seen = v])
    BY <1>24 DEF RefreshVersion
  <2>2. Backed(verdicts, [thread[t] EXCEPT !.pc = "read_versions", !.seen = v])
    BY <1>a, <1>b, <1>c, <1>24, BackedUpdated DEF RefreshVersion, At
  <2> QED
    BY <1>a, <1>24, <2>1, <2>2, StepBacked, ControlUnchanged DEF RefreshVersion, database
<1>19. ASSUME NEW n \in Analysis, AnalysisNode(t, n) PROVE HumanControlInv'
  <2> DEFINE g == Advanced(thread[t].graph, thread[t].graph.final)
             req == [thread[t] EXCEPT !.pc = "graph", !.graph = g, !.saved = FALSE]
  <2>1. thread[t].pc # "idle" /\ thread[t].graph.next = n
    BY <1>19 DEF AnalysisNode, NodeReady, At
  <2>2. Justified(verdicts[thread[t].run], g)
    BY <1>b, <1>c, <2>1, JustifiedAdvanced
  <2> HIDE DEF g
  <2>3. Backed(verdicts, req)
    BY <1>a, <2>1, <2>2, BackedUpdated
  <2>4. Become(t, req) /\ UNCHANGED <<runStatus, checkpoint, verdicts>>
    BY <1>19 DEF AnalysisNode, Continue, g
  <2>5. \/ draft' = draft
        \/ draft' = [draft EXCEPT ![thread[t].run] = WrittenDraft("create_draft")]
    BY <1>19, <2>1 DEF AnalysisNode, Drafts, Analysis
  <2>6. HumanControl'
    BY <1>d, <2>4, <2>5 DEF HumanControl, WrittenDraft
  <2> QED
    BY <1>a, <2>3, <2>4, <2>6, StepBacked
<1>20. ASSUME ApproveNode(t) PROVE HumanControlInv'
  <2> DEFINE g == Advanced(thread[t].graph, "approved")
             req == [thread[t] EXCEPT !.pc = "graph", !.graph = g, !.saved = FALSE]
  <2>1. thread[t].pc # "idle" /\ thread[t].graph.next = "approve_run"
    BY <1>20 DEF ApproveNode, NodeReady, At
  <2>2. Justified(verdicts[thread[t].run], g)
    BY <1>b, <1>c, <2>1, JustifiedAdvanced
  <2> HIDE DEF g
  <2>3. Backed(verdicts, req)
    BY <1>a, <2>1, <2>2, BackedUpdated
  <2>4. Become(t, req) /\ UNCHANGED <<runStatus, checkpoint, verdicts>>
    BY <1>20 DEF ApproveNode, Continue, g
  <2>5. HumanControl'
    BY <1>c, <1>d, <1>20, <2>1, NoPayloadUnfavourable
       DEF ApproveNode, HumanControl, WrittenDraft, Drafts, Justified
  <2> QED
    BY <1>a, <2>3, <2>4, <2>5, StepBacked
<1>21. ASSUME RejectNode(t) PROVE HumanControlInv'
  <2> DEFINE g == Advanced(thread[t].graph, "rejected")
             req == [thread[t] EXCEPT !.pc = "graph", !.graph = g, !.saved = FALSE]
  <2>1. thread[t].pc # "idle" /\ thread[t].graph.next = "reject_run"
    BY <1>21 DEF RejectNode, NodeReady, At
  <2>2. Justified(verdicts[thread[t].run], g)
    BY <1>b, <1>c, <2>1, JustifiedAdvanced
  <2> HIDE DEF g
  <2>3. Backed(verdicts, req)
    BY <1>a, <2>1, <2>2, BackedUpdated
  <2>4. Become(t, req) /\ UNCHANGED <<runStatus, checkpoint, verdicts>>
    BY <1>21 DEF RejectNode, Continue, g
  <2>5. \E p \in verdicts[thread[t].run] : p.action = "reject"
    BY <1>c, <2>1, NoPayloadUnfavourable DEF Justified
  <2>6. \A r \in Runs : /\ draft'[r].fields = draft[r].fields
                        /\ r # thread[t].run => draft'[r] = draft[r]
    BY <1>c, <1>d, <1>21, <2>1 DEF RejectNode, RejectedDraft, DraftRows
  <2>7. HumanControl'
    BY <1>c, <1>d, <2>1, <2>4, <2>5, <2>6 DEF HumanControl
  <2> QED
    BY <1>a, <2>3, <2>4, <2>7, StepBacked
<1>22. ASSUME NodeRaises(t) PROVE HumanControlInv'
  <2> DEFINE req == [thread[t] EXCEPT !.pc = "fail"]
  <2>1. thread[t].pc # "idle"
    BY <1>22 DEF NodeRaises, At
  <2>2. Backed(verdicts, req)
    BY <1>a, <2>1, BackedUpdated
  <2>3. Become(t, req) /\ UNCHANGED <<runStatus, checkpoint, verdicts>>
    BY <1>22 DEF NodeRaises, Goto
  <2>4. CASE draft' = draft
    BY <1>a, <2>2, <2>3, <2>4, StepBacked, ControlUnchanged
  <2>5. CASE /\ draft' = [draft EXCEPT ![thread[t].run] = WrittenDraft(thread[t].graph.next)]
             /\ Drafts(thread[t].graph)
    <3>1. HumanControl'
      BY <1>c, <1>d, <2>1, <2>3, <2>5, NoPayloadUnfavourable
         DEF HumanControl, WrittenDraft, Drafts, Justified
    <3> QED
      BY <1>a, <2>2, <2>3, <3>1, StepBacked
  <2> QED
    BY <1>22, <2>4, <2>5 DEF NodeRaises
<1> QED
  BY <1>1, <1>2, <1>3, <1>4, <1>5, <1>6, <1>7, <1>8, <1>9, <1>10, <1>11, <1>12,
     <1>13, <1>14, <1>15, <1>16, <1>17, <1>18, <1>19, <1>20, <1>21, <1>22, <1>23, <1>24
     DEF Proceed

\* Every step keeps what happens to a run backed by a submitted decision: one case per
\* action.
LEMMA ControlInductive == ControlInv /\ [Next]_vars => ControlInv'
<1> SUFFICES ASSUME ControlInv, [Next]_vars PROVE ControlInv'
  OBVIOUS
<1>a. TypeInv /\ HumanControlInv /\ thread \in [Threads -> RequestStates]
      /\ verdicts \in [Runs -> SUBSET Payloads]
  BY DEF ControlInv, TypeInv, TypeOK
<1>b. TypeInv'
  BY <1>a, TypeInductive
<1>1. ASSUME NEW t \in Loops, NEW r \in Runs, CreateRun(t, r) PROVE HumanControlInv'
  <2> DEFINE req == [IdleThread EXCEPT !.pc = "mark_document", !.run = r]
  <2>1. Backed(verdicts, req)
    BY JustifiedAtFirst DEF Backed, IdleThread
  <2>2. HumanControl'
    BY <1>a, <1>1 DEF CreateRun, HumanControlInv, HumanControl, TypeInv, TypeOK
  <2> QED
    BY <1>a, <1>1, <2>1, <2>2, StepBacked DEF CreateRun, HumanControlInv, Threads
<1>2. ASSUME NEW t \in Workers, NEW r \in Runs, NEW p \in Decisions,
             AcceptDecision(t, r, p) PROVE HumanControlInv'
  <2> DEFINE req == [IdleThread EXCEPT !.pc = "load", !.run = r, !.payload = p]
  <2>1. /\ Become(t, req) /\ UNCHANGED <<database, checkpoint>>
        /\ verdicts' = [verdicts EXCEPT ![r] = @ \cup {p}]
    BY <1>2 DEF AcceptDecision
  <2>2. \A q \in Runs : verdicts[q] \subseteq verdicts'[q]
    BY <1>a, <2>1
  <2>3. HumanControl'
    BY <1>a, <2>1, <2>2 DEF HumanControlInv, HumanControl, database
  <2>4. \A q \in Runs : Justified(verdicts'[q], checkpoint'[q])
    BY <1>a, <2>1, <2>2, JustifiedMonotone DEF HumanControlInv
  <2>5. ASSUME NEW u \in Threads PROVE Backed(verdicts', thread'[u])
    <3>1. CASE u = t
      <4>1. thread'[t] = req
        BY <1>a, <2>1, BecomeFacts DEF Threads
      <4>2. req.run = r /\ req.payload = p /\ req.graph = NoCheckpoint
            /\ req.outcome = "none"
        BY DEF IdleThread
      <4>3. p \in verdicts'[r]
        BY <1>a, <2>1
      <4> QED
        BY <3>1, <4>1, <4>2, <4>3, JustifiedAtFirst DEF Backed
    <3>2. CASE u # t
      <4>1. thread'[u] = thread[u] /\ Backed(verdicts, thread[u])
        BY <1>a, <2>1, <3>2, BecomeFacts DEF HumanControlInv, Threads
      <4> QED
        BY <2>2, <4>1, JustifiedMonotone DEF Backed
    <3> QED
      BY <3>1, <3>2
  <2> QED
    BY <2>3, <2>4, <2>5 DEF HumanControlInv
<1>3. ASSUME Crash PROVE HumanControlInv'
  <2>1. UNCHANGED <<runStatus, draft, verdicts, checkpoint>>
        /\ \A t \in Threads : thread'[t] = IdleThread
    BY <1>3 DEF Crash, database
  <2> QED
    BY <1>a, <2>1, BackedIdle, ControlUnchanged DEF HumanControlInv
<1>4. ASSUME UNCHANGED vars PROVE HumanControlInv'
  BY <1>a, <1>4, ControlUnchanged DEF vars, database, HumanControlInv
<1>5. HumanControlInv'
  BY <1>1, <1>2, <1>3, <1>4, ProceedControl DEF Next
<1> QED
  BY <1>b, <1>5 DEF ControlInv

\* Initially no run is decided and no request holds a decision.
LEMMA ControlInit == Init => ControlInv
<1> SUFFICES ASSUME Init PROVE ControlInv
  OBVIOUS
<1>1. HumanControl
  BY DEF Init, HumanControl
<1>2. \A r \in Runs : Justified(verdicts[r], checkpoint[r])
  BY JustifiedAtFirst DEF Init
<1>3. \A t \in Threads : Backed(verdicts, thread[t])
  BY BackedIdle DEF Init
<1> QED
  BY <1>1, <1>2, <1>3, TypeInit DEF ControlInv, HumanControlInv

\* Whatever requests interleave and wherever the process dies, a run is approved, a
\* draft is edited and a draft is rejected only if a person submitted that.
THEOREM HumanControlHolds == Spec => []HumanControl
<1>1. ControlInv => HumanControl
  BY DEF ControlInv, HumanControlInv
<1> QED
  BY <1>1, ControlInit, ControlInductive, PTL DEF Spec

-----------------------------------------------------------------------------
(* What a person is asked about can be decided, and nothing of it runs twice *)

\* The analysis nodes that are still to come when n is next.
Ahead(n) ==
    CASE n = "extract_fields"       -> Analysis
      [] n = "supplier_lookup"      -> Analysis \ {"extract_fields"}
      [] n = "duplicate_check"      -> {"duplicate_check", "categorize_document",
                                        "calculate_confidence", "create_draft"}
      [] n = "categorize_document"  -> {"categorize_document", "calculate_confidence",
                                        "create_draft"}
      [] n = "calculate_confidence" -> {"calculate_confidence", "create_draft"}
      [] n = "create_draft"         -> {"create_draft"}
      [] OTHER                      -> {}

\* From here on only decisions move a run.
Reviewable == {"human_review", "approve_run", "reject_run", "END"}

Preparing == {"mark_document", "mark_version", "extract"}
Working   == Preparing \cup {"graph", "fail", "approval", "update_run"}

\* What start_run's request knows of its run: until it writes the status, nobody else
\* works on the run, and the nodes it has not reached were never executed.
Starts(req) ==
    LET r == req.run IN
    /\ req.payload = NoPayload
    /\ req.pc \notin {"load", "read_approval", "resolve"}
    /\ req.pc \in Working => runStatus[r] = "running"
    /\ req.pc \in Preparing => \A n \in Analysis : executed[r][n] = 0
    /\ req.pc = "graph" =>
           /\ req.graph.next \in Analysis \cup {"human_review"}
           /\ \A n \in Ahead(req.graph.next) : executed[r][n] = 0
           /\ req.graph.next = "human_review" => draft[r].status # "none"
           /\ req.saved => checkpoint[r] = req.graph
    /\ req.pc \in {"approval", "update_run"} =>
           /\ checkpoint[r].next \in Reviewable /\ draft[r].status # "none"
           /\ req.pc = "update_run" => approval[r] # "none"

\* What resume_run's request knows of its run: the analysis is over for good.
Resumes(req) ==
    LET r == req.run IN
    /\ req.payload # NoPayload /\ req.outcome # "waiting_approval"
    /\ req.pc \notin Preparing \cup {"approval"}
    /\ runStatus[r] \notin {"none", "running"}
    /\ checkpoint[r].next \in Reviewable
    /\ req.pc \in {"graph", "fail"} => req.graph.next \in Reviewable

Fits(t) == thread[t].pc # "idle" => IF t \in Loops THEN Starts(thread[t]) ELSE Resumes(thread[t])

\* What the rows of a run say about one another.
RowsFit(r) ==
    /\ runStatus[r] = "none" =>
           /\ \A n \in Analysis : executed[r][n] = 0
           /\ \A t \in Threads : thread[t].pc # "idle" => thread[t].run # r
    /\ \A n \in Analysis : executed[r][n] <= 1
    /\ runStatus[r] = "waiting_approval" =>
           /\ checkpoint[r].next \in Reviewable
           /\ draft[r].status # "none" /\ approval[r] # "none"

\* One request analyses a run.
StartedOnce == \A s, t \in Loops :
    thread[s].pc # "idle" /\ thread[t].pc # "idle" /\ thread[s].run = thread[t].run => s = t

ReviewInv == /\ \A t \in Threads : Fits(t)
             /\ \A r \in Runs : RowsFit(r)
             /\ StartedOnce

\* The nodes ahead, after one of them ran.
LEMMA AheadAfter ==
  ASSUME NEW n \in Analysis
  PROVE  /\ n \in Ahead(n) /\ Ahead(n) \subseteq Analysis
         /\ Ahead(NodeAfter(n)) = Ahead(n) \ {n}
         /\ NodeAfter(n) \in Analysis \cup {"human_review"}
         /\ NodeAfter(n) = "human_review" <=> n = "create_draft"
  BY DEF Ahead, Analysis, NodeAfter

\* Only request t changes, and it stays with its run.
Only(t) == /\ \A u \in Threads : u # t => thread'[u] = thread[u]
           /\ thread'[t].pc # "idle" => thread'[t].run = thread[t].run

\* The rows of no other run change.
OthersKept(r) == \A q \in Runs : q # r =>
    /\ runStatus'[q] = runStatus[q] /\ checkpoint'[q] = checkpoint[q]
    /\ executed'[q] = executed[q] /\ draft'[q] = draft[q] /\ approval'[q] = approval[q]

RunRows == <<runStatus, checkpoint, executed, draft, approval>>

\* A step that leaves the rows of the runs alone.
LEMMA QuietStep ==
  ASSUME TypeInv, ReviewInv, NEW t \in Threads, thread[t].pc # "idle", Only(t),
         UNCHANGED RunRows, Fits(t)'
  PROVE  ReviewInv'
<1> USE DEF RunRows
<1>1. ASSUME NEW u \in Threads PROVE Fits(u)'
  BY DEF Only, ReviewInv, Fits, Starts, Resumes
<1>2. ASSUME NEW r \in Runs PROVE RowsFit(r)'
  BY DEF Only, ReviewInv, RowsFit
<1>3. StartedOnce'
  BY DEF Only, ReviewInv, StartedOnce, Threads
<1> QED
  BY <1>1, <1>2, <1>3 DEF ReviewInv

\* Threads on other runs keep fitting, and threads that went keep gone.
LEMMA OthersFit ==
  ASSUME TypeInv, ReviewInv, NEW t \in Threads, NEW r \in Runs, thread[t].pc # "idle",
         thread[t].run = r, Only(t), OthersKept(r), RowsFit(r)'
  PROVE  /\ \A u \in Threads : u # t /\ thread[u].run # r => Fits(u)'
         /\ \A q \in Runs : RowsFit(q)'
         /\ StartedOnce'
<1>1. ASSUME NEW u \in Threads, u # t, thread[u].run # r PROVE Fits(u)'
  <2>1. thread'[u] = thread[u] /\ (thread[u].pc # "idle" => thread[u].run \in Runs)
    BY <1>1 DEF Only, TypeInv, WellFormed
  <2> QED
    BY <1>1, <2>1 DEF OthersKept, ReviewInv, Fits, Starts, Resumes
<1>2. ASSUME NEW q \in Runs PROVE RowsFit(q)'
  <2>1. CASE q = r
    BY <2>1
  <2>2. CASE q # r
    BY <2>2 DEF Only, OthersKept, ReviewInv, RowsFit
  <2> QED
    BY <2>1, <2>2
<1>3. StartedOnce'
  BY DEF Only, ReviewInv, StartedOnce, Threads
<1> QED
  BY <1>1, <1>2, <1>3

\* A step of start_run's request, alone with its run until it has written the status.
LEMMA LoopStep ==
  ASSUME TypeInv, ReviewInv, NEW t \in Loops, NEW r \in Runs, thread[t].pc \in Working,
         thread[t].run = r, Only(t), OthersKept(r), RowsFit(r)', Fits(t)'
  PROVE  ReviewInv'
<1>1. t \in Threads /\ thread[t].pc # "idle"
  BY DEF Threads, Working, Preparing
<1>2. runStatus[r] = "running"
  BY <1>1 DEF ReviewInv, Fits, Starts
<1>3. ASSUME NEW u \in Threads, u # t, thread[u].pc # "idle" PROVE thread[u].run # r
  BY <1>1, <1>2, <1>3 DEF ReviewInv, Fits, Resumes, StartedOnce
<1>4. ASSUME NEW u \in Threads, thread[u].pc = "idle", u # t PROVE Fits(u)'
  BY <1>4 DEF Only, Fits
<1> QED
  BY <1>1, <1>3, <1>4, OthersFit DEF ReviewInv

\* A step of resume_run's request: the others of the run are past the analysis too.
LEMMA WorkerStep ==
  ASSUME TypeInv, ReviewInv, NEW t \in Threads, NEW r \in Runs, t \notin Loops,
         thread[t].pc # "idle", thread[t].run = r, Only(t), OthersKept(r), RowsFit(r)',
         Fits(t)', runStatus'[r] \notin {"none", "running"}, checkpoint'[r].next \in Reviewable
  PROVE  ReviewInv'
<1>1. runStatus[r] \notin {"none", "running"}
  BY DEF ReviewInv, Fits, Resumes
<1>2. ASSUME NEW u \in Threads, u # t, thread[u].run = r PROVE Fits(u)'
  <2>1. thread'[u] = thread[u] /\ Fits(u)
    BY <1>2 DEF Only, ReviewInv
  <2>2. CASE u \in Loops
    BY <1>1, <1>2, <2>1, <2>2 DEF Fits, Starts, Working, Preparing
  <2>3. CASE u \notin Loops
    BY <1>2, <2>1, <2>3 DEF Fits, Resumes
  <2> QED
    BY <2>2, <2>3
<1> QED
  BY <1>2, OthersFit DEF ReviewInv

\* Only a request in progress proceeds.
LEMMA ProceedIsBusy ==
  ASSUME NEW t, Proceed(t)
  PROVE  thread[t].pc # "idle"
  BY DEF Proceed, MarkDocument, MarkVersion, Extract, ExtractRaises, LoadCheckpoint,
         AnalysisNode, HumanReview, ApproveNode, RejectNode, NodeRaises, SaveCheckpoint,
         Pause, GetState, StreamEnded, CreateApproval, UpdateRun, RecordFailure,
         ReadDocument, SyncDocument, SyncVersion, RefreshVersion, ReadVersions,
         DeactivateOthers, ReadApproval, ResolveApproval, NodeReady, At

\* Every step of a request keeps the rows and the requests fitting.
LEMMA ProceedFits ==
  ASSUME TypeInv, ReviewInv, NEW t \in Threads, Proceed(t)
  PROVE  ReviewInv'
<1> DEFINE req == thread[t]
<1>0. thread[t].pc # "idle"
  BY ProceedIsBusy
<1>a. /\ thread \in [Threads -> RequestStates] /\ req \in RequestStates
      /\ checkpoint \in [Runs -> GraphStates] /\ draft \in [Runs -> DraftRows]
      /\ runStatus \in [Runs -> {"none"} \cup RunStatuses]
      /\ approval \in [Runs -> {"none", "pending", "approved", "rejected", "edited"}]
      /\ executed \in [Runs -> [Analysis -> Nat]]
      /\ req.graph \in GraphStates /\ WellFormed(req)
  BY DEF TypeInv, TypeOK, RequestStates
<1>r. PICK r \in Runs : r = thread[t].run
  BY <1>0, <1>a DEF WellFormed
<1>f. /\ t \in Loops => Starts(req)
      /\ t \notin Loops => Resumes(req)
      /\ RowsFit(r)
  BY <1>0 DEF ReviewInv, Fits
<1>t. \A x : x \in Analysis => x \notin Reviewable
  BY DEF Analysis, Reviewable
<1>1. CASE MarkDocument(t) \/ MarkVersion(t)
  <2>1. t \in Loops
    BY <1>1, <1>f DEF MarkDocument, MarkVersion, At, Resumes, Preparing
  <2>2. /\ thread'[t].pc \in {"mark_version", "extract"} /\ req.pc \in Preparing
        /\ thread'[t].payload = req.payload /\ thread'[t].run = req.run
        /\ UNCHANGED RunRows /\ Only(t)
    BY <1>a, <1>1 DEF MarkDocument, MarkVersion, At, Goto, Become, RequestStates, Preparing,
       RunRows, Only
  <2>3. Fits(t)'
    BY <1>f, <2>1, <2>2 DEF Fits, Starts, Preparing, Working, RunRows
  <2> QED
    BY <1>0, <2>2, <2>3, QuietStep
<1>2. CASE Extract(t)
  <2>1. t \in Loops /\ req.pc \in Preparing
    BY <1>2, <1>f DEF Extract, At, Resumes, Preparing
  <2>2. /\ thread'[t].pc = "graph" /\ thread'[t].graph = InitialState
        /\ thread'[t].saved = FALSE
        /\ thread'[t].payload = req.payload /\ thread'[t].run = req.run
        /\ UNCHANGED RunRows /\ Only(t)
    BY <1>a, <1>2 DEF Extract, Continue, Become, RequestStates, RunRows, Only
  <2>3. InitialState.next = "extract_fields" /\ Ahead("extract_fields") = Analysis
        /\ "extract_fields" \in Analysis
    BY DEF InitialState, Ahead, Analysis
  <2>4. Fits(t)'
    BY <1>f, <2>1, <2>2, <2>3 DEF Fits, Starts, Preparing, Working, RunRows
  <2> QED
    BY <1>0, <2>2, <2>4, QuietStep
<1>3. CASE ExtractRaises(t)
  <2>1. thread'[t].pc = "idle" /\ UNCHANGED RunRows /\ Only(t)
    BY <1>a, <1>3 DEF ExtractRaises, Reset, Become, IdleThread, RunRows, Only, database
  <2> QED
    BY <1>0, <2>1, QuietStep DEF Fits
<1>4. CASE LoadCheckpoint(t)
  <2>1. t \notin Loops
    BY <1>4, <1>f DEF LoadCheckpoint, At, Starts
  <2>2. /\ thread'[t].pc = "graph" /\ thread'[t].graph = checkpoint[r]
        /\ thread'[t].payload = req.payload /\ thread'[t].run = req.run
        /\ thread'[t].outcome = req.outcome /\ UNCHANGED RunRows /\ Only(t)
    BY <1>a, <1>r, <1>4 DEF LoadCheckpoint, StateToResume, Become, RequestStates, RunRows,
       Only, database
  <2>3. Fits(t)'
    BY <1>f, <1>r, <2>1, <2>2 DEF Fits, Resumes, RunRows, Preparing
  <2> QED
    BY <1>0, <2>2, <2>3, QuietStep
<1>5. ASSUME NEW n \in Analysis, AnalysisNode(t, n) PROVE ReviewInv'
  <2>1. t \in Loops /\ req.pc = "graph" /\ req.graph.next = n
    BY <1>5, <1>f, <1>t DEF AnalysisNode, NodeReady, At, Resumes
  <2>2. PICK g : /\ Continue(t, g) /\ g.next = NodeAfter(n)
    BY <1>a, <1>5, <2>1, AdvancedFields DEF AnalysisNode
  <2>3. /\ thread'[t].pc = "graph" /\ thread'[t].graph = g /\ thread'[t].saved = FALSE
        /\ thread'[t].payload = req.payload /\ thread'[t].run = req.run /\ Only(t)
    BY <1>a, <2>2 DEF Continue, Become, RequestStates, Only
  <2>4. /\ executed' = [executed EXCEPT ![r][n] = @ + 1]
        /\ draft' = IF Drafts(req.graph) THEN [draft EXCEPT ![r] = WrittenDraft(n)] ELSE draft
        /\ UNCHANGED <<runStatus, approval, checkpoint>>
    BY <1>r, <1>5 DEF AnalysisNode
  <2>5. /\ \A m \in Analysis : executed'[r][m] = IF m = n THEN executed[r][n] + 1
                                                 ELSE executed[r][m]
        /\ \A q \in Runs : q # r => executed'[q] = executed[q]
    BY <1>a, <2>4
  <2>6. executed[r][n] = 0 /\ \A m \in Ahead(NodeAfter(n)) : executed'[r][m] = 0
    BY <1>f, <1>r, <2>1, <2>5, AheadAfter DEF Starts
  <2>7. /\ \A q \in Runs : q # r => draft'[q] = draft[q]
        /\ draft[r].status # "none" => draft'[r].status # "none"
        /\ n = "create_draft" => draft'[r].status # "none"
    BY <1>a, <2>1, <2>4 DEF Drafts, WrittenDraft
  <2>8. RowsFit(r)'
    <3>1. runStatus'[r] = "running"
      BY <1>f, <1>r, <2>1, <2>4 DEF Starts, Working
    <3>2. \A m \in Analysis : executed'[r][m] <= 1
      BY <1>f, <2>5, <2>6 DEF RowsFit
    <3> QED
      BY <3>1, <3>2 DEF RowsFit
  <2>9. Fits(t)'
    BY <1>f, <1>r, <2>1, <2>2, <2>3, <2>4, <2>6, <2>7, AheadAfter
       DEF Fits, Starts, Working, Preparing
  <2>10. OthersKept(r)
    BY <2>4, <2>5, <2>7 DEF OthersKept
  <2> QED
    BY <1>r, <2>1, <2>3, <2>8, <2>9, <2>10, LoopStep DEF Working
<1>6. CASE HumanReview(t)
  <2>1. t \notin Loops /\ req.pc = "graph"
    BY <1>6, <1>f DEF HumanReview, NodeReady, At, Starts
  <2>2. PICK g : Continue(t, g) /\ g.next = Route(req.payload)
    <3> DEFINE g == [req.graph EXCEPT !.next = Route(req.payload), !.decision = req.payload]
    <3>1. g.next = Route(req.payload)
      BY <1>a DEF GraphStates
    <3>2. Continue(t, g)
      BY <1>6 DEF HumanReview
    <3> HIDE DEF g
    <3> QED
      BY <3>1, <3>2
  <2>3. /\ thread'[t].pc = "graph" /\ thread'[t].graph = g
        /\ thread'[t].payload = req.payload /\ thread'[t].run = req.run
        /\ thread'[t].outcome = req.outcome /\ Only(t)
    BY <1>a, <2>2 DEF Continue, Become, RequestStates, Only
  <2>4. UNCHANGED RunRows
    BY <1>6 DEF HumanReview, RunRows, database
  <2>5. Fits(t)'
    BY <1>f, <2>1, <2>2, <2>3, <2>4 DEF Fits, Resumes, RunRows, Reviewable, Route, Preparing
  <2> QED
    BY <1>0, <2>3, <2>4, <2>5, QuietStep
<1>7. CASE ApproveNode(t) \/ RejectNode(t)
  <2>1. t \notin Loops /\ req.pc = "graph" /\ req.graph.next \in {"approve_run", "reject_run"}
    BY <1>7, <1>f DEF ApproveNode, RejectNode, NodeReady, At, Starts, Analysis
  <2>2. PICK g : Continue(t, g) /\ g.next = "END"
    <3>1. NodeAfter("approve_run") = "END" /\ NodeAfter("reject_run") = "END"
      BY DEF NodeAfter
    <3>2. PICK final : Continue(t, Advanced(req.graph, final))
      BY <1>7 DEF ApproveNode, RejectNode
    <3> DEFINE g == Advanced(req.graph, final)
    <3>3. g.next = "END"
      BY <1>a, <2>1, <3>1, AdvancedFields
    <3>4. Continue(t, g)
      BY <3>2
    <3> HIDE DEF g
    <3> QED
      BY <3>3, <3>4
  <2>3. /\ thread'[t].pc = "graph" /\ thread'[t].graph = g
        /\ thread'[t].payload = req.payload /\ thread'[t].run = req.run
        /\ thread'[t].outcome = req.outcome /\ Only(t)
    BY <1>a, <2>2 DEF Continue, Become, RequestStates, Only
  <2>4. UNCHANGED <<runStatus, approval, checkpoint, executed>>
    BY <1>7 DEF ApproveNode, RejectNode
  <2>5. /\ \A q \in Runs : q # r => draft'[q] = draft[q]
        /\ draft[r].status # "none" => draft'[r].status # "none"
    BY <1>a, <1>r, <1>7 DEF ApproveNode, RejectNode, WrittenDraft, RejectedDraft, DraftRows
  <2>6. Fits(t)'
    BY <1>f, <2>1, <2>2, <2>3, <2>4 DEF Fits, Resumes, Reviewable, Preparing
  <2>7. RowsFit(r)'
    BY <1>f, <1>r, <2>1, <2>4, <2>5 DEF RowsFit, Resumes
  <2>8. OthersKept(r)
    BY <2>4, <2>5 DEF OthersKept
  <2>9. runStatus'[r] \notin {"none", "running"} /\ checkpoint'[r].next \in Reviewable
    BY <1>f, <1>r, <2>1, <2>4 DEF Resumes
  <2> QED
    BY <1>0, <1>r, <2>1, <2>3, <2>6, <2>7, <2>8, <2>9, WorkerStep
<1>8. CASE NodeRaises(t)
  <2>1. /\ req.pc = "graph" /\ thread'[t].pc = "fail" /\ thread'[t].graph = req.graph
        /\ thread'[t].payload = req.payload /\ thread'[t].run = req.run
        /\ thread'[t].outcome = req.outcome /\ Only(t)
    BY <1>a, <1>8 DEF NodeRaises, At, Goto, Become, RequestStates, Only
  <2>2. UNCHANGED <<runStatus, approval, checkpoint>>
    BY <1>8 DEF NodeRaises
  <2>3. /\ \A q \in Runs : q # r => draft'[q] = draft[q]
        /\ draft[r].status # "none" => draft'[r].status # "none"
    BY <1>a, <1>r, <1>8 DEF NodeRaises, WrittenDraft
  <2>4. \/ UNCHANGED executed
        \/ /\ req.graph.next \in Analysis
           /\ executed' = [executed EXCEPT ![r][req.graph.next] = @ + 1]
    BY <1>r, <1>8 DEF NodeRaises
  <2>5. /\ \A q \in Runs : q # r => executed'[q] = executed[q]
        /\ \A m \in Analysis : \/ executed'[r][m] = executed[r][m]
                               \/ /\ m = req.graph.next
                                  /\ executed'[r][m] = executed[r][m] + 1
    BY <1>a, <2>4
  <2>6. OthersKept(r)
    BY <2>2, <2>3, <2>5 DEF OthersKept
  <2>7. CASE t \in Loops
    <3>1. \A m \in Analysis : executed'[r][m] <= 1
      <4>1. ASSUME NEW m \in Analysis, m = req.graph.next PROVE executed[r][m] = 0
        BY <1>f, <1>r, <2>1, <2>7, <4>1, AheadAfter DEF Starts
      <4> QED
        BY <1>a, <1>f, <2>5, <4>1 DEF RowsFit
    <3>2. runStatus'[r] = "running"
      BY <1>f, <1>r, <2>1, <2>2, <2>7 DEF Starts, Working
    <3>3. RowsFit(r)'
      BY <3>1, <3>2 DEF RowsFit
    <3>4. Fits(t)'
      BY <1>f, <1>r, <2>1, <2>7, <3>2 DEF Fits, Starts, Preparing
    <3> QED
      BY <1>r, <2>1, <2>6, <2>7, <3>3, <3>4, LoopStep DEF Working
  <2>8. CASE t \notin Loops
    <3>1. UNCHANGED executed
      BY <1>f, <1>t, <2>1, <2>4, <2>8 DEF Resumes
    <3>2. RowsFit(r)'
      BY <1>f, <1>r, <2>2, <2>3, <2>8, <3>1 DEF RowsFit, Resumes
    <3>3. Fits(t)'
      BY <1>f, <2>1, <2>2, <2>8 DEF Fits, Resumes, Preparing
    <3>4. runStatus'[r] \notin {"none", "running"} /\ checkpoint'[r].next \in Reviewable
      BY <1>f, <1>r, <2>2, <2>8 DEF Resumes
    <3> QED
      BY <1>0, <1>r, <2>1, <2>6, <2>8, <3>2, <3>3, <3>4, WorkerStep
  <2> QED
    BY <2>7, <2>8
<1>9. CASE SaveCheckpoint(t)
  <2>1. /\ req.pc \in {"graph", "fail"} /\ thread'[t].pc = req.pc
        /\ thread'[t].graph = req.graph
        /\ thread'[t].payload = req.payload /\ thread'[t].run = req.run
        /\ thread'[t].outcome = req.outcome /\ Only(t)
    BY <1>a, <1>9 DEF SaveCheckpoint, Become, RequestStates, Only
  <2>2. /\ checkpoint' = [checkpoint EXCEPT ![r] = req.graph]
        /\ UNCHANGED <<runStatus, approval, executed, draft>>
    BY <1>r, <1>9 DEF SaveCheckpoint, database
  <2>3. /\ \A q \in Runs : q # r => checkpoint'[q] = checkpoint[q]
        /\ checkpoint'[r] = req.graph
    BY <1>a, <2>2
  <2>4. OthersKept(r)
    BY <2>2, <2>3 DEF OthersKept
  <2>5. CASE t \in Loops
    <3>1. runStatus'[r] = "running"
      BY <1>f, <1>r, <2>1, <2>2, <2>5 DEF Starts, Working
    <3>2. RowsFit(r)'
      BY <1>f, <2>2, <3>1 DEF RowsFit
    <3>3. Fits(t)'
      BY <1>f, <1>r, <2>1, <2>2, <2>3, <2>5 DEF Fits, Starts, Preparing
    <3> QED
      BY <1>r, <2>1, <2>4, <2>5, <3>2, <3>3, LoopStep DEF Working
  <2>6. CASE t \notin Loops
    <3>1. runStatus'[r] \notin {"none", "running"} /\ checkpoint'[r].next \in Reviewable
      BY <1>f, <1>r, <2>1, <2>2, <2>3, <2>6 DEF Resumes
    <3>2. RowsFit(r)'
      BY <1>f, <2>2, <3>1 DEF RowsFit
    <3>3. Fits(t)'
      BY <1>f, <1>r, <2>1, <2>2, <2>6, <3>1 DEF Fits, Resumes, Preparing
    <3> QED
      BY <1>0, <1>r, <2>1, <2>4, <2>6, <3>1, <3>2, <3>3, WorkerStep
  <2> QED
    BY <2>5, <2>6
<1>10. CASE Pause(t)
  <2>1. t \in Loops /\ req.pc = "graph" /\ req.saved /\ req.graph.next = "human_review"
    BY <1>10, <1>f DEF Pause, StreamEnded, At, Resumes
  <2>2. /\ thread'[t].pc = "approval"
        /\ thread'[t].payload = req.payload /\ thread'[t].run = req.run
        /\ UNCHANGED RunRows /\ Only(t)
    BY <1>a, <1>10 DEF Pause, Become, RequestStates, RunRows, Only, database
  <2>3. Fits(t)'
    BY <1>f, <2>1, <2>2 DEF Fits, Starts, Preparing, Working, RunRows, Reviewable
  <2> QED
    BY <1>0, <2>2, <2>3, QuietStep
<1>11. CASE GetState(t)
  <2>1. t \notin Loops
    BY <1>11, <1>f DEF GetState, StreamEnded, At, Starts, Analysis
  <2>2. /\ thread'[t].pc = "update_run" /\ thread'[t].outcome # "waiting_approval"
        /\ thread'[t].payload = req.payload /\ thread'[t].run = req.run
        /\ UNCHANGED RunRows /\ Only(t)
    BY <1>a, <1>11 DEF GetState, FinalStatus, Become, RequestStates, RunRows, Only, database
  <2>3. Fits(t)'
    BY <1>f, <2>1, <2>2 DEF Fits, Resumes, RunRows, Preparing
  <2> QED
    BY <1>0, <2>2, <2>3, QuietStep
<1>12. CASE CreateApproval(t)
  <2>1. t \in Loops /\ req.pc = "approval"
    BY <1>12, <1>f DEF CreateApproval, At, Resumes
  <2>2. /\ thread'[t].pc = "update_run"
        /\ thread'[t].payload = req.payload /\ thread'[t].run = req.run /\ Only(t)
    BY <1>a, <1>12 DEF CreateApproval, Goto, Become, RequestStates, Only
  <2>3. /\ approval' = [approval EXCEPT ![r] = "pending"]
        /\ UNCHANGED <<runStatus, draft, checkpoint, executed>>
    BY <1>r, <1>12 DEF CreateApproval
  <2>4. approval'[r] # "none" /\ \A q \in Runs : q # r => approval'[q] = approval[q]
    BY <1>a, <2>3
  <2>5. runStatus'[r] = "running"
    BY <1>f, <1>r, <2>1, <2>3 DEF Starts, Working
  <2>6. RowsFit(r)'
    BY <1>f, <2>3, <2>5 DEF RowsFit
  <2>7. Fits(t)'
    BY <1>f, <1>r, <2>1, <2>2, <2>3, <2>4, <2>5 DEF Fits, Starts, Preparing
  <2>8. OthersKept(r)
    BY <2>3, <2>4 DEF OthersKept
  <2> QED
    BY <1>r, <2>1, <2>2, <2>6, <2>7, <2>8, LoopStep DEF Working
<1>13. CASE UpdateRun(t) \/ RecordFailure(t)
  <2>1. PICK status \in RunStatuses \ {"running"} :
           /\ runStatus' = [runStatus EXCEPT ![r] = status]
           /\ \/ /\ status = req.outcome /\ req.pc = "update_run"
                 /\ thread'[t].outcome = req.outcome
              \/ /\ status = "failed" /\ req.pc = "fail"
                 /\ thread'[t].outcome = "failed"
    <3>1. CASE UpdateRun(t)
      <4>1. req.outcome \in RunStatuses \ {"running"} /\ req.pc = "update_run"
        BY <1>a, <3>1 DEF UpdateRun, At, WellFormed, Reporting, RequestStates
      <4>2. thread'[t].outcome = req.outcome
        BY <1>a, <3>1 DEF UpdateRun, Goto, Become, RequestStates
      <4>3. runStatus' = [runStatus EXCEPT ![r] = req.outcome]
        BY <1>r, <3>1 DEF UpdateRun
      <4> QED
        BY <4>1, <4>2, <4>3
    <3>2. CASE RecordFailure(t)
      <4>1. thread'[t].outcome = "failed"
        BY <1>a, <3>2 DEF RecordFailure, Become, RequestStates
      <4>2. runStatus' = [runStatus EXCEPT ![r] = "failed"] /\ req.pc = "fail"
        BY <1>r, <3>2 DEF RecordFailure, FailureStatus, At
      <4>3. "failed" \in RunStatuses \ {"running"}
        BY DEF RunStatuses
      <4> QED
        BY <4>1, <4>2, <4>3
    <3> QED
      BY <1>13, <3>1, <3>2
  <2>2. /\ thread'[t].pc = "read_document" /\ thread'[t].payload = req.payload
        /\ thread'[t].run = req.run /\ Only(t)
    <3>1. UpdateRun(t) => Goto(t, "read_document")
      BY DEF UpdateRun
    <3>2. CASE Goto(t, "read_document")
      BY <1>a, <3>2 DEF Goto, Become, RequestStates, Only
    <3>3. CASE RecordFailure(t)
      BY <1>a, <3>3 DEF RecordFailure, Become, RequestStates, Only
    <3> QED
      BY <1>13, <3>1, <3>2, <3>3
  <2>3. UNCHANGED <<approval, draft, checkpoint, executed>>
    BY <1>13 DEF UpdateRun, RecordFailure
  <2>4. /\ runStatus'[r] = status /\ status \notin {"none", "running"}
        /\ \A q \in Runs : q # r => runStatus'[q] = runStatus[q]
    BY <1>a, <2>1 DEF RunStatuses
  <2>5. OthersKept(r)
    BY <2>3, <2>4 DEF OthersKept
  <2>6. CASE t \in Loops
    <3>1. RowsFit(r)'
      BY <1>f, <1>r, <2>1, <2>3, <2>4, <2>6 DEF RowsFit, Starts
    <3>2. Fits(t)'
      BY <1>f, <2>2, <2>6 DEF Fits, Starts, Working, Preparing
    <3> QED
      BY <1>r, <2>1, <2>2, <2>5, <2>6, <3>1, <3>2, LoopStep DEF Working
  <2>7. CASE t \notin Loops
    <3>1. status # "waiting_approval" /\ checkpoint'[r].next \in Reviewable
      BY <1>f, <1>r, <2>1, <2>3, <2>7 DEF Resumes
    <3>2. RowsFit(r)'
      BY <1>f, <2>3, <2>4, <3>1 DEF RowsFit
    <3>3. Fits(t)'
      BY <1>f, <1>r, <2>1, <2>2, <2>4, <2>7, <3>1 DEF Fits, Resumes, Preparing
    <3> QED
      BY <1>0, <1>r, <2>2, <2>4, <2>5, <2>7, <3>1, <3>2, <3>3, WorkerStep
  <2> QED
    BY <2>6, <2>7
<1>14. CASE \/ ReadDocument(t) \/ SyncDocument(t) \/ SyncVersion(t)
            \/ RefreshVersion(t) \/ ReadVersions(t)
  <2>1. /\ thread'[t].pc \in {"sync_document", "sync_version", "refresh_version",
                               "read_versions", "deactivate"}
        /\ thread'[t].payload = req.payload /\ thread'[t].run = req.run
        /\ thread'[t].outcome = req.outcome /\ UNCHANGED RunRows /\ Only(t)
    <3>1. /\ thread'[t].pc \in {"sync_document", "sync_version", "refresh_version",
                                 "read_versions", "deactivate"}
          /\ thread'[t].payload = req.payload /\ thread'[t].run = req.run
          /\ thread'[t].outcome = req.outcome /\ Only(t)
      <4>1. SyncDocument(t) \/ SyncVersion(t) =>
               \E pc \in {"sync_version", "refresh_version"} : Goto(t, pc)
        BY DEF SyncDocument, SyncVersion
      <4>2. CASE \E pc \in {"sync_version", "refresh_version"} : Goto(t, pc)
        BY <1>a, <4>2 DEF Goto, Become, RequestStates, Only
      <4>3. CASE ReadDocument(t) \/ RefreshVersion(t) \/ ReadVersions(t)
        BY <4>3, ReadSteps DEF Only
      <4> QED
        BY <1>14, <4>1, <4>2, <4>3
    <3>2. UNCHANGED RunRows
      BY <1>14 DEF ReadDocument, SyncDocument, SyncVersion, RefreshVersion, ReadVersions,
         RunRows, database
    <3> QED
      BY <3>1, <3>2
  <2>2. Fits(t)'
    BY <1>f, <2>1 DEF Fits, Starts, Resumes, Working, Preparing, RunRows
  <2> QED
    BY <1>0, <2>1, <2>2, QuietStep
<1>15. CASE DeactivateOthers(t) \/ ReadApproval(t)
  <2>1. /\ \/ thread'[t].pc = "idle"
           \/ /\ t \notin Loops /\ thread'[t].pc \in {"read_approval", "resolve"}
              /\ thread'[t].payload = req.payload /\ thread'[t].run = req.run
              /\ thread'[t].outcome = req.outcome
        /\ UNCHANGED RunRows /\ Only(t)
    <3>1. \/ Reset(t)
          \/ t \notin Loops /\ \E pc \in {"read_approval", "resolve"} : Goto(t, pc)
      BY <1>f, <1>15 DEF DeactivateOthers, ReadApproval, At, Starts
    <3>2. CASE Reset(t)
      BY <1>a, <1>15, <3>2 DEF DeactivateOthers, ReadApproval, Reset, Become, IdleThread,
         RunRows, Only, database
    <3>3. CASE t \notin Loops /\ \E pc \in {"read_approval", "resolve"} : Goto(t, pc)
      <4>1. UNCHANGED RunRows
        BY <1>15 DEF DeactivateOthers, ReadApproval, RunRows, database
      <4> QED
        BY <1>a, <3>3, <4>1 DEF Goto, Become, RequestStates, Only
    <3> QED
      BY <3>1, <3>2, <3>3
  <2>2. Fits(t)'
    BY <1>f, <2>1 DEF Fits, Resumes, Preparing, RunRows
  <2> QED
    BY <1>0, <2>1, <2>2, QuietStep
<1>16. CASE ResolveApproval(t)
  <2>1. t \notin Loops
    BY <1>16, <1>f DEF ResolveApproval, At, Starts
  <2>2. thread'[t].pc = "idle" /\ Only(t)
    BY <1>a, <1>16 DEF ResolveApproval, Reset, Become, IdleThread, Only
  <2>3. /\ approval' = [approval EXCEPT ![r] = Resolution(req.payload)]
        /\ UNCHANGED <<runStatus, draft, checkpoint, executed>>
    BY <1>r, <1>16 DEF ResolveApproval
  <2>4. approval'[r] # "none" /\ \A q \in Runs : q # r => approval'[q] = approval[q]
    BY <1>a, <2>3 DEF Resolution
  <2>5. runStatus'[r] \notin {"none", "running"} /\ checkpoint'[r].next \in Reviewable
    BY <1>f, <1>r, <2>1, <2>3 DEF Resumes
  <2>6. RowsFit(r)'
    BY <1>f, <2>3, <2>4, <2>5 DEF RowsFit
  <2>7. OthersKept(r)
    BY <2>3, <2>4 DEF OthersKept
  <2> QED
    BY <1>0, <1>r, <2>1, <2>2, <2>5, <2>6, <2>7, WorkerStep DEF Fits
<1> QED
  BY <1>1, <1>2, <1>3, <1>4, <1>5, <1>6, <1>7, <1>8, <1>9, <1>10, <1>11, <1>12, <1>13,
     <1>14, <1>15, <1>16 DEF Proceed

\* So does every other step: a start or a decision finds the run as it expects it, and
\* a crash only ends requests.
LEMMA ReviewInductive ==
  ASSUME TypeInv, ReviewInv, [Next]_vars
  PROVE  ReviewInv'
<1>a. /\ thread \in [Threads -> RequestStates]
      /\ runStatus \in [Runs -> {"none"} \cup RunStatuses]
  BY DEF TypeInv, TypeOK
<1>1. ASSUME NEW t \in Loops, NEW r \in Runs, CreateRun(t, r) PROVE ReviewInv'
  <2>1. /\ thread'[t].pc = "mark_document" /\ thread'[t].run = r
        /\ thread'[t].payload = NoPayload /\ thread[t].pc = "idle"
        /\ \A u \in Threads : u # t => thread'[u] = thread[u]
    BY <1>a, <1>1 DEF CreateRun, At, Become, IdleThread, Threads
  <2>2. /\ runStatus[r] = "none" /\ runStatus'[r] = "running"
        /\ \A q \in Runs : q # r => runStatus'[q] = runStatus[q]
        /\ UNCHANGED <<draft, approval, checkpoint, executed>>
    BY <1>a, <1>1 DEF CreateRun
  <2>3. \A u \in Threads : thread[u].pc # "idle" => thread[u].run # r /\ thread[u].run \in Runs
    BY <2>2 DEF ReviewInv, RowsFit, TypeInv, WellFormed
  <2>4. ASSUME NEW u \in Threads PROVE Fits(u)'
    <3>1. CASE u = t
      BY <2>1, <2>2, <3>1 DEF Fits, Starts, Working, Preparing, ReviewInv, RowsFit
    <3>2. CASE u # t
      BY <2>1, <2>2, <2>3, <3>2 DEF Fits, Starts, Resumes, ReviewInv
    <3> QED
      BY <3>1, <3>2
  <2>5. ASSUME NEW q \in Runs PROVE RowsFit(q)'
    <3>1. CASE q = r
      BY <2>2, <3>1 DEF ReviewInv, RowsFit
    <3>2. CASE q # r
      BY <2>1, <2>2, <3>2 DEF ReviewInv, RowsFit
    <3> QED
      BY <3>1, <3>2
  <2>6. StartedOnce'
    BY <2>1, <2>3 DEF ReviewInv, StartedOnce, Threads
  <2> QED
    BY <2>4, <2>5, <2>6 DEF ReviewInv
<1>2. ASSUME NEW t \in Workers, NEW r \in Runs, NEW p \in Decisions,
             AcceptDecision(t, r, p) PROVE ReviewInv'
  <2>1. /\ thread'[t].pc = "load" /\ thread'[t].run = r /\ thread'[t].outcome = "none"
        /\ thread'[t].payload = p
        /\ \A u \in Threads : u # t => thread'[u] = thread[u]
    BY <1>a, <1>2 DEF AcceptDecision, At, Become, IdleThread, Threads
  <2>2. runStatus[r] = "waiting_approval" /\ UNCHANGED RunRows
    BY <1>2 DEF AcceptDecision, Resumable, RunRows, database
  <2>3. p # NoPayload /\ t \notin Loops /\ t \in Threads
    BY DecisionsAssumption, ThreadsAssumption
       DEF DecisionsAssumption, ThreadsAssumption, Payloads, NoPayload, Threads
  <2>4. ASSUME NEW u \in Threads PROVE Fits(u)'
    <3>1. CASE u = t
      BY <2>1, <2>2, <2>3, <3>1
         DEF Fits, Resumes, Preparing, ReviewInv, RowsFit, RunRows
    <3>2. CASE u # t
      BY <2>1, <2>2, <3>2 DEF Fits, Starts, Resumes, ReviewInv, RunRows
    <3> QED
      BY <3>1, <3>2
  <2>5. ASSUME NEW q \in Runs PROVE RowsFit(q)'
    BY <2>1, <2>2 DEF ReviewInv, RowsFit, RunRows
  <2>6. StartedOnce'
    BY <2>1, <2>3 DEF ReviewInv, StartedOnce, Threads
  <2> QED
    BY <2>4, <2>5, <2>6 DEF ReviewInv
<1>3. CASE Crash
  <2>1. (\A t \in Threads : thread'[t].pc = "idle") /\ UNCHANGED RunRows
    BY <1>3 DEF Crash, IdleThread, RunRows, database
  <2>2. \A t \in Loops : t \in Threads
    BY DEF Threads
  <2> QED
    BY <2>1, <2>2 DEF ReviewInv, Fits, RowsFit, StartedOnce, RunRows
<1>4. CASE UNCHANGED vars
  BY <1>4 DEF vars, database, ReviewInv, Fits, Starts, Resumes, RowsFit, StartedOnce
<1> QED
  BY <1>1, <1>2, <1>3, <1>4, ProceedFits DEF Next

\* Initially nothing ran and nobody works.
LEMMA ReviewInit == Init => ReviewInv
<1> SUFFICES ASSUME Init PROVE ReviewInv
  OBVIOUS
<1>1. \A t \in Threads : thread[t].pc = "idle"
  BY DEF Init, IdleThread
<1>2. \A t \in Loops : t \in Threads
  BY DEF Threads
<1> QED
  BY <1>1, <1>2 DEF Init, ReviewInv, Fits, RowsFit, StartedOnce

\* However many reviewers, restarts and server processes: a run that waits has its draft,
\* its approval request and a checkpoint a decision applies to (_execute_graph).
THEOREM WaitingIsReviewableHolds == Spec => []WaitingIsReviewable
<1>1. ReviewInv => WaitingIsReviewable
  BY DEF ReviewInv, RowsFit, WaitingIsReviewable, Reviewable
<1> QED
  BY <1>1, TypeInit, TypeInductive, ReviewInit, ReviewInductive, PTL DEF Spec

\* No pause, resumption or crash makes an analysis node run a second time.
THEOREM AnalysisRunsOnceHolds == Spec => []AnalysisRunsOnce
<1>1. ReviewInv => AnalysisRunsOnce
  BY DEF ReviewInv, RowsFit, AnalysisRunsOnce
<1> QED
  BY <1>1, TypeInit, TypeInductive, ReviewInit, ReviewInductive, PTL DEF Spec
-----------------------------------------------------------------------------
(* Accepted requests end: none is stuck, and each step leaves fewer to come *)

\* How far a node is from the end of the graph.
Stage(n) ==
    CASE n = "extract_fields"              -> 9
      [] n = "supplier_lookup"             -> 8
      [] n = "duplicate_check"             -> 7
      [] n = "categorize_document"         -> 6
      [] n = "calculate_confidence"        -> 5
      [] n = "create_draft"                -> 4
      [] n = "human_review"                -> 3
      [] n \in {"approve_run", "reject_run"} -> 2
      [] n = "END"                         -> 1
      [] OTHER                             -> 0

Unsaved(req) == IF req.saved THEN 0 ELSE 1

\* A bound on the steps a request still takes.
StepsLeft(req) ==
    CASE req.pc = "mark_document"   -> 35
      [] req.pc = "mark_version"    -> 34
      [] req.pc \in {"extract", "load"} -> 33
      [] req.pc = "graph"           -> 13 + 2 * Stage(req.graph.next) + Unsaved(req)
      [] req.pc = "fail"            -> 11 + Unsaved(req)
      [] req.pc = "approval"        -> 10
      [] req.pc = "update_run"      -> 9
      [] req.pc = "read_document"   -> 8
      [] req.pc = "sync_document"   -> 7
      [] req.pc = "sync_version"    -> 6
      [] req.pc = "refresh_version" -> 5
      [] req.pc = "read_versions"   -> 4
      [] req.pc = "deactivate"      -> 3
      [] req.pc = "read_approval"   -> 2
      [] req.pc = "resolve"         -> 1
      [] OTHER                      -> 0

\* A statement is next, or the graph has a node to run, a pause or an end to report, or a
\* checkpoint to write: the guards of the actions of Proceed.
MayProceed(t) ==
    LET req == thread[t]
        g   == req.graph
    IN
    \/ req.pc \in Locations \ {"idle", "graph", "fail"}
    \/ req.pc \in {"graph", "fail"} /\ ~req.saved
    \/ req.pc = "fail" /\ req.saved
    \/ req.pc = "graph" /\ g.next \in Analysis \cup {"approve_run", "reject_run"}
    \/ req.pc = "graph" /\ g.next = "human_review" /\ req.payload # NoPayload
    \/ /\ req.pc = "graph" /\ req.saved
       /\ g.next = "END" \/ (g.next = "human_review" /\ req.payload = NoPayload)

NoRequestStuck == \A t \in Threads : thread[t].pc # "idle" => MayProceed(t)

RequestsDescend == \A t \in Threads :
    thread[t].pc # "idle" /\ thread'[t] # thread[t] =>
        StepsLeft(thread'[t]) < StepsLeft(thread[t])

\* The bound is a natural number below 36, and positive while the request is under way.
LEMMA StepsLeftBounded ==
  ASSUME NEW req, req.pc \in Locations
  PROVE  /\ StepsLeft(req) \in 0..35
         /\ req.pc # "idle" => StepsLeft(req) > 0
         /\ req.pc = "graph" => StepsLeft(req) \in 13..32
         /\ req.pc = "fail"  => StepsLeft(req) \in 11..12
<1>1. Stage(req.graph.next) \in 0..9 /\ Unsaved(req) \in 0..1
  BY DEF Stage, Unsaved
<1> QED
  BY <1>1 DEF StepsLeft, Locations

\* A node that ran leaves a later one next.
LEMMA LaterStage ==
  /\ \A n \in Analysis \cup {"approve_run", "reject_run"} :
         Stage(NodeAfter(n)) < Stage(n) /\ Stage(NodeAfter(n)) \in Nat /\ Stage(n) \in Nat
  /\ \A p : Stage(Route(p)) = 2
  BY DEF Stage, NodeAfter, Route, Analysis

\* A step that continues the graph from a later node leaves fewer steps.
LEMMA ContinueDescends ==
  ASSUME NEW t \in Threads, TypeInv, NEW g, Continue(t, g),
         \/ thread[t].pc = "extract" /\ g = InitialState
         \/ thread[t].pc = "graph" /\ Stage(g.next) < Stage(thread[t].graph.next)
  PROVE  StepsLeft(thread'[t]) < StepsLeft(thread[t])
<1>a. thread[t] \in RequestStates /\ thread \in [Threads -> RequestStates]
  BY DEF TypeInv, TypeOK
<1>1. /\ thread'[t].pc = "graph" /\ thread'[t].graph = g /\ thread'[t].saved = FALSE
  BY <1>a DEF Continue, Become, RequestStates
<1>2. StepsLeft(thread'[t]) = 14 + 2 * Stage(g.next)
  BY <1>1 DEF StepsLeft, Unsaved, Stage
<1>3. CASE thread[t].pc = "extract" /\ g = InitialState
  BY <1>2, <1>3 DEF InitialState, Stage, StepsLeft
<1>4. CASE thread[t].pc = "graph" /\ Stage(g.next) < Stage(thread[t].graph.next)
  <2>1. StepsLeft(thread[t]) = 13 + 2 * Stage(thread[t].graph.next) + Unsaved(thread[t])
    BY <1>4 DEF StepsLeft
  <2>2. /\ Unsaved(thread[t]) \in 0..1
        /\ Stage(g.next) \in 0..9 /\ Stage(thread[t].graph.next) \in 0..9
    BY DEF Unsaved, Stage
  <2> QED
    BY <1>2, <1>4, <2>1, <2>2
<1> QED
  BY <1>3, <1>4

\* A request that proceeds changes only itself.
LEMMA ProceedTouchesOne ==
  ASSUME TypeInv, NEW t \in Threads, Proceed(t)
  PROVE  \A u \in Threads : u # t => thread'[u] = thread[u]
<1>a. \A req : Become(t, req) => \A u \in Threads : u # t => thread'[u] = thread[u]
  BY BecomeFacts DEF TypeInv, TypeOK
<1>1. CASE \/ MarkDocument(t) \/ MarkVersion(t) \/ CreateApproval(t) \/ UpdateRun(t)
           \/ SyncDocument(t) \/ SyncVersion(t) \/ NodeRaises(t)
  <2>1. \E pc : Goto(t, pc)
    BY <1>1 DEF MarkDocument, MarkVersion, CreateApproval, UpdateRun, SyncDocument,
       SyncVersion, NodeRaises
  <2> QED
    BY <2>1, <1>a DEF Goto
<1>2. CASE \/ Extract(t) \/ (\E n \in Analysis : AnalysisNode(t, n))
           \/ HumanReview(t) \/ ApproveNode(t) \/ RejectNode(t)
  <2>1. \E g : Continue(t, g)
    BY <1>2 DEF Extract, AnalysisNode, HumanReview, ApproveNode, RejectNode
  <2> QED
    BY <2>1, <1>a DEF Continue
<1>3. CASE \/ LoadCheckpoint(t) \/ SaveCheckpoint(t) \/ Pause(t) \/ GetState(t)
           \/ RecordFailure(t) \/ ReadDocument(t) \/ RefreshVersion(t) \/ ReadVersions(t)
  BY <1>3, <1>a DEF LoadCheckpoint, SaveCheckpoint, Pause, GetState, RecordFailure,
     ReadDocument, RefreshVersion, ReadVersions
<1>4. CASE \/ ExtractRaises(t) \/ DeactivateOthers(t) \/ ReadApproval(t) \/ ResolveApproval(t)
  <2>1. Reset(t) \/ \E pc : Goto(t, pc)
    BY <1>4 DEF ExtractRaises, DeactivateOthers, ReadApproval, ResolveApproval
  <2> QED
    BY <2>1, <1>a DEF Goto, Reset
<1> QED
  BY <1>1, <1>2, <1>3, <1>4 DEF Proceed

\* Every step of a request leaves it fewer steps.
LEMMA ProceedDescends ==
  ASSUME TypeInv, NEW t \in Threads, Proceed(t)
  PROVE  StepsLeft(thread'[t]) < StepsLeft(thread[t])
<1> DEFINE req == thread[t]
<1>a. /\ thread \in [Threads -> RequestStates] /\ req \in RequestStates
      /\ req.pc \in Locations /\ req.graph \in GraphStates
  BY DEF TypeInv, TypeOK, RequestStates
<1>b. /\ StepsLeft(req) \in 0..35
      /\ req.pc # "idle" => StepsLeft(req) > 0
      /\ req.pc = "graph" => StepsLeft(req) \in 13..32
      /\ req.pc = "fail"  => StepsLeft(req) \in 11..12
  BY <1>a, StepsLeftBounded
<1>c. StepsLeft(IdleThread) = 0
  BY DEF StepsLeft, IdleThread
<1>1. CASE \/ MarkDocument(t) \/ MarkVersion(t) \/ CreateApproval(t) \/ UpdateRun(t)
           \/ SyncDocument(t) \/ SyncVersion(t)
  <2>1. \E from, to \in Locations : /\ Goto(t, to) /\ req.pc = from
            /\ <<from, to>> \in {<<"mark_document", "mark_version">>,
                 <<"mark_version", "extract">>, <<"approval", "update_run">>,
                 <<"update_run", "read_document">>, <<"sync_document", "sync_version">>,
                 <<"sync_version", "refresh_version">>}
    BY <1>1 DEF MarkDocument, MarkVersion, CreateApproval, UpdateRun, SyncDocument,
       SyncVersion, At, Locations
  <2>2. \A to \in Locations : Goto(t, to) => thread'[t].pc = to
    BY <1>a DEF Goto, Become, RequestStates
  <2> QED
    BY <2>1, <2>2 DEF StepsLeft
<1>2. CASE Extract(t)
  <2>1. req.pc = "extract" /\ Continue(t, InitialState)
    BY <1>2 DEF Extract, At
  <2> QED
    BY <2>1, ContinueDescends
<1>3. ASSUME NEW n \in Analysis, AnalysisNode(t, n)
      PROVE  StepsLeft(thread'[t]) < StepsLeft(thread[t])
  <2>1. PICK g : Continue(t, g) /\ g.next = NodeAfter(n)
    <3>1. Continue(t, Advanced(req.graph, req.graph.final)) /\ req.graph.next = n
      BY <1>3 DEF AnalysisNode, NodeReady
    <3>2. Advanced(req.graph, req.graph.final).next = NodeAfter(req.graph.next)
      BY <1>a, AdvancedFields
    <3> QED
      BY <3>1, <3>2
  <2>2. req.pc = "graph" /\ req.graph.next = n
    BY <1>3 DEF AnalysisNode, NodeReady, At
  <2> QED
    BY <2>1, <2>2, ContinueDescends, LaterStage
<1>4. CASE HumanReview(t)
  <2>1. PICK g : Continue(t, g) /\ g.next = Route(req.payload)
    <3>1. Continue(t, [req.graph EXCEPT !.next = Route(req.payload),
                                        !.decision = req.payload])
      BY <1>4 DEF HumanReview
    <3>2. [req.graph EXCEPT !.next = Route(req.payload),
                            !.decision = req.payload].next = Route(req.payload)
      BY <1>a DEF GraphStates
    <3> QED
      BY <3>1, <3>2
  <2>2. req.pc = "graph" /\ Stage(req.graph.next) = 3
    BY <1>4 DEF HumanReview, NodeReady, At, Stage
  <2> QED
    BY <2>1, <2>2, ContinueDescends, LaterStage
<1>5. CASE ApproveNode(t) \/ RejectNode(t)
  <2>1. PICK g : Continue(t, g) /\ g.next = NodeAfter(req.graph.next)
    <3>1. \E final : Continue(t, Advanced(req.graph, final))
      BY <1>5 DEF ApproveNode, RejectNode
    <3>2. \A final : Advanced(req.graph, final).next = NodeAfter(req.graph.next)
      BY <1>a, AdvancedFields
    <3> QED
      BY <3>1, <3>2
  <2>2. req.pc = "graph" /\ req.graph.next \in {"approve_run", "reject_run"}
    BY <1>5 DEF ApproveNode, RejectNode, NodeReady, At
  <2> QED
    BY <2>1, <2>2, ContinueDescends, LaterStage
<1>6. CASE LoadCheckpoint(t)
  <2>1. req.pc = "load" /\ thread'[t].pc = "graph"
    BY <1>a, <1>6 DEF LoadCheckpoint, At, Become, RequestStates
  <2>2. StepsLeft(thread'[t]) \in 13..32
    BY <2>1, StepsLeftBounded DEF Locations
  <2> QED
    BY <2>1, <2>2 DEF StepsLeft
<1>7. CASE SaveCheckpoint(t)
  <2>1. /\ req.pc \in {"graph", "fail"} /\ ~req.saved
        /\ thread'[t] = [req EXCEPT !.saved = TRUE]
    BY <1>a, <1>7 DEF SaveCheckpoint, Become
  <2>2. /\ thread'[t].pc = req.pc /\ thread'[t].graph = req.graph /\ thread'[t].saved
    BY <1>a, <2>1 DEF RequestStates
  <2>3. Stage(req.graph.next) \in 0..9
    BY DEF Stage
  <2> QED
    BY <2>1, <2>2, <2>3 DEF StepsLeft, Unsaved
<1>8. CASE NodeRaises(t)
  <2>1. req.pc = "graph" /\ thread'[t].pc = "fail"
    BY <1>a, <1>8 DEF NodeRaises, At, Goto, Become, RequestStates
  <2>2. StepsLeft(thread'[t]) \in 11..12
    BY <2>1, StepsLeftBounded DEF Locations
  <2> QED
    BY <1>b, <2>1, <2>2
<1>9. CASE Pause(t) \/ GetState(t)
  <2>1. req.pc = "graph" /\ thread'[t].pc \in {"approval", "update_run"}
    <3>1. CASE Pause(t)
      BY <1>a, <3>1 DEF Pause, StreamEnded, At, Become, RequestStates
    <3>2. CASE GetState(t)
      BY <1>a, <3>2 DEF GetState, StreamEnded, At, Become, RequestStates
    <3> QED
      BY <1>9, <3>1, <3>2
  <2>2. StepsLeft(thread'[t]) \in 9..10
    BY <2>1 DEF StepsLeft
  <2> QED
    BY <1>b, <2>1, <2>2
<1>10. CASE RecordFailure(t)
  <2>1. req.pc = "fail" /\ thread'[t].pc = "read_document"
    BY <1>a, <1>10 DEF RecordFailure, At, Become, RequestStates
  <2>2. StepsLeft(thread'[t]) = 8
    BY <2>1 DEF StepsLeft
  <2> QED
    BY <1>b, <2>1, <2>2
<1>11. CASE ReadDocument(t) \/ RefreshVersion(t) \/ ReadVersions(t)
  <2>1. <<req.pc, thread'[t].pc>> \in {<<"read_document", "sync_document">>,
            <<"refresh_version", "read_versions">>, <<"read_versions", "deactivate">>}
    BY <1>11, ReadSteps
  <2> QED
    BY <2>1 DEF StepsLeft
<1>12. CASE \/ ExtractRaises(t) \/ DeactivateOthers(t) \/ ReadApproval(t) \/ ResolveApproval(t)
  <2>1. \/ req.pc \in {"extract", "deactivate", "read_approval", "resolve"} /\ Reset(t)
        \/ req.pc = "deactivate" /\ Goto(t, "read_approval")
        \/ req.pc = "read_approval" /\ Goto(t, "resolve")
    BY <1>12 DEF ExtractRaises, DeactivateOthers, ReadApproval, ResolveApproval, At
  <2>2. CASE req.pc \in {"extract", "deactivate", "read_approval", "resolve"} /\ Reset(t)
    <3>1. thread'[t] = IdleThread
      BY <1>a, <2>2 DEF Reset, Become
    <3> QED
      BY <1>b, <1>c, <2>2, <3>1
  <2>3. \A to \in Locations : Goto(t, to) => thread'[t].pc = to
    BY <1>a DEF Goto, Become, RequestStates
  <2> QED
    BY <2>1, <2>2, <2>3 DEF StepsLeft, Locations
<1> QED
  BY <1>1, <1>2, <1>3, <1>4, <1>5, <1>6, <1>7, <1>8, <1>9, <1>10, <1>11, <1>12 DEF Proceed

\* However many requests are under way, none of them is ever stuck, whatever checkpoint it
\* was resumed from, and each of its steps leaves at most as many as StepsLeft counts: after
\* 35 steps it has ended.  Given that its thread is scheduled, start_run and resume_run
\* return.
THEOREM AcceptedRequestsEnd == Spec => [](NoRequestStuck) /\ [][RequestsDescend]_vars
<1>1. TypeInv /\ ReviewInv => NoRequestStuck
  <2> SUFFICES ASSUME TypeInv, ReviewInv, NEW t \in Threads, thread[t].pc # "idle"
               PROVE  MayProceed(t)
    BY DEF NoRequestStuck
  <2>1. /\ thread[t].pc \in Locations /\ thread[t].saved \in BOOLEAN
    BY DEF TypeInv, TypeOK, RequestStates
  <2>2. thread[t].pc = "graph" => thread[t].graph.next \in Analysis \cup Reviewable
    BY DEF ReviewInv, Fits, Starts, Resumes, Reviewable
  <2> QED
    BY <2>1, <2>2 DEF MayProceed, Reviewable
<1>2. ASSUME TypeInv, [Next]_vars PROVE RequestsDescend
  <2>a. /\ thread \in [Threads -> RequestStates]
        /\ \A t \in Threads : thread[t].pc \in Locations
    BY <1>2 DEF TypeInv, TypeOK, RequestStates
  <2>1. ASSUME NEW u \in Loops, NEW r \in Runs, CreateRun(u, r) PROVE RequestsDescend
    BY <2>a, <2>1 DEF CreateRun, At, Become, RequestsDescend
  <2>2. ASSUME NEW u \in Workers, NEW r \in Runs, NEW p \in Decisions,
               AcceptDecision(u, r, p) PROVE RequestsDescend
    BY <2>a, <2>2 DEF AcceptDecision, At, Become, RequestsDescend
  <2>3. ASSUME NEW u \in Threads, Proceed(u) PROVE RequestsDescend
    <3>1. \A t \in Threads : t # u => thread'[t] = thread[t]
      BY <1>2, <2>3, ProceedTouchesOne
    <3> QED
      BY <1>2, <2>3, <3>1, ProceedDescends DEF RequestsDescend
  <2>4. CASE Crash
    <3>1. \A t \in Threads : thread'[t] = IdleThread
      BY <2>4 DEF Crash
    <3>2. StepsLeft(IdleThread) = 0
      BY DEF StepsLeft, IdleThread
    <3>3. \A t \in Threads : thread[t].pc # "idle" =>
             StepsLeft(thread[t]) > 0
      BY <2>a, StepsLeftBounded
    <3> QED
      BY <3>1, <3>2, <3>3 DEF RequestsDescend
  <2>5. CASE UNCHANGED vars
    BY <2>5 DEF vars, RequestsDescend
  <2> QED
    BY <1>2, <2>1, <2>2, <2>3, <2>4, <2>5 DEF Next
<1>3. TypeInv /\ [Next]_vars => [RequestsDescend]_vars
  BY <1>2
<1>4. ReviewInv /\ TypeInv /\ [Next]_vars => ReviewInv'
  BY ReviewInductive
<1>5. TypeInv /\ [Next]_vars => TypeInv'
  BY TypeInductive
<1> HIDE DEF RequestsDescend, NoRequestStuck
<1> QED
  BY <1>1, <1>3, <1>4, <1>5, TypeInit, ReviewInit, PTL DEF Spec

-----------------------------------------------------------------------------
(* Liveness: given that its thread is scheduled, a request ends, and what it owes *)
(* its run is done before                                                         *)

Busy(t) == thread[t].pc # "idle"

\* FairSpec's assumption about a thread, with the guards in place of ENABLED Proceed(t).
Scheduled(t) == []<>~MayProceed(t) \/ []<><<Proceed(t)>>_vars

EachScheduled == \A t \in Threads : Scheduled(t)
AlwaysScheduled == []EachScheduled

\* What a request under way can rely on.
Advancing == [](TypeInv /\ NoRequestStuck) /\ [][Next]_vars /\ [][RequestsDescend]_vars

Progressing(t) == Advancing /\ Scheduled(t)

\* A request with n steps to go at most.
Within(t, n) == Busy(t) /\ StepsLeft(thread[t]) <= n

\* From n steps a request gets to m, or to its end.
Nears(t, n, m) == Progressing(t) => (Within(t, n) => <>(Within(t, m) \/ ~Busy(t)))

\* One step more brings a request closer to its end.
LEMMA OneStepFewer ==
  ASSUME NEW t \in Threads, NEW m \in Nat, NEW n \in Nat, n = m + 1
  PROVE  Nears(t, n, m)
<1>a. ASSUME TypeInv PROVE thread[t].pc \in Locations
  BY <1>a DEF TypeInv, TypeOK, RequestStates
<1>b. ASSUME TypeInv PROVE StepsLeft(thread[t]) \in 0..35
  BY <1>b, <1>a, StepsLeftBounded
<1>1. TypeInv /\ TypeInv' /\ Within(t, n) /\ [RequestsDescend]_vars
         => Within(t, n)' \/ ~Busy(t)'
  <2> SUFFICES ASSUME TypeInv, TypeInv', Within(t, n), [RequestsDescend]_vars, Busy(t)'
               PROVE  Within(t, n)'
    OBVIOUS
  <2>1. CASE thread'[t] = thread[t]
    BY <2>1 DEF Within, Busy
  <2>2. CASE thread'[t] # thread[t]
    <3>1. StepsLeft(thread'[t]) < StepsLeft(thread[t])
      BY <2>2 DEF Within, Busy, RequestsDescend, vars
    <3>2. PICK i \in 0..35 : i = StepsLeft(thread[t])
      BY <1>b
    <3>3. PICK j \in 0..35 : j = StepsLeft(thread'[t])
      BY <1>b, StepsLeftBounded DEF TypeInv, TypeOK, RequestStates
    <3> QED
      BY <3>1, <3>2, <3>3 DEF Within, Busy
  <2> QED
    BY <2>1, <2>2
<1>2. TypeInv /\ TypeInv' /\ Within(t, n) /\ <<Proceed(t)>>_vars => Within(t, m)' \/ ~Busy(t)'
  <2> SUFFICES ASSUME TypeInv, TypeInv', Within(t, n), Proceed(t), Busy(t)'
               PROVE  Within(t, m)'
    OBVIOUS
  <2>1. StepsLeft(thread'[t]) < StepsLeft(thread[t])
    BY ProceedDescends
  <2>2. PICK i \in 0..35 : i = StepsLeft(thread[t])
    BY <1>b
  <2>3. PICK j \in 0..35 : j = StepsLeft(thread'[t])
    BY StepsLeftBounded DEF TypeInv, TypeOK, RequestStates
  <2> QED
    BY <2>1, <2>2, <2>3 DEF Within, Busy
<1>3. NoRequestStuck /\ Within(t, n) => MayProceed(t)
  BY DEF NoRequestStuck, Within, Busy
<1> HIDE DEF RequestsDescend
<1> QED
  BY <1>1, <1>2, <1>3, PTL DEF Nears, Progressing, Advancing, Scheduled

\* Twice as many steps: as often as it takes to cover them all.
LEMMA TwoStepsFewer ==
  ASSUME NEW t \in Threads, NEW m \in Nat, NEW n \in Nat, n = m + 2
  PROVE  Nears(t, n, m)
<1>1. PICK k \in Nat : n = k + 1 /\ k = m + 1
  OBVIOUS
<1>2. Nears(t, n, k)
  BY <1>1, OneStepFewer
<1>3. Nears(t, k, m)
  BY <1>1, OneStepFewer
<1>4. Progressing(t) => []Progressing(t)
  BY PTL DEF Progressing, Advancing, Scheduled
<1> QED
  BY <1>2, <1>3, <1>4, PTL DEF Nears

\* Four steps.
LEMMA FourStepsFewer ==
  ASSUME NEW t \in Threads, NEW m \in Nat, NEW n \in Nat, n = m + 4
  PROVE  Nears(t, n, m)
<1>1. PICK k \in Nat : n = k + 2 /\ k = m + 2
  OBVIOUS
<1>2. Nears(t, n, k)
  BY <1>1, TwoStepsFewer
<1>3. Nears(t, k, m)
  BY <1>1, TwoStepsFewer
<1>4. Progressing(t) => []Progressing(t)
  BY PTL DEF Progressing, Advancing, Scheduled
<1> QED
  BY <1>2, <1>3, <1>4, PTL DEF Nears

\* Eight steps.
LEMMA EightStepsFewer ==
  ASSUME NEW t \in Threads, NEW m \in Nat, NEW n \in Nat, n = m + 8
  PROVE  Nears(t, n, m)
<1>1. PICK k \in Nat : n = k + 4 /\ k = m + 4
  OBVIOUS
<1>2. Nears(t, n, k)
  BY <1>1, FourStepsFewer
<1>3. Nears(t, k, m)
  BY <1>1, FourStepsFewer
<1>4. Progressing(t) => []Progressing(t)
  BY PTL DEF Progressing, Advancing, Scheduled
<1> QED
  BY <1>2, <1>3, <1>4, PTL DEF Nears

\* Sixteen steps.
LEMMA SixteenStepsFewer ==
  ASSUME NEW t \in Threads, NEW m \in Nat, NEW n \in Nat, n = m + 16
  PROVE  Nears(t, n, m)
<1>1. PICK k \in Nat : n = k + 8 /\ k = m + 8
  OBVIOUS
<1>2. Nears(t, n, k)
  BY <1>1, EightStepsFewer
<1>3. Nears(t, k, m)
  BY <1>1, EightStepsFewer
<1>4. Progressing(t) => []Progressing(t)
  BY PTL DEF Progressing, Advancing, Scheduled
<1> QED
  BY <1>2, <1>3, <1>4, PTL DEF Nears

\* Thirty-two steps.
LEMMA ThirtyTwoStepsFewer ==
  ASSUME NEW t \in Threads, NEW m \in Nat, NEW n \in Nat, n = m + 32
  PROVE  Nears(t, n, m)
<1>1. PICK k \in Nat : n = k + 16 /\ k = m + 16
  OBVIOUS
<1>2. Nears(t, n, k)
  BY <1>1, SixteenStepsFewer
<1>3. Nears(t, k, m)
  BY <1>1, SixteenStepsFewer
<1>4. Progressing(t) => []Progressing(t)
  BY PTL DEF Progressing, Advancing, Scheduled
<1> QED
  BY <1>2, <1>3, <1>4, PTL DEF Nears

\* A request that is under way comes to its end, be it answered or lost in a crash.
LEMMA RequestEnds ==
  ASSUME NEW t \in Threads
  PROVE  Progressing(t) => (Busy(t) => <>~Busy(t))
<1>1. Nears(t, 35, 3)
  BY ThirtyTwoStepsFewer
<1>6. Nears(t, 3, 1)
  BY TwoStepsFewer
<1>2. Nears(t, 1, 0)
  BY OneStepFewer
<1>3. TypeInv /\ Busy(t) => Within(t, 35) /\ ~Within(t, 0)
  <2> SUFFICES ASSUME TypeInv, Busy(t) PROVE Within(t, 35) /\ ~Within(t, 0)
    OBVIOUS
  <2>1. StepsLeft(thread[t]) \in 0..35 /\ StepsLeft(thread[t]) > 0
    BY StepsLeftBounded DEF TypeInv, TypeOK, RequestStates, Busy
  <2> QED
    BY <2>1 DEF Within
<1>4. Within(t, 0) => Busy(t)
  BY DEF Within
<1>5. Progressing(t) => [](TypeInv) /\ []Progressing(t)
  BY PTL DEF Progressing, Advancing, Scheduled
<1> QED
  BY <1>1, <1>2, <1>3, <1>4, <1>5, <1>6, PTL DEF Nears

AllProgress == \A t \in Threads : Progressing(t)

\* Every thread progresses, at any time.
LEMMA RequestsProgress == Spec /\ AlwaysScheduled => []AllProgress
<1>1. Advancing /\ EachScheduled => AllProgress
  BY DEF EachScheduled, AllProgress, Progressing
<1>2. Spec => []TypeInv
  BY TypeInit, TypeInductive, PTL DEF Spec
<1>3. Spec => []Advancing
  <2> HIDE DEF RequestsDescend, NoRequestStuck
  <2> QED
    BY <1>2, AcceptedRequestsEnd, PTL DEF Advancing, Spec
<1> QED
  BY <1>1, <1>3, PTL DEF AlwaysScheduled

\* A request that start_run or resume_run works on comes to its end, whatever else happens:
\* it returns, or the process dies (AcceptedRequestsEnd, with scheduling).
THEOREM RequestsReturn ==
  Spec /\ AlwaysScheduled => \A t \in Threads : Busy(t) ~> ~Busy(t)
<1> SUFFICES ASSUME NEW t \in Threads
             PROVE  Spec /\ AlwaysScheduled => (Busy(t) ~> ~Busy(t))
  OBVIOUS
<1>1. Progressing(t) => (Busy(t) => <>~Busy(t))
  BY RequestEnds
<1>2. AllProgress => Progressing(t)
  BY DEF AllProgress
<1> QED
  BY <1>1, <1>2, RequestsProgress, PTL

\* A start that has yet to write its run's status, and a decision that has.
Analysing(t, r) == t \in Loops /\ thread[t].run = r /\ thread[t].pc \in Working

Deciding(t, r) == /\ t \in Workers /\ thread[t].run = r
                  /\ thread[t].pc \in {"load", "graph", "fail", "update_run"}

\* Somebody is at work on a run whose status says so, or whose decision is not written yet.
Attended == \A r \in Runs :
    /\ runStatus[r] = "running" /\ r \notin Unreadable => \E t \in Threads : Analysing(t, r)
    /\ verdicts[r] # {} => \/ runStatus[r] \in Concluded
                           \/ \E t \in Threads : Deciding(t, r)

\* Where the steps of a request lead, as far as its status.
LEMMA TowardsStatus ==
  ASSUME TypeInv, NEW t \in Threads, Proceed(t), thread[t].pc \in Working \cup {"load"}
  PROVE  \/ /\ thread'[t].run = thread[t].run /\ UNCHANGED runStatus
            /\ thread[t].pc # "update_run"
            /\ thread[t].pc \in Working => thread'[t].pc \in Working
            /\ thread[t].pc \in {"load", "graph", "fail"} =>
                  thread'[t].pc \in {"graph", "fail", "approval", "update_run"}
            /\ thread'[t].pc = "approval" => thread[t].payload = NoPayload
         \/ thread[t].run \in Unreadable /\ thread[t].pc = "extract" /\ UNCHANGED runStatus
         \/ /\ thread[t].pc = "update_run"
            /\ runStatus' = [runStatus EXCEPT ![thread[t].run] = thread[t].outcome]
         \/ /\ thread[t].pc = "fail"
            /\ runStatus' = [runStatus EXCEPT ![thread[t].run] = "failed"]
<1> DEFINE req == thread[t]
<1>a. thread \in [Threads -> RequestStates] /\ req \in RequestStates
  BY DEF TypeInv, TypeOK
<1>g. \A pc : Goto(t, pc) => thread'[t].pc = pc /\ thread'[t].run = req.run
  BY <1>a DEF Goto, Become, RequestStates
<1>c. \A g : Continue(t, g) => thread'[t].pc = "graph" /\ thread'[t].run = req.run
  BY <1>a DEF Continue, Become, RequestStates
<1>1. CASE \/ MarkDocument(t) \/ MarkVersion(t) \/ CreateApproval(t) \/ NodeRaises(t)
  BY <1>1, <1>g DEF MarkDocument, MarkVersion, CreateApproval, NodeRaises, At, Working, Preparing
<1>2. CASE \/ Extract(t) \/ (\E n \in Analysis : AnalysisNode(t, n))
           \/ HumanReview(t) \/ ApproveNode(t) \/ RejectNode(t)
  BY <1>2, <1>c DEF Extract, AnalysisNode, HumanReview, ApproveNode, RejectNode, NodeReady, At,
     database, Working, Preparing
<1>3. CASE LoadCheckpoint(t) \/ SaveCheckpoint(t) \/ Pause(t) \/ GetState(t)
  <2>1. UNCHANGED runStatus
    BY <1>3 DEF LoadCheckpoint, SaveCheckpoint, Pause, GetState, database
  <2>2. CASE LoadCheckpoint(t)
    BY <2>1, <2>2, <1>a DEF LoadCheckpoint, Become, At, RequestStates, Working, Preparing
  <2>3. CASE SaveCheckpoint(t)
    <3>1. /\ thread'[t].pc = req.pc /\ thread'[t].run = req.run
          /\ req.pc \in {"graph", "fail"}
      BY <2>3, <1>a DEF SaveCheckpoint, Become, RequestStates
    <3> QED
      BY <2>1, <3>1
  <2>4. CASE Pause(t)
    BY <2>1, <2>4, <1>a DEF Pause, StreamEnded, Become, At, RequestStates, Working, Preparing
  <2>5. CASE GetState(t)
    BY <2>1, <2>5, <1>a DEF GetState, StreamEnded, Become, At, RequestStates, Working, Preparing
  <2> QED
    BY <1>3, <2>2, <2>3, <2>4, <2>5
<1>4. CASE ExtractRaises(t)
  BY <1>4 DEF ExtractRaises, At, database
<1>5. CASE UpdateRun(t) \/ RecordFailure(t)
  BY <1>5 DEF UpdateRun, RecordFailure, FailureStatus, At
<1>6. ~(\/ ReadDocument(t) \/ SyncDocument(t) \/ SyncVersion(t) \/ RefreshVersion(t)
        \/ ReadVersions(t) \/ DeactivateOthers(t) \/ ReadApproval(t) \/ ResolveApproval(t))
  BY DEF ReadDocument, SyncDocument, SyncVersion, RefreshVersion, ReadVersions,
     DeactivateOthers, ReadApproval, ResolveApproval, At, Working, Preparing
<1> QED
  BY <1>1, <1>2, <1>3, <1>4, <1>5, <1>6 DEF Proceed

\* Nobody but a start makes a run running, and a concluded run stays concluded.
LEMMA RunStatusMoves ==
  ASSUME TypeInv, ReviewInv, NEW t \in Threads, Proceed(t), NEW r \in Runs
  PROVE  /\ runStatus'[r] = "running" => runStatus[r] = "running"
         /\ runStatus[r] \in Concluded => runStatus'[r] \in Concluded
<1> DEFINE req == thread[t]
<1>0. thread[t].pc # "idle"
  BY ProceedIsBusy
<1>a. /\ req \in RequestStates /\ runStatus \in [Runs -> {"none"} \cup RunStatuses]
      /\ WellFormed(req)
  BY DEF TypeInv, TypeOK
<1>f. IF t \in Loops THEN Starts(req) ELSE Resumes(req)
  BY <1>0 DEF ReviewInv, Fits
<1>1. CASE UpdateRun(t) \/ RecordFailure(t)
  <2>1. PICK s : /\ runStatus' = [runStatus EXCEPT ![req.run] = s]
                 /\ \/ s = req.outcome /\ req.pc = "update_run"
                    \/ s = "failed" /\ req.pc = "fail"
    BY <1>1 DEF UpdateRun, RecordFailure, FailureStatus, At
  <2>2. s # "running"
    BY <1>a, <2>1 DEF RequestStates, RunStatuses
  <2>3. runStatus[req.run] \in Concluded => s \in Concluded
    <3>1. t \in Loops => runStatus[req.run] = "running"
      BY <1>f, <2>1 DEF Starts, Working
    <3>2. t \notin Loops => s \in Concluded
      BY <1>a, <1>f, <2>1
         DEF Resumes, WellFormed, Reporting, RequestStates, RunStatuses, Concluded
    <3> QED
      BY <3>1, <3>2 DEF Concluded
  <2> QED
    BY <1>a, <2>1, <2>2, <2>3
<1>2. CASE ~(UpdateRun(t) \/ RecordFailure(t))
  <2>1. UNCHANGED runStatus
    BY <1>2 DEF Proceed, MarkDocument, MarkVersion, Extract, ExtractRaises, LoadCheckpoint,
       AnalysisNode, HumanReview, ApproveNode, RejectNode, NodeRaises, SaveCheckpoint, Pause,
       GetState, CreateApproval, ReadDocument, SyncDocument, SyncVersion, RefreshVersion,
       ReadVersions, DeactivateOthers, ReadApproval, ResolveApproval, database
  <2> QED
    BY <2>1
<1> QED
  BY <1>1, <1>2

\* While no process dies, a request changes only by its own steps.
LEMMA OthersStay ==
  ASSUME TypeInv, crashes' = 0, NEW t \in Threads, thread[t].pc # "idle", [Next]_vars
  PROVE  Proceed(t) \/ thread'[t] = thread[t]
<1>a. thread \in [Threads -> RequestStates]
  BY DEF TypeInv, TypeOK
<1>1. ~Crash
  BY DEF Crash, TypeInv, TypeOK
<1>2. ASSUME NEW u \in Loops, NEW r \in Runs, CreateRun(u, r) PROVE thread'[t] = thread[t]
  BY <1>a, <1>2 DEF CreateRun, At, Become
<1>3. ASSUME NEW u \in Workers, NEW r \in Runs, NEW p \in Decisions, AcceptDecision(u, r, p)
      PROVE  thread'[t] = thread[t]
  BY <1>a, <1>3 DEF AcceptDecision, At, Become
<1>4. ASSUME NEW u \in Threads, Proceed(u), u # t PROVE thread'[t] = thread[t]
  BY <1>4, ProceedTouchesOne
<1> QED
  BY <1>1, <1>2, <1>3, <1>4 DEF Next, vars

\* A start works on until its run is no longer running; other threads leave it alone.
LEMMA AnalysisGoesOn ==
  ASSUME TypeInv, ReviewInv, crashes' = 0, NEW t \in Threads, NEW r \in Runs \ Unreadable,
         Analysing(t, r), [Next]_vars
  PROVE  Analysing(t, r)' \/ runStatus'[r] # "running"
<1>a. /\ thread[t] \in RequestStates /\ thread \in [Threads -> RequestStates]
      /\ runStatus \in [Runs -> {"none"} \cup RunStatuses]
      /\ thread[t].pc # "idle"
  BY DEF TypeInv, TypeOK, Analysing, Working, Preparing
<1>1. CASE Proceed(t)
  <2>1. thread[t].outcome # "running" /\ thread[t].pc # "load"
    BY <1>a DEF RequestStates, RunStatuses, Analysing, Working, Preparing
  <2> QED
    BY <1>1, <1>a, <2>1, TowardsStatus DEF Analysing
<1>2. CASE thread'[t] = thread[t]
  BY <1>2 DEF Analysing
<1>3. Proceed(t) \/ thread'[t] = thread[t]
  BY <1>a, OthersStay
<1> QED
  BY <1>1, <1>2, <1>3

\* A decision works on until its run is concluded.
LEMMA DecisionGoesOn ==
  ASSUME TypeInv, ReviewInv, crashes' = 0, NEW t \in Threads, NEW r \in Runs,
         Deciding(t, r), [Next]_vars
  PROVE  Deciding(t, r)' \/ runStatus'[r] \in Concluded
<1>a. /\ thread[t] \in RequestStates /\ thread \in [Threads -> RequestStates]
      /\ runStatus \in [Runs -> {"none"} \cup RunStatuses]
      /\ thread[t].pc # "idle" /\ WellFormed(thread[t])
  BY DEF TypeInv, TypeOK, Deciding
<1>f. Resumes(thread[t])
  BY <1>a, ThreadsAssumption DEF ReviewInv, Fits, Deciding, ThreadsAssumption
<1>1. CASE Proceed(t)
  <2>1. thread[t].pc = "update_run" => thread[t].outcome \in Concluded
    BY <1>a, <1>f DEF Resumes, WellFormed, Reporting, RequestStates, RunStatuses, Concluded
  <2>2. /\ thread[t].pc \in Working \cup {"load"} /\ thread[t].pc # "extract"
        /\ thread[t].payload # NoPayload
    BY <1>f DEF Deciding, Working, Resumes
  <2>3. /\ thread[t].pc = "update_run" =>
              runStatus' = [runStatus EXCEPT ![thread[t].run] = thread[t].outcome]
        /\ thread[t].pc # "update_run" =>
              \/ /\ thread'[t].run = thread[t].run
                 /\ thread'[t].pc \in {"graph", "fail", "update_run"}
              \/ runStatus' = [runStatus EXCEPT ![thread[t].run] = "failed"]
    BY <1>1, <2>2, TowardsStatus DEF Deciding
  <2> QED
    BY <1>a, <2>1, <2>3 DEF Deciding, Concluded
<1>2. CASE thread'[t] = thread[t]
  BY <1>2 DEF Deciding
<1>3. Proceed(t) \/ thread'[t] = thread[t]
  BY <1>a, OthersStay
<1> QED
  BY <1>1, <1>2, <1>3

\* While no process dies, what a run is waiting for is being worked on.
LEMMA AttendedInductive ==
  ASSUME TypeInv, ReviewInv, crashes' = 0, Attended, [Next]_vars
  PROVE  Attended'
<1>a. /\ thread \in [Threads -> RequestStates]
      /\ runStatus \in [Runs -> {"none"} \cup RunStatuses]
  BY DEF TypeInv, TypeOK
<1>k. ASSUME NEW r \in Runs,
             runStatus'[r] = "running" => runStatus[r] = "running",
             runStatus[r] \in Concluded => runStatus'[r] \in Concluded,
             verdicts'[r] = verdicts[r]
      PROVE  /\ runStatus'[r] = "running" /\ r \notin Unreadable
                    => \E t \in Threads : Analysing(t, r)'
             /\ verdicts'[r] # {} => \/ runStatus'[r] \in Concluded
                                     \/ \E t \in Threads : Deciding(t, r)'
  BY <1>k, AnalysisGoesOn, DecisionGoesOn DEF Attended
<1>1. ASSUME NEW u \in Loops, NEW q \in Runs, CreateRun(u, q) PROVE Attended'
  <2>1. /\ runStatus[q] = "none" /\ runStatus'[q] = "running" /\ UNCHANGED verdicts
        /\ \A r \in Runs : r # q => runStatus'[r] = runStatus[r]
    BY <1>a, <1>1 DEF CreateRun
  <2>2. u \in Threads /\ thread'[u].run = q /\ thread'[u].pc = "mark_document"
    BY <1>a, <1>1 DEF CreateRun, Become, IdleThread, Threads
  <2>3. Analysing(u, q)'
    BY <2>2 DEF Analysing, Working, Preparing
  <2>4. verdicts[q] = {}
    <3>1. ~\E t \in Threads : Deciding(t, q)
      BY <2>1, ThreadsAssumption
         DEF ReviewInv, Fits, Resumes, Deciding, ThreadsAssumption
    <3> QED
      BY <2>1, <3>1 DEF Attended, Concluded
  <2> QED
    BY <1>k, <2>1, <2>2, <2>3, <2>4 DEF Attended
<1>2. ASSUME NEW u \in Workers, NEW q \in Runs, NEW p \in Decisions, AcceptDecision(u, q, p)
      PROVE  Attended'
  <2>1. /\ UNCHANGED runStatus /\ runStatus[q] = "waiting_approval"
        /\ \A r \in Runs : r # q => verdicts'[r] = verdicts[r]
    BY <1>2 DEF AcceptDecision, Resumable, database, TypeInv, TypeOK
  <2>2. u \in Threads /\ thread'[u].run = q /\ thread'[u].pc = "load"
    BY <1>a, <1>2 DEF AcceptDecision, Become, IdleThread, Threads
  <2>3. Deciding(u, q)'
    BY <2>2 DEF Deciding
  <2> QED
    BY <1>k, <2>1, <2>2, <2>3 DEF Attended
<1>3. ASSUME NEW u \in Threads, Proceed(u) PROVE Attended'
  <2>1. UNCHANGED verdicts
    BY <1>3 DEF Proceed, MarkDocument, MarkVersion, Extract, ExtractRaises, LoadCheckpoint,
       AnalysisNode, HumanReview, ApproveNode, RejectNode, NodeRaises, SaveCheckpoint, Pause,
       GetState, CreateApproval, UpdateRun, RecordFailure, ReadDocument, SyncDocument,
       SyncVersion, RefreshVersion, ReadVersions, DeactivateOthers, ReadApproval,
       ResolveApproval
  <2> QED
    BY <1>3, <1>k, <2>1, RunStatusMoves DEF Attended
<1>4. CASE UNCHANGED vars
  BY <1>4, <1>k DEF vars, database, Attended
<1>5. ~Crash
  BY DEF Crash, TypeInv, TypeOK
<1> QED
  BY <1>1, <1>2, <1>3, <1>4, <1>5 DEF Next

\* What holds at every step when no process dies.
Undying == [](TypeInv /\ ReviewInv /\ Attended /\ crashes = 0) /\ [][Next]_vars

\* What RunConcludes promises of a run.
SoonNotRunning(r) == <>(runStatus[r] # "running")
SoonConcluded(r)  == <>(runStatus[r] \in Concluded)

\* A start that is at work on a readable run sees it through.
LEMMA AnalysisConcludes ==
  ASSUME NEW r \in Runs \ Unreadable, NEW t \in Threads
  PROVE  Undying /\ Progressing(t) /\ Analysing(t, r) => SoonNotRunning(r)
<1>1. TypeInv /\ ReviewInv /\ Analysing(t, r) /\ (crashes = 0)' /\ [Next]_vars
          => Analysing(t, r)' \/ (runStatus[r] # "running")'
  BY AnalysisGoesOn
<1>2. Analysing(t, r) => Busy(t)
  BY DEF Analysing, Busy, Working, Preparing
<1>3. Progressing(t) => (Busy(t) => <>~Busy(t))
  BY RequestEnds
<1> QED
  BY <1>1, <1>2, <1>3, PTL DEF Undying, SoonNotRunning

\* So does a decision.
LEMMA DecisionConcludes ==
  ASSUME NEW r \in Runs, NEW t \in Threads
  PROVE  Undying /\ Progressing(t) /\ Deciding(t, r) => SoonConcluded(r)
<1>1. TypeInv /\ ReviewInv /\ Deciding(t, r) /\ (crashes = 0)' /\ [Next]_vars
          => Deciding(t, r)' \/ (runStatus[r] \in Concluded)'
  BY DecisionGoesOn
<1>2. Deciding(t, r) => Busy(t)
  BY DEF Deciding, Busy
<1>3. Progressing(t) => (Busy(t) => <>~Busy(t))
  BY RequestEnds
<1> QED
  BY <1>1, <1>2, <1>3, PTL DEF Undying, SoonConcluded

\* While no process dies: an analysis of a readable file ends with a pause or a recorded
\* failure, and an accepted decision concludes its run, for any number of servers,
\* reviewers and runs.
THEOREM RunConcludesHolds == Spec /\ AlwaysScheduled => RunConcludes
<1> SUFFICES ASSUME NEW r \in Runs
             PROVE  Spec /\ AlwaysScheduled /\ [](crashes = 0) =>
                      /\ (runStatus[r] = "running" /\ r \notin Unreadable)
                            ~> (runStatus[r] # "running")
                      /\ (verdicts[r] # {}) ~> (runStatus[r] \in Concluded)
  BY DEF RunConcludes
<1>1. Spec /\ [](crashes = 0) => []Undying
  <2>1. Init => Attended
    BY DEF Init, Attended
  <2>2. TypeInv /\ ReviewInv /\ Attended /\ (crashes = 0)' /\ [Next]_vars => Attended'
    BY AttendedInductive
  <2>3. ReviewInv /\ TypeInv /\ [Next]_vars => ReviewInv'
    BY ReviewInductive
  <2>4. TypeInv /\ [Next]_vars => TypeInv'
    BY TypeInductive
  <2> QED
    BY <2>1, <2>2, <2>3, <2>4, TypeInit, ReviewInit, PTL DEF Spec, Undying
<1>2. Undying /\ AllProgress =>
          (Attended /\ runStatus[r] = "running" /\ r \notin Unreadable => SoonNotRunning(r))
  BY AnalysisConcludes DEF AllProgress, Attended
<1>3. Undying /\ AllProgress =>
          (Attended /\ verdicts[r] # {} => runStatus[r] \in Concluded \/ SoonConcluded(r))
  BY DecisionConcludes DEF AllProgress, Attended
<1>4. Undying => Attended
  BY PTL DEF Undying
<1> QED
  BY <1>1, <1>2, <1>3, <1>4, RequestsProgress, PTL DEF SoonNotRunning, SoonConcluded
=============================================================================
