------------------------- MODULE HumanApprovalProofs -------------------------
(* WorkflowService implements HumanApproval, for one reviewer at a time and a step *)
(* budget (settings.max_agent_steps) of at least seven: no review is wasted, a     *)
(* concluded run is never decided again, and a rejected one has a rejected draft.  *)
(* Below seven steps, which the settings allow, people are asked for decisions     *)
(* that can never be carried out.                                                  *)
(* Undisturbed by crashes and by other reviewers or server processes, approval     *)
(* request and draft follow the run as soon as no request works on it, a document *)
(* shows what became of one of its runs, and two versions of it stay active        *)
(* together only if a third one was activated too.                                 *)
EXTENDS WorkflowServiceProofs

-----------------------------------------------------------------------------
(* The step budget *)

Decided == {"approved", "rejected"}

\* Below seven steps no run is ever approved or rejected.
ShortBudgetUndecided ==
    MaxAgentSteps < 7 => \A r \in Runs : runStatus[r] \notin Decided

\* The steps that were counted when node n comes next.
StepsBefore(n) ==
    CASE n = "supplier_lookup"      -> 1
      [] n = "duplicate_check"      -> 2
      [] n = "categorize_document"  -> 3
      [] n = "calculate_confidence" -> 4
      [] n = "create_draft"         -> 5
      [] n \in {"human_review", "approve_run", "reject_run"} -> 6
      [] n = "END"                  -> 7
      [] OTHER                      -> 0

Counted(g) == g.steps = StepsBefore(g.next)

\* A request's state was counted; it reports a decision only if seven steps exist.
Budgeted(req) == /\ Counted(req.graph)
                 /\ req.outcome \in Decided => MaxAgentSteps >= 7

StepsInv ==
    /\ \A r \in Runs : Counted(checkpoint[r])
    /\ \A t \in Threads : Budgeted(thread[t])
    /\ ShortBudgetUndecided

\* The state a run starts from, and the absence of one, counted no step.
LEMMA StartCounted == Counted(InitialState) /\ Counted(NoCheckpoint)
  BY DEF Counted, StepsBefore, InitialState, NoCheckpoint

\* An idle thread reports nothing.
LEMMA IdleBudgeted == Budgeted(IdleThread)
  BY StartCounted DEF Budgeted, IdleThread, Decided

\* A node that ran was counted.
LEMMA AdvancedCounted ==
  ASSUME NEW g \in GraphStates, Counted(g),
         g.next \in Analysis \cup {"approve_run", "reject_run"},
         NEW final \in {"none", "approved", "rejected"}
  PROVE  Counted(Advanced(g, final))
<1>1. Advanced(g, final).next = NodeAfter(g.next) /\ Advanced(g, final).steps = g.steps + 1
  BY DEF Advanced, GraphStates
<1>2. g.steps \in Nat
  BY StepsAssumption DEF GraphStates, StepsAssumption
<1>3. StepsBefore(NodeAfter(g.next)) = StepsBefore(g.next) + 1
  BY DEF StepsBefore, NodeAfter, Analysis
<1>4. StepsBefore(g.next) \in Nat /\ StepsBefore(NodeAfter(g.next)) \in Nat
  BY DEF StepsBefore
<1> QED
  BY <1>1, <1>2, <1>3, <1>4 DEF Counted

\* A decision is not a step; it leads to a node that six steps came before.
LEMMA DecidedCounted ==
  ASSUME NEW g \in GraphStates, Counted(g), g.next = "human_review", NEW p
  PROVE  Counted([g EXCEPT !.next = Route(p), !.decision = p])
  BY DEF Counted, StepsBefore, Route, GraphStates

\* Only request t changes, to the given state of the graph and outcome.
Changes(t, graph, outcome) ==
    /\ thread'[t].graph = graph /\ thread'[t].outcome = outcome
    /\ \A u \in Threads : u # t => thread'[u] = thread[u]

\* Requests stay budgeted if the one that changes does.
LEMMA ChangeBudgeted ==
  ASSUME StepsInv, NEW t \in Threads, NEW g, NEW o, Changes(t, g, o),
         Counted(g), o \in Decided => MaxAgentSteps >= 7
  PROVE  \A u \in Threads : Budgeted(thread'[u])
  BY DEF Changes, StepsInv, Budgeted

\* Rows of decided runs aside, a step of one request threatens only that request.
LEMMA StepBudgeted ==
  ASSUME StepsInv, NEW t \in Threads, NEW g, NEW o, Changes(t, g, o),
         Counted(g), o \in Decided => MaxAgentSteps >= 7, UNCHANGED <<runStatus, checkpoint>>
  PROVE  StepsInv'
  BY ChangeBudgeted DEF StepsInv, ShortBudgetUndecided, Budgeted, Counted

\* Every step of a request keeps the count.
LEMMA ProceedBudgeted ==
  ASSUME TypeInv, StepsInv, NEW t \in Threads, Proceed(t)
  PROVE  StepsInv'
<1>a. /\ thread \in [Threads -> RequestStates] /\ checkpoint \in [Runs -> GraphStates]
      /\ runStatus \in [Runs -> {"none"} \cup RunStatuses]
      /\ Budgeted(thread[t]) /\ thread[t].graph \in GraphStates
      /\ thread[t].pc # "idle" => thread[t].run \in Runs
  BY DEF TypeInv, TypeOK, StepsInv, WellFormed, RequestStates
<1>g. Counted(thread[t].graph) /\ (thread[t].outcome \in Decided => MaxAgentSteps >= 7)
  BY <1>a DEF Budgeted
<1>1. CASE \/ MarkDocument(t) \/ MarkVersion(t) \/ NodeRaises(t) \/ CreateApproval(t)
           \/ SyncDocument(t) \/ SyncVersion(t)
           \/ ReadDocument(t) \/ RefreshVersion(t) \/ ReadVersions(t)
  <2>1. UNCHANGED <<runStatus, checkpoint>>
    BY <1>1, ReadSteps DEF MarkDocument, MarkVersion, NodeRaises, CreateApproval,
       SyncDocument, SyncVersion, database
  <2>2. Changes(t, thread[t].graph, thread[t].outcome)
    <3>1. CASE ReadDocument(t) \/ RefreshVersion(t) \/ ReadVersions(t)
      BY <3>1, ReadSteps DEF Changes
    <3>2. CASE ~(ReadDocument(t) \/ RefreshVersion(t) \/ ReadVersions(t))
      <4>1. \E pc \in Locations : Goto(t, pc)
        BY <1>1, <3>2 DEF MarkDocument, MarkVersion, NodeRaises, CreateApproval,
           SyncDocument, SyncVersion, Locations
      <4> QED
        BY <1>a, <4>1 DEF Goto, Become, RequestStates, Changes
    <3> QED
      BY <3>1, <3>2
  <2> QED
    BY <1>g, <2>1, <2>2, StepBudgeted
<1>2. CASE ExtractRaises(t) \/ ResolveApproval(t) \/ DeactivateOthers(t) \/ ReadApproval(t)
  <2>1. UNCHANGED <<runStatus, checkpoint>>
    BY <1>2 DEF ExtractRaises, ResolveApproval, DeactivateOthers, ReadApproval, database
  <2>2. Reset(t) \/ \E pc \in Locations : Goto(t, pc)
    BY <1>2 DEF ExtractRaises, ResolveApproval, DeactivateOthers, ReadApproval, Locations
  <2>3. CASE Reset(t)
    <3>1. Changes(t, NoCheckpoint, "none")
      BY <1>a, <2>3 DEF Reset, Become, IdleThread, Changes
    <3> QED
      BY <2>1, <3>1, StartCounted, StepBudgeted DEF Decided
  <2>4. CASE \E pc \in Locations : Goto(t, pc)
    <3>1. Changes(t, thread[t].graph, thread[t].outcome)
      BY <1>a, <2>4 DEF Goto, Become, RequestStates, Changes
    <3> QED
      BY <1>g, <2>1, <3>1, StepBudgeted
  <2> QED
    BY <2>2, <2>3, <2>4
<1>3. CASE Extract(t)
  <2>1. Changes(t, InitialState, thread[t].outcome) /\ UNCHANGED <<runStatus, checkpoint>>
    BY <1>a, <1>3 DEF Extract, Continue, Become, RequestStates, Changes
  <2> QED
    BY <1>g, <2>1, StartCounted, StepBudgeted
<1>4. CASE LoadCheckpoint(t)
  <2>1. /\ Changes(t, checkpoint[thread[t].run], thread[t].outcome)
        /\ UNCHANGED <<runStatus, checkpoint>>
    BY <1>a, <1>4
       DEF LoadCheckpoint, StateToResume, Become, RequestStates, Changes, database
  <2>2. Counted(checkpoint[thread[t].run])
    BY <1>a, <1>4 DEF LoadCheckpoint, At, StepsInv
  <2> QED
    BY <1>g, <2>1, <2>2, StepBudgeted
<1>5. CASE \/ \E n \in Analysis : AnalysisNode(t, n)
           \/ ApproveNode(t) \/ RejectNode(t)
  <2>1. PICK final \in {"none", "approved", "rejected"} :
           /\ Continue(t, Advanced(thread[t].graph, final))
           /\ UNCHANGED <<runStatus, checkpoint>>
           /\ thread[t].graph.next \in Analysis \cup {"approve_run", "reject_run"}
    BY <1>a, <1>5 DEF AnalysisNode, ApproveNode, RejectNode, NodeReady, GraphStates
  <2> DEFINE g == Advanced(thread[t].graph, final)
  <2>2. Counted(g)
    BY <1>a, <1>g, <2>1, AdvancedCounted
  <2>3. Continue(t, g)
    BY <2>1
  <2> HIDE DEF g
  <2>4. Changes(t, g, thread[t].outcome)
    BY <1>a, <2>3 DEF Continue, Become, RequestStates, Changes
  <2> QED
    BY <1>g, <2>1, <2>2, <2>4, StepBudgeted
<1>6. CASE HumanReview(t)
  <2> DEFINE g == [thread[t].graph EXCEPT !.next = Route(thread[t].payload),
                                          !.decision = thread[t].payload]
  <2>1. Counted(g)
    BY <1>a, <1>g, <1>6, DecidedCounted DEF HumanReview, NodeReady
  <2>2. Continue(t, g) /\ UNCHANGED <<runStatus, checkpoint>>
    BY <1>6 DEF HumanReview, database
  <2> HIDE DEF g
  <2>3. Changes(t, g, thread[t].outcome)
    BY <1>a, <2>2 DEF Continue, Become, RequestStates, Changes
  <2> QED
    BY <1>g, <2>1, <2>2, <2>3, StepBudgeted
<1>7. CASE SaveCheckpoint(t)
  <2>1. /\ Changes(t, thread[t].graph, thread[t].outcome) /\ UNCHANGED runStatus
        /\ checkpoint' = [checkpoint EXCEPT ![thread[t].run] = thread[t].graph]
    BY <1>a, <1>7 DEF SaveCheckpoint, Become, RequestStates, Changes, database
  <2>2. \A r \in Runs : Counted(checkpoint'[r])
    BY <1>a, <1>g, <2>1 DEF StepsInv
  <2>3. \A u \in Threads : Budgeted(thread'[u])
    BY <1>g, <2>1, ChangeBudgeted
  <2> QED
    BY <2>1, <2>2, <2>3 DEF StepsInv, ShortBudgetUndecided, Budgeted, Counted
<1>8. CASE Pause(t) \/ RecordFailure(t)
  <2>a. Pause(t) => Changes(t, thread[t].graph, "waiting_approval")
    BY <1>a DEF Pause, Become, RequestStates, Changes
  <2>b. RecordFailure(t) => Changes(t, thread[t].graph, "failed")
    BY <1>a DEF RecordFailure, Become, RequestStates, Changes
  <2>1. /\ UNCHANGED checkpoint
        /\ \/ Changes(t, thread[t].graph, "waiting_approval")
           \/ Changes(t, thread[t].graph, "failed")
    BY <1>8, <2>a, <2>b DEF Pause, RecordFailure
  <2>2. \A r \in Runs : runStatus'[r] \in Decided => runStatus[r] \in Decided
    BY <1>a, <1>8 DEF Pause, RecordFailure, FailureStatus, database, Decided
  <2>3. \A u \in Threads : Budgeted(thread'[u])
    BY <1>g, <2>1, ChangeBudgeted DEF Decided
  <2> QED
    BY <2>1, <2>2, <2>3 DEF StepsInv, ShortBudgetUndecided, Budgeted, Counted
<1>9. CASE GetState(t)
  <2>1. thread[t].graph.steps >= 7 /\ thread[t].graph.steps \in 0..MaxAgentSteps
    BY <1>a, <1>g, <1>9 DEF GetState, Counted, StepsBefore, GraphStates
  <2>2. MaxAgentSteps >= 7
    BY <2>1, StepsAssumption DEF StepsAssumption
  <2>3. /\ Changes(t, thread[t].graph, FinalStatus(checkpoint[thread[t].run].final))
        /\ UNCHANGED <<runStatus, checkpoint>>
    BY <1>a, <1>9 DEF GetState, Become, RequestStates, Changes, database
  <2> QED
    BY <1>g, <2>2, <2>3, StepBudgeted
<1>10. CASE UpdateRun(t)
  <2>1. Changes(t, thread[t].graph, thread[t].outcome) /\ UNCHANGED checkpoint
    BY <1>a, <1>10 DEF UpdateRun, Goto, Become, RequestStates, Changes
  <2>2. \A r \in Runs : runStatus'[r] \in Decided =>
           runStatus[r] \in Decided \/ thread[t].outcome \in Decided
    BY <1>a, <1>10 DEF UpdateRun
  <2>3. \A u \in Threads : Budgeted(thread'[u])
    BY <1>g, <2>1, ChangeBudgeted
  <2>4. ShortBudgetUndecided'
    BY <1>g, <2>2, StepsAssumption DEF StepsInv, ShortBudgetUndecided, StepsAssumption
  <2> QED
    BY <2>1, <2>3, <2>4 DEF StepsInv, Budgeted, Counted
<1> QED
  BY <1>1, <1>2, <1>3, <1>4, <1>5, <1>6, <1>7, <1>8, <1>9, <1>10 DEF Proceed

\* Initially no step was counted and nothing is decided.
LEMMA StepsInit == Init => StepsInv
  BY StartCounted, IdleBudgeted DEF Init, StepsInv, ShortBudgetUndecided, Decided

\* Every step keeps the count.
LEMMA StepsInductive ==
  ASSUME TypeInv, StepsInv, [Next]_vars
  PROVE  StepsInv'
<1>a. /\ thread \in [Threads -> RequestStates]
      /\ runStatus \in [Runs -> {"none"} \cup RunStatuses]
  BY DEF TypeInv, TypeOK
<1>1. ASSUME NEW t \in Loops, NEW r \in Runs, CreateRun(t, r) PROVE StepsInv'
  <2>1. Changes(t, NoCheckpoint, "none")
    BY <1>a, <1>1 DEF CreateRun, Become, IdleThread, Changes, Threads
  <2>2. \A u \in Threads : Budgeted(thread'[u])
    BY <2>1, StartCounted, ChangeBudgeted DEF Threads, Decided
  <2>3. \A q \in Runs : runStatus'[q] \in Decided => runStatus[q] \in Decided
    BY <1>a, <1>1 DEF CreateRun, Decided
  <2> QED
    BY <1>1, <2>2, <2>3 DEF CreateRun, StepsInv, ShortBudgetUndecided, Budgeted, Counted
<1>2. ASSUME NEW t \in Workers, NEW r \in Runs, NEW p \in Decisions,
             AcceptDecision(t, r, p) PROVE StepsInv'
  <2>1. Changes(t, NoCheckpoint, "none") /\ UNCHANGED <<runStatus, checkpoint>>
    BY <1>a, <1>2 DEF AcceptDecision, Become, IdleThread, Changes, Threads, database
  <2> QED
    BY <2>1, StartCounted, StepBudgeted DEF Threads, Decided
<1>3. CASE Crash
  BY <1>3, IdleBudgeted
     DEF Crash, database, StepsInv, ShortBudgetUndecided, Budgeted, Counted
<1>4. CASE UNCHANGED vars
  BY <1>4 DEF vars, database, StepsInv, ShortBudgetUndecided, Budgeted, Counted
<1> QED
  BY <1>1, <1>2, <1>3, <1>4, ProceedBudgeted DEF Next

\* Whatever is uploaded, decided or lost: with a budget the settings allow but that is
\* below seven steps, no run is ever approved or rejected.
THEOREM ShortBudgetNeverDecides == Spec => []ShortBudgetUndecided
<1>1. TypeInv /\ StepsInv => ShortBudgetUndecided
  BY DEF StepsInv
<1>2. Init => TypeInv /\ StepsInv
  BY TypeInit, StepsInit
<1>3. TypeInv /\ StepsInv /\ [Next]_vars => (TypeInv /\ StepsInv)'
  BY TypeInductive, StepsInductive
<1> QED
  BY <1>1, <1>2, <1>3, PTL DEF Spec

-----------------------------------------------------------------------------
(* From seven steps on, asking a person is never in vain *)

\* What a request knows of its run's approval request and of its outcome.
Asking(req) ==
    /\ req.pc \in Working \ {"update_run"} => approval[req.run] = "none"
    /\ req.pc \in {"approval", "update_run"} => req.outcome = "waiting_approval"

Answering(req) ==
    /\ approval[req.run] # "none"
    /\ req.pc = "fail" => \E p \in verdicts[req.run] : p.edits
    /\ req.pc = "update_run" => req.outcome \in Decided

Asked(t) == thread[t].pc # "idle" =>
                IF t \in Loops THEN Asking(thread[t]) ELSE Answering(thread[t])

AskedInv == /\ \A t \in Threads : Asked(t)
            /\ \A r \in Runs : runStatus[r] = "none" => approval[r] = "none"
            /\ NoWastedReview

WasteInv == TypeInv /\ StepsInv /\ HumanControlInv /\ ReviewInv /\ AskedInv

\* A step that leaves status, approval and decisions alone threatens its request only.
LEMMA AskedQuiet ==
  ASSUME AskedInv, NEW t \in Threads, Only(t), Asked(t)',
         UNCHANGED <<runStatus, approval, verdicts>>
  PROVE  AskedInv'
<1>1. ASSUME NEW u \in Threads PROVE Asked(u)'
  BY DEF Only, AskedInv, Asked, Asking, Answering
<1> QED
  BY <1>1 DEF AskedInv, NoWastedReview

\* A request that goes on, without a failure or an outcome, knows what it knew.
LEMMA AskedOn ==
  ASSUME AskedInv, NEW t \in Threads, Only(t), thread[t].pc # "idle",
         UNCHANGED <<runStatus, approval, verdicts>>,
         thread'[t].pc \notin {"fail", "approval", "update_run"},
         t \in Loops /\ thread'[t].pc \in Working => thread[t].pc \in Working \ {"update_run"}
  PROVE  AskedInv'
<1>1. Asked(t)'
  BY DEF Only, AskedInv, Asked, Asking, Answering
<1> QED
  BY <1>1, AskedQuiet

\* From a pause on, a node raises only over an edit: the steps suffice.
LEMMA RaisesOverEdit ==
  ASSUME MaxAgentSteps >= 7, WasteInv, NEW t \in Threads, t \notin Loops, NodeRaises(t)
  PROVE  \E p \in verdicts[thread[t].run] : p.edits
<1> DEFINE req == thread[t]
<1>1. /\ req.pc = "graph" /\ req.run \in Runs /\ req.graph \in GraphStates
      /\ req.graph.next \in Reviewable /\ Counted(req.graph)
      /\ Justified(verdicts[req.run], req.graph)
  BY DEF NodeRaises, At, WasteInv, TypeInv, WellFormed, RequestStates, ReviewInv, Fits, Resumes,
         StepsInv, Budgeted, HumanControlInv, Backed
<1>2. req.graph.steps \in 0..7
  BY <1>1 DEF Counted, StepsBefore, Reviewable
<1>3. req.graph.next # "END" => ~StepLimitReached(req.graph)
  BY <1>1, StepsAssumption DEF StepLimitReached, Counted, StepsBefore, Reviewable, StepsAssumption
<1>4. req.graph.next = "approve_run" /\ req.graph.decision.edits
  BY <1>1, <1>3 DEF NodeRaises, MayRaise, Reviewable, Analysis
<1> QED
  BY <1>1, <1>4, NoPayloadUnfavourable DEF Justified

\* Every step of a request keeps that.
LEMMA ProceedAsked ==
  ASSUME MaxAgentSteps >= 7, WasteInv, NEW t \in Threads, Proceed(t)
  PROVE  AskedInv'
<1> DEFINE req == thread[t]
<1>0. thread[t].pc # "idle"
  BY ProceedIsBusy
<1>a. /\ thread \in [Threads -> RequestStates] /\ req \in RequestStates
      /\ runStatus \in [Runs -> {"none"} \cup RunStatuses]
      /\ approval \in [Runs -> {"none", "pending", "approved", "rejected", "edited"}]
      /\ WellFormed(req)
  BY DEF WasteInv, TypeInv, TypeOK, RequestStates
<1>r. PICK r \in Runs : r = thread[t].run
  BY <1>0, <1>a DEF WellFormed
<1>f. /\ t \in Loops => Starts(req) /\ Asking(req)
      /\ t \notin Loops => Resumes(req) /\ Answering(req)
      /\ runStatus[r] = "none" => approval[r] = "none"
      /\ AskedInv
  BY <1>0 DEF WasteInv, ReviewInv, Fits, AskedInv, Asked
<1>1. CASE \/ MarkDocument(t) \/ MarkVersion(t) \/ SyncDocument(t) \/ SyncVersion(t)
  <2>1. /\ UNCHANGED <<runStatus, approval, verdicts>>
        /\ \E pc \in {"mark_version", "extract", "sync_version", "refresh_version"} :
               /\ Goto(t, pc)
               /\ pc \in Preparing => req.pc \in Preparing
    BY <1>1 DEF MarkDocument, MarkVersion, SyncDocument, SyncVersion, At, Preparing
  <2>2. /\ thread'[t].pc \notin {"fail", "approval", "update_run"} /\ Only(t)
        /\ thread'[t].pc \in Working => req.pc \in Working \ {"update_run"}
    BY <1>a, <2>1 DEF Goto, Become, RequestStates, Only, Working, Preparing
  <2> QED
    BY <1>0, <1>f, <2>1, <2>2, AskedOn
<1>2. CASE \/ Extract(t) \/ (\E n \in Analysis : AnalysisNode(t, n))
           \/ HumanReview(t) \/ ApproveNode(t) \/ RejectNode(t)
  <2>1. /\ UNCHANGED <<runStatus, approval, verdicts>>
        /\ req.pc \in {"extract", "graph"}
    BY <1>2 DEF Extract, AnalysisNode, HumanReview, ApproveNode, RejectNode, NodeReady, At,
       database
  <2>2. \E g : Continue(t, g)
    BY <1>2 DEF Extract, AnalysisNode, HumanReview, ApproveNode, RejectNode
  <2>3. thread'[t].pc = "graph" /\ Only(t)
    BY <1>a, <2>2 DEF Continue, Become, RequestStates, Only
  <2> QED
    BY <1>0, <1>f, <2>1, <2>3, AskedOn DEF Working, Preparing
<1>3. CASE LoadCheckpoint(t)
  <2>1. /\ UNCHANGED <<runStatus, approval, verdicts>> /\ t \notin Loops
        /\ thread'[t].pc = "graph" /\ Only(t)
    BY <1>a, <1>f, <1>3 DEF LoadCheckpoint, At, Starts, Become, RequestStates, Only, database
  <2> QED
    BY <1>0, <1>f, <2>1, AskedOn
<1>4. CASE \/ ReadDocument(t) \/ RefreshVersion(t) \/ ReadVersions(t)
           \/ ExtractRaises(t) \/ DeactivateOthers(t) \/ ReadApproval(t)
  <2>t. TypeInv
    BY DEF WasteInv
  <2>1. UNCHANGED <<runStatus, approval, verdicts>>
    BY <1>4, <2>t, ReadSteps DEF ExtractRaises, DeactivateOthers, ReadApproval, database
  <2>2. /\ thread'[t].pc \in {"sync_document", "read_versions", "idle", "deactivate",
                              "read_approval", "resolve"}
        /\ Only(t)
    <3>1. \/ Reset(t) \/ ReadDocument(t) \/ RefreshVersion(t) \/ ReadVersions(t)
          \/ \E pc \in {"read_approval", "resolve"} : Goto(t, pc)
      BY <1>4 DEF ExtractRaises, DeactivateOthers, ReadApproval
    <3>2. CASE Reset(t)
      BY <1>a, <3>2 DEF Reset, Become, IdleThread, Only
    <3>3. CASE ReadDocument(t) \/ RefreshVersion(t) \/ ReadVersions(t)
      BY <2>t, <3>3, ReadSteps DEF Only
    <3>4. CASE \E pc \in {"read_approval", "resolve"} : Goto(t, pc)
      BY <1>a, <3>4 DEF Goto, Become, RequestStates, Only
    <3> QED
      BY <3>1, <3>2, <3>3, <3>4
  <2> QED
    BY <1>0, <1>f, <2>1, <2>2, AskedOn DEF Working, Preparing
<1>5. CASE NodeRaises(t)
  <2>1. /\ UNCHANGED <<runStatus, approval, verdicts>>
        /\ req.pc = "graph" /\ thread'[t].pc = "fail" /\ thread'[t].run = req.run /\ Only(t)
    BY <1>a, <1>5 DEF NodeRaises, At, Goto, Become, RequestStates, Only
  <2>2. t \notin Loops => \E p \in verdicts[req.run] : p.edits
    BY <1>5, RaisesOverEdit
  <2>3. Asked(t)'
    BY <1>f, <2>1, <2>2 DEF Asked, Asking, Answering, Working
  <2> QED
    BY <1>f, <2>1, <2>3, AskedQuiet
<1>6. CASE SaveCheckpoint(t)
  <2>1. /\ UNCHANGED <<runStatus, approval, verdicts>>
        /\ thread'[t].pc = req.pc /\ thread'[t].run = req.run
        /\ thread'[t].outcome = req.outcome /\ Only(t)
    BY <1>a, <1>6 DEF SaveCheckpoint, Become, RequestStates, Only, database
  <2>2. Asked(t)'
    BY <1>f, <2>1 DEF Asked, Asking, Answering
  <2> QED
    BY <1>f, <2>1, <2>2, AskedQuiet
<1>7. CASE Pause(t)
  <2>1. t \in Loops
    BY <1>f, <1>7 DEF Pause, Resumes
  <2>2. /\ UNCHANGED <<runStatus, approval, verdicts>>
        /\ req.pc = "graph" /\ thread'[t].pc = "approval" /\ thread'[t].run = req.run
        /\ thread'[t].outcome = "waiting_approval" /\ Only(t)
    BY <1>a, <1>7 DEF Pause, StreamEnded, At, Become, RequestStates, Only, database
  <2>3. Asked(t)'
    BY <1>f, <2>1, <2>2 DEF Asked, Asking, Working
  <2> QED
    BY <1>f, <2>2, <2>3, AskedQuiet
<1>8. CASE GetState(t)
  <2>1. t \notin Loops
    BY <1>f, <1>8 DEF GetState, StreamEnded, At, Starts, Analysis
  <2>2. /\ UNCHANGED <<runStatus, approval, verdicts>>
        /\ thread'[t].pc = "update_run" /\ thread'[t].run = req.run
        /\ thread'[t].outcome \in Decided /\ Only(t)
    BY <1>a, <1>8
       DEF GetState, FinalStatus, Become, RequestStates, Only, database, Decided
  <2>3. Asked(t)'
    BY <1>f, <2>1, <2>2 DEF Asked, Answering
  <2> QED
    BY <1>f, <2>2, <2>3, AskedQuiet
<1>9. CASE CreateApproval(t)
  <2>1. t \in Loops /\ req.pc = "approval" /\ runStatus[r] = "running"
    BY <1>f, <1>r, <1>9 DEF CreateApproval, At, Resumes, Starts, Working
  <2>2. /\ thread'[t].pc = "update_run" /\ thread'[t].run = r
        /\ thread'[t].outcome = req.outcome /\ Only(t)
    BY <1>a, <1>r, <1>9 DEF CreateApproval, Goto, Become, RequestStates, Only
  <2>3. /\ approval'[r] = "pending" /\ \A q \in Runs : q # r => approval'[q] = approval[q]
        /\ UNCHANGED <<runStatus, verdicts>>
    BY <1>a, <1>r, <1>9 DEF CreateApproval
  <2>4. ASSUME NEW u \in Threads PROVE Asked(u)'
    <3>1. CASE u = t
      BY <1>f, <2>1, <2>2, <3>1 DEF Asked, Asking
    <3>2. CASE u # t
      <4>1. thread[u].pc # "idle" => thread[u].run \in Runs \ {r}
        BY <1>0, <1>r, <2>1, <3>2
           DEF WasteInv, TypeInv, WellFormed, ReviewInv, Fits, Resumes, StartedOnce
      <4> QED
        BY <1>f, <2>2, <2>3, <3>2, <4>1 DEF Only, AskedInv, Asked, Asking, Answering
    <3> QED
      BY <3>1, <3>2
  <2> QED
    BY <1>f, <2>1, <2>3, <2>4 DEF AskedInv, NoWastedReview
<1>10. CASE UpdateRun(t) \/ RecordFailure(t)
  <2>1. /\ thread'[t].pc = "read_document" /\ thread'[t].run = req.run /\ Only(t)
    <3>1. UpdateRun(t) => Goto(t, "read_document")
      BY DEF UpdateRun
    <3>2. CASE Goto(t, "read_document")
      BY <1>a, <3>2 DEF Goto, Become, RequestStates, Only
    <3>3. CASE RecordFailure(t)
      BY <1>a, <3>3 DEF RecordFailure, Become, RequestStates, Only
    <3> QED
      BY <1>10, <3>1, <3>2, <3>3
  <2>2. UNCHANGED <<approval, verdicts>>
    BY <1>10 DEF UpdateRun, RecordFailure
  <2>3. /\ \A q \in Runs : q # r => runStatus'[q] = runStatus[q]
        /\ runStatus'[r] \notin {"none", "failed"} \/ (runStatus'[r] = "failed" /\ req.pc = "fail")
    <3>1. CASE UpdateRun(t)
      <4>1. req.pc = "update_run" /\ req.outcome \notin {"none", "failed"}
        BY <1>f, <3>1 DEF UpdateRun, At, Asking, Answering, Decided
      <4> QED
        BY <1>a, <1>r, <3>1, <4>1 DEF UpdateRun
    <3>2. CASE RecordFailure(t)
      BY <1>a, <1>r, <3>2 DEF RecordFailure, FailureStatus, At
    <3> QED
      BY <1>10, <3>1, <3>2
  <2>4. ASSUME NEW u \in Threads PROVE Asked(u)'
    <3>1. CASE u = t
      BY <1>0, <1>f, <2>1, <2>2, <3>1 DEF Asked, Asking, Answering, Working, Preparing
    <3>2. CASE u # t
      BY <1>f, <2>1, <2>2, <3>2 DEF Only, AskedInv, Asked, Asking, Answering
    <3> QED
      BY <3>1, <3>2
  <2>5. runStatus'[r] = "failed" => approval[r] = "none" \/ \E p \in verdicts[r] : p.edits
    BY <1>f, <1>r, <2>3 DEF Asking, Answering, Working
  <2>6. NoWastedReview'
    BY <1>f, <2>2, <2>3, <2>5 DEF AskedInv, NoWastedReview
  <2>7. \A q \in Runs : runStatus'[q] = "none" => approval'[q] = "none"
    BY <1>f, <2>2, <2>3 DEF AskedInv
  <2> QED
    BY <2>4, <2>6, <2>7 DEF AskedInv
<1>11. CASE ResolveApproval(t)
  <2>1. t \notin Loops /\ approval[r] # "none"
    BY <1>f, <1>r, <1>11 DEF ResolveApproval, At, Starts, Answering
  <2>2. thread'[t].pc = "idle" /\ Only(t)
    BY <1>a, <1>11 DEF ResolveApproval, Reset, Become, IdleThread, Only
  <2>3. /\ \A q \in Runs : q # r => approval'[q] = approval[q]
        /\ approval'[r] # "none" /\ UNCHANGED <<runStatus, verdicts>>
    BY <1>a, <1>r, <1>11 DEF ResolveApproval, Resolution
  <2>4. ASSUME NEW u \in Threads PROVE Asked(u)'
    <3>1. thread[u].pc # "idle" => thread[u].run \in Runs
      BY DEF WasteInv, TypeInv, WellFormed
    <3> QED
      BY <1>f, <2>1, <2>2, <2>3, <3>1 DEF Only, AskedInv, Asked, Asking, Answering
  <2> QED
    BY <1>f, <2>1, <2>3, <2>4 DEF AskedInv, NoWastedReview
<1> QED
  BY <1>1, <1>2, <1>3, <1>4, <1>5, <1>6, <1>7, <1>8, <1>9, <1>10, <1>11 DEF Proceed

\* So does every other step, and with the other invariants it is inductive.
LEMMA WasteInductive ==
  ASSUME MaxAgentSteps >= 7, WasteInv, [Next]_vars
  PROVE  WasteInv'
<1>a. /\ thread \in [Threads -> RequestStates] /\ verdicts \in [Runs -> SUBSET Payloads]
      /\ runStatus \in [Runs -> {"none"} \cup RunStatuses]
      /\ AskedInv
  BY DEF WasteInv, TypeInv, TypeOK
<1>b. \A u \in Threads : thread[u].pc # "idle" => thread[u].run \in Runs
  BY DEF WasteInv, TypeInv, WellFormed
<1>1. ASSUME NEW t \in Loops, NEW r \in Runs, CreateRun(t, r) PROVE AskedInv'
  <2>1. /\ thread'[t].pc = "mark_document" /\ thread'[t].run = r
        /\ \A u \in Threads : u # t => thread'[u] = thread[u]
    BY <1>a, <1>1 DEF CreateRun, At, Become, IdleThread, Threads
  <2>2. /\ runStatus[r] = "none" /\ runStatus'[r] = "running"
        /\ \A q \in Runs : q # r => runStatus'[q] = runStatus[q]
        /\ UNCHANGED <<approval, verdicts>>
    BY <1>a, <1>1 DEF CreateRun
  <2>3. ASSUME NEW u \in Threads PROVE Asked(u)'
    BY <1>1, <1>a, <2>1, <2>2 DEF AskedInv, Asked, Asking, Answering
  <2> QED
    BY <1>a, <2>2, <2>3 DEF AskedInv, NoWastedReview
<1>2. ASSUME NEW t \in Workers, NEW r \in Runs, NEW p \in Decisions,
             AcceptDecision(t, r, p) PROVE AskedInv'
  <2>1. /\ thread'[t].pc = "load" /\ thread'[t].run = r /\ t \in Threads /\ t \notin Loops
        /\ \A u \in Threads : u # t => thread'[u] = thread[u]
    BY <1>a, <1>2, ThreadsAssumption
       DEF AcceptDecision, At, Become, IdleThread, Threads, ThreadsAssumption
  <2>2. /\ runStatus[r] = "waiting_approval" /\ UNCHANGED <<runStatus, approval>>
        /\ \A q \in Runs : verdicts[q] \subseteq verdicts'[q]
    BY <1>a, <1>2 DEF AcceptDecision, Resumable, database
  <2>3. approval[r] # "none"
    BY <2>2 DEF WasteInv, ReviewInv, RowsFit
  <2>4. ASSUME NEW u \in Threads PROVE Asked(u)'
    <3>1. CASE u = t
      BY <2>1, <2>2, <2>3, <3>1 DEF Asked, Answering
    <3>2. CASE u # t
      BY <1>a, <1>b, <2>1, <2>2, <3>2 DEF AskedInv, Asked, Asking, Answering
    <3> QED
      BY <3>1, <3>2
  <2> QED
    BY <1>a, <2>2, <2>4 DEF AskedInv, NoWastedReview
<1>3. Crash => AskedInv'
  BY <1>a DEF Crash, IdleThread, database, AskedInv, Asked, NoWastedReview
<1>4. UNCHANGED vars => AskedInv'
  BY <1>a DEF vars, database, AskedInv, Asked, Asking, Answering, NoWastedReview
<1>5. AskedInv'
  BY <1>1, <1>2, <1>3, <1>4, ProceedAsked DEF Next
<1> QED
  BY <1>5, TypeInductive, StepsInductive, ControlInductive, ReviewInductive
     DEF WasteInv, ControlInv

\* Initially nobody was asked.
LEMMA WasteInit == Init => WasteInv
<1> SUFFICES ASSUME Init PROVE WasteInv
  OBVIOUS
<1>1. AskedInv
  BY DEF Init, IdleThread, AskedInv, Asked, NoWastedReview
<1> QED
  BY <1>1, TypeInit, StepsInit, ControlInit, ReviewInit DEF WasteInv, ControlInv

\* With seven steps or more, a run a person was asked about fails only over a reviewer's
\* edits: the budget never runs out between the pause and the decision.
THEOREM NoWastedReviewHolds ==
  ASSUME MaxAgentSteps >= 7
  PROVE  Spec => []NoWastedReview
<1>1. WasteInv => NoWastedReview
  BY DEF WasteInv, AskedInv
<1>2. WasteInv /\ [Next]_vars => WasteInv'
  BY WasteInductive
<1> QED
  BY <1>1, <1>2, WasteInit, PTL DEF Spec

-----------------------------------------------------------------------------
(* One reviewer at a time: a run is concluded once, the way somebody asked *)

Sole == \A s, t \in Workers : s = t

\* A finished graph took a decision, and rejects only over a rejection.
Sealed(g) == g.next = "END" =>
    /\ g.final \in Decided
    /\ g.final = "rejected" => g.decision.action = "reject"

\* A start never finishes the graph; it ends with a pause.
Opens(req) ==
    /\ req.pc \in {"graph", "fail"} => req.graph.next # "END"
    /\ req.pc \in {"approval", "update_run"} => req.outcome = "waiting_approval"

\* What the only decision at work knows: until it writes the status the run waits, and
\* what the checkpoint and the draft hold is its own.
Decides(req) ==
    LET r == req.run
        g == req.graph
    IN
    /\ req.pc \in {"load", "graph", "fail", "update_run"} => runStatus[r] = "waiting_approval"
    /\ req.pc \in {"graph", "fail"} =>
           /\ Sealed(g)
           /\ g.next # "END" => checkpoint[r].next # "END"
           /\ g.final = "rejected" => draft[r].status = "rejected"
           /\ req.pc = "graph" /\ req.saved => checkpoint[r] = g
    /\ req.pc = "update_run" /\ req.outcome = "rejected" =>
           /\ \E p \in verdicts[r] : p.action = "reject"
           /\ draft[r].status = "rejected"

Alone(t) == thread[t].pc # "idle" =>
                IF t \in Loops THEN Opens(thread[t]) ELSE Decides(thread[t])

\* A run that is not reviewed yet did not finish; who rejects marks the draft.
Concludes(r) ==
    /\ Sealed(checkpoint[r])
    /\ runStatus[r] \in {"none", "running"} => checkpoint[r].next # "END"
    /\ checkpoint[r].final = "rejected" => draft[r].status = "rejected"
    /\ runStatus[r] = "rejected" => draft[r].status = "rejected"

AloneInv == (\A t \in Threads : Alone(t)) /\ (\A r \in Runs : Concludes(r))
SoleInv  == TypeInv /\ HumanControlInv /\ ReviewInv /\ AloneInv

\* A step that leaves the rows alone threatens its own request only.
LEMMA AloneQuiet ==
  ASSUME AloneInv, NEW t \in Threads, Only(t), Alone(t)', UNCHANGED <<RunRows, verdicts>>
  PROVE  AloneInv'
<1>1. ASSUME NEW u \in Threads PROVE Alone(u)'
  BY DEF Only, AloneInv, Alone, Opens, Decides, RunRows
<1>2. ASSUME NEW r \in Runs PROVE Concludes(r)'
  BY DEF AloneInv, Concludes, RunRows
<1> QED
  BY <1>1, <1>2 DEF AloneInv

\* Whoever writes a row of a run is alone with it: a start because nobody decides about a
\* running run, a decision because there is no other.
LEMMA AloneStep ==
  ASSUME Sole, SoleInv, NEW t \in Threads, NEW r \in Runs, thread[t].pc # "idle",
         thread[t].run = r, Only(t), OthersKept(r), UNCHANGED verdicts,
         t \in Loops => runStatus[r] = "running", Alone(t)', Concludes(r)'
  PROVE  AloneInv'
<1>1. ASSUME NEW u \in Threads PROVE Alone(u)'
  <2>1. CASE u = t
    BY <2>1
  <2>2. CASE u # t /\ u \in Loops
    BY <2>2 DEF Only, SoleInv, AloneInv, Alone, Opens
  <2>3. CASE u # t /\ u \notin Loops
    <3>1. t \in Loops
      BY <2>3 DEF Sole, Threads
    <3>2. thread[u].pc # "idle" => thread[u].run \in Runs \ {r}
      BY <2>3, <3>1 DEF SoleInv, TypeInv, WellFormed, ReviewInv, Fits, Resumes
    <3> QED
      BY <2>3, <3>2 DEF Only, OthersKept, SoleInv, AloneInv, Alone, Decides
  <2> QED
    BY <2>1, <2>2, <2>3
<1>2. ASSUME NEW q \in Runs PROVE Concludes(q)'
  <2>1. CASE q # r
    BY <2>1 DEF OthersKept, SoleInv, AloneInv, Concludes
  <2> QED
    BY <2>1
<1> QED
  BY <1>1, <1>2 DEF AloneInv

\* Without an END, a justified state has no final action.
LEMMA NotFinal ==
  ASSUME NEW V, NEW g, Justified(V, g), g.next # "END"
  PROVE  g.final # "rejected"
  BY DEF Justified

\* Every step of a request keeps that.
LEMMA ProceedAlone ==
  ASSUME Sole, SoleInv, NEW t \in Threads, Proceed(t)
  PROVE  AloneInv'
<1> DEFINE req == thread[t]
<1>0. thread[t].pc # "idle"
  BY ProceedIsBusy
<1>a. /\ thread \in [Threads -> RequestStates] /\ req \in RequestStates
      /\ runStatus \in [Runs -> {"none"} \cup RunStatuses]
      /\ checkpoint \in [Runs -> GraphStates] /\ draft \in [Runs -> DraftRows]
      /\ executed \in [Runs -> [Analysis -> Nat]]
      /\ req.graph \in GraphStates /\ WellFormed(req)
  BY DEF SoleInv, TypeInv, TypeOK, RequestStates
<1>r. PICK r \in Runs : r = thread[t].run
  BY <1>0, <1>a DEF WellFormed
<1>f. /\ t \in Loops => Starts(req) /\ Opens(req)
      /\ t \notin Loops => Resumes(req) /\ Decides(req)
      /\ AloneInv /\ Concludes(r) /\ RowsFit(r)
  BY <1>0 DEF SoleInv, ReviewInv, Fits, AloneInv, Alone
<1>j. Justified(verdicts[r], req.graph) /\ Justified(verdicts[r], checkpoint[r])
  BY <1>r DEF SoleInv, HumanControlInv, Backed
<1>1. CASE \/ MarkDocument(t) \/ MarkVersion(t) \/ SyncDocument(t) \/ SyncVersion(t)
           \/ ReadDocument(t) \/ RefreshVersion(t) \/ ReadVersions(t)
           \/ ExtractRaises(t) \/ DeactivateOthers(t) \/ ReadApproval(t)
  <2>t. TypeInv
    BY DEF SoleInv
  <2>1. UNCHANGED <<RunRows, verdicts>>
    BY <1>1, <2>t, ReadSteps DEF MarkDocument, MarkVersion, SyncDocument, SyncVersion,
       ExtractRaises, DeactivateOthers, ReadApproval, database, RunRows
  <2>2. /\ thread'[t].pc \in {"mark_version", "extract", "sync_document", "sync_version",
                              "refresh_version", "read_versions", "idle", "deactivate",
                              "read_approval", "resolve"}
        /\ Only(t)
    <3>1. \/ Reset(t) \/ ReadDocument(t) \/ RefreshVersion(t) \/ ReadVersions(t)
          \/ \E pc \in {"mark_version", "extract", "sync_version", "refresh_version",
                        "read_approval", "resolve"} : Goto(t, pc)
      BY <1>1 DEF MarkDocument, MarkVersion, SyncDocument, SyncVersion, ExtractRaises,
         DeactivateOthers, ReadApproval
    <3>2. CASE Reset(t)
      BY <1>a, <3>2 DEF Reset, Become, IdleThread, Only
    <3>3. CASE ReadDocument(t) \/ RefreshVersion(t) \/ ReadVersions(t)
      BY <2>t, <3>3, ReadSteps DEF Only
    <3>4. CASE \E pc \in {"mark_version", "extract", "sync_version", "refresh_version",
                          "read_approval", "resolve"} : Goto(t, pc)
      BY <1>a, <3>4 DEF Goto, Become, RequestStates, Only
    <3> QED
      BY <3>1, <3>2, <3>3, <3>4
  <2>3. Alone(t)'
    BY <2>2 DEF Alone, Opens, Decides
  <2> QED
    BY <1>f, <2>1, <2>2, <2>3, AloneQuiet
<1>2. CASE Extract(t)
  <2>1. t \in Loops
    BY <1>f, <1>2 DEF Extract, At, Resumes, Preparing
  <2>2. /\ thread'[t].pc = "graph" /\ thread'[t].graph = InitialState /\ Only(t)
        /\ UNCHANGED <<RunRows, verdicts>>
    BY <1>a, <1>2 DEF Extract, Continue, Become, RequestStates, Only, RunRows
  <2>3. Alone(t)'
    BY <2>1, <2>2 DEF Alone, Opens, InitialState
  <2> QED
    BY <1>f, <2>2, <2>3, AloneQuiet
<1>3. CASE LoadCheckpoint(t)
  <2>1. t \notin Loops /\ req.pc = "load"
    BY <1>f, <1>3 DEF LoadCheckpoint, At, Starts
  <2>2. /\ thread'[t].pc = "graph" /\ thread'[t].graph = checkpoint[r]
        /\ thread'[t].run = r /\ Only(t) /\ UNCHANGED <<RunRows, verdicts>>
    BY <1>a, <1>r, <1>3
       DEF LoadCheckpoint, StateToResume, Become, RequestStates, Only, RunRows, database
  <2>3. Alone(t)'
    BY <1>f, <1>r, <2>1, <2>2 DEF Alone, Decides, Concludes, RunRows
  <2> QED
    BY <1>f, <2>2, <2>3, AloneQuiet
<1>4. ASSUME NEW n \in Analysis, AnalysisNode(t, n) PROVE AloneInv'
  <2>1. t \in Loops /\ req.pc = "graph" /\ runStatus[r] = "running"
    BY <1>f, <1>r, <1>4
       DEF AnalysisNode, NodeReady, At, Resumes, Reviewable, Analysis, Starts, Working
  <2>2. PICK g : Continue(t, g) /\ g.next = NodeAfter(n)
    BY <1>a, <1>4, AdvancedFields DEF AnalysisNode, NodeReady
  <2>3. thread'[t].pc = "graph" /\ thread'[t].graph = g /\ Only(t)
    BY <1>a, <2>2 DEF Continue, Become, RequestStates, Only
  <2>4. Alone(t)'
    BY <2>1, <2>2, <2>3, NodeAfterNode DEF Alone, Opens
  <2>5. /\ UNCHANGED <<runStatus, checkpoint, approval, verdicts>>
        /\ \A q \in Runs : q # r => draft'[q] = draft[q] /\ executed'[q] = executed[q]
    BY <1>r, <1>4 DEF AnalysisNode
  <2>6. OthersKept(r)
    BY <2>5 DEF OthersKept
  <2>7. Concludes(r)'
    BY <1>f, <1>j, <2>1, <2>5, NotFinal DEF Concludes, Sealed
  <2> QED
    BY <1>0, <1>r, <2>1, <2>3, <2>4, <2>5, <2>6, <2>7, AloneStep
<1>5. CASE HumanReview(t)
  <2>1. t \notin Loops /\ req.pc = "graph" /\ req.graph.next = "human_review"
    BY <1>f, <1>5 DEF HumanReview, NodeReady, At, Starts
  <2>2. PICK g : /\ Continue(t, g) /\ g.next = Route(req.payload)
                 /\ g.final = req.graph.final
    <3> DEFINE g == [req.graph EXCEPT !.next = Route(req.payload), !.decision = req.payload]
    <3>1. g.next = Route(req.payload) /\ g.final = req.graph.final
      BY <1>a DEF GraphStates
    <3>2. Continue(t, g)
      BY <1>5 DEF HumanReview
    <3> HIDE DEF g
    <3> QED
      BY <3>1, <3>2
  <2>3. /\ thread'[t].pc = "graph" /\ thread'[t].graph = g /\ thread'[t].saved = FALSE
        /\ thread'[t].run = r /\ Only(t)
    BY <1>a, <1>r, <2>2 DEF Continue, Become, RequestStates, Only
  <2>4. UNCHANGED <<RunRows, verdicts>>
    BY <1>5 DEF HumanReview, RunRows, database
  <2>5. req.graph.final # "rejected"
    BY <1>j, <2>1, NotFinal
  <2>6. g.next # "END"
    BY <2>2 DEF Route
  <2>7. Alone(t)'
    BY <1>f, <1>r, <2>1, <2>2, <2>3, <2>4, <2>5, <2>6 DEF Alone, Decides, Sealed, RunRows
  <2> QED
    BY <1>f, <2>3, <2>4, <2>7, AloneQuiet
<1>6. CASE ApproveNode(t) \/ RejectNode(t)
  <2>1. /\ t \notin Loops /\ req.pc = "graph"
        /\ req.graph.next \in {"approve_run", "reject_run"}
    BY <1>f, <1>6 DEF ApproveNode, RejectNode, NodeReady, At, Starts, Analysis
  <2>2. PICK g : /\ Continue(t, g) /\ g.decision = req.graph.decision
                 /\ \/ g.final = "approved"
                    \/ /\ g.final = "rejected" /\ req.graph.next = "reject_run"
                       /\ draft' = [draft EXCEPT ![r] = RejectedDraft(r)]
    <3>1. PICK final : /\ Continue(t, Advanced(req.graph, final))
                       /\ \/ final = "approved"
                          \/ /\ final = "rejected" /\ req.graph.next = "reject_run"
                             /\ draft' = [draft EXCEPT ![r] = RejectedDraft(r)]
      BY <1>r, <1>6 DEF ApproveNode, RejectNode, NodeReady
    <3> DEFINE g == Advanced(req.graph, final)
    <3>2. g.decision = req.graph.decision /\ g.final = final
      BY <1>a, AdvancedFields
    <3>3. Continue(t, g)
      BY <3>1
    <3> HIDE DEF g
    <3> QED
      BY <3>1, <3>2, <3>3
  <2>3. /\ thread'[t].pc = "graph" /\ thread'[t].graph = g /\ thread'[t].saved = FALSE
        /\ thread'[t].run = r /\ Only(t)
    BY <1>a, <1>r, <2>2 DEF Continue, Become, RequestStates, Only
  <2>4. /\ UNCHANGED <<runStatus, checkpoint, approval, executed, verdicts>>
        /\ \A q \in Runs : q # r => draft'[q] = draft[q]
    <3>1. CASE ApproveNode(t)
      BY <1>a, <1>r, <3>1 DEF ApproveNode
    <3>2. CASE RejectNode(t)
      BY <1>a, <1>r, <3>2 DEF RejectNode
    <3> QED
      BY <1>6, <3>1, <3>2
  <2>5. OthersKept(r)
    BY <2>4 DEF OthersKept
  <2>6. g.final = "rejected" => draft'[r].status = "rejected" /\ g.decision.action = "reject"
    <3>1. runStatus[r] = "waiting_approval" /\ draft[r].status # "none"
      BY <1>f, <1>r, <2>1 DEF Decides, RowsFit
    <3> QED
      BY <1>a, <1>j, <2>2, <3>1 DEF RejectedDraft, DraftRows, Justified
  <2>7. runStatus[r] = "waiting_approval" /\ checkpoint[r].next # "END"
    BY <1>f, <1>r, <2>1 DEF Decides
  <2>8. Concludes(r)'
    BY <1>f, <1>j, <2>4, <2>7, NotFinal DEF Concludes
  <2>9. Alone(t)'
    BY <2>1, <2>2, <2>3, <2>4, <2>6, <2>7 DEF Alone, Decides, Sealed, Decided
  <2> QED
    BY <1>0, <1>r, <2>1, <2>3, <2>4, <2>5, <2>8, <2>9, AloneStep
<1>7. CASE NodeRaises(t)
  <2>1. /\ req.pc = "graph" /\ thread'[t].pc = "fail" /\ thread'[t].graph = req.graph
        /\ thread'[t].run = r /\ Only(t)
    BY <1>a, <1>r, <1>7 DEF NodeRaises, At, Goto, Become, RequestStates, Only
  <2>2. /\ UNCHANGED <<runStatus, approval, checkpoint, verdicts>>
        /\ \A q \in Runs : q # r => draft'[q] = draft[q] /\ executed'[q] = executed[q]
        /\ req.graph.next # "END"
    <3>1. UNCHANGED <<runStatus, approval, checkpoint, verdicts>> /\ req.graph.next # "END"
      BY <1>7 DEF NodeRaises, MayRaise, Analysis
    <3>2. \A q \in Runs : q # r => draft'[q] = draft[q]
      BY <1>a, <1>r, <1>7 DEF NodeRaises
    <3>3. \/ UNCHANGED executed
          \/ executed' = [executed EXCEPT ![r][req.graph.next] = @ + 1]
      BY <1>r, <1>7 DEF NodeRaises
    <3> QED
      BY <1>a, <3>1, <3>2, <3>3
  <2>3. OthersKept(r)
    BY <2>2 DEF OthersKept
  <2>4. /\ t \in Loops => runStatus[r] = "running"
        /\ t \notin Loops => runStatus[r] = "waiting_approval"
        /\ checkpoint[r].next # "END"
    BY <1>f, <1>r, <2>1, <2>2 DEF Starts, Working, Decides, Concludes
  <2>5. Concludes(r)'
    BY <1>f, <1>j, <2>2, <2>4, NotFinal DEF Concludes
  <2>6. req.graph.final # "rejected"
    BY <1>j, <2>2, NotFinal
  <2>7. Alone(t)'
    BY <1>f, <2>1, <2>2, <2>4, <2>6 DEF Alone, Opens, Decides
  <2> QED
    BY <1>0, <1>r, <2>1, <2>2, <2>3, <2>4, <2>5, <2>7, AloneStep
<1>8. CASE SaveCheckpoint(t)
  <2>1. /\ req.pc \in {"graph", "fail"} /\ thread'[t].pc = req.pc
        /\ thread'[t].graph = req.graph /\ thread'[t].run = r /\ Only(t)
    BY <1>a, <1>r, <1>8 DEF SaveCheckpoint, Become, RequestStates, Only
  <2>2. /\ checkpoint'[r] = req.graph /\ \A q \in Runs : q # r => checkpoint'[q] = checkpoint[q]
        /\ UNCHANGED <<runStatus, approval, executed, draft, verdicts>>
    BY <1>a, <1>r, <1>8 DEF SaveCheckpoint, database
  <2>3. OthersKept(r)
    BY <2>2 DEF OthersKept
  <2>4. /\ t \in Loops => runStatus[r] = "running" /\ req.graph.next # "END"
        /\ t \notin Loops => /\ runStatus[r] = "waiting_approval" /\ Sealed(req.graph)
                             /\ req.graph.final = "rejected" => draft[r].status = "rejected"
    BY <1>f, <1>r, <2>1 DEF Starts, Working, Opens, Decides
  <2>5. Concludes(r)'
    BY <1>f, <1>j, <2>2, <2>4, NotFinal DEF Concludes, Sealed
  <2>6. Alone(t)'
    BY <1>f, <1>r, <2>1, <2>2, <2>4 DEF Alone, Opens, Decides
  <2> QED
    BY <1>0, <1>r, <2>1, <2>2, <2>3, <2>4, <2>5, <2>6, AloneStep
<1>9. CASE Pause(t) \/ CreateApproval(t)
  <2>1. t \in Loops /\ runStatus[r] = "running"
    BY <1>f, <1>r, <1>9
       DEF Pause, StreamEnded, CreateApproval, At, Resumes, Starts, Working
  <2>2. /\ thread'[t].pc \in {"approval", "update_run"}
        /\ thread'[t].outcome = "waiting_approval" /\ Only(t)
    <3>1. CASE Pause(t)
      BY <1>a, <3>1 DEF Pause, Become, RequestStates, Only
    <3>2. CASE CreateApproval(t)
      BY <1>a, <1>f, <2>1, <3>2
         DEF CreateApproval, At, Opens, Goto, Become, RequestStates, Only
    <3> QED
      BY <1>9, <3>1, <3>2
  <2>3. /\ UNCHANGED <<runStatus, draft, checkpoint, executed, verdicts>>
        /\ \A q \in Runs : q # r => approval'[q] = approval[q]
    <3>1. CASE Pause(t)
      BY <3>1 DEF Pause, database
    <3>2. CASE CreateApproval(t)
      BY <1>r, <3>2 DEF CreateApproval
    <3> QED
      BY <1>9, <3>1, <3>2
  <2>4. OthersKept(r)
    BY <2>3 DEF OthersKept
  <2>5. Alone(t)' /\ Concludes(r)'
    BY <1>f, <2>1, <2>2, <2>3 DEF Alone, Opens, Concludes
  <2> QED
    BY <1>0, <1>r, <2>1, <2>2, <2>3, <2>4, <2>5, AloneStep
<1>10. CASE GetState(t)
  <2>1. t \notin Loops /\ req.pc = "graph" /\ req.saved /\ req.graph.next = "END"
    BY <1>f, <1>10 DEF GetState, StreamEnded, At, Starts, Analysis
  <2>2. /\ thread'[t].pc = "update_run" /\ thread'[t].run = r
        /\ thread'[t].outcome = FinalStatus(checkpoint[r].final) /\ Only(t)
        /\ UNCHANGED <<RunRows, verdicts>>
    BY <1>a, <1>r, <1>10 DEF GetState, Become, RequestStates, Only, RunRows, database
  <2>3. /\ checkpoint[r] = req.graph /\ runStatus[r] = "waiting_approval"
        /\ Sealed(req.graph) /\ (req.graph.final = "rejected" => draft[r].status = "rejected")
    BY <1>f, <1>r, <2>1 DEF Decides
  <2>4. thread'[t].outcome = "rejected" =>
           /\ \E p \in verdicts[r] : p.action = "reject"
           /\ draft[r].status = "rejected"
    BY <1>j, <2>1, <2>2, <2>3, NoPayloadUnfavourable
       DEF FinalStatus, Sealed, Decided, Justified
  <2>5. Alone(t)'
    BY <2>1, <2>2, <2>3, <2>4 DEF Alone, Decides, RunRows
  <2> QED
    BY <1>f, <2>2, <2>5, AloneQuiet
<1>11. CASE UpdateRun(t) \/ RecordFailure(t)
  <2>1. thread'[t].pc = "read_document" /\ Only(t)
    <3>1. UpdateRun(t) => Goto(t, "read_document")
      BY DEF UpdateRun
    <3>2. CASE Goto(t, "read_document")
      BY <1>a, <3>2 DEF Goto, Become, RequestStates, Only
    <3>3. CASE RecordFailure(t)
      BY <1>a, <3>3 DEF RecordFailure, Become, RequestStates, Only
    <3> QED
      BY <1>11, <3>1, <3>2, <3>3
  <2>2. /\ UNCHANGED <<approval, draft, checkpoint, executed, verdicts>>
        /\ \A q \in Runs : q # r => runStatus'[q] = runStatus[q]
        /\ \/ runStatus'[r] = "failed"
           \/ runStatus'[r] = req.outcome /\ req.pc = "update_run"
    BY <1>a, <1>r, <1>11 DEF UpdateRun, RecordFailure, FailureStatus, At
  <2>3. OthersKept(r)
    BY <2>2 DEF OthersKept
  <2>4. /\ t \in Loops => runStatus[r] = "running"
        /\ req.pc \in {"fail", "update_run"}
    BY <1>f, <1>r, <1>11 DEF UpdateRun, RecordFailure, At, Starts, Working
  <2>5. Alone(t)'
    BY <2>1 DEF Alone, Opens, Decides
  <2>6. req.pc = "update_run" => req.outcome # "none"
    BY <1>a DEF WellFormed, Reporting
  <2>7. req.pc = "update_run" => req.outcome # "running"
    BY <1>a DEF RequestStates, RunStatuses
  <2>8. req.pc = "update_run" /\ req.outcome = "rejected" => draft[r].status = "rejected"
    BY <1>f, <1>r DEF Opens, Decides
  <2>9. Concludes(r)'
    BY <1>f, <2>2, <2>6, <2>7, <2>8 DEF Concludes
  <2> QED
    BY <1>0, <1>r, <2>1, <2>2, <2>3, <2>4, <2>5, <2>9, AloneStep
<1>12. CASE ResolveApproval(t)
  <2>1. thread'[t].pc = "idle" /\ Only(t) /\ t \notin Loops
    BY <1>a, <1>f, <1>12 DEF ResolveApproval, At, Starts, Reset, Become, IdleThread, Only
  <2>2. /\ UNCHANGED <<runStatus, draft, checkpoint, executed, verdicts>>
        /\ \A q \in Runs : q # r => approval'[q] = approval[q]
    BY <1>r, <1>12 DEF ResolveApproval
  <2>3. OthersKept(r)
    BY <2>2 DEF OthersKept
  <2>4. Alone(t)' /\ Concludes(r)'
    BY <1>f, <2>1, <2>2 DEF Alone, Concludes
  <2> QED
    BY <1>0, <1>r, <2>1, <2>2, <2>3, <2>4, AloneStep
<1> QED
  BY <1>1, <1>2, <1>3, <1>4, <1>5, <1>6, <1>7, <1>8, <1>9, <1>10, <1>11, <1>12 DEF Proceed

\* So does every other step.
LEMMA SoleInductive ==
  ASSUME Sole, SoleInv, [Next]_vars
  PROVE  SoleInv'
<1>a. /\ thread \in [Threads -> RequestStates] /\ AloneInv
      /\ runStatus \in [Runs -> {"none"} \cup RunStatuses]
  BY DEF SoleInv, TypeInv, TypeOK
<1>1. ASSUME NEW t \in Loops, NEW r \in Runs, CreateRun(t, r) PROVE AloneInv'
  <2>1. /\ thread'[t].pc = "mark_document"
        /\ \A u \in Threads : u # t => thread'[u] = thread[u]
    BY <1>a, <1>1 DEF CreateRun, Become, IdleThread, Threads
  <2>2. /\ runStatus[r] = "none" /\ runStatus'[r] = "running"
        /\ \A q \in Runs : q # r => runStatus'[q] = runStatus[q]
        /\ UNCHANGED <<draft, checkpoint, verdicts>>
    BY <1>a, <1>1 DEF CreateRun
  <2>3. \A u \in Threads : thread[u].pc # "idle" => thread[u].run \in Runs \ {r}
    BY <2>2 DEF SoleInv, ReviewInv, RowsFit, TypeInv, WellFormed
  <2>4. ASSUME NEW u \in Threads PROVE Alone(u)'
    <3>1. CASE u = t
      BY <2>1, <3>1 DEF Alone, Opens
    <3>2. CASE u # t
      BY <1>a, <2>1, <2>2, <2>3, <3>2 DEF AloneInv, Alone, Opens, Decides
    <3> QED
      BY <3>1, <3>2
  <2>5. ASSUME NEW q \in Runs PROVE Concludes(q)'
    BY <1>a, <2>2 DEF AloneInv, Concludes
  <2> QED
    BY <2>4, <2>5 DEF AloneInv
<1>2. ASSUME NEW t \in Workers, NEW r \in Runs, NEW p \in Decisions,
             AcceptDecision(t, r, p) PROVE AloneInv'
  <2>1. /\ thread'[t].pc = "load" /\ thread'[t].run = r
        /\ \A u \in Threads : u # t => thread'[u] = thread[u]
    BY <1>a, <1>2 DEF AcceptDecision, Become, IdleThread, Threads
  <2>2. runStatus[r] = "waiting_approval" /\ UNCHANGED <<runStatus, draft, checkpoint>>
    BY <1>2 DEF AcceptDecision, Resumable, database
  <2>3. ASSUME NEW u \in Threads PROVE Alone(u)'
    <3>1. CASE u = t
      BY <2>1, <2>2, <3>1 DEF Alone, Opens, Decides
    <3>2. CASE u # t
      <4>1. u \in Loops
        BY <3>2 DEF Sole, Threads
      <4> QED
        BY <1>a, <2>1, <3>2, <4>1 DEF AloneInv, Alone, Opens
    <3> QED
      BY <3>1, <3>2
  <2>4. ASSUME NEW q \in Runs PROVE Concludes(q)'
    BY <1>a, <2>2 DEF AloneInv, Concludes
  <2> QED
    BY <2>3, <2>4 DEF AloneInv
<1>3. Crash => AloneInv'
  BY <1>a DEF Crash, IdleThread, database, AloneInv, Alone, Concludes
<1>4. UNCHANGED vars => AloneInv'
  BY <1>a DEF vars, database, AloneInv, Alone, Opens, Decides, Concludes
<1>5. AloneInv'
  BY <1>1, <1>2, <1>3, <1>4, ProceedAlone DEF Next
<1> QED
  BY <1>5, TypeInductive, ControlInductive, ReviewInductive DEF SoleInv, ControlInv

\* Initially nothing ran.
LEMMA SoleInit == Init => SoleInv
<1> SUFFICES ASSUME Init PROVE SoleInv
  OBVIOUS
<1>1. AloneInv
  BY DEF Init, IdleThread, AloneInv, Alone, Concludes, Sealed, NoCheckpoint, InitialState
<1> QED
  BY <1>1, TypeInit, ControlInit, ReviewInit DEF SoleInv, ControlInv

\* With one reviewer at a time, a rejected run has a rejected draft, wherever the process
\* died in between.
THEOREM RejectMarksRunAndDraftHolds ==
  ASSUME Sole
  PROVE  Spec => []RejectMarksRunAndDraft
<1>1. SoleInv => RejectMarksRunAndDraft
  BY DEF SoleInv, AloneInv, Concludes, RejectMarksRunAndDraft
<1>2. SoleInv /\ [Next]_vars => SoleInv'
  BY SoleInductive
<1> QED
  BY <1>1, <1>2, SoleInit, PTL DEF Spec

\* A request writes a status only while its run is undecided: a start's run is running,
\* and the run of the only decision waits.
LEMMA StatusMoves ==
  ASSUME Sole, SoleInv, NEW t \in Threads, Proceed(t)
  PROVE  \/ UNCHANGED <<runStatus, verdicts>>
         \/ \E r \in Runs, s \in RunStatuses :
               /\ r = thread[t].run /\ UNCHANGED verdicts
               /\ runStatus' = [runStatus EXCEPT ![r] = s]
               /\ runStatus[r] = IF t \in Loops THEN "running" ELSE "waiting_approval"
               /\ \/ s = thread[t].outcome /\ thread[t].pc = "update_run"
                  \/ s = "failed" /\ thread[t].pc = "fail"
<1> DEFINE req == thread[t]
<1>0. thread[t].pc # "idle"
  BY ProceedIsBusy
<1>1. CASE UpdateRun(t) \/ RecordFailure(t)
  <2>1. PICK r \in Runs : r = thread[t].run
    BY <1>0 DEF SoleInv, TypeInv, WellFormed
  <2>2. UNCHANGED verdicts
    BY <1>1 DEF UpdateRun, RecordFailure
  <2>3. req.pc \in {"fail", "update_run"}
    BY <1>1 DEF UpdateRun, RecordFailure, At
  <2>4. runStatus[r] = IF t \in Loops THEN "running" ELSE "waiting_approval"
    BY <1>0, <2>1, <2>3
       DEF SoleInv, ReviewInv, Fits, Starts, Working, AloneInv, Alone, Decides
  <2>5. \E s \in RunStatuses : /\ runStatus' = [runStatus EXCEPT ![r] = s]
                               /\ \/ s = req.outcome /\ req.pc = "update_run"
                                  \/ s = "failed" /\ req.pc = "fail"
    <3>1. CASE UpdateRun(t)
      <4>1. req.outcome \in RunStatuses /\ req.pc = "update_run"
        BY <3>1 DEF UpdateRun, At, SoleInv, TypeInv, WellFormed, Reporting, RequestStates
      <4>2. runStatus' = [runStatus EXCEPT ![r] = req.outcome]
        BY <2>1, <3>1 DEF UpdateRun
      <4> QED
        BY <4>1, <4>2
    <3>2. CASE RecordFailure(t)
      <4>1. runStatus' = [runStatus EXCEPT ![r] = "failed"] /\ req.pc = "fail"
        BY <2>1, <3>2 DEF RecordFailure, FailureStatus, At
      <4> QED
        BY <4>1 DEF RunStatuses
    <3> QED
      BY <1>1, <3>1, <3>2
  <2> QED
    BY <2>1, <2>2, <2>4, <2>5
<1>2. CASE ~(UpdateRun(t) \/ RecordFailure(t))
  <2>1. UNCHANGED <<runStatus, verdicts>>
    BY <1>2 DEF Proceed, MarkDocument, MarkVersion, Extract, ExtractRaises, LoadCheckpoint,
       AnalysisNode, HumanReview, ApproveNode, RejectNode, NodeRaises, SaveCheckpoint, Pause,
       GetState, CreateApproval, ReadDocument, SyncDocument, SyncVersion, RefreshVersion,
       ReadVersions, DeactivateOthers, ReadApproval, ResolveApproval, database
  <2> QED
    BY <2>1
<1> QED
  BY <1>1, <1>2

\* With one reviewer at a time, a concluded run is never decided again.
THEOREM DecisionIsFinalHolds ==
  ASSUME Sole
  PROVE  Spec => DecisionIsFinal
<1> DEFINE Kept == \A r \in Runs : runStatus[r] \in Concluded => runStatus'[r] = runStatus[r]
<1>1. ASSUME SoleInv, [Next]_vars PROVE Kept
  <2>a. runStatus \in [Runs -> {"none"} \cup RunStatuses]
    BY <1>1 DEF SoleInv, TypeInv, TypeOK
  <2>1. ASSUME NEW t \in Loops, NEW r \in Runs, CreateRun(t, r) PROVE Kept
    BY <2>a, <2>1 DEF CreateRun, Concluded
  <2>2. ASSUME NEW t \in Threads, Proceed(t) PROVE Kept
    BY <1>1, <2>a, <2>2, StatusMoves DEF Concluded
  <2>3. ASSUME NEW t \in Workers, NEW r \in Runs, NEW p \in Decisions,
               AcceptDecision(t, r, p) PROVE Kept
    BY <2>3 DEF AcceptDecision, database
  <2>4. Crash \/ UNCHANGED vars => Kept
    BY DEF Crash, vars, database
  <2> QED
    BY <1>1, <2>1, <2>2, <2>3, <2>4 DEF Next
<1>2. SoleInv /\ [Next]_vars => SoleInv'
  BY SoleInductive
<1>3. SoleInv /\ [Next]_vars => [Kept]_vars
  BY <1>1
<1> HIDE DEF Kept
<1>4. Spec => [][Kept]_vars
  BY <1>2, <1>3, SoleInit, PTL DEF Spec
<1> QED
  BY <1>4 DEF Kept, DecisionIsFinal

-----------------------------------------------------------------------------
(* WorkflowService implements HumanApproval *)

\* Every step of a request is one of the abstract process, or invisible to it.
LEMMA ProceedImplements ==
  ASSUME Sole, MaxAgentSteps >= 7, SoleInv, WasteInv, NEW t \in Threads, Proceed(t)
  PROVE  [Approval!Next]_(Approval!vars)
<1>1. CASE UNCHANGED <<runStatus, verdicts>>
  BY <1>1 DEF Approval!vars
<1>2. ASSUME NEW r \in Runs, NEW s \in RunStatuses,
             r = thread[t].run, UNCHANGED verdicts,
             runStatus' = [runStatus EXCEPT ![r] = s],
             runStatus[r] = IF t \in Loops THEN "running" ELSE "waiting_approval",
             \/ s = thread[t].outcome /\ thread[t].pc = "update_run"
             \/ s = "failed" /\ thread[t].pc = "fail"
      PROVE  Approval!Next
  <2>0. thread[t].pc # "idle"
    BY ProceedIsBusy
  <2>1. CASE t \in Loops
    <3>1. s \in {"waiting_approval", "failed"}
      BY <1>2, <2>0, <2>1 DEF WasteInv, AskedInv, Asked, Asking
    <3>2. Approval!Pause(r) \/ Approval!Break(r)
      BY <1>2, <2>1, <3>1 DEF Approval!Pause, Approval!Break, Approval!Move
    <3> QED
      BY <3>2 DEF Approval!Next
  <2>2. CASE t \notin Loops
    <3>1. CASE s = "failed" /\ thread[t].pc = "fail"
      <4>1. \E p \in verdicts[r] : p.edits
        BY <1>2, <2>0, <2>2, <3>1 DEF WasteInv, AskedInv, Asked, Answering
      <4>2. Approval!Spoil(r)
        BY <1>2, <2>2, <3>1, <4>1 DEF Approval!Spoil, Approval!Move
      <4> QED
        BY <4>2 DEF Approval!Next
    <3>2. CASE s = thread[t].outcome /\ thread[t].pc = "update_run"
      <4>1. s \in Decided
        BY <2>0, <2>2, <3>2 DEF WasteInv, AskedInv, Asked, Answering
      <4>2. s = "approved" => Approval!Approve(r)
        <5>1. s = "approved" => \E p \in verdicts[r] : Approval!Favourable(p)
          BY <1>2, <3>2
             DEF SoleInv, HumanControlInv, Backed, Favourable, Approval!Favourable
        <5> QED
          BY <1>2, <2>2, <5>1 DEF Approval!Approve, Approval!Move
      <4>3. s = "rejected" => Approval!Reject(r)
        <5>1. s = "rejected" => \E p \in verdicts[r] : Approval!Unfavourable(p)
          BY <1>2, <2>0, <2>2, <3>2
             DEF SoleInv, AloneInv, Alone, Decides, Approval!Unfavourable
        <5> QED
          BY <1>2, <2>2, <5>1 DEF Approval!Reject, Approval!Move
      <4> QED
        BY <4>1, <4>2, <4>3 DEF Decided, Approval!Next
    <3> QED
      BY <1>2, <3>1, <3>2
  <2> QED
    BY <2>1, <2>2
<1> QED
  BY <1>1, <1>2, StatusMoves

\* With one reviewer at a time and a sufficient step budget, whatever the graph, its
\* checkpoints, the rows and the crashes do amounts to the approval a person is promised:
\* a run pauses, somebody decides, and it is concluded once, as that person asked.
THEOREM OneReviewerImplementsHumanApproval ==
  ASSUME Sole, MaxAgentSteps >= 7
  PROVE  Spec => ImplementsHumanApproval
<1>1. Init => Approval!Init
  BY DEF Init, Approval!Init
<1>2. ASSUME SoleInv, WasteInv, [Next]_vars PROVE [Approval!Next]_(Approval!vars)
  <2>1. ASSUME NEW t \in Loops, NEW r \in Runs, CreateRun(t, r) PROVE Approval!Next
    <3>1. Approval!Open(r)
      BY <2>1 DEF CreateRun, Approval!Open, Approval!Move
    <3> QED
      BY <3>1 DEF Approval!Next
  <2>2. ASSUME NEW t \in Workers, NEW r \in Runs, NEW p \in Decisions,
               AcceptDecision(t, r, p) PROVE Approval!Next
    <3>1. Approval!Submit(r, p)
      BY <2>2 DEF AcceptDecision, Resumable, database, Approval!Submit
    <3> QED
      BY <3>1, DecisionsAssumption DEF DecisionsAssumption, Approval!Next
  <2>3. CASE Crash \/ UNCHANGED vars
    BY <2>3 DEF Crash, vars, database, Approval!vars
  <2> QED
    BY <1>2, <2>1, <2>2, <2>3, ProceedImplements DEF Next
<1>3. SoleInv /\ [Next]_vars => SoleInv'
  BY SoleInductive
<1>4. WasteInv /\ [Next]_vars => WasteInv'
  BY WasteInductive
<1> QED
  BY <1>1, <1>2, <1>3, <1>4, SoleInit, WasteInit, PTL
     DEF Spec, ImplementsHumanApproval, Approval!Spec

-----------------------------------------------------------------------------
(* Any number of reviewers: WorkflowService implements contested approval *)

ImplementsContestedApproval == Approval!ContestedSpec

\* Where a run can be when resume_run's request works on it.
Heard == {"waiting_approval"} \cup Concluded

\* A status a start writes ends the analysis; one that a decision writes is an outcome
\* that some decision about the run accounts for, whatever the run was by then.
LEMMA ContestedMoves ==
  ASSUME MaxAgentSteps >= 7, WasteInv, NEW t \in Threads, Proceed(t)
  PROVE  \/ UNCHANGED <<runStatus, verdicts>>
         \/ \E r \in Runs : Approval!Pause(r) \/ Approval!Break(r) \/ Approval!Overrule(r)
<1> DEFINE req == thread[t]
<1>0. thread[t].pc # "idle"
  BY ProceedIsBusy
<1>1. CASE UpdateRun(t) \/ RecordFailure(t)
  <2>1. PICK r \in Runs : r = thread[t].run
    BY <1>0 DEF WasteInv, TypeInv, WellFormed
  <2>2. UNCHANGED verdicts /\ runStatus[r] \in {"none"} \cup RunStatuses
    BY <1>1 DEF UpdateRun, RecordFailure, WasteInv, TypeInv, TypeOK
  <2>3. PICK s : /\ runStatus' = [runStatus EXCEPT ![r] = s]
                 /\ \/ s = req.outcome /\ req.pc = "update_run"
                    \/ s = "failed" /\ req.pc = "fail"
    BY <1>1, <2>1 DEF UpdateRun, RecordFailure, FailureStatus, At
  <2>4. CASE t \in Loops
    <3>1. runStatus[r] = "running"
      BY <1>0, <2>1, <2>3, <2>4 DEF WasteInv, ReviewInv, Fits, Starts, Working
    <3>2. s \in {"waiting_approval", "failed"}
      BY <1>0, <2>3, <2>4 DEF WasteInv, AskedInv, Asked, Asking
    <3>3. Approval!Pause(r) \/ Approval!Break(r)
      BY <2>2, <2>3, <3>1, <3>2 DEF Approval!Pause, Approval!Break, Approval!Move
    <3> QED
      BY <3>3
  <2>5. CASE t \notin Loops
    <3>1. runStatus[r] \in Heard
      BY <1>0, <2>1, <2>2, <2>5
         DEF WasteInv, ReviewInv, Fits, Resumes, RunStatuses, Concluded, Heard
    <3>2. \E p \in verdicts[r] : TRUE
      BY <1>0, <2>1, <2>5 DEF WasteInv, ReviewInv, Fits, Resumes, HumanControlInv, Backed
    <3>3. s \in Decided \/ (s = "failed" /\ req.pc = "fail")
      BY <1>0, <2>3, <2>5 DEF WasteInv, AskedInv, Asked, Answering
    <3>4. s = "approved" => \E p \in verdicts[r] : Approval!Favourable(p)
      BY <2>1, <2>3
         DEF WasteInv, HumanControlInv, Backed, Favourable, Approval!Favourable
    <3>5. s = "failed" => \E p \in verdicts[r] : p.edits
      BY <1>0, <2>1, <2>5, <3>3 DEF WasteInv, AskedInv, Asked, Answering, Decided
    <3>6. s \in Approval!Outcomes(r)
      BY <3>2, <3>3, <3>4, <3>5 DEF Approval!Outcomes, Decided
    <3>7. Approval!Overrule(r)
      BY <2>2, <2>3, <3>1, <3>6 DEF Approval!Overrule, Heard, Concluded
    <3> QED
      BY <3>7
  <2> QED
    BY <2>4, <2>5
<1>2. CASE ~(UpdateRun(t) \/ RecordFailure(t))
  <2>1. UNCHANGED <<runStatus, verdicts>>
    BY <1>2 DEF Proceed, MarkDocument, MarkVersion, Extract, ExtractRaises, LoadCheckpoint,
       AnalysisNode, HumanReview, ApproveNode, RejectNode, NodeRaises, SaveCheckpoint, Pause,
       GetState, CreateApproval, ReadDocument, SyncDocument, SyncVersion, RefreshVersion,
       ReadVersions, DeactivateOthers, ReadApproval, ResolveApproval, database
  <2> QED
    BY <2>1
<1> QED
  BY <1>1, <1>2

\* However many people decide at once, however many processes serve them and wherever these
\* die: no run is reopened or concluded unheard, it is approved only as somebody asked, and
\* fails after the pause only over somebody's edits.  What gives way is the outcome: a
\* decision that is carried out late overrules another, and may come out as a rejection.
THEOREM AnyReviewersImplementContestedApproval ==
  ASSUME MaxAgentSteps >= 7
  PROVE  Spec => ImplementsContestedApproval
<1>1. Init => Approval!Init
  BY DEF Init, Approval!Init
<1>2. ASSUME WasteInv, [Next]_vars PROVE [Approval!ContestedNext]_(Approval!vars)
  <2>1. ASSUME NEW t \in Loops, NEW r \in Runs, CreateRun(t, r) PROVE Approval!ContestedNext
    <3>1. Approval!Open(r)
      BY <2>1 DEF CreateRun, Approval!Open, Approval!Move
    <3> QED
      BY <3>1 DEF Approval!Next, Approval!ContestedNext
  <2>2. ASSUME NEW t \in Workers, NEW r \in Runs, NEW p \in Decisions,
               AcceptDecision(t, r, p) PROVE Approval!ContestedNext
    <3>1. Approval!Submit(r, p)
      BY <2>2 DEF AcceptDecision, Resumable, database, Approval!Submit
    <3> QED
      BY <3>1, DecisionsAssumption
         DEF DecisionsAssumption, Approval!Next, Approval!ContestedNext
  <2>3. ASSUME NEW t \in Threads, Proceed(t)
        PROVE  Approval!ContestedNext \/ UNCHANGED Approval!vars
    BY <1>2, <2>3, ContestedMoves DEF Approval!vars, Approval!Next, Approval!ContestedNext
  <2>4. CASE Crash \/ UNCHANGED vars
    BY <2>4 DEF Crash, vars, database, Approval!vars
  <2> QED
    BY <1>2, <2>1, <2>2, <2>3, <2>4 DEF Next
<1>3. WasteInv /\ [Next]_vars => WasteInv'
  BY WasteInductive
<1> QED
  BY <1>1, <1>2, <1>3, WasteInit, PTL
     DEF Spec, ImplementsContestedApproval, Approval!ContestedSpec

-----------------------------------------------------------------------------
(* Nothing but one reviewer: document, version, approval and draft follow the run *)

\* One server process that does not die, and one reviewer.
Undisturbed == MaxCrashes = 0 /\ Sole /\ \A k, l \in Loops : k = l

Extracted == WrittenDraft("create_draft")

\* The draft says that decision p was carried out with status s.
CarriedOut(p, s, r) ==
    /\ s = "approved" => /\ Favourable(p)
                         /\ draft[r] = IF p.edits THEN WrittenDraft("approve_run") ELSE Extracted
    /\ s = "rejected" => p.action = "reject" /\ draft[r].status = "rejected"

Waits(r) == /\ runStatus[r] = "waiting_approval" /\ approval[r] = "pending"
            /\ checkpoint[r].next = "human_review" /\ draft[r] = Extracted

\* The version says what became of its run.
Labelled(r) == version[r].status = DocStatusOf(runStatus[r])

\* The status was written.
Reported == {"read_document", "sync_document", "sync_version", "refresh_version",
             "read_versions", "deactivate", "read_approval", "resolve"}

\* start_run's request: the approval request is its last row before the status.
Opening(req) == LET r == req.run IN
    /\ req.pc \in Working =>
           /\ draft[r].status # "none" => draft[r] = Extracted
           /\ approval[r] = IF req.pc = "update_run" THEN "pending" ELSE "none"
    /\ req.pc \in {"approval", "update_run"} => checkpoint[r].next = "human_review"
    /\ req.pc \in Reported => Waits(r) \/ (runStatus[r] = "failed" /\ approval[r] = "none")

\* resume_run's request: the decision that is carried out is its own, and its approval
\* request stays pending until it resolves it.
Settling(req) ==
    LET r == req.run
        g == req.graph
    IN
    /\ req.payload \in Payloads /\ approval[r] = "pending"
    /\ req.pc = "load" => Waits(r)
    /\ req.pc = "graph" =>
           /\ g.next # "END" => draft[r] = Extracted
           /\ g.next \in {"approve_run", "reject_run"} => g.decision = req.payload
           /\ g.next = "END" => CarriedOut(req.payload, g.final, r)
    /\ req.pc = "update_run" => /\ req.outcome \in Decided
                                /\ CarriedOut(req.payload, req.outcome, r)
    /\ req.pc \in Reported => /\ runStatus[r] \in Concluded
                              /\ CarriedOut(req.payload, runStatus[r], r)
    /\ req.pc = "resolve" => runStatus[r] # "failed"

\* Until the document and the version are synchronised the request knows the status.
Syncing == {"read_document", "sync_document", "sync_version"}

Showing(req) == LET r == req.run IN
    /\ req.pc \notin {"mark_document", "mark_version"} \cup Syncing => Labelled(r)
    /\ req.pc \in Syncing => req.outcome = runStatus[r]

Served(t) == thread[t].pc # "idle" =>
    /\ Showing(thread[t])
    /\ IF t \in Loops THEN Opening(thread[t]) ELSE Settling(thread[t])

\* What a request leaves behind: the approval request matches the outcome.
Matches(r) ==
    /\ approval[r] = "approved" => runStatus[r] = "approved" /\ draft[r].status = "draft"
    /\ approval[r] = "edited"   => /\ runStatus[r] = "approved"
                                   /\ draft[r] = WrittenDraft("approve_run")
    /\ approval[r] = "rejected" => runStatus[r] = "rejected" /\ draft[r].status = "rejected"
    /\ runStatus[r] \in {"approved", "rejected"} => approval[r] # "pending"

Settled(r) ==
    /\ runStatus[r] \in {"none", "running"} => approval[r] = "none"
    /\ runStatus[r] = "none" => draft[r].status = "none"
    /\ runStatus[r] = "waiting_approval" => Waits(r)
    /\ Matches(r)
    /\ runStatus[r] # "none" => Labelled(r)

Free(r) == \A t \in Threads : thread[t].pc # "idle" => thread[t].run # r

OneEach == \A s, t \in Threads :
    thread[s].pc # "idle" /\ thread[t].pc # "idle" /\ thread[s].run = thread[t].run => s = t

QuietInv == /\ OneEach
            /\ \A t \in Threads : Served(t)
            /\ \A r \in Runs : Free(r) => Settled(r)

\* What a step of a request of run r leaves of the other runs' versions.
OthersLabelled(r) == \A q \in Runs : q # r => version'[q].status = version[q].status

\* A step of the only request of a run is its own affair.
LEMMA ServedStep ==
  ASSUME TypeInv, QuietInv, NEW t \in Threads, NEW r \in Runs, thread[t].pc # "idle",
         thread[t].run = r, Only(t), OthersKept(r), OthersLabelled(r), Served(t)',
         thread'[t].pc = "idle" => Settled(r)'
  PROVE  QuietInv'
<1>1. OneEach'
  BY DEF Only, QuietInv, OneEach
<1>2. ASSUME NEW u \in Threads PROVE Served(u)'
  <2>1. CASE u = t
    BY <2>1
  <2>2. CASE u # t /\ thread[u].pc = "idle"
    BY <2>2 DEF Only, Served
  <2>3. CASE u # t /\ thread[u].pc # "idle"
    <3>1. thread[u].run \in Runs \ {r} /\ thread'[u] = thread[u] /\ Served(u)
      BY <2>3 DEF Only, QuietInv, OneEach, TypeInv, WellFormed
    <3>2. Showing(thread[u])'
      BY <2>3, <3>1 DEF Served, Showing, Labelled, OthersLabelled, OthersKept
    <3>3. u \in Loops => Opening(thread[u])'
      BY <2>3, <3>1 DEF Served, Opening, Waits, OthersKept
    <3>4. u \notin Loops => Settling(thread[u])'
      BY <2>3, <3>1 DEF Served, Settling, Waits, CarriedOut, OthersKept
    <3> QED
      BY <3>2, <3>3, <3>4 DEF Served
  <2> QED
    BY <2>1, <2>2, <2>3
<1>3. ASSUME NEW q \in Runs, Free(q)' PROVE Settled(q)'
  <2>1. CASE q = r
    BY <1>3, <2>1 DEF Only, Free
  <2>2. CASE q # r
    <3>1. Settled(q)
      BY <1>3, <2>2 DEF Only, Free, QuietInv
    <3> QED
      BY <2>2, <3>1 DEF Settled, Waits, Matches, Labelled, OthersLabelled, OthersKept
  <2> QED
    BY <2>1, <2>2
<1> QED
  BY <1>1, <1>2, <1>3 DEF QuietInv

\* Every step of a request keeps that.
LEMMA ProceedQuiet ==
  ASSUME Sole, SoleInv, QuietInv, NEW t \in Threads, Proceed(t)
  PROVE  QuietInv'
<1> DEFINE req == thread[t]
<1>0. thread[t].pc # "idle"
  BY ProceedIsBusy
<1>a. /\ thread \in [Threads -> RequestStates] /\ req \in RequestStates
      /\ runStatus \in [Runs -> {"none"} \cup RunStatuses]
      /\ checkpoint \in [Runs -> GraphStates] /\ draft \in [Runs -> DraftRows]
      /\ executed \in [Runs -> [Analysis -> Nat]] /\ version \in [Runs -> VersionRows]
      /\ approval \in [Runs -> {"none", "pending", "approved", "rejected", "edited"}]
      /\ document \in [Docs -> DocumentRows]
      /\ req.graph \in GraphStates /\ WellFormed(req)
  BY DEF SoleInv, TypeInv, TypeOK, RequestStates
<1>r. PICK r \in Runs : r = thread[t].run
  BY <1>0, <1>a DEF WellFormed
<1>d. DocumentOf[r] \in Docs /\ TypeInv
  BY RunsAssumption DEF RunsAssumption, SoleInv
<1>f. /\ t \in Loops => Starts(req) /\ Opens(req) /\ Opening(req)
      /\ t \notin Loops => Resumes(req) /\ Decides(req) /\ Settling(req)
      /\ Showing(req)
  BY <1>0 DEF SoleInv, ReviewInv, Fits, AloneInv, Alone, QuietInv, Served
<1>j. Justified(verdicts[r], req.graph) /\ Justified(verdicts[r], checkpoint[r])
  BY <1>r DEF SoleInv, HumanControlInv, Backed
<1>s. /\ t \in Loops /\ req.pc \in Working => runStatus[r] = "running"
      /\ t \notin Loops /\ req.pc \in {"load", "graph", "fail", "update_run"}
             => runStatus[r] = "waiting_approval"
  BY <1>f, <1>r DEF Starts, Decides
<1>1. CASE MarkDocument(t)
  <2>1. t \in Loops /\ req.pc = "mark_document" /\ runStatus[r] = "running"
    BY <1>f, <1>s, <1>1 DEF MarkDocument, At, Resumes, Preparing, Working
  <2>2. thread'[t].pc = "mark_version" /\ thread'[t].run = r /\ Only(t)
    BY <1>a, <1>r, <1>1 DEF MarkDocument, Goto, Become, RequestStates, Only
  <2>3. UNCHANGED <<RunRows, version>>
    BY <1>1 DEF MarkDocument, RunRows
  <2>4. /\ document'[DocumentOf[r]].status = "analyzing"
        /\ document'[DocumentOf[r]].latest = r
        /\ \A d \in Docs : d # DocumentOf[r] => document'[d] = document[d]
    BY <1>a, <1>d, <1>r, <1>1 DEF MarkDocument, DocumentRows
  <2>5. OthersKept(r)
    BY <2>3 DEF OthersKept, RunRows
  <2>6. OthersLabelled(r)
    BY <2>3 DEF OthersLabelled
  <2>7. Served(t)'
    BY <1>f, <1>r, <2>1, <2>2, <2>3, <2>4
       DEF Served, Showing, Syncing, DocStatusOf, Opening, Working, Preparing, RunRows, Reported
  <2> QED
    BY <1>0, <1>d, <1>r, <2>2, <2>5, <2>6, <2>7, ServedStep
<1>2. CASE MarkVersion(t) \/ Extract(t)
  <2>1. /\ t \in Loops /\ req.pc \in {"mark_version", "extract"}
        /\ runStatus[r] = "running"
    BY <1>f, <1>s, <1>2 DEF MarkVersion, Extract, At, Resumes, Preparing, Working
  <2>2. /\ thread'[t].pc \in {"extract", "graph"} /\ thread'[t].run = r /\ Only(t)
    <3>1. CASE MarkVersion(t)
      BY <1>a, <1>r, <3>1 DEF MarkVersion, Goto, Become, RequestStates, Only
    <3>2. CASE Extract(t)
      BY <1>a, <1>r, <3>2 DEF Extract, Continue, Become, RequestStates, Only
    <3> QED
      BY <1>2, <3>1, <3>2
  <2>3. UNCHANGED <<RunRows, document>>
    BY <1>2 DEF MarkVersion, Extract, RunRows
  <2>4. /\ version'[r].status = "analyzing"
        /\ \A q \in Runs : q # r => version'[q].status = version[q].status
    BY <1>a, <1>r, <1>2 DEF MarkVersion, Extract, VersionRows
  <2>5. OthersKept(r)
    BY <2>3 DEF OthersKept, RunRows
  <2>6. OthersLabelled(r)
    BY <2>3, <2>4 DEF OthersLabelled
  <2>7. Served(t)'
    BY <1>f, <1>r, <2>1, <2>2, <2>3, <2>4
       DEF Served, Showing, Labelled, Syncing, DocStatusOf, Opening, Working, Preparing, RunRows,
           Reported
  <2> QED
    BY <1>0, <1>d, <1>r, <2>2, <2>5, <2>6, <2>7, ServedStep
<1>3. CASE ExtractRaises(t)
  <2>1. t \in Loops /\ req.pc = "extract" /\ runStatus[r] = "running"
    BY <1>f, <1>s, <1>3 DEF ExtractRaises, At, Resumes, Preparing, Working
  <2>2. thread'[t].pc = "idle" /\ Only(t)
    BY <1>a, <1>3 DEF ExtractRaises, Reset, Become, IdleThread, Only
  <2>3. UNCHANGED <<RunRows, document, version>>
    BY <1>3 DEF ExtractRaises, RunRows, database
  <2>4. OthersKept(r)
    BY <2>3 DEF OthersKept, RunRows
  <2>5. OthersLabelled(r)
    BY <2>3 DEF OthersLabelled
  <2>6. Settled(r)'
    BY <1>f, <1>r, <2>1, <2>3
       DEF Settled, Matches, Showing, Labelled, Syncing, Opening, Working, Preparing, RunRows
  <2> QED
    BY <1>0, <1>d, <1>r, <2>2, <2>4, <2>5, <2>6, ServedStep DEF Served
<1>4. CASE LoadCheckpoint(t)
  <2>1. t \notin Loops /\ req.pc = "load"
    BY <1>f, <1>4 DEF LoadCheckpoint, At, Starts
  <2>2. /\ thread'[t].pc = "graph" /\ thread'[t].graph = checkpoint[r]
        /\ thread'[t].run = r /\ thread'[t].payload = req.payload /\ Only(t)
    BY <1>a, <1>r, <1>4 DEF LoadCheckpoint, StateToResume, Become, RequestStates, Only
  <2>3. UNCHANGED <<RunRows, document, version>>
    BY <1>4 DEF LoadCheckpoint, RunRows, database
  <2>4. OthersKept(r)
    BY <2>3 DEF OthersKept, RunRows
  <2>5. OthersLabelled(r)
    BY <2>3 DEF OthersLabelled
  <2>6. Served(t)'
    BY <1>f, <1>r, <2>1, <2>2, <2>3
       DEF Served, Showing, Labelled, Syncing, Settling, Waits, RunRows, Reported
  <2> QED
    BY <1>0, <1>d, <1>r, <2>2, <2>4, <2>5, <2>6, ServedStep
<1>5. ASSUME NEW n \in Analysis, AnalysisNode(t, n) PROVE QuietInv'
  <2>1. /\ t \in Loops /\ req.pc = "graph" /\ req.graph.next = n
    BY <1>f, <1>5 DEF AnalysisNode, NodeReady, At, Resumes, Reviewable, Analysis
  <2>2. PICK g : Continue(t, g)
    BY <1>5 DEF AnalysisNode
  <2>3. thread'[t].pc = "graph" /\ thread'[t].run = r /\ Only(t)
    BY <1>a, <1>r, <2>2 DEF Continue, Become, RequestStates, Only
  <2>4. /\ UNCHANGED <<runStatus, checkpoint, approval, document, version>>
        /\ \A q \in Runs : q # r => draft'[q] = draft[q] /\ executed'[q] = executed[q]
    BY <1>a, <1>r, <1>5 DEF AnalysisNode
  <2>5. draft'[r] = draft[r] \/ draft'[r] = Extracted
    BY <1>a, <1>r, <1>5, <2>1 DEF AnalysisNode, Drafts, Analysis, Extracted
  <2>6. OthersKept(r)
    BY <2>4 DEF OthersKept
  <2>7. OthersLabelled(r)
    BY <2>4 DEF OthersLabelled
  <2>8. Served(t)'
    BY <1>f, <1>r, <2>1, <2>3, <2>4, <2>5
       DEF Served, Showing, Labelled, Syncing, Opening, Working, Reported
  <2> QED
    BY <1>0, <1>d, <1>r, <2>3, <2>6, <2>7, <2>8, ServedStep
<1>6. CASE HumanReview(t)
  <2>1. t \notin Loops /\ req.pc = "graph" /\ req.graph.next = "human_review"
    BY <1>f, <1>6 DEF HumanReview, NodeReady, At, Starts
  <2>2. PICK g : Continue(t, g) /\ g.next = Route(req.payload) /\ g.decision = req.payload
    <3> DEFINE g == [req.graph EXCEPT !.next = Route(req.payload), !.decision = req.payload]
    <3>1. g.next = Route(req.payload) /\ g.decision = req.payload
      BY <1>a DEF GraphStates
    <3>2. Continue(t, g)
      BY <1>6 DEF HumanReview
    <3> HIDE DEF g
    <3> QED
      BY <3>1, <3>2
  <2>3. /\ thread'[t].pc = "graph" /\ thread'[t].graph = g
        /\ thread'[t].run = r /\ thread'[t].payload = req.payload /\ Only(t)
    BY <1>a, <1>r, <2>2 DEF Continue, Become, RequestStates, Only
  <2>4. UNCHANGED <<RunRows, document, version>>
    BY <1>6 DEF HumanReview, RunRows, database
  <2>5. OthersKept(r)
    BY <2>4 DEF OthersKept, RunRows
  <2>6. OthersLabelled(r)
    BY <2>4 DEF OthersLabelled
  <2>7. g.next # "END"
    BY <2>2 DEF Route
  <2>8. Served(t)'
    BY <1>f, <1>r, <2>1, <2>2, <2>3, <2>4, <2>7
       DEF Served, Showing, Labelled, Syncing, Settling, RunRows, Reported
  <2> QED
    BY <1>0, <1>d, <1>r, <2>3, <2>5, <2>6, <2>8, ServedStep
<1>7. CASE ApproveNode(t) \/ RejectNode(t)
  <2>1. /\ t \notin Loops /\ req.pc = "graph"
        /\ req.graph.next \in {"approve_run", "reject_run"}
    BY <1>f, <1>7 DEF ApproveNode, RejectNode, NodeReady, At, Starts, Analysis
  <2>2. PICK g : /\ Continue(t, g) /\ g.next = "END"
                 /\ \/ /\ ApproveNode(t) /\ g.final = "approved"
                    \/ /\ RejectNode(t) /\ g.final = "rejected"
    <3>1. PICK final : /\ Continue(t, Advanced(req.graph, final))
                       /\ \/ ApproveNode(t) /\ final = "approved"
                          \/ RejectNode(t) /\ final = "rejected"
      BY <1>7 DEF ApproveNode, RejectNode
    <3>2. NodeAfter("approve_run") = "END" /\ NodeAfter("reject_run") = "END"
      BY DEF NodeAfter
    <3> DEFINE g == Advanced(req.graph, final)
    <3>3. g.next = "END" /\ g.final = final
      BY <1>a, <2>1, <3>2, AdvancedFields
    <3>4. Continue(t, g)
      BY <3>1
    <3> HIDE DEF g
    <3> QED
      BY <3>1, <3>3, <3>4
  <2>3. /\ thread'[t].pc = "graph" /\ thread'[t].graph = g
        /\ thread'[t].run = r /\ thread'[t].payload = req.payload /\ Only(t)
    BY <1>a, <1>r, <2>2 DEF Continue, Become, RequestStates, Only
  <2>4. /\ UNCHANGED <<runStatus, checkpoint, approval, executed, document, version>>
        /\ \A q \in Runs : q # r => draft'[q] = draft[q]
    <3>1. CASE ApproveNode(t)
      BY <1>a, <1>r, <3>1 DEF ApproveNode
    <3>2. CASE RejectNode(t)
      BY <1>a, <1>r, <3>2 DEF RejectNode
    <3> QED
      BY <1>7, <3>1, <3>2
  <2>5. OthersKept(r)
    BY <2>4 DEF OthersKept
  <2>6. OthersLabelled(r)
    BY <2>4 DEF OthersLabelled
  <2>7. req.graph.decision = req.payload /\ draft[r] = Extracted
    BY <1>f, <1>r, <2>1 DEF Settling
  <2>p. PICK p : p = req.payload
    OBVIOUS
  <2>8. CarriedOut(p, g.final, r)'
    <3>1. CASE ApproveNode(t) /\ g.final = "approved"
      <4>1. Favourable(p)
        BY <1>j, <2>7, <2>p, <3>1 DEF Justified, ApproveNode, NodeReady
      <4>2. draft'[r] = IF p.edits THEN WrittenDraft("approve_run") ELSE Extracted
        BY <1>a, <1>r, <2>7, <2>p, <3>1 DEF ApproveNode, NodeReady, Drafts
      <4> QED
        BY <3>1, <4>1, <4>2 DEF CarriedOut
    <3>2. CASE RejectNode(t) /\ g.final = "rejected"
      <4>1. p.action = "reject"
        BY <1>j, <2>7, <2>p, <3>2 DEF Justified, RejectNode, NodeReady
      <4>2. draft'[r].status = "rejected"
        BY <1>a, <1>r, <2>7, <2>p, <3>2 DEF RejectNode, RejectedDraft, Extracted, WrittenDraft
      <4> QED
        BY <3>2, <4>1, <4>2 DEF CarriedOut
    <3> QED
      BY <2>2, <3>1, <3>2
  <2>9. Served(t)'
    BY <1>f, <1>r, <2>1, <2>2, <2>3, <2>4, <2>8, <2>p
       DEF Served, Showing, Labelled, Syncing, Settling, Reported, CarriedOut
  <2> QED
    BY <1>0, <1>d, <1>r, <2>3, <2>5, <2>6, <2>9, ServedStep
<1>8. CASE NodeRaises(t)
  <2>1. /\ req.pc = "graph" /\ thread'[t].pc = "fail"
        /\ thread'[t].run = r /\ thread'[t].payload = req.payload /\ Only(t)
    BY <1>a, <1>r, <1>8 DEF NodeRaises, At, Goto, Become, RequestStates, Only
  <2>2. /\ UNCHANGED <<runStatus, checkpoint, approval, document, version>>
        /\ \A q \in Runs : q # r => draft'[q] = draft[q]
    BY <1>a, <1>r, <1>8 DEF NodeRaises
  <2>3. \/ UNCHANGED executed
        \/ executed' = [executed EXCEPT ![r][req.graph.next] = @ + 1]
    BY <1>r, <1>8 DEF NodeRaises
  <2>4. \A q \in Runs : q # r => executed'[q] = executed[q]
    BY <1>a, <2>3
  <2>5. OthersKept(r)
    BY <2>2, <2>4 DEF OthersKept
  <2>6. OthersLabelled(r)
    BY <2>2 DEF OthersLabelled
  <2>7. t \in Loops => draft'[r] = draft[r] \/ draft'[r] = Extracted
    <3>1. t \in Loops => req.graph.next # "approve_run"
      BY <1>f, <2>1 DEF Starts, Analysis
    <3> QED
      BY <1>a, <1>r, <1>8, <3>1 DEF NodeRaises, Drafts, Extracted
  <2>8. Served(t)'
    BY <1>f, <1>r, <2>1, <2>2, <2>7
       DEF Served, Showing, Labelled, Syncing, Opening, Settling, Working, Reported
  <2> QED
    BY <1>0, <1>d, <1>r, <2>1, <2>5, <2>6, <2>8, ServedStep
<1>9. CASE SaveCheckpoint(t)
  <2>1. /\ req.pc \in {"graph", "fail"} /\ thread'[t].pc = req.pc
        /\ thread'[t].graph = req.graph
        /\ thread'[t].run = r /\ thread'[t].payload = req.payload /\ Only(t)
    BY <1>a, <1>r, <1>9 DEF SaveCheckpoint, Become, RequestStates, Only
  <2>2. /\ UNCHANGED <<runStatus, draft, approval, executed, document, version>>
        /\ \A q \in Runs : q # r => checkpoint'[q] = checkpoint[q]
    BY <1>a, <1>r, <1>9 DEF SaveCheckpoint, database
  <2>3. OthersKept(r)
    BY <2>2 DEF OthersKept
  <2>4. OthersLabelled(r)
    BY <2>2 DEF OthersLabelled
  <2>5. Served(t)'
    BY <1>f, <1>r, <2>1, <2>2
       DEF Served, Showing, Labelled, Syncing, Opening, Settling, Working, Reported, CarriedOut
  <2> QED
    BY <1>0, <1>d, <1>r, <2>1, <2>3, <2>4, <2>5, ServedStep
<1>10. CASE Pause(t)
  <2>1. /\ t \in Loops /\ req.pc = "graph" /\ req.saved
        /\ req.graph.next = "human_review"
    BY <1>f, <1>10 DEF Pause, StreamEnded, At, Resumes
  <2>2. checkpoint[r].next = "human_review"
    BY <1>f, <1>r, <2>1 DEF Starts
  <2>3. thread'[t].pc = "approval" /\ thread'[t].run = r /\ Only(t)
    BY <1>a, <1>r, <1>10 DEF Pause, Become, RequestStates, Only
  <2>4. UNCHANGED <<RunRows, document, version>>
    BY <1>10 DEF Pause, RunRows, database
  <2>5. OthersKept(r)
    BY <2>4 DEF OthersKept, RunRows
  <2>6. OthersLabelled(r)
    BY <2>4 DEF OthersLabelled
  <2>7. Served(t)'
    BY <1>f, <1>r, <2>1, <2>2, <2>3, <2>4
       DEF Served, Showing, Labelled, Syncing, Opening, Working, Reported, RunRows
  <2> QED
    BY <1>0, <1>d, <1>r, <2>3, <2>5, <2>6, <2>7, ServedStep
<1>11. CASE GetState(t)
  <2>1. /\ t \notin Loops /\ req.pc = "graph" /\ req.saved
        /\ req.graph.next = "END"
    BY <1>f, <1>11 DEF GetState, StreamEnded, At, Starts, Analysis
  <2>2. /\ thread'[t].pc = "update_run" /\ thread'[t].run = r
        /\ thread'[t].payload = req.payload
        /\ thread'[t].outcome = FinalStatus(checkpoint[r].final) /\ Only(t)
    BY <1>a, <1>r, <1>11 DEF GetState, Become, RequestStates, Only
  <2>3. UNCHANGED <<RunRows, document, version>>
    BY <1>11 DEF GetState, RunRows, database
  <2>4. checkpoint[r] = req.graph /\ Sealed(req.graph)
    BY <1>f, <1>r, <2>1 DEF Decides
  <2>5. thread'[t].outcome = req.graph.final /\ req.graph.final \in Decided
    BY <2>1, <2>2, <2>4 DEF FinalStatus, Sealed, Decided
  <2>6. OthersKept(r)
    BY <2>3 DEF OthersKept, RunRows
  <2>7. OthersLabelled(r)
    BY <2>3 DEF OthersLabelled
  <2>8. Served(t)'
    BY <1>f, <1>r, <2>1, <2>2, <2>3, <2>5
       DEF Served, Showing, Labelled, Syncing, Settling, Reported, CarriedOut, RunRows
  <2> QED
    BY <1>0, <1>d, <1>r, <2>2, <2>6, <2>7, <2>8, ServedStep
<1>12. CASE CreateApproval(t)
  <2>1. t \in Loops /\ req.pc = "approval"
    BY <1>f, <1>12 DEF CreateApproval, At, Resumes
  <2>2. thread'[t].pc = "update_run" /\ thread'[t].run = r /\ Only(t)
    BY <1>a, <1>r, <1>12 DEF CreateApproval, Goto, Become, RequestStates, Only
  <2>3. /\ UNCHANGED <<runStatus, draft, checkpoint, executed, document, version>>
        /\ approval'[r] = "pending" /\ \A q \in Runs : q # r => approval'[q] = approval[q]
    BY <1>a, <1>r, <1>12 DEF CreateApproval
  <2>4. OthersKept(r)
    BY <2>3 DEF OthersKept
  <2>5. OthersLabelled(r)
    BY <2>3 DEF OthersLabelled
  <2>6. Served(t)'
    BY <1>f, <1>r, <2>1, <2>2, <2>3
       DEF Served, Showing, Labelled, Syncing, Opening, Working, Reported
  <2> QED
    BY <1>0, <1>d, <1>r, <2>2, <2>4, <2>5, <2>6, ServedStep
<1>13. CASE UpdateRun(t) \/ RecordFailure(t)
  <2>1. PICK s : /\ \/ s = req.outcome /\ req.pc = "update_run"
                    \/ s = "failed" /\ req.pc = "fail"
                 /\ runStatus'[r] = s
                 /\ \A q \in Runs : q # r => runStatus'[q] = runStatus[q]
                 /\ thread'[t].pc = "read_document" /\ thread'[t].outcome = s
                 /\ thread'[t].run = r /\ thread'[t].payload = req.payload /\ Only(t)
    <3>1. CASE UpdateRun(t)
      <4>1. /\ req.pc = "update_run" /\ runStatus' = [runStatus EXCEPT ![r] = req.outcome]
            /\ Goto(t, "read_document")
        BY <1>r, <3>1 DEF UpdateRun, At
      <4>2. /\ thread'[t].pc = "read_document" /\ thread'[t].outcome = req.outcome
            /\ thread'[t].run = r /\ thread'[t].payload = req.payload /\ Only(t)
        BY <1>a, <1>r, <4>1 DEF Goto, Become, RequestStates, Only
      <4>3. /\ runStatus'[r] = req.outcome
            /\ \A q \in Runs : q # r => runStatus'[q] = runStatus[q]
        BY <1>a, <4>1
      <4> QED
        BY <4>1, <4>2, <4>3
    <3>2. CASE RecordFailure(t)
      <4>1. /\ req.pc = "fail" /\ runStatus' = [runStatus EXCEPT ![r] = "failed"]
        BY <1>r, <3>2 DEF RecordFailure, FailureStatus, At
      <4>2. /\ thread'[t].pc = "read_document" /\ thread'[t].outcome = "failed"
            /\ thread'[t].run = r /\ thread'[t].payload = req.payload /\ Only(t)
        BY <1>a, <1>r, <3>2 DEF RecordFailure, Become, RequestStates, Only
      <4>3. /\ runStatus'[r] = "failed"
            /\ \A q \in Runs : q # r => runStatus'[q] = runStatus[q]
        BY <1>a, <4>1
      <4> QED
        BY <4>1, <4>2, <4>3
    <3> QED
      BY <1>13, <3>1, <3>2
  <2>2. UNCHANGED <<draft, approval, checkpoint, executed, document, version>>
    BY <1>13 DEF UpdateRun, RecordFailure
  <2>3. OthersKept(r)
    BY <2>1, <2>2 DEF OthersKept
  <2>4. OthersLabelled(r)
    BY <2>2 DEF OthersLabelled
  <2>5. t \in Loops => Opening(thread[t])'
    <3>1. CASE t \in Loops /\ req.pc = "update_run"
      <4>1. draft[r].status # "none"
        BY <1>f, <1>r, <3>1 DEF Starts
      <4> QED
        BY <1>f, <1>r, <2>1, <2>2, <3>1, <4>1
           DEF Opening, Opens, Waits, Working, Preparing, Reported
    <3>2. CASE t \in Loops /\ req.pc = "fail"
      BY <1>f, <1>r, <2>1, <2>2, <3>2 DEF Opening, Working, Preparing, Reported
    <3> QED
      BY <2>1, <3>1, <3>2
  <2>6. t \notin Loops => Settling(thread[t])'
    BY <1>f, <1>r, <2>1, <2>2
       DEF Settling, CarriedOut, Decided, Concluded, Reported
  <2>7. Showing(thread[t])'
    BY <2>1 DEF Showing, Syncing
  <2>8. Served(t)'
    BY <2>5, <2>6, <2>7 DEF Served
  <2> QED
    BY <1>0, <1>d, <1>r, <2>1, <2>3, <2>4, <2>8, ServedStep
<1>14. CASE SyncDocument(t)
  <2>1. req.pc = "sync_document" /\ req.outcome = runStatus[r]
    BY <1>f, <1>r, <1>14 DEF SyncDocument, At, Showing, Syncing
  <2>2. /\ thread'[t].pc = "sync_version" /\ thread'[t].outcome = req.outcome
        /\ thread'[t].run = r /\ thread'[t].payload = req.payload /\ Only(t)
    BY <1>a, <1>r, <1>14 DEF SyncDocument, Goto, Become, RequestStates, Only
  <2>3. UNCHANGED <<RunRows, version>>
    BY <1>14 DEF SyncDocument, RunRows
  <2>4. OthersKept(r) /\ OthersLabelled(r)
    BY <2>3 DEF OthersKept, OthersLabelled, RunRows
  <2>5. Served(t)'
    BY <1>f, <1>r, <2>1, <2>2, <2>3
       DEF Served, Showing, Syncing, Opening, Settling, Waits, CarriedOut, Working, Preparing,
           RunRows, Reported
  <2> QED
    BY <1>0, <1>d, <1>r, <2>2, <2>4, <2>5, ServedStep
<1>15. CASE SyncVersion(t)
  <2>1. /\ req.pc = "sync_version" /\ version'[r].status = DocStatusOf(runStatus[r])
        /\ \A q \in Runs : q # r => version'[q].status = version[q].status
    <3>1. req.pc = "sync_version" /\ req.outcome = runStatus[r]
      BY <1>f, <1>r, <1>15 DEF SyncVersion, At, Showing, Syncing
    <3>2. req.outcome # "running"
      BY <1>a DEF RequestStates, RunStatuses
    <3> QED
      BY <1>a, <1>r, <1>15, <3>1, <3>2 DEF SyncVersion, DocStatusOf
  <2>2. /\ thread'[t].pc = "refresh_version"
        /\ thread'[t].run = r /\ thread'[t].payload = req.payload /\ Only(t)
    BY <1>a, <1>r, <1>15 DEF SyncVersion, Goto, Become, RequestStates, Only
  <2>3. UNCHANGED RunRows
    BY <1>15 DEF SyncVersion, RunRows
  <2>4. OthersKept(r) /\ OthersLabelled(r)
    BY <2>1, <2>3 DEF OthersKept, OthersLabelled, RunRows
  <2>5. Served(t)'
    BY <1>f, <1>r, <2>1, <2>2, <2>3
       DEF Served, Showing, Labelled, Syncing, Opening, Settling, Waits, CarriedOut, Working,
           Preparing, RunRows, Reported
  <2> QED
    BY <1>0, <1>d, <1>r, <2>2, <2>4, <2>5, ServedStep
<1>18. CASE ReadDocument(t) \/ RefreshVersion(t) \/ ReadVersions(t)
  <2>1. /\ <<req.pc, thread'[t].pc>> \in
               {<<"read_document", "sync_document">>, <<"refresh_version", "read_versions">>,
                <<"read_versions", "deactivate">>}
        /\ thread'[t].run = r /\ thread'[t].payload = req.payload
        /\ thread'[t].outcome = req.outcome /\ Only(t)
        /\ UNCHANGED <<RunRows, version>>
    BY <1>d, <1>r, <1>18, ReadSteps DEF Only, RunRows, database
  <2>2. OthersKept(r) /\ OthersLabelled(r)
    BY <2>1 DEF OthersKept, OthersLabelled, RunRows
  <2>3. req.pc \in Reported /\ thread'[t].pc \in Reported \ {"read_approval", "resolve"}
    BY <2>1 DEF Reported
  <2>4. Showing(thread[t])'
    BY <1>f, <1>r, <2>1 DEF Showing, Labelled, Syncing, RunRows
  <2>5. t \in Loops => Opening(thread[t])'
    BY <1>f, <1>r, <2>1, <2>3 DEF Opening, Waits, Working, Preparing, RunRows, Reported
  <2>6. t \notin Loops => Settling(thread[t])'
    BY <1>f, <1>r, <2>1, <2>3 DEF Settling, CarriedOut, RunRows, Reported
  <2>7. Served(t)'
    BY <2>4, <2>5, <2>6 DEF Served
  <2> QED
    BY <1>0, <1>d, <1>r, <2>1, <2>2, <2>3, <2>7, ServedStep DEF Reported
<1>16. CASE DeactivateOthers(t) \/ ReadApproval(t)
  <2>1. /\ req.pc \in {"deactivate", "read_approval"}
        /\ \A q \in Runs : version'[q].status = version[q].status
        /\ UNCHANGED <<RunRows, document>>
    <3>1. CASE DeactivateOthers(t)
      BY <1>a, <3>1 DEF DeactivateOthers, At, RunRows, VersionRows
    <3>2. CASE ReadApproval(t)
      BY <3>2 DEF ReadApproval, At, RunRows, database
    <3> QED
      BY <1>16, <3>1, <3>2
  <2>2. \/ /\ Reset(t)
           /\ t \notin Loops => runStatus[r] = "failed"
        \/ /\ t \notin Loops
           /\ \E pc \in {"read_approval", "resolve"} :
                 Goto(t, pc) /\ (pc = "resolve" => runStatus[r] # "failed")
    <3>1. CASE DeactivateOthers(t)
      BY <3>1 DEF DeactivateOthers
    <3>2. CASE ReadApproval(t)
      <4>1. t \notin Loops /\ approval[r] = "pending"
        BY <1>f, <1>r, <3>2 DEF ReadApproval, At, Starts, Settling
      <4> QED
        BY <1>r, <3>2, <4>1 DEF ReadApproval, Resolvable
    <3> QED
      BY <1>16, <3>1, <3>2
  <2>3. OthersKept(r)
    BY <2>1 DEF OthersKept, RunRows
  <2>4. OthersLabelled(r)
    BY <2>1 DEF OthersLabelled
  <2>5. Labelled(r)'
    BY <1>f, <1>r, <2>1 DEF Showing, Labelled, Syncing, RunRows
  <2>6. CASE Reset(t) /\ (t \notin Loops => runStatus[r] = "failed")
    <3>1. thread'[t].pc = "idle" /\ Only(t)
      BY <1>a, <2>6 DEF Reset, Become, IdleThread, Only
    <3>2. \/ Waits(r) \/ (runStatus[r] = "failed" /\ approval[r] \in {"none", "pending"})
      BY <1>f, <1>r, <2>1, <2>6 DEF Opening, Settling, Reported
    <3>3. Settled(r)'
      BY <2>1, <2>5, <3>2 DEF Settled, Waits, Matches, RunRows
    <3> QED
      BY <1>0, <1>d, <1>r, <2>3, <2>4, <3>1, <3>3, ServedStep DEF Served
  <2>7. CASE t \notin Loops /\ \E pc \in {"read_approval", "resolve"} :
                 Goto(t, pc) /\ (pc = "resolve" => runStatus[r] # "failed")
    <3>1. /\ thread'[t].pc \in {"read_approval", "resolve"}
          /\ thread'[t].pc = "resolve" => runStatus[r] # "failed"
          /\ thread'[t].run = r /\ thread'[t].payload = req.payload /\ Only(t)
      BY <1>a, <1>r, <2>7 DEF Goto, Become, RequestStates, Only
    <3>2. Served(t)'
      BY <1>f, <1>r, <2>1, <2>5, <2>7, <3>1
         DEF Served, Showing, Syncing, Settling, Waits, CarriedOut, RunRows, Reported
    <3> QED
      BY <1>0, <1>d, <1>r, <2>3, <2>4, <3>1, <3>2, ServedStep
  <2> QED
    BY <2>2, <2>6, <2>7
<1>17. CASE ResolveApproval(t)
  <2>1. /\ t \notin Loops /\ req.pc = "resolve"
    BY <1>f, <1>17 DEF ResolveApproval, At, Starts
  <2>2. thread'[t].pc = "idle" /\ Only(t)
    BY <1>a, <1>17 DEF ResolveApproval, Reset, Become, IdleThread, Only
  <2>3. /\ UNCHANGED <<runStatus, draft, checkpoint, executed, document, version>>
        /\ approval'[r] = Resolution(req.payload)
        /\ \A q \in Runs : q # r => approval'[q] = approval[q]
    BY <1>a, <1>r, <1>17 DEF ResolveApproval
  <2>4. OthersKept(r)
    BY <2>3 DEF OthersKept
  <2>5. OthersLabelled(r)
    BY <2>3 DEF OthersLabelled
  <2>6. /\ req.payload \in Payloads /\ runStatus[r] \in {"approved", "rejected"}
        /\ CarriedOut(req.payload, runStatus[r], r)
    BY <1>f, <1>r, <2>1 DEF Settling, Reported, Concluded
  <2>7. Matches(r)'
    BY <2>3, <2>6
       DEF Matches, CarriedOut, Resolution, Payloads, Favourable, Extracted, WrittenDraft
  <2>8. Labelled(r)'
    BY <1>f, <1>r, <2>1, <2>3 DEF Showing, Labelled, Syncing
  <2>9. Settled(r)'
    BY <2>3, <2>6, <2>7, <2>8 DEF Settled
  <2> QED
    BY <1>0, <1>d, <1>r, <2>2, <2>4, <2>5, <2>9, ServedStep DEF Served
<1> QED
  BY <1>1, <1>2, <1>3, <1>4, <1>5, <1>6, <1>7, <1>8, <1>9, <1>10, <1>11, <1>12, <1>13,
     <1>14, <1>15, <1>16, <1>17, <1>18 DEF Proceed

\* A request that starts on a free run is the only one of it.
LEMMA ServedFirst ==
  ASSUME QuietInv, NEW t \in Threads, NEW r \in Runs, thread[t].pc = "idle", Free(r),
         \A u \in Threads : u # t => thread'[u] = thread[u],
         thread'[t].pc # "idle", thread'[t].run = r, Served(t)',
         \A q \in Runs : q # r => runStatus'[q] = runStatus[q],
         \A u \in Threads : thread[u].pc # "idle" => thread[u].run \in Runs,
         UNCHANGED <<document, version, draft, approval, checkpoint>>
  PROVE  QuietInv'
<1>1. OneEach'
  BY DEF QuietInv, OneEach, Free
<1>2. ASSUME NEW u \in Threads PROVE Served(u)'
  <2>1. CASE u = t
    BY <2>1
  <2>2. CASE u # t
    <3>1. thread'[u] = thread[u] /\ (thread[u].pc # "idle" => thread[u].run \in Runs \ {r})
      BY <2>2 DEF Free
    <3>2. thread[u].pc # "idle" => Showing(thread[u])'
      BY <3>1 DEF QuietInv, Served, Showing, Labelled, Syncing
    <3>3. thread[u].pc # "idle" /\ u \in Loops => Opening(thread[u])'
      BY <3>1 DEF QuietInv, Served, Opening, Waits
    <3>4. thread[u].pc # "idle" /\ u \notin Loops => Settling(thread[u])'
      BY <3>1 DEF QuietInv, Served, Settling, Waits, CarriedOut
    <3> QED
      BY <3>1, <3>2, <3>3, <3>4 DEF Served
  <2> QED
    BY <2>1, <2>2
<1>3. ASSUME NEW q \in Runs, Free(q)' PROVE Settled(q)'
  <2>1. q # r
    BY <1>3 DEF Free
  <2>2. Settled(q)
    BY <1>3 DEF Free, QuietInv
  <2> QED
    BY <2>1, <2>2 DEF Settled, Waits, Matches, Labelled
<1> QED
  BY <1>1, <1>2, <1>3 DEF QuietInv

\* Initially every run is free and untouched.
LEMMA QuietInit == Init => QuietInv
<1> SUFFICES ASSUME Init PROVE QuietInv
  OBVIOUS
<1>1. \A t \in Threads : thread[t].pc = "idle"
  BY DEF Init, IdleThread
<1>2. ASSUME NEW r \in Runs PROVE Settled(r)
  BY DEF Init, Settled, Matches
<1> QED
  BY <1>1, <1>2 DEF QuietInv, OneEach, Served

\* Undisturbed, a start finds its run untouched and a decision finds it waiting.
LEMMA QuietInductive ==
  ASSUME Undisturbed, SoleInv, QuietInv, [Next]_vars
  PROVE  QuietInv'
<1>a. /\ thread \in [Threads -> RequestStates]
      /\ runStatus \in [Runs -> {"none"} \cup RunStatuses]
      /\ \A u \in Threads : thread[u].pc # "idle" => thread[u].run \in Runs
  BY DEF SoleInv, TypeInv, TypeOK, WellFormed
<1>1. ASSUME NEW t \in Loops, NEW r \in Runs, CreateRun(t, r) PROVE QuietInv'
  <2>1. /\ t \in Threads /\ thread[t].pc = "idle"
        /\ thread'[t].pc = "mark_document" /\ thread'[t].run = r
        /\ \A u \in Threads : u # t => thread'[u] = thread[u]
    BY <1>a, <1>1 DEF CreateRun, At, Become, IdleThread, Threads
  <2>2. /\ runStatus[r] = "none" /\ runStatus'[r] = "running"
        /\ \A q \in Runs : q # r => runStatus'[q] = runStatus[q]
        /\ UNCHANGED <<document, version, draft, approval, checkpoint>>
    BY <1>a, <1>1 DEF CreateRun
  <2>3. Free(r)
    BY <2>2 DEF SoleInv, ReviewInv, RowsFit, Free
  <2>4. Settled(r)
    BY <2>3 DEF QuietInv
  <2>5. Served(t)'
    BY <1>1, <2>1, <2>2, <2>4
       DEF Settled, Served, Showing, Syncing, Opening, Working, Preparing, Reported
  <2> QED
    BY <1>a, <2>1, <2>2, <2>3, <2>5, ServedFirst
<1>2. ASSUME NEW t \in Workers, NEW r \in Runs, NEW p \in Decisions,
             AcceptDecision(t, r, p) PROVE QuietInv'
  <2>1. /\ t \in Threads /\ t \notin Loops /\ thread[t].pc = "idle"
        /\ thread'[t].pc = "load" /\ thread'[t].run = r /\ thread'[t].payload = p
        /\ \A u \in Threads : u # t => thread'[u] = thread[u]
    BY <1>a, <1>2, ThreadsAssumption
       DEF AcceptDecision, At, Become, IdleThread, Threads, ThreadsAssumption
  <2>2. /\ runStatus[r] = "waiting_approval"
        /\ UNCHANGED <<runStatus, document, version, draft, approval, checkpoint>>
    BY <1>2 DEF AcceptDecision, Resumable, database
  <2>3. Free(r)
    <3>1. \A l \in Loops : thread[l].run # r
      BY <1>2 DEF AcceptDecision, Dispatchable, Undisturbed
    <3>2. \A w \in Workers : w = t
      BY DEF Undisturbed, Sole
    <3> QED
      BY <2>1, <3>1, <3>2 DEF Free, Threads
  <2>4. Waits(r) /\ Labelled(r)
    BY <2>2, <2>3 DEF QuietInv, Settled
  <2>5. p \in Payloads
    BY DecisionsAssumption DEF DecisionsAssumption
  <2>6. Served(t)'
    BY <2>1, <2>2, <2>4, <2>5
       DEF Served, Showing, Labelled, Syncing, Settling, Waits, Reported
  <2> QED
    BY <1>a, <2>1, <2>2, <2>3, <2>6, ServedFirst
<1>3. ~Crash
  BY DEF Crash, Undisturbed, SoleInv, TypeInv, TypeOK
<1>4. CASE UNCHANGED vars
  <2>1. UNCHANGED <<thread, document, version, RunRows>>
    BY <1>4 DEF vars, database, RunRows
  <2>2. ASSUME NEW u \in Threads PROVE Served(u)'
    BY <2>1 DEF QuietInv, Served, Showing, Labelled, Syncing, Opening, Settling, Waits,
       CarriedOut, RunRows
  <2>3. ASSUME NEW q \in Runs, Free(q)' PROVE Settled(q)'
    BY <2>1, <2>3 DEF QuietInv, Free, Settled, Waits, Matches, Labelled, RunRows
  <2>4. OneEach'
    BY <2>1 DEF QuietInv, OneEach
  <2> QED
    BY <2>2, <2>3, <2>4 DEF QuietInv
<1> QED
  BY <1>1, <1>2, <1>3, <1>4, ProceedQuiet DEF Next, Undisturbed

\* A run nobody works on is free.
LEMMA QuiescentFree == ASSUME NEW r \in Runs, Quiescent(r) PROVE Free(r)
  BY DEF Quiescent, Free

\* Undisturbed, the resolved approval request, the run and the draft name one decision,
\* and a decided run has no request left pending (resume_run, resolve_approval).
THEOREM ApprovalMatchesOutcomeHolds ==
  ASSUME Undisturbed
  PROVE  Spec => []ApprovalMatchesOutcome
<1>1. QuietInv => ApprovalMatchesOutcome
  BY QuiescentFree DEF QuietInv, Settled, Matches, ApprovalMatchesOutcome
<1>2. SoleInv /\ [Next]_vars => SoleInv'
  BY SoleInductive DEF Undisturbed
<1>3. SoleInv /\ QuietInv /\ [Next]_vars => QuietInv'
  BY QuietInductive
<1> QED
  BY <1>1, <1>2, <1>3, SoleInit, QuietInit, PTL DEF Spec

-----------------------------------------------------------------------------
(* What the document shows *)

\* At work on a document's status: until its row is written, or found to show it already.
Publishing(t, d) ==
    /\ thread[t].pc # "idle" /\ DocumentOf[thread[t].run] = d
    /\ \/ thread[t].pc \in {"mark_document", "read_document"}
       \/ thread[t].pc = "sync_document" /\ "status" \in thread[t].changes

\* The document shows what became of one of its runs.
Told(d) == \E r \in RunsOf(d) : document[d].status = DocStatusOf(runStatus[r])

Published(d) == RunsOf(d) = {} \/ Told(d) \/ \E t \in Threads : Publishing(t, d)

DocumentInv == \A d \in Docs : Published(d)

\* A step of a run's request leaves the other documents, and who works on them, alone.
LEMMA OtherDocuments ==
  ASSUME NEW t \in Threads, NEW r \in Runs, thread[t].run = r, Only(t), OthersKept(r),
         NEW d \in Docs, d # DocumentOf[r], document'[d] = document[d], Published(d)
  PROVE  Published(d)'
<1>1. RunsOf(d)' = RunsOf(d) /\ \A q \in RunsOf(d) : runStatus'[q] = runStatus[q]
  BY DEF RunsOf, OthersKept
<1>2. Told(d) => Told(d)'
  BY <1>1 DEF Told
<1>3. ASSUME NEW u \in Threads, Publishing(u, d) PROVE Publishing(u, d)'
  <2>1. u # t
    BY <1>3 DEF Publishing
  <2> QED
    BY <1>3, <2>1 DEF Only, Publishing
<1> QED
  BY <1>1, <1>2, <1>3 DEF Published

\* The step's own document, too, if it writes no status and was not about to.
LEMMA OwnDocument ==
  ASSUME NEW t \in Threads, Only(t), NEW d \in Docs, Published(d), ~Publishing(t, d),
         UNCHANGED runStatus, document'[d].status = document[d].status
  PROVE  Published(d)'
<1>1. ASSUME NEW u \in Threads, Publishing(u, d) PROVE Publishing(u, d)'
  BY <1>1 DEF Only, Publishing
<1> QED
  BY <1>1 DEF Published, Told, RunsOf

\* Every step of a request keeps that: the UPDATE leaves a status alone only if the row
\* showed it when it was read, and whoever wrote it since told of a run of the document.
LEMMA ProceedPublishes ==
  ASSUME Sole, SoleInv, QuietInv, DocumentInv, NEW t \in Threads, Proceed(t)
  PROVE  DocumentInv'
<1> DEFINE req == thread[t]
<1>0. thread[t].pc # "idle"
  BY ProceedIsBusy
<1>a. /\ thread \in [Threads -> RequestStates] /\ req \in RequestStates
      /\ runStatus \in [Runs -> {"none"} \cup RunStatuses]
      /\ document \in [Docs -> DocumentRows] /\ WellFormed(req) /\ TypeInv
  BY DEF SoleInv, TypeInv, TypeOK
<1>r. PICK r \in Runs : r = thread[t].run
  BY <1>0, <1>a DEF WellFormed
<1>d. PICK d \in Docs : d = DocumentOf[r]
  BY RunsAssumption DEF RunsAssumption
<1>f. /\ t \in Loops => Starts(req)
      /\ t \notin Loops => Resumes(req)
      /\ Showing(req)
  BY <1>0 DEF SoleInv, ReviewInv, Fits, QuietInv, Served
<1>1. CASE MarkDocument(t)
  <2>1. runStatus[r] = "running"
    BY <1>f, <1>r, <1>1 DEF MarkDocument, At, Starts, Resumes, Working, Preparing
  <2>2. Only(t) /\ OthersKept(r) /\ UNCHANGED runStatus
    BY <1>a, <1>r, <1>1
       DEF MarkDocument, Goto, Become, RequestStates, Only, OthersKept
  <2>3. /\ document'[d].status = "analyzing"
        /\ \A c \in Docs : c # d => document'[c] = document[c]
    BY <1>a, <1>d, <1>r, <1>1 DEF MarkDocument, DocumentRows
  <2>4. Told(d)'
    BY <1>d, <2>1, <2>2, <2>3 DEF Told, RunsOf, DocStatusOf
  <2> QED
    BY <1>d, <1>r, <2>2, <2>3, <2>4, OtherDocuments DEF DocumentInv, Published
<1>2. CASE ReadDocument(t)
  <2>1. /\ req.pc = "read_document" /\ thread'[t].pc = "sync_document"
        /\ thread'[t].run = r /\ Only(t) /\ UNCHANGED <<document, runStatus>>
        /\ OthersKept(r)
    BY <1>a, <1>r, <1>2, ReadSteps DEF ReadDocument, At, Only, OthersKept, database
  <2>2. "status" \in thread'[t].changes \/ document[d].status = req.outcome
    <3>1. thread' = [thread EXCEPT ![t] = [thread[t] EXCEPT !.pc = "sync_document",
             !.changes = {c \in {"status", "latest", "current"} :
                             document[d][c] # SyncedDocument(r, req.outcome)[c]}]]
      BY <1>d, <1>r, <1>2 DEF ReadDocument, Become
    <3>2. thread'[t].changes = {c \in {"status", "latest", "current"} :
                                   document[d][c] # SyncedDocument(r, req.outcome)[c]}
      BY <1>a, <3>1 DEF RequestStates
    <3>3. SyncedDocument(r, req.outcome)["status"] = req.outcome
      BY DEF SyncedDocument
    <3>4. document[d]["status"] = document[d].status
      OBVIOUS
    <3> QED
      BY <3>2, <3>3, <3>4
  <2>3. req.outcome = runStatus[r] /\ runStatus[r] \notin {"none", "running"}
    BY <1>a, <1>f, <1>r, <2>1
       DEF Showing, Syncing, WellFormed, Reporting, RequestStates, RunStatuses
  <2>4. Publishing(t, d)' \/ Told(d)'
    BY <1>d, <2>1, <2>2, <2>3 DEF Publishing, Told, RunsOf, DocStatusOf
  <2> QED
    BY <1>d, <1>r, <2>1, <2>4, OtherDocuments DEF DocumentInv, Published
<1>3. CASE SyncDocument(t)
  <2>1. /\ req.pc = "sync_document" /\ UNCHANGED runStatus /\ Only(t) /\ OthersKept(r)
    BY <1>a, <1>r, <1>3
       DEF SyncDocument, At, Goto, Become, RequestStates, Only, OthersKept
  <2>2. /\ document'[d].status = IF "status" \in req.changes THEN req.outcome
                                 ELSE document[d].status
        /\ \A c \in Docs : c # d => document'[c] = document[c]
    BY <1>a, <1>d, <1>r, <1>3 DEF SyncDocument, SyncedDocument, DocumentRows
  <2>3. req.outcome = runStatus[r] /\ runStatus[r] \notin {"none", "running"}
    BY <1>a, <1>f, <1>r, <2>1
       DEF Showing, Syncing, WellFormed, Reporting, RequestStates, RunStatuses
  <2>4. Published(d)'
    <3>1. CASE "status" \in req.changes
      BY <1>d, <2>1, <2>2, <2>3, <3>1 DEF Published, Told, RunsOf, DocStatusOf
    <3>2. CASE "status" \notin req.changes
      BY <2>1, <2>2, <3>2, OwnDocument DEF DocumentInv, Publishing
    <3> QED
      BY <3>1, <3>2
  <2> QED
    BY <1>d, <1>r, <2>1, <2>2, <2>4, OtherDocuments DEF DocumentInv
<1>4. CASE UpdateRun(t) \/ RecordFailure(t)
  <2>1. /\ thread'[t].pc = "read_document" /\ thread'[t].run = r /\ Only(t)
        /\ UNCHANGED document
    <3>1. CASE UpdateRun(t)
      BY <1>a, <1>r, <3>1 DEF UpdateRun, Goto, Become, RequestStates, Only
    <3>2. CASE RecordFailure(t)
      BY <1>a, <1>r, <3>2 DEF RecordFailure, Become, RequestStates, Only
    <3> QED
      BY <1>4, <3>1, <3>2
  <2>2. OthersKept(r)
    BY <1>a, <1>r, <1>4 DEF UpdateRun, RecordFailure, OthersKept
  <2>3. Publishing(t, d)'
    BY <1>d, <2>1 DEF Publishing
  <2> QED
    BY <1>d, <1>r, <2>1, <2>2, <2>3, OtherDocuments DEF DocumentInv, Published
<1>5. CASE ~(\/ MarkDocument(t) \/ ReadDocument(t) \/ SyncDocument(t)
             \/ UpdateRun(t) \/ RecordFailure(t))
  <2>1. /\ UNCHANGED <<document, runStatus>>
        /\ req.pc \notin {"mark_document", "read_document", "sync_document"}
    <3>1. CASE RefreshVersion(t) \/ ReadVersions(t)
      BY <3>1 DEF RefreshVersion, ReadVersions, At, database
    <3>2. CASE ~(RefreshVersion(t) \/ ReadVersions(t))
      BY <1>5, <3>2
         DEF Proceed, MarkVersion, Extract, ExtractRaises, LoadCheckpoint, AnalysisNode,
             HumanReview, ApproveNode, RejectNode, NodeRaises, SaveCheckpoint, Pause, GetState,
             CreateApproval, SyncVersion, DeactivateOthers, ReadApproval, ResolveApproval,
             NodeReady, StreamEnded, At, database
    <3> QED
      BY <3>1, <3>2
  <2>2. Only(t)
    <3>1. CASE RefreshVersion(t) \/ ReadVersions(t)
      BY <1>a, <3>1, ReadSteps DEF Only
    <3>2. CASE ~(RefreshVersion(t) \/ ReadVersions(t))
      <4>1. \/ Reset(t)
            \/ \E pc \in Locations : Goto(t, pc)
            \/ \E g : Continue(t, g)
            \/ LoadCheckpoint(t) \/ SaveCheckpoint(t) \/ Pause(t) \/ GetState(t)
        BY <1>5, <3>2
           DEF Proceed, MarkVersion, Extract, ExtractRaises, AnalysisNode,
               HumanReview, ApproveNode, RejectNode, NodeRaises, CreateApproval,
               SyncVersion, DeactivateOthers, ReadApproval, ResolveApproval, Locations
      <4>2. CASE Reset(t)
        BY <1>a, <4>2 DEF Reset, Become, IdleThread, Only
      <4>3. CASE \E pc \in Locations : Goto(t, pc)
        BY <1>a, <4>3 DEF Goto, Become, RequestStates, Only
      <4>4. CASE \E g : Continue(t, g)
        BY <1>a, <4>4 DEF Continue, Become, RequestStates, Only
      <4>5. CASE LoadCheckpoint(t)
        BY <1>a, <4>5 DEF LoadCheckpoint, Become, RequestStates, Only
      <4>6. CASE SaveCheckpoint(t)
        BY <1>a, <4>6 DEF SaveCheckpoint, Become, RequestStates, Only
      <4>7. CASE Pause(t)
        BY <1>a, <4>7 DEF Pause, Become, RequestStates, Only
      <4>8. CASE GetState(t)
        BY <1>a, <4>8 DEF GetState, Become, RequestStates, Only
      <4> QED
        BY <4>1, <4>2, <4>3, <4>4, <4>5, <4>6, <4>7, <4>8
    <3> QED
      BY <3>1, <3>2
  <2> QED
    BY <2>1, <2>2, OwnDocument DEF DocumentInv, Publishing
<1> QED
  BY <1>1, <1>2, <1>3, <1>4, <1>5

\* So does every other step.
LEMMA DocumentInductive ==
  ASSUME Undisturbed, SoleInv, QuietInv, DocumentInv, [Next]_vars
  PROVE  DocumentInv'
<1>a. /\ thread \in [Threads -> RequestStates]
      /\ runStatus \in [Runs -> {"none"} \cup RunStatuses]
  BY DEF SoleInv, TypeInv, TypeOK
<1>1. ASSUME NEW t \in Loops, NEW r \in Runs, CreateRun(t, r) PROVE DocumentInv'
  <2>1. /\ t \in Threads /\ thread[t].pc = "idle"
        /\ thread'[t].pc = "mark_document" /\ thread'[t].run = r
        /\ \A u \in Threads : u # t => thread'[u] = thread[u]
    BY <1>a, <1>1 DEF CreateRun, At, Become, IdleThread, Threads
  <2>2. /\ \A q \in Runs : q # r => runStatus'[q] = runStatus[q]
        /\ UNCHANGED document
    BY <1>a, <1>1 DEF CreateRun
  <2>3. ASSUME NEW d \in Docs PROVE Published(d)'
    <3>1. CASE d = DocumentOf[r]
      BY <2>1, <3>1 DEF Published, Publishing
    <3>2. CASE d # DocumentOf[r]
      <4>1. RunsOf(d)' = RunsOf(d) /\ \A q \in RunsOf(d) : runStatus'[q] = runStatus[q]
        BY <2>2, <3>2 DEF RunsOf
      <4>2. \A u \in Threads : Publishing(u, d) => Publishing(u, d)'
        BY <2>1 DEF Publishing
      <4> QED
        BY <2>2, <4>1, <4>2 DEF DocumentInv, Published, Told
    <3> QED
      BY <3>1, <3>2
  <2> QED
    BY <2>3 DEF DocumentInv
<1>2. ASSUME NEW t \in Workers, NEW r \in Runs, NEW p \in Decisions,
             AcceptDecision(t, r, p) PROVE DocumentInv'
  <2>1. /\ t \in Threads /\ thread[t].pc = "idle" /\ UNCHANGED <<document, runStatus>>
        /\ \A u \in Threads : u # t => thread'[u] = thread[u]
    BY <1>a, <1>2 DEF AcceptDecision, At, Become, Threads, database
  <2>2. ASSUME NEW u \in Threads, NEW d, Publishing(u, d) PROVE Publishing(u, d)'
    BY <2>1, <2>2 DEF Publishing
  <2> QED
    BY <2>1, <2>2 DEF DocumentInv, Published, Told, RunsOf
<1>3. ~Crash
  BY DEF Crash, Undisturbed, SoleInv, TypeInv, TypeOK
<1>4. CASE UNCHANGED vars
  BY <1>4 DEF vars, database, DocumentInv, Published, Publishing, Told, RunsOf
<1> QED
  BY <1>1, <1>2, <1>3, <1>4, ProceedPublishes DEF Next, Undisturbed

\* Undisturbed, what a version and a document show has a run behind it as soon as no
\* request works on it: a version its own run, a document one of its runs
\* (_sync_document_status).
THEOREM DocumentFollowsRunHolds ==
  ASSUME Undisturbed
  PROVE  Spec => []DocumentFollowsRun
<1>1. ASSUME SoleInv, QuietInv, DocumentInv PROVE DocumentFollowsRun
  <2>1. ASSUME NEW r \in Runs, Quiescent(r), runStatus[r] # "none"
        PROVE  version[r].status = DocStatusOf(runStatus[r])
    BY <1>1, <2>1, QuiescentFree DEF QuietInv, Settled, Labelled
  <2>2. ASSUME NEW d \in Docs, RunsOf(d) # {}, \A r \in RunsOf(d) : Quiescent(r)
        PROVE  Told(d)
    <3>1. ASSUME NEW t \in Threads PROVE ~Publishing(t, d)
      <4> SUFFICES ASSUME thread[t].pc # "idle", DocumentOf[thread[t].run] = d PROVE FALSE
        BY DEF Publishing
      <4>1. thread[t].run \in Runs /\ runStatus[thread[t].run] # "none"
        BY <1>1 DEF SoleInv, TypeInv, WellFormed, ReviewInv, RowsFit
      <4>2. thread[t].run \in RunsOf(d)
        BY <4>1 DEF RunsOf
      <4> QED
        BY <2>2, <4>2 DEF Quiescent
    <3> QED
      BY <1>1, <2>2, <3>1 DEF DocumentInv, Published
  <2> QED
    BY <2>1, <2>2 DEF DocumentFollowsRun, Told
<1>2. SoleInv /\ [Next]_vars => SoleInv'
  BY SoleInductive DEF Undisturbed
<1>3. SoleInv /\ QuietInv /\ [Next]_vars => QuietInv'
  BY QuietInductive
<1>4. SoleInv /\ QuietInv /\ DocumentInv /\ [Next]_vars => DocumentInv'
  BY DocumentInductive
<1>5. Init => DocumentInv
  BY DEF Init, DocumentInv, Published, RunsOf
<1> QED
  BY <1>1, <1>2, <1>3, <1>4, <1>5, SoleInit, QuietInit, PTL DEF Spec
-----------------------------------------------------------------------------
(* Which versions are active *)

\* Between writing its own version and switching the others off.
Switching == {"refresh_version", "read_versions", "deactivate"}

\* The only two versions of their document that were ever activated.
Rivals(r, q) ==
    /\ r # q /\ DocumentOf[r] = DocumentOf[q]
    /\ \A s \in Runs \ {r, q} : DocumentOf[s] = DocumentOf[r] => ~Activated(s)

\* The request has not switched version q off yet, and will.
Closes(t, r, q) ==
    /\ thread[t].pc # "idle" /\ thread[t].run = r
    /\ \/ thread[t].pc \in {"refresh_version", "read_versions"}
       \/ thread[t].pc = "deactivate" /\ q \in thread[t].seen

\* Somebody switched the request's version off, for version q: no request will do the
\* same to q, unless this one does, which then finds its own version off.
Overtaken(t, q) == LET req == thread[t] IN
    /\ runStatus[q] # "none" /\ (t \in Loops => runStatus[q] \in Concluded)
    /\ \A u \in Threads : thread[u].pc # "idle" /\ thread[u].run = q =>
          thread[u].pc \in {"read_approval", "resolve"}
    /\ req.pc = "refresh_version" \/ req.run \in req.seen =>
          version[q].active /\ (req.pc = "deactivate" => q \in req.seen)

\* Only versions of runs whose analysis ended are activated.
Standing(r) == /\ version[r].active => Activated(r)
               /\ Activated(r) => runStatus[r] \notin {"none", "running"}

Switches(t) == LET req == thread[t] IN
    req.pc \in Switching =>
        /\ Activated(req.run)
        /\ req.pc # "refresh_version" =>
              /\ req.run \in req.seen => ~version[req.run].active
              /\ \A q \in req.seen : DocumentOf[q] = DocumentOf[req.run]
        /\ \A q \in Runs : Rivals(req.run, q) /\ ~version[req.run].active => Overtaken(t, q)

Contest(r, q) == Rivals(r, q) /\ version[r].active /\ version[q].active =>
                     \E t \in Threads : Closes(t, r, q) \/ Closes(t, q, r)

ActiveInv == /\ \A r \in Runs : Standing(r)
             /\ \A t \in Threads : Switches(t)
             /\ \A r, q \in Runs : Contest(r, q)

\* A step outside those sections, which leaves the active flags alone, keeps that.
LEMMA ActiveQuiet ==
  ASSUME TypeInv, ActiveInv, NEW t \in Threads, NEW r \in Runs, thread[t].run = r, Only(t),
         thread[t].pc # "idle", thread[t].pc \notin Switching, thread'[t].pc \notin Switching,
         \A q \in Runs : version'[q].active = version[q].active,
         \A q \in Runs : Activated(q)' = Activated(q),
         \A q \in Runs : q # r => runStatus'[q] = runStatus[q],
         runStatus'[r] # "none", Activated(r) => runStatus'[r] # "running",
         thread[t].pc \in {"read_approval", "resolve"} =>
             /\ thread'[t].pc \in {"idle", "read_approval", "resolve"}
             /\ UNCHANGED runStatus
  PROVE  ActiveInv'
<1>1. ASSUME NEW q \in Runs PROVE Standing(q)'
  BY DEF ActiveInv, Standing
<1>2. \A p, q \in Runs : Rivals(p, q)' = Rivals(p, q)
  BY DEF Rivals
<1>3. ASSUME NEW u \in Threads PROVE Switches(u)'
  <2>1. CASE u = t
    BY <2>1 DEF Switches
  <2>2. CASE u # t /\ thread[u].pc \in Switching
    <3>1. thread'[u] = thread[u] /\ Switches(u) /\ thread[u].run \in Runs
      BY <2>2 DEF Only, ActiveInv, TypeInv, WellFormed, Switching
    <3>2. ASSUME NEW q \in Runs, Rivals(thread[u].run, q), ~version[thread[u].run].active
          PROVE  Overtaken(u, q)'
      <4>1. Overtaken(u, q)
        BY <2>2, <3>1, <3>2 DEF Switches
      <4>2. \A v \in Threads : thread'[v].pc # "idle" /\ thread'[v].run = q =>
               thread'[v].pc \in {"read_approval", "resolve"}
        BY <4>1 DEF Overtaken, Only
      <4>3. runStatus'[q] = runStatus[q]
        BY <4>1 DEF Overtaken
      <4> QED
        BY <3>1, <4>1, <4>2, <4>3 DEF Overtaken
    <3> QED
      BY <1>2, <2>2, <3>1, <3>2 DEF Switches
  <2>3. CASE u # t /\ thread[u].pc \notin Switching
    BY <2>3 DEF Only, Switches
  <2> QED
    BY <2>1, <2>2, <2>3
<1>4. ASSUME NEW p, NEW q, NEW u \in Threads, Closes(u, p, q) PROVE Closes(u, p, q)'
  BY <1>4 DEF Closes, Only, Switching
<1>5. ASSUME NEW p \in Runs, NEW q \in Runs PROVE Contest(p, q)'
  BY <1>2, <1>4 DEF ActiveInv, Contest
<1> QED
  BY <1>1, <1>3, <1>5 DEF ActiveInv

\* Activating a version: the request that does it is going to switch the others off.
LEMMA ActiveSync ==
  ASSUME SoleInv, QuietInv, ActiveInv, NEW t \in Threads, SyncVersion(t)
  PROVE  ActiveInv'
<1> DEFINE req == thread[t]
<1>a. /\ thread \in [Threads -> RequestStates] /\ version \in [Runs -> VersionRows]
      /\ req \in RequestStates /\ WellFormed(req) /\ req.pc = "sync_version" /\ TypeInv
  BY DEF SoleInv, TypeInv, TypeOK, SyncVersion, At
<1>r. PICK r \in Runs : r = thread[t].run
  BY <1>a DEF WellFormed
<1>1. req.outcome = runStatus[r] /\ runStatus[r] \in RunStatuses \ {"running"}
  BY <1>a, <1>r DEF QuietInv, Served, Showing, Syncing, WellFormed, Reporting, RequestStates
<1>2. /\ version'[r] = [status |-> req.outcome, active |-> TRUE]
      /\ \A q \in Runs : q # r => version'[q] = version[q]
      /\ UNCHANGED runStatus
  BY <1>a, <1>r DEF SyncVersion
<1>3. thread'[t].pc = "refresh_version" /\ thread'[t].run = r /\ Only(t)
  BY <1>a, <1>r DEF SyncVersion, Goto, Become, RequestStates, Only
<1>4. /\ Activated(r)' /\ version'[r].active
      /\ \A q \in Runs : q # r => Activated(q)' = Activated(q)
  BY <1>1, <1>2 DEF Activated, RunStatuses
<1>5. \A p, q \in Runs : Rivals(p, q)' => Rivals(p, q)
  BY <1>4 DEF Rivals
<1>6. ASSUME NEW q \in Runs PROVE Standing(q)'
  <2>1. CASE q = r
    BY <1>1, <1>2, <1>4, <2>1 DEF Standing, RunStatuses
  <2>2. CASE q # r
    BY <1>2, <1>4, <2>2 DEF ActiveInv, Standing
  <2> QED
    BY <2>1, <2>2
<1>7. ASSUME NEW u \in Threads PROVE Switches(u)'
  <2>1. CASE u = t
    BY <1>3, <1>4, <2>1 DEF Switches
  <2>2. CASE u # t /\ thread[u].pc \in Switching
    <3>1. thread'[u] = thread[u] /\ Switches(u) /\ thread[u].run \in Runs \ {r}
      BY <1>a, <1>r, <1>3, <2>2
         DEF Only, ActiveInv, TypeInv, WellFormed, Switching, QuietInv, OneEach
    <3>2. version'[thread[u].run] = version[thread[u].run] /\ Activated(thread[u].run)'
      BY <1>2, <1>4, <2>2, <3>1 DEF Switches
    <3>3. ASSUME NEW q \in Runs, Rivals(thread[u].run, q)', ~version[thread[u].run].active
          PROVE  Overtaken(u, q)'
      <4>1. Overtaken(u, q)
        BY <1>5, <2>2, <3>1, <3>3 DEF Switches
      <4>2. q # r
        BY <1>a, <1>r, <4>1 DEF Overtaken
      <4> QED
        BY <1>2, <1>3, <1>r, <3>1, <4>1, <4>2 DEF Overtaken, Only
    <3> QED
      BY <2>2, <3>1, <3>2, <3>3 DEF Switches
  <2>3. CASE u # t /\ thread[u].pc \notin Switching
    BY <1>3, <2>3 DEF Only, Switches
  <2> QED
    BY <2>1, <2>2, <2>3
<1>8. ASSUME NEW p \in Runs, NEW q \in Runs PROVE Contest(p, q)'
  <2>1. CASE p = r \/ q = r
    BY <1>3, <2>1 DEF Contest, Closes
  <2>2. CASE p # r /\ q # r
    <3>1. ASSUME NEW u \in Threads, NEW a, NEW b, Closes(u, a, b) PROVE Closes(u, a, b)'
      BY <1>a, <1>3, <3>1 DEF Closes, Only
    <3> QED
      BY <1>2, <1>5, <2>2, <3>1 DEF ActiveInv, Contest
  <2> QED
    BY <2>1, <2>2
<1> QED
  BY <1>6, <1>7, <1>8 DEF ActiveInv

\* Reading the rows: what is active is seen, and so is the own version if it is not.
LEMMA ActiveRead ==
  ASSUME SoleInv, QuietInv, ActiveInv, NEW t \in Threads, RefreshVersion(t) \/ ReadVersions(t)
  PROVE  ActiveInv'
<1> DEFINE req == thread[t]
<1>a. /\ thread \in [Threads -> RequestStates] /\ version \in [Runs -> VersionRows]
      /\ req \in RequestStates /\ WellFormed(req) /\ TypeInv
      /\ req.pc \in {"refresh_version", "read_versions"}
  BY DEF SoleInv, TypeInv, TypeOK, RefreshVersion, ReadVersions, At
<1>r. PICK r \in Runs : r = thread[t].run
  BY <1>a DEF WellFormed
<1>1. Only(t) /\ thread'[t].run = r /\ UNCHANGED <<version, runStatus>>
  BY <1>a, <1>r, ReadSteps DEF Only, database
<1>2. /\ \A q \in Runs : Activated(q)' = Activated(q)
      /\ \A p, q \in Runs : Rivals(p, q)' = Rivals(p, q)
  BY <1>1 DEF Activated, Rivals
<1>3. /\ Activated(r) /\ Switches(t)
      /\ \A q \in Runs : Rivals(r, q) /\ ~version[r].active => Overtaken(t, q)
  BY <1>a, <1>r DEF ActiveInv, Switches, Switching
<1>4. \/ /\ req.pc = "refresh_version" /\ thread'[t].pc = "read_versions"
         /\ thread'[t].seen = IF version[r].active THEN {} ELSE {r}
      \/ /\ req.pc = "read_versions" /\ thread'[t].pc = "deactivate"
         /\ thread'[t].seen = req.seen \cup OtherActiveVersions(r)
  <2>1. CASE RefreshVersion(t)
    BY <1>a, <1>r, <2>1 DEF RefreshVersion, At, Become, RequestStates
  <2>2. CASE ReadVersions(t)
    <3>1. PICK v : v = req.seen \cup OtherActiveVersions(r)
      OBVIOUS
    <3>2. Become(t, [thread[t] EXCEPT !.pc = "deactivate", !.seen = v])
      BY <1>r, <2>2, <3>1 DEF ReadVersions
    <3>3. req.pc = "read_versions"
      BY <2>2 DEF ReadVersions, At
    <3>4. thread'[t].pc = "deactivate" /\ thread'[t].seen = v
      BY <1>a, <3>2 DEF Become, RequestStates
    <3> QED
      BY <3>1, <3>3, <3>4
  <2> QED
    BY <2>1, <2>2
<1>5. /\ r \in thread'[t].seen => ~version[r].active
      /\ \A q \in thread'[t].seen : DocumentOf[q] = DocumentOf[r]
  BY <1>r, <1>3, <1>4 DEF Switches, Switching, OtherActiveVersions
<1>6. ASSUME NEW q \in Runs, Rivals(r, q), ~version[r].active PROVE Overtaken(t, q)'
  <2>1. Overtaken(t, q) /\ q # r /\ DocumentOf[q] = DocumentOf[r]
    BY <1>3, <1>6 DEF Rivals
  <2>2. r \in thread'[t].seen => r \in req.seen \/ req.pc = "refresh_version"
    BY <1>4 DEF OtherActiveVersions
  <2>3. r \in thread'[t].seen => version[q].active
    BY <1>r, <2>1, <2>2 DEF Overtaken
  <2>4. thread'[t].pc = "deactivate" /\ version[q].active => q \in thread'[t].seen
    BY <1>4, <2>1 DEF OtherActiveVersions
  <2>5. thread'[t].pc # "refresh_version"
    BY <1>4
  <2>6. \A u \in Threads : thread'[u].pc # "idle" /\ thread'[u].run = q =>
           thread'[u].pc \in {"read_approval", "resolve"}
    BY <1>1, <2>1 DEF Overtaken, Only
  <2> QED
    BY <1>1, <2>1, <2>3, <2>4, <2>5, <2>6 DEF Overtaken
<1>7. ASSUME NEW q \in Runs PROVE Standing(q)'
  BY <1>1, <1>2 DEF ActiveInv, Standing
<1>8. ASSUME NEW u \in Threads PROVE Switches(u)'
  <2>1. CASE u = t
    BY <1>1, <1>2, <1>3, <1>5, <1>6, <2>1 DEF Switches
  <2>2. CASE u # t /\ thread[u].pc \in Switching
    <3>1. thread'[u] = thread[u] /\ Switches(u) /\ thread[u].run \in Runs
      BY <1>a, <1>1, <2>2 DEF Only, ActiveInv, TypeInv, WellFormed, Switching
    <3>2. ASSUME NEW q \in Runs, Rivals(thread[u].run, q), ~version[thread[u].run].active
          PROVE  Overtaken(u, q)'
      <4>1. Overtaken(u, q)
        BY <2>2, <3>1, <3>2 DEF Switches
      <4>2. q # r
        BY <1>a, <1>r, <4>1 DEF Overtaken
      <4> QED
        BY <1>1, <3>1, <4>1, <4>2 DEF Overtaken, Only
    <3> QED
      BY <1>1, <1>2, <2>2, <3>1, <3>2 DEF Switches
  <2>3. CASE u # t /\ thread[u].pc \notin Switching
    BY <1>1, <2>3 DEF Only, Switches
  <2> QED
    BY <2>1, <2>2, <2>3
<1>9. ASSUME NEW p \in Runs, NEW q \in Runs PROVE Contest(p, q)'
  <2> SUFFICES ASSUME Rivals(p, q), version[p].active, version[q].active
               PROVE  \E u \in Threads : Closes(u, p, q)' \/ Closes(u, q, p)'
    BY <1>1, <1>2 DEF Contest
  <2>1. PICK u \in Threads : Closes(u, p, q) \/ Closes(u, q, p)
    BY DEF ActiveInv, Contest
  <2>2. CASE u # t
    BY <1>1, <2>1, <2>2 DEF Closes, Only
  <2>3. CASE u = t
    <3>1. p # q /\ DocumentOf[p] = DocumentOf[q]
      BY DEF Rivals
    <3>2. (r = p => Closes(t, p, q)') /\ (r = q => Closes(t, q, p)')
      BY <1>1, <1>4, <3>1 DEF Closes, OtherActiveVersions
    <3>3. r \in {p, q}
      BY <1>r, <2>1, <2>3 DEF Closes
    <3> QED
      BY <3>2, <3>3
  <2> QED
    BY <2>2, <2>3
<1> QED
  BY <1>7, <1>8, <1>9 DEF ActiveInv

\* Switching off: a request that turns its own version on again turns its rival's off.
LEMMA ActiveSwitch ==
  ASSUME Undisturbed, SoleInv, QuietInv, ActiveInv, NEW t \in Threads, DeactivateOthers(t)
  PROVE  ActiveInv'
<1> DEFINE req == thread[t]
<1>a. /\ thread \in [Threads -> RequestStates] /\ version \in [Runs -> VersionRows]
      /\ req \in RequestStates /\ WellFormed(req) /\ TypeInv /\ req.pc = "deactivate"
  BY DEF SoleInv, TypeInv, TypeOK, DeactivateOthers, At
<1>r. PICK r \in Runs : r = thread[t].run
  BY <1>a DEF WellFormed
<1>1. /\ Only(t) /\ UNCHANGED runStatus
      /\ thread'[t].pc \in {"idle", "read_approval"}
      /\ t \in Loops => thread'[t].pc = "idle"
  <2>1. CASE t \in Loops
    BY <1>a, <2>1 DEF DeactivateOthers, Reset, Become, IdleThread, Only
  <2>2. CASE t \notin Loops
    BY <1>a, <2>2 DEF DeactivateOthers, Goto, Become, RequestStates, Only
  <2> QED
    BY <2>1, <2>2
<1>2. \A q \in Runs :
         /\ version'[q].status = version[q].status
         /\ version'[q].active = IF q \in req.seen THEN q = r ELSE version[q].active
  BY <1>a, <1>r DEF DeactivateOthers, VersionRows
<1>3. /\ \A q \in Runs : Activated(q)' = Activated(q)
      /\ \A p, q \in Runs : Rivals(p, q)' = Rivals(p, q)
  BY <1>2 DEF Activated, Rivals
<1>4. /\ Activated(r) /\ (r \in req.seen => ~version[r].active)
      /\ \A q \in req.seen : DocumentOf[q] = DocumentOf[r]
      /\ \A q \in Runs : Rivals(r, q) /\ ~version[r].active => Overtaken(t, q)
  BY <1>a, <1>r DEF ActiveInv, Switches, Switching
<1>5. ASSUME NEW q \in Runs PROVE Standing(q)'
  BY <1>1, <1>2, <1>3, <1>4 DEF ActiveInv, Standing
<1>6. \A u \in Threads : u # t /\ thread[u].pc # "idle" => thread[u].run \in Runs \ {r}
  BY <1>a, <1>r DEF TypeInv, WellFormed, QuietInv, OneEach
<1>7. \A p, q \in Runs : Rivals(p, q) => Rivals(q, p)
  BY DEF Rivals
<1>8. ASSUME NEW p \in Runs, NEW q \in Runs, Rivals(p, q), r \notin {p, q}
      PROVE  version'[p].active = version[p].active /\ version'[q].active = version[q].active
  <2>1. DocumentOf[r] # DocumentOf[p] /\ DocumentOf[r] # DocumentOf[q]
    BY <1>4, <1>8 DEF Rivals
  <2> QED
    BY <1>2, <1>4, <2>1
<1>9. ASSUME NEW u \in Threads PROVE Switches(u)'
  <2>1. CASE u = t
    BY <1>1, <2>1 DEF Switches, Switching
  <2>2. CASE u # t /\ thread[u].pc \in Switching
    <3> DEFINE p == thread[u].run
    <3>1. /\ thread'[u] = thread[u] /\ Switches(u) /\ p \in Runs /\ p # r
          /\ version'[p].active => version[p].active
      BY <1>1, <1>2, <1>6, <2>2 DEF Only, ActiveInv, Switching
    <3>2. ASSUME NEW q \in Runs, Rivals(p, q), ~version'[p].active PROVE Overtaken(u, q)'
      <4>1. CASE q # r
        <5>1. version'[p].active = version[p].active /\ version'[q].active = version[q].active
          BY <1>8, <3>1, <3>2, <4>1
        <5>2. Overtaken(u, q)
          BY <2>2, <3>1, <3>2, <5>1 DEF Switches
        <5> QED
          BY <1>1, <1>r, <3>1, <4>1, <5>1, <5>2 DEF Overtaken, Only
      <4>2. CASE q = r
        <5>1. Rivals(r, p) /\ version[p].active
          <6>1. ~version[p].active => Overtaken(u, r)
            BY <2>2, <3>1, <3>2, <4>2 DEF Switches
          <6> QED
            BY <1>a, <1>r, <1>7, <3>1, <3>2, <4>2, <6>1 DEF Overtaken
        <5>2. version[r].active \/ r \in req.seen
          <6>1. ~Overtaken(t, p)
            BY <2>2 DEF Overtaken, Switching
          <6> QED
            BY <1>4, <3>1, <5>1, <6>1
        <5>3. version'[r].active
          BY <1>2, <5>2
        <5>4. thread[u].pc # "refresh_version" => p \notin thread[u].seen
          BY <2>2, <3>1, <5>1 DEF Switches
        <5>5. u \in Loops => runStatus[r] \in Concluded
          <6>1. u \in Loops => t \notin Loops
            BY <2>2 DEF Undisturbed
          <6> QED
            BY <1>a, <1>r, <6>1 DEF QuietInv, Served, Settling, Reported
        <5>6. runStatus[r] # "none"
          BY <1>4 DEF ActiveInv, Standing
        <5>7. \A v \in Threads : thread'[v].pc # "idle" /\ thread'[v].run = r =>
                 thread'[v].pc \in {"read_approval", "resolve"}
          BY <1>1, <1>6 DEF Only
        <5> QED
          BY <1>1, <2>2, <3>1, <4>2, <5>3, <5>4, <5>5, <5>6, <5>7 DEF Overtaken
      <4> QED
        BY <4>1, <4>2
    <3> QED
      BY <1>3, <2>2, <3>1, <3>2 DEF Switches
  <2>3. CASE u # t /\ thread[u].pc \notin Switching
    BY <1>1, <2>3 DEF Only, Switches
  <2> QED
    BY <2>1, <2>2, <2>3
<1>10. ASSUME NEW q \in Runs, Rivals(r, q), version'[r].active, version'[q].active
       PROVE  version[r].active /\ version[q].active /\ q \notin req.seen
  <2>1. q \notin req.seen /\ version[q].active
    BY <1>2, <1>10 DEF Rivals
  <2>2. r \notin req.seen
    BY <1>a, <1>r, <1>4, <1>10, <2>1 DEF Overtaken
  <2> QED
    BY <1>2, <1>10, <2>1, <2>2
<1>11. ASSUME NEW p \in Runs, NEW q \in Runs PROVE Contest(p, q)'
  <2> SUFFICES ASSUME Rivals(p, q), version'[p].active, version'[q].active
               PROVE  \E u \in Threads : Closes(u, p, q)' \/ Closes(u, q, p)'
    BY <1>3 DEF Contest
  <2>1. /\ version[p].active /\ version[q].active
        /\ r = p => q \notin req.seen
        /\ r = q => p \notin req.seen
    BY <1>7, <1>8, <1>10
  <2>2. PICK u \in Threads : Closes(u, p, q) \/ Closes(u, q, p)
    BY <2>1 DEF ActiveInv, Contest
  <2>3. u # t
    BY <1>a, <1>r, <2>1, <2>2 DEF Closes
  <2> QED
    BY <1>1, <2>2, <2>3 DEF Closes, Only
<1> QED
  BY <1>5, <1>9, <1>11 DEF ActiveInv

\* Every other step of a request.
LEMMA ProceedActive ==
  ASSUME Undisturbed, SoleInv, QuietInv, ActiveInv, NEW t \in Threads, Proceed(t)
  PROVE  ActiveInv'
<1> DEFINE req == thread[t]
<1>0. thread[t].pc # "idle"
  BY ProceedIsBusy
<1>a. /\ thread \in [Threads -> RequestStates] /\ req \in RequestStates
      /\ runStatus \in [Runs -> {"none"} \cup RunStatuses]
      /\ version \in [Runs -> VersionRows] /\ WellFormed(req) /\ TypeInv
  BY DEF SoleInv, TypeInv, TypeOK
<1>r. PICK r \in Runs : r = thread[t].run
  BY <1>0, <1>a DEF WellFormed
<1>f. /\ t \in Loops => Starts(req)
      /\ t \notin Loops => Resumes(req)
      /\ runStatus[r] # "none"
  BY <1>0, <1>r DEF SoleInv, ReviewInv, Fits, RowsFit
<1>1. CASE MarkVersion(t) \/ Extract(t)
  <2>1. /\ req.pc \in {"mark_version", "extract"} /\ runStatus[r] = "running"
        /\ UNCHANGED runStatus
    BY <1>f, <1>r, <1>1 DEF MarkVersion, Extract, At, Starts, Resumes, Working, Preparing
  <2>2. /\ version'[r].status = "analyzing" /\ version'[r].active = version[r].active
        /\ \A q \in Runs : q # r => version'[q] = version[q]
    BY <1>a, <1>r, <1>1 DEF MarkVersion, Extract, VersionRows
  <2>3. thread'[t].pc \in {"extract", "graph"} /\ Only(t)
    <3>1. CASE MarkVersion(t)
      BY <1>a, <3>1 DEF MarkVersion, Goto, Become, RequestStates, Only
    <3>2. CASE Extract(t)
      BY <1>a, <3>2 DEF Extract, Continue, Become, RequestStates, Only
    <3> QED
      BY <1>1, <3>1, <3>2
  <2>4. ~Activated(r)
    BY <2>1 DEF ActiveInv, Standing
  <2>5. \A q \in Runs : Activated(q)' = Activated(q)
    BY <2>2, <2>4 DEF Activated
  <2> QED
    BY <1>0, <1>a, <1>f, <1>r, <2>1, <2>2, <2>3, <2>4, <2>5, ActiveQuiet DEF Switching
<1>2. CASE UpdateRun(t) \/ RecordFailure(t)
  <2>1. /\ req.pc \in {"update_run", "fail"} /\ UNCHANGED version
        /\ \A q \in Runs : q # r => runStatus'[q] = runStatus[q]
        /\ \/ runStatus'[r] = req.outcome /\ req.pc = "update_run"
           \/ runStatus'[r] = "failed"
    BY <1>a, <1>r, <1>2 DEF UpdateRun, RecordFailure, FailureStatus, At
  <2>2. req.pc = "update_run" => req.outcome \notin {"none", "running"}
    BY <1>a DEF WellFormed, Reporting, RequestStates, RunStatuses
  <2>3. thread'[t].pc = "read_document" /\ Only(t)
    <3>1. CASE UpdateRun(t)
      BY <1>a, <3>1 DEF UpdateRun, Goto, Become, RequestStates, Only
    <3>2. CASE RecordFailure(t)
      BY <1>a, <3>2 DEF RecordFailure, Become, RequestStates, Only
    <3> QED
      BY <1>2, <3>1, <3>2
  <2>4. \A q \in Runs : Activated(q)' = Activated(q)
    BY <2>1 DEF Activated
  <2> QED
    BY <1>0, <1>a, <1>r, <2>1, <2>2, <2>3, <2>4, ActiveQuiet DEF Switching
<1>3. CASE SyncVersion(t)
  BY <1>3, ActiveSync
<1>4. CASE RefreshVersion(t) \/ ReadVersions(t)
  BY <1>4, ActiveRead
<1>5. CASE DeactivateOthers(t)
  BY <1>5, ActiveSwitch
<1>6. CASE \/ ReadDocument(t) \/ MarkDocument(t) \/ ExtractRaises(t) \/ LoadCheckpoint(t)
           \/ (\E n \in Analysis : AnalysisNode(t, n)) \/ HumanReview(t) \/ ApproveNode(t)
           \/ RejectNode(t) \/ NodeRaises(t) \/ SaveCheckpoint(t) \/ Pause(t) \/ GetState(t)
           \/ CreateApproval(t) \/ SyncDocument(t) \/ ReadApproval(t) \/ ResolveApproval(t)
  <2>1. UNCHANGED <<version, runStatus>> /\ req.pc \notin Switching
    BY <1>6 DEF ReadDocument, MarkDocument, ExtractRaises, LoadCheckpoint, AnalysisNode,
       HumanReview, ApproveNode, RejectNode, NodeRaises, SaveCheckpoint, Pause, GetState,
       CreateApproval, SyncDocument, ReadApproval, ResolveApproval, NodeReady, StreamEnded, At,
       database, Switching
  <2>2. /\ thread'[t].pc \notin Switching /\ Only(t)
        /\ req.pc \in {"read_approval", "resolve"} => thread'[t].pc \in {"idle", "resolve"}
    <3>1. \/ Reset(t) \/ ReadDocument(t)
          \/ Goto(t, "resolve")
          \/ /\ req.pc \notin {"read_approval", "resolve"}
             /\ \/ \E pc \in Locations \ Switching : Goto(t, pc)
                \/ \E g : Continue(t, g)
                \/ LoadCheckpoint(t) \/ SaveCheckpoint(t) \/ Pause(t) \/ GetState(t)
      BY <1>6 DEF MarkDocument, ExtractRaises, AnalysisNode, HumanReview, ApproveNode,
         RejectNode, NodeRaises, CreateApproval, SyncDocument, ReadApproval, ResolveApproval,
         LoadCheckpoint, SaveCheckpoint, Pause, GetState, NodeReady, StreamEnded, At,
         Locations, Switching
    <3>2. CASE Reset(t)
      BY <1>a, <3>2 DEF Reset, Become, IdleThread, Only, Switching
    <3>3. CASE ReadDocument(t)
      <4>1. req.pc = "read_document"
        BY <3>3 DEF ReadDocument, At
      <4> QED
        BY <1>a, <3>3, <4>1, ReadSteps DEF Only, Switching
    <3>4. CASE Goto(t, "resolve")
      BY <1>a, <3>4 DEF Goto, Become, RequestStates, Only, Switching
    <3>5. CASE /\ req.pc \notin {"read_approval", "resolve"}
               /\ \E pc \in Locations \ Switching : Goto(t, pc)
      BY <1>a, <3>5 DEF Goto, Become, RequestStates, Only
    <3>6. CASE req.pc \notin {"read_approval", "resolve"} /\ \E g : Continue(t, g)
      BY <1>a, <3>6 DEF Continue, Become, RequestStates, Only, Switching
    <3>7. CASE req.pc \notin {"read_approval", "resolve"} /\ LoadCheckpoint(t)
      BY <1>a, <3>7 DEF LoadCheckpoint, Become, RequestStates, Only, Switching
    <3>8. CASE req.pc \notin {"read_approval", "resolve"} /\ SaveCheckpoint(t)
      BY <1>a, <3>8 DEF SaveCheckpoint, Become, RequestStates, Only, Switching
    <3>9. CASE req.pc \notin {"read_approval", "resolve"} /\ Pause(t)
      BY <1>a, <3>9 DEF Pause, Become, RequestStates, Only, Switching
    <3>10. CASE req.pc \notin {"read_approval", "resolve"} /\ GetState(t)
      BY <1>a, <3>10 DEF GetState, Become, RequestStates, Only, Switching
    <3> QED
      BY <3>1, <3>2, <3>3, <3>4, <3>5, <3>6, <3>7, <3>8, <3>9, <3>10
  <2>3. \A q \in Runs : Activated(q)' = Activated(q)
    BY <2>1 DEF Activated
  <2>4. Activated(r) => runStatus[r] # "running"
    BY DEF ActiveInv, Standing
  <2> QED
    BY <1>0, <1>a, <1>f, <1>r, <2>1, <2>2, <2>3, <2>4, ActiveQuiet
<1> QED
  BY <1>1, <1>2, <1>3, <1>4, <1>5, <1>6 DEF Proceed

\* A request that is accepted finds a run nobody works on, and no start is concluded.
LEMMA ActiveInductive ==
  ASSUME Undisturbed, SoleInv, QuietInv, ActiveInv, [Next]_vars
  PROVE  ActiveInv'
<1>a. /\ thread \in [Threads -> RequestStates]
      /\ runStatus \in [Runs -> {"none"} \cup RunStatuses] /\ TypeInv
  BY DEF SoleInv, TypeInv, TypeOK
<1>1. ASSUME NEW t \in Threads, NEW r \in Runs, thread[t].pc = "idle",
             thread'[t].pc \in {"mark_document", "load"}, thread'[t].run = r,
             \A u \in Threads : u # t => thread'[u] = thread[u], UNCHANGED version,
             \A q \in Runs : q # r => runStatus'[q] = runStatus[q],
             \/ runStatus[r] = "none" /\ runStatus'[r] # "none"
             \/ t \notin Loops /\ runStatus[r] = "waiting_approval" /\ UNCHANGED runStatus
      PROVE  ActiveInv'
  <2>1. /\ \A q \in Runs : Activated(q)' = Activated(q)
        /\ \A p, q \in Runs : Rivals(p, q)' = Rivals(p, q)
    BY <1>1 DEF Activated, Rivals
  <2>2. ASSUME NEW q \in Runs PROVE Standing(q)'
    BY <1>1, <2>1 DEF ActiveInv, Standing
  <2>3. ASSUME NEW u \in Threads PROVE Switches(u)'
    <3>1. CASE u = t \/ thread[u].pc \notin Switching
      BY <1>1, <3>1 DEF Switches, Switching
    <3>2. CASE u # t /\ thread[u].pc \in Switching
      <4>1. thread'[u] = thread[u] /\ Switches(u) /\ thread[u].run \in Runs
        BY <1>a, <1>1, <3>2 DEF ActiveInv, TypeInv, WellFormed, Switching
      <4>2. ASSUME NEW q \in Runs, Rivals(thread[u].run, q), ~version[thread[u].run].active
            PROVE  Overtaken(u, q)'
        <5>1. Overtaken(u, q)
          BY <3>2, <4>1, <4>2 DEF Switches
        <5>2. q # r
          <6>1. t \notin Loops => u \in Loops
            BY <3>2 DEF Undisturbed, Sole, Threads
          <6> QED
            BY <1>1, <5>1, <6>1 DEF Overtaken, Concluded
        <5> QED
          BY <1>1, <4>1, <5>1, <5>2 DEF Overtaken
      <4> QED
        BY <1>1, <2>1, <3>2, <4>1, <4>2 DEF Switches
    <3> QED
      BY <3>1, <3>2
  <2>4. ASSUME NEW p \in Runs, NEW q \in Runs PROVE Contest(p, q)'
    <3>1. ASSUME NEW u \in Threads, NEW a, NEW b, Closes(u, a, b) PROVE Closes(u, a, b)'
      BY <1>1, <3>1 DEF Closes
    <3> QED
      BY <1>1, <2>1, <3>1 DEF ActiveInv, Contest
  <2> QED
    BY <2>2, <2>3, <2>4 DEF ActiveInv
<1>2. ASSUME NEW t \in Loops, NEW r \in Runs, CreateRun(t, r) PROVE ActiveInv'
  <2>1. /\ t \in Threads /\ thread[t].pc = "idle"
        /\ thread'[t].pc = "mark_document" /\ thread'[t].run = r
        /\ \A u \in Threads : u # t => thread'[u] = thread[u]
    BY <1>a, <1>2 DEF CreateRun, At, Become, IdleThread, Threads
  <2>2. /\ runStatus[r] = "none" /\ runStatus'[r] = "running" /\ UNCHANGED version
        /\ \A q \in Runs : q # r => runStatus'[q] = runStatus[q]
    BY <1>a, <1>2 DEF CreateRun
  <2> QED
    BY <1>1, <2>1, <2>2
<1>3. ASSUME NEW t \in Workers, NEW r \in Runs, NEW p \in Decisions,
             AcceptDecision(t, r, p) PROVE ActiveInv'
  <2>1. /\ t \in Threads /\ t \notin Loops /\ thread[t].pc = "idle"
        /\ thread'[t].pc = "load" /\ thread'[t].run = r
        /\ \A u \in Threads : u # t => thread'[u] = thread[u]
    BY <1>a, <1>3, ThreadsAssumption
       DEF AcceptDecision, At, Become, IdleThread, Threads, ThreadsAssumption
  <2>2. runStatus[r] = "waiting_approval" /\ UNCHANGED <<version, runStatus>>
    BY <1>3 DEF AcceptDecision, Resumable, database
  <2> QED
    BY <1>1, <2>1, <2>2
<1>4. ~Crash
  BY DEF Crash, Undisturbed, SoleInv, TypeInv, TypeOK
<1>5. CASE UNCHANGED vars
  <2>1. UNCHANGED <<thread, version, runStatus>>
    BY <1>5 DEF vars, database
  <2> QED
    BY <2>1 DEF ActiveInv, Standing, Switches, Contest, Rivals, Overtaken, Closes, Activated
<1> QED
  BY <1>2, <1>3, <1>4, <1>5, ProceedActive DEF Next

\* Undisturbed, two versions of a document stay active together only if a third one was
\* activated as well (_sync_document_status, deactivate_other_versions).
THEOREM TwoActiveTakeAThirdHolds ==
  ASSUME Undisturbed
  PROVE  Spec => []TwoActiveTakeAThird
<1>1. ActiveInv => TwoActiveTakeAThird
  BY DEF ActiveInv, Contest, Rivals, Closes, TwoActiveTakeAThird
<1>2. SoleInv /\ [Next]_vars => SoleInv'
  BY SoleInductive DEF Undisturbed
<1>3. SoleInv /\ QuietInv /\ [Next]_vars => QuietInv'
  BY QuietInductive
<1>4. SoleInv /\ QuietInv /\ ActiveInv /\ [Next]_vars => ActiveInv'
  BY ActiveInductive
<1>5. Init => ActiveInv
  BY DEF Init, ActiveInv, Standing, Switches, Contest, IdleThread, Switching, Activated
<1> QED
  BY <1>1, <1>2, <1>3, <1>4, <1>5, SoleInit, QuietInit, PTL DEF Spec
=============================================================================
