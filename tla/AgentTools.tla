------------------------------ MODULE AgentTools ------------------------------
(***************************************************************************)
(* The tools of services/agent_tools_service.py as one run calls them, one *)
(* after the other: validation of the arguments, then _execute, which runs *)
(* the tool in a thread of a one-thread pool, waits for it up to a         *)
(* timeout, retries, and writes one audit row.  Caller and worker thread   *)
(* use the same database session.                                          *)
(***************************************************************************)
EXTENDS Naturals, FiniteSets

CONSTANTS
    MaxRetries,     \* settings.tool_max_retries
    MaxCalls,       \* bound on the number of calls
    MaxCrashes      \* bound on the number of crashes

ASSUME RetriesAssumption == MaxRetries \in 0..5
ASSUME BoundsAssumption  == MaxCalls \in Nat /\ MaxCrashes \in Nat

Calls    == 1..MaxCalls
Attempts == 1..(MaxRetries + 1)

Tools     == {"supplier_lookup", "duplicate_check", "categorize_document",
              "create_draft_pre_entry"}
Effectful == {"categorize_document", "create_draft_pre_entry"}
NoTool    == "none"

VARIABLES
    calls,          \* number of calls made so far
    call,           \* the call in progress, in the graph's thread
    worker,         \* the thread of each attempt of the call in progress
    draftExists,    \* a draft_pre_entries row of the run exists
    audit,          \* tool_executions rows
    outcome,        \* history: how each call ended for the graph
    effects,        \* history: how often each call's tool committed something
    crashes         \* number of crashes so far

vars == <<calls, call, worker, draftExists, audit, outcome, effects, crashes>>

IdleCall   == [pc |-> "idle", tool |-> NoTool, transient |-> FALSE, attempts |-> 0,
               error |-> "none"]
IdleWorker == [pc |-> "idle", found |-> FALSE]

Active   == {"running", "writing"}
Finished == {"ok", "retryable", "error"}

Init ==
    /\ calls       = 0
    /\ call        = IdleCall
    /\ worker      = [a \in Attempts |-> IdleWorker]
    /\ draftExists = FALSE
    /\ audit       = {}
    /\ outcome     = [c \in Calls |-> "none"]
    /\ effects     = [c \in Calls |-> 0]
    /\ crashes     = 0

Goto(pc) == call' = [call EXCEPT !.pc = pc]

-----------------------------------------------------------------------------
(* The graph's thread *)

\* supplier_lookup, duplicate_check, categorize, create_draft: the registry may be
\* transiently down for a supplier, which every attempt then meets.
CallTool(tool, transient) ==
    /\ call.pc = "idle" /\ calls < MaxCalls
    /\ transient => tool = "supplier_lookup"
    /\ calls' = calls + 1
    /\ call' = [IdleCall EXCEPT !.pc = "attempt", !.tool = tool, !.transient = transient]
    /\ worker' = [a \in Attempts |-> IdleWorker]
    /\ outcome' = [outcome EXCEPT ![calls + 1] = "pending"]
    /\ UNCHANGED <<draftExists, audit, effects, crashes>>

\* DraftCreateArgs does not validate: the exception leaves before _execute.
RefuseArguments ==
    /\ call.pc = "idle" /\ calls < MaxCalls
    /\ calls' = calls + 1
    /\ outcome' = [outcome EXCEPT ![calls + 1] = "refused"]
    /\ UNCHANGED <<call, worker, draftExists, audit, effects, crashes>>

\* attempts += 1; executor.submit(fn)
Submit ==
    /\ call.pc = "attempt"
    /\ call' = [call EXCEPT !.pc = "waiting", !.attempts = @ + 1]
    /\ worker' = [worker EXCEPT ![call.attempts + 1] = [IdleWorker EXCEPT !.pc = "running"]]
    /\ UNCHANGED <<calls, draftExists, audit, outcome, effects, crashes>>

\* Mutant: a tool that raised never completes its future.
DoneOnlyWithResult(a) == worker[a].pc = "ok"

Done(a) == worker[a].pc \in Finished

\* Mutant: the pool is left without waiting for its thread.
JoinedAtOnce(a) == TRUE

Joined(a) == Done(a)

\* Mutant: the last attempt is given up.
MayRetryOneLess(attempts) == attempts < MaxRetries

MayRetry(attempts) == attempts <= MaxRetries

AfterFailure(attempts) == IF MayRetry(attempts) THEN "attempt" ELSE "audit_failure"

\* future.result() returns in time.
CollectResult ==
    /\ call.pc = "waiting" /\ Done(call.attempts)
    /\ worker[call.attempts].pc = "ok"
    /\ Goto("audit_success")
    /\ UNCHANGED <<calls, worker, draftExists, audit, outcome, effects, crashes>>

\* future.result() raises what the tool raised: rollback, then retry or give up.
CollectError ==
    /\ call.pc = "waiting" /\ Done(call.attempts)
    /\ \/ /\ worker[call.attempts].pc = "retryable"
          /\ call' = [call EXCEPT !.pc = AfterFailure(call.attempts), !.error = "retryable"]
       \/ /\ worker[call.attempts].pc = "error"
          /\ call' = [call EXCEPT !.pc = "audit_failure", !.error = "error"]
    /\ UNCHANGED <<calls, worker, draftExists, audit, outcome, effects, crashes>>

\* The timeout passes first; leaving the "with" block still waits for the thread.
Timeout ==
    /\ call.pc = "waiting" /\ ~Done(call.attempts)
    /\ Goto("joining")
    /\ UNCHANGED <<calls, worker, draftExists, audit, outcome, effects, crashes>>

\* The thread ended, whatever it did: rollback, then retry or give up.
Join ==
    /\ call.pc = "joining" /\ Joined(call.attempts)
    /\ call' = [call EXCEPT !.pc = AfterFailure(call.attempts), !.error = "timeout"]
    /\ UNCHANGED <<calls, worker, draftExists, audit, outcome, effects, crashes>>

\* Mutant: the row of a failed call is written as if it had succeeded.
AuditRowAlwaysSucceeded(status) ==
    [call |-> calls, tool |-> call.tool, status |-> "succeeded",
     attempts |-> call.attempts, error |-> call.error]

\* Mutant: the attempts are reported as they were before the last one.
AuditRowOneAttemptLess(status) ==
    [call |-> calls, tool |-> call.tool, status |-> status,
     attempts |-> call.attempts - 1, error |-> call.error]

AuditRow(status) == [call |-> calls, tool |-> call.tool, status |-> status,
                     attempts |-> call.attempts, error |-> call.error]

\* create_tool_execution, then return or raise.
AuditAndEnd(pc, status, end) ==
    /\ call.pc = pc
    /\ audit' = audit \cup {AuditRow(status)}
    /\ outcome' = [outcome EXCEPT ![calls] = end]
    /\ call' = IdleCall
    /\ UNCHANGED <<calls, worker, draftExists, effects, crashes>>

AuditSuccess == AuditAndEnd("audit_success", "succeeded", "returned")
AuditFailure == AuditAndEnd("audit_failure", "failed", "raised")

-----------------------------------------------------------------------------
(* The thread of an attempt *)

SetWorker(a, pc) == worker' = [worker EXCEPT ![a] = [@ EXCEPT !.pc = pc]]

\* The tool raises before it writes anything.
WorkerRaises(a) ==
    /\ worker[a].pc = "running"
    /\ SetWorker(a, IF call.transient THEN "retryable" ELSE "error")
    /\ UNCHANGED <<calls, call, draftExists, audit, outcome, effects, crashes>>

\* A tool that only reads is done; one that writes has read what it depends on:
\* create_or_update_draft looks for the run's draft.
WorkerReads(a) ==
    /\ worker[a].pc = "running" /\ ~call.transient
    /\ worker' = [worker EXCEPT ![a] =
          [pc |-> IF call.tool \in Effectful THEN "writing" ELSE "ok",
           found |-> draftExists]]
    /\ UNCHANGED <<calls, call, draftExists, audit, outcome, effects, crashes>>

\* The usage row is inserted, or the draft is inserted or updated: one commit.
WorkerCommits(a) ==
    /\ worker[a].pc = "writing"
    /\ SetWorker(a, "ok")
    /\ draftExists' = (draftExists \/ call.tool = "create_draft_pre_entry")
    /\ effects' = [effects EXCEPT ![calls] = @ + 1]
    /\ UNCHANGED <<calls, call, audit, outcome, crashes>>

-----------------------------------------------------------------------------

\* The process dies: the call in progress is neither answered nor audited.
Crash ==
    /\ crashes < MaxCrashes /\ call.pc # "idle"
    /\ crashes' = crashes + 1
    /\ call' = IdleCall
    /\ worker' = [a \in Attempts |-> IdleWorker]
    /\ outcome' = [outcome EXCEPT ![calls] = "lost"]
    /\ UNCHANGED <<calls, draftExists, audit, effects>>

Execute == \/ Submit \/ CollectResult \/ CollectError \/ Join
           \/ AuditSuccess \/ AuditFailure

Work(a) == WorkerRaises(a) \/ WorkerReads(a) \/ WorkerCommits(a)

Next ==
    \/ \E tool \in Tools, transient \in BOOLEAN : CallTool(tool, transient)
    \/ RefuseArguments
    \/ Execute \/ Timeout
    \/ \E a \in Attempts : Work(a)
    \/ Crash

Spec == Init /\ [][Next]_vars

\* Both threads are scheduled and every tool returns or raises in the end; nothing
\* forces a timeout, or a call.
FairSpec == Spec /\ WF_vars(Execute) /\ \A a \in Attempts : WF_vars(Work(a))

-----------------------------------------------------------------------------
(* Properties *)

Errors    == {"none", "timeout", "retryable", "error"}
CallStates == [pc : {"idle", "attempt", "waiting", "joining", "audit_success",
                     "audit_failure"},
               tool : Tools \cup {NoTool}, transient : BOOLEAN,
               attempts : 0..(MaxRetries + 1), error : Errors]
WorkerStates == [pc : {"idle"} \cup Active \cup Finished, found : BOOLEAN]
AuditRows == [call : Calls, tool : Tools, status : {"succeeded", "failed"},
              attempts : Attempts, error : Errors]

\* Calls, threads and audit rows hold values of the code's types.
TypeOK ==
    /\ calls \in 0..MaxCalls
    /\ call \in CallStates
    /\ worker \in [Attempts -> WorkerStates]
    /\ draftExists \in BOOLEAN
    /\ audit \subseteq AuditRows
    /\ outcome \in [Calls -> {"none", "pending", "returned", "raised", "refused", "lost"}]
    /\ effects \in [Calls -> Nat]
    /\ crashes \in 0..MaxCrashes

\* The session is never used by two threads: while a tool's thread is at work, the
\* graph's thread waits for that very thread, also after the timeout has passed.
SessionNotShared == \A a \in Attempts :
    worker[a].pc \in Active =>
        call.pc \in {"waiting", "joining"} /\ a = call.attempts

\* The upsert of the draft never works on a stale read: what the thread found is
\* still so when it commits, over all retries of a call.
UpsertNotStale == \A a \in Attempts :
    worker[a].pc = "writing" => worker[a].found = draftExists

RowsOf(c) == {row \in audit : row.call = c}

\* A call for which _execute returned or raised has exactly one audit row, which says
\* "succeeded" iff the graph got a result, and then the tool did what it should.  Any
\* other call has none: not made, in progress, refused before _execute, or lost with
\* the process before its row was committed.
AuditTellsTheTruth == \A c \in Calls :
    IF outcome[c] \in {"returned", "raised"}
    THEN /\ Cardinality(RowsOf(c)) = 1
         /\ \A row \in RowsOf(c) :
                /\ row.status = "succeeded" <=> outcome[c] = "returned"
                /\ row.status = "succeeded" /\ row.tool \in Effectful => effects[c] >= 1
    ELSE RowsOf(c) = {}

\* A call fails for a transient reason only when every allowed attempt was made
\* (test_document_routes: attempts == 3).
RetriesAreExhausted == \A row \in audit :
    row.status = "failed" /\ row.error \in {"timeout", "retryable"} =>
        row.attempts = MaxRetries + 1

\* Every call ends: retries run out and no thread is waited for in vain.
EveryCallEnds == \A c \in Calls : outcome[c] = "pending" ~> outcome[c] # "pending"

=============================================================================
