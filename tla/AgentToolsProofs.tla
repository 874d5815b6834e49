-------------------------- MODULE AgentToolsProofs --------------------------
(***************************************************************************)
(* Proofs about AgentTools: its types, that the session is never used by   *)
(* two threads, that the draft's upsert never works on a stale read, that  *)
(* retries are exhausted before a transient failure is reported, that the  *)
(* audit rows tell the truth, and that every call comes to its end.        *)
(***************************************************************************)
EXTENDS AgentTools, FiniteSetTheorems, TLAPS

\* What the graph's thread knows at each point of _execute.
Progress ==
    /\ call.pc # "idle" => calls \in Calls /\ call.tool \in Tools
    /\ call.pc = "attempt" => call.attempts <= MaxRetries
    /\ call.pc \notin {"idle", "attempt"} => call.attempts \in Attempts
    /\ call.pc = "audit_failure" /\ call.error \in {"timeout", "retryable"} =>
          call.attempts = MaxRetries + 1

TypeInv == TypeOK /\ Progress

-----------------------------------------------------------------------------

\* Initially calls, threads and audit rows are within their types.
LEMMA InitTyped == Init => TypeInv
<1> SUFFICES ASSUME Init PROVE TypeInv
  OBVIOUS
<1> USE RetriesAssumption, BoundsAssumption DEF RetriesAssumption, BoundsAssumption
<1>1. IdleCall \in CallStates
  BY DEF IdleCall, CallStates, Errors
<1>2. IdleWorker \in WorkerStates
  BY DEF IdleWorker, WorkerStates
<1>3. Progress
  BY DEF Init, Progress, IdleCall
<1>4. calls \in 0..MaxCalls /\ crashes \in 0..MaxCrashes
  BY DEF Init
<1> QED BY <1>1, <1>2, <1>3, <1>4 DEF Init, TypeInv, TypeOK

\* A step of the graph's thread keeps the types and its own progress.
LEMMA CallerTyped ==
    ASSUME TypeInv,
           \/ \E tool \in Tools, transient \in BOOLEAN : CallTool(tool, transient)
           \/ RefuseArguments \/ Execute \/ Timeout \/ Crash
    PROVE  TypeInv'
<1> USE RetriesAssumption, BoundsAssumption DEF RetriesAssumption, BoundsAssumption
<1> USE DEF TypeInv
<1>w. IdleWorker \in WorkerStates
  BY DEF IdleWorker, WorkerStates
<1>i. IdleCall \in CallStates
  BY DEF IdleCall, CallStates, Errors
<1>1. ASSUME NEW tool \in Tools, NEW transient \in BOOLEAN, CallTool(tool, transient)
      PROVE  TypeInv'
  <2>0. calls \in 0..MaxCalls /\ calls < MaxCalls /\ calls' = calls + 1
    BY <1>1 DEF CallTool, TypeOK
  <2>1. calls' \in 1..MaxCalls
    BY <2>0
  <2> DEFINE new == [IdleCall EXCEPT !.pc = "attempt", !.tool = tool,
                                     !.transient = transient]
  <2>2. /\ new \in CallStates
        /\ new.pc = "attempt" /\ new.tool = tool /\ new.attempts = 0
    <3>1. 0 \in 0..(MaxRetries + 1)
      OBVIOUS
    <3>2. new.pc = "attempt" /\ new.tool = tool /\ new.attempts = 0
      BY DEF IdleCall
    <3>3. new \in CallStates
      BY <3>1, <1>i DEF IdleCall, CallStates
    <3> QED BY <3>2, <3>3
  <2>3. call' = new
    BY <1>1 DEF CallTool
  <2> HIDE DEF new
  <2>4. call' \in CallStates /\ Progress'
    BY <2>1, <2>2, <2>3 DEF Progress, Calls
  <2>5. outcome' \in [Calls -> {"none", "pending", "returned", "raised",
                               "refused", "lost"}]
    BY <1>1 DEF CallTool, TypeOK
  <2>6. worker' \in [Attempts -> WorkerStates]
    BY <1>1, <1>w DEF CallTool
  <2>7. UNCHANGED <<draftExists, audit, effects, crashes>>
    BY <1>1 DEF CallTool
  <2> QED BY <2>1, <2>4, <2>5, <2>6, <2>7 DEF TypeOK
<1>2. CASE RefuseArguments
  <2>1. calls' \in 1..MaxCalls
    BY <1>2 DEF RefuseArguments, TypeOK
  <2> QED BY <1>2, <2>1 DEF RefuseArguments, TypeOK, Progress, Calls
<1>3. CASE Submit
  <2>1. call.attempts + 1 \in Attempts
    BY <1>3 DEF Submit, Progress, TypeOK, CallStates, Attempts
  <2> DEFINE new == [call EXCEPT !.pc = "waiting", !.attempts = @ + 1]
  <2>4. /\ new \in CallStates /\ new.pc = "waiting" /\ new.tool = call.tool
        /\ new.attempts = call.attempts + 1
    <3>1. call.attempts + 1 \in 0..(MaxRetries + 1)
      BY <2>1 DEF Attempts
    <3>2. call \in CallStates
      BY DEF TypeOK
    <3> QED BY <3>1, <3>2 DEF CallStates
  <2>5. call' = new /\ UNCHANGED calls /\ call.pc = "attempt"
    BY <1>3 DEF Submit
  <2> HIDE DEF new
  <2>2. call' \in CallStates /\ Progress'
    BY <2>1, <2>4, <2>5 DEF Progress
  <2>3. [IdleWorker EXCEPT !.pc = "running"] \in WorkerStates
    BY DEF IdleWorker, WorkerStates, Active
  <2> QED BY <1>3, <2>2, <2>3 DEF Submit, TypeOK
<1>4. CASE CollectResult \/ Timeout
  <2>1. call' \in CallStates /\ Progress'
    BY <1>4 DEF CollectResult, Timeout, Goto, Progress, TypeOK, CallStates
  <2> QED BY <1>4, <2>1 DEF CollectResult, Timeout, TypeOK
<1>5. CASE CollectError \/ Join
  <2>1. call.attempts \in Attempts
    BY <1>5 DEF CollectError, Join, Progress
  <2>2. \/ AfterFailure(call.attempts) = "attempt" /\ call.attempts <= MaxRetries
        \/ AfterFailure(call.attempts) = "audit_failure" /\ call.attempts = MaxRetries + 1
    BY <2>1 DEF AfterFailure, MayRetry, Attempts
  <2>3. call' \in CallStates /\ Progress'
    BY <1>5, <2>1, <2>2 DEF CollectError, Join, Progress, TypeOK, CallStates, Errors
  <2> QED BY <1>5, <2>3 DEF CollectError, Join, TypeOK
<1>6. ASSUME NEW pc \in {"audit_success", "audit_failure"},
             NEW status \in {"succeeded", "failed"}, NEW end \in {"returned", "raised"},
             AuditAndEnd(pc, status, end)
      PROVE  TypeInv'
  <2>1. AuditRow(status) \in AuditRows
    BY <1>6 DEF AuditAndEnd, AuditRow, AuditRows, Progress, TypeOK, CallStates
  <2> QED BY <1>6, <1>i, <2>1 DEF AuditAndEnd, TypeOK, Progress, IdleCall
<1>7. CASE Crash
  BY <1>7, <1>i, <1>w DEF Crash, TypeOK, Progress, IdleCall
<1> QED BY <1>1, <1>2, <1>3, <1>4, <1>5, <1>6, <1>7 DEF Execute, AuditSuccess, AuditFailure

\* A step of a tool's thread keeps the types.
LEMMA WorkerTyped ==
    ASSUME TypeInv, NEW a \in Attempts, Work(a)
    PROVE  TypeInv'
<1> USE DEF TypeInv
<1>1. worker[a] \in WorkerStates
  BY DEF TypeOK
<1>2. ASSUME NEW pc \in {"ok", "retryable", "error"}
      PROVE  [worker[a] EXCEPT !.pc = pc] \in WorkerStates
  BY <1>1 DEF WorkerStates, Finished
<1>3. CASE WorkerRaises(a)
  BY <1>2, <1>3 DEF WorkerRaises, SetWorker, TypeOK, Progress
<1>4. CASE WorkerReads(a)
  <2>1. [pc |-> IF call.tool \in Effectful THEN "writing" ELSE "ok", found |-> draftExists]
            \in WorkerStates
    BY DEF WorkerStates, Active, Finished, TypeOK
  <2> QED BY <1>4, <2>1 DEF WorkerReads, TypeOK, Progress
<1>5. CASE WorkerCommits(a)
  <2>1. worker' \in [Attempts -> WorkerStates]
    BY <1>2, <1>5 DEF WorkerCommits, SetWorker, TypeOK
  <2>2. effects' \in [Calls -> Nat]
    <3>1. effects' = [effects EXCEPT ![calls] = effects[calls] + 1]
      BY <1>5 DEF WorkerCommits
    <3>2. \A c \in Calls : effects[c] + 1 \in Nat
      BY DEF TypeOK
    <3> QED BY <3>1, <3>2 DEF TypeOK
  <2>3. draftExists' \in BOOLEAN
    BY <1>5 DEF WorkerCommits, TypeOK
  <2> QED BY <1>5, <2>1, <2>2, <2>3 DEF WorkerCommits, TypeOK, Progress
<1> QED BY <1>3, <1>4, <1>5 DEF Work

\* Every step keeps calls, threads and audit rows within their types.
LEMMA TypeInductive == ASSUME TypeInv, [Next]_vars PROVE TypeInv'
<1>1. CASE UNCHANGED vars
  BY <1>1 DEF vars, TypeInv, TypeOK, Progress
<1> QED BY <1>1, CallerTyped, WorkerTyped DEF Next

\* Calls, threads and audit rows always hold values of the code's types, for every
\* number of retries the settings allow.
THEOREM ToolsTypeCorrect == Spec => []TypeOK
BY InitTyped, TypeInductive, PTL DEF Spec, TypeInv

-----------------------------------------------------------------------------

ThreadInv == SessionNotShared /\ UpsertNotStale

\* Every step keeps at most one thread at work, that of the call's last attempt.
LEMMA ThreadInductive ==
    ASSUME TypeInv, ThreadInv, [Next]_vars
    PROVE  ThreadInv'
<1> USE DEF TypeInv, ThreadInv, SessionNotShared, UpsertNotStale, Active
<1>1. CASE UNCHANGED vars
  BY <1>1 DEF vars
<1>2. CASE (\E tool \in Tools, transient \in BOOLEAN : CallTool(tool, transient)) \/ Crash
  <2>1. \A a \in Attempts : worker'[a] = IdleWorker
    BY <1>2 DEF CallTool, Crash
  <2> QED BY <2>1 DEF IdleWorker
<1>3. CASE RefuseArguments
  BY <1>3 DEF RefuseArguments
<1>4. CASE Submit
  <2>0. call.attempts + 1 \in Attempts
    BY <1>4, RetriesAssumption
       DEF RetriesAssumption, Submit, Progress, TypeOK, CallStates, Attempts
  <2>1. /\ \A a \in Attempts : a # call.attempts + 1 => worker'[a] = worker[a]
        /\ worker'[call.attempts + 1].pc = "running"
    BY <1>4, <2>0 DEF Submit, IdleWorker, TypeOK
  <2>2. \A a \in Attempts : worker[a].pc \notin Active
    BY <1>4 DEF Submit
  <2>3. call'.pc = "waiting" /\ call'.attempts = call.attempts + 1
    BY <1>4 DEF Submit, TypeOK, CallStates
  <2> QED BY <1>4, <2>1, <2>2, <2>3 DEF Submit
<1>5. CASE Timeout
  BY <1>5 DEF Timeout, Goto, TypeOK, CallStates
<1>6. CASE CollectResult \/ CollectError \/ Join \/ AuditSuccess \/ AuditFailure
  <2>1. \A a \in Attempts : worker[a].pc \notin Active
    BY <1>6 DEF CollectResult, CollectError, Join, Joined, Done, Finished, AuditSuccess,
                AuditFailure, AuditAndEnd
  <2>2. UNCHANGED worker
    BY <1>6 DEF CollectResult, CollectError, Join, AuditSuccess, AuditFailure, AuditAndEnd
  <2> QED BY <2>1, <2>2
<1>7. ASSUME NEW a \in Attempts, Work(a)
      PROVE  ThreadInv'
  <2>1. /\ UNCHANGED call /\ worker[a].pc \in Active
        /\ \A b \in Attempts : b # a => worker'[b] = worker[b] /\ worker[b].pc \notin Active
    BY <1>7 DEF Work, WorkerRaises, WorkerReads, WorkerCommits, SetWorker, TypeOK
  <2>2. worker'[a].pc = "writing" => worker'[a].found = draftExists'
    BY <1>7 DEF Work, WorkerRaises, WorkerReads, WorkerCommits, SetWorker, TypeOK,
                WorkerStates
  <2> QED BY <2>1, <2>2
<1> QED BY <1>1, <1>2, <1>3, <1>4, <1>5, <1>6, <1>7 DEF Next, Execute

\* Caller and tool never use the session at the same time, whatever times out.
THEOREM SessionNotSharedHolds == Spec => []SessionNotShared
<1>1. Init => ThreadInv
  BY DEF Init, ThreadInv, SessionNotShared, UpsertNotStale, IdleWorker, Active
<1> QED BY <1>1, InitTyped, TypeInductive, ThreadInductive, PTL DEF Spec, ThreadInv

\* What the upsert of the draft found is still so when it commits.
THEOREM UpsertNotStaleHolds == Spec => []UpsertNotStale
<1>1. Init => ThreadInv
  BY DEF Init, ThreadInv, SessionNotShared, UpsertNotStale, IdleWorker, Active
<1> QED BY <1>1, InitTyped, TypeInductive, ThreadInductive, PTL DEF Spec, ThreadInv

\* Every step keeps failed rows of transient errors at the full number of attempts.
LEMMA RetriesInductive ==
    ASSUME TypeInv, RetriesAreExhausted, [Next]_vars
    PROVE  RetriesAreExhausted'
<1>1. CASE UNCHANGED audit
  BY <1>1 DEF RetriesAreExhausted
<1>2. CASE AuditSuccess \/ AuditFailure
  BY <1>2 DEF AuditSuccess, AuditFailure, AuditAndEnd, AuditRow, RetriesAreExhausted,
              TypeInv, Progress
<1>3. UNCHANGED audit \/ AuditSuccess \/ AuditFailure
  BY DEF Next, vars, CallTool, RefuseArguments, Execute, Submit, CollectResult,
         CollectError, Join, Timeout, Work, WorkerRaises, WorkerReads, WorkerCommits, Crash
<1> QED BY <1>1, <1>2, <1>3

\* A transient failure is reported only after every allowed attempt.
THEOREM RetriesAreExhaustedHolds == Spec => []RetriesAreExhausted
<1>1. Init => RetriesAreExhausted
  BY DEF Init, RetriesAreExhausted
<1> QED BY <1>1, InitTyped, TypeInductive, RetriesInductive, PTL DEF Spec

-----------------------------------------------------------------------------

\* What a call in progress leaves for its audit row.
CallInProgress == call.pc # "idle" =>
    /\ outcome[calls] = "pending" /\ RowsOf(calls) = {}
    /\ call.tool \in Effectful
          /\ (call.pc = "audit_success" \/ \E a \in Attempts : worker[a].pc = "ok") =>
       effects[calls] >= 1

\* A row is of a call made, the only one of that call, and says how the call ended.
RowIsTrue(row) ==
    /\ row.call <= calls /\ outcome[row.call] \in {"returned", "raised"}
    /\ \A other \in audit : other.call = row.call => other = row
    /\ row.status = "succeeded" <=> outcome[row.call] = "returned"
    /\ row.status = "succeeded" /\ row.tool \in Effectful => effects[row.call] >= 1

RowsAreTrue == \A row \in audit : RowIsTrue(row)

AnsweredHasRow == \A c \in Calls :
    outcome[c] \in {"returned", "raised"} => RowsOf(c) # {}

\* The inductive invariant behind AuditTellsTheTruth.
AuditInv == CallInProgress /\ RowsAreTrue /\ AnsweredHasRow

\* A step that writes no row and keeps the outcomes of the calls with one, and what
\* was committed, keeps the rows true.
LEMMA RowsStayTrue ==
    ASSUME TypeInv, AuditInv, UNCHANGED audit, TypeInv', calls <= calls',
           \A c \in Calls : effects[c] <= effects'[c],
           \A c \in Calls : \/ outcome'[c] = outcome[c]
                            \/ RowsOf(c) = {} /\ outcome'[c] \notin {"returned", "raised"}
    PROVE  RowsAreTrue' /\ AnsweredHasRow'
<1>0. \A row \in audit : row.call \in Calls /\ RowsOf(row.call) # {}
  BY DEF TypeInv, TypeOK, AuditRows, RowsOf
<1>1. \A row \in audit : outcome'[row.call] = outcome[row.call]
  BY <1>0
<1>2. \A row \in audit : /\ effects[row.call] \in Nat /\ effects'[row.call] \in Nat
                         /\ effects[row.call] <= effects'[row.call] /\ row.call \in Nat
  BY <1>0 DEF TypeInv, TypeOK, Calls
<1>3. calls \in Nat /\ calls' \in Nat
  BY BoundsAssumption DEF TypeInv, TypeOK, BoundsAssumption
<1>4. RowsAreTrue'
  BY <1>1, <1>2, <1>3 DEF AuditInv, RowsAreTrue, RowIsTrue
<1>5. AnsweredHasRow'
  BY DEF AuditInv, AnsweredHasRow, RowsOf
<1> QED BY <1>4, <1>5

\* Calls are made, waited for and lost without a row.
LEMMA CallsKeepAudit ==
    ASSUME TypeInv, AuditInv, TypeInv',
           \/ \E tool \in Tools, transient \in BOOLEAN : CallTool(tool, transient)
           \/ RefuseArguments \/ Crash
    PROVE  AuditInv'
<1> USE BoundsAssumption DEF BoundsAssumption
<1>0. calls \in 0..MaxCalls /\ \A row \in audit : row.call \in Calls /\ row.call <= calls
  BY DEF TypeInv, TypeOK, AuditRows, AuditInv, RowsAreTrue, RowIsTrue
<1>1. CASE (\E tool \in Tools, transient \in BOOLEAN : CallTool(tool, transient))
           \/ RefuseArguments
  <2>1. RowsOf(calls + 1) = {} /\ calls + 1 \in Calls /\ calls' = calls + 1
    <3>1. calls < MaxCalls /\ calls' = calls + 1
      BY <1>1 DEF CallTool, RefuseArguments
    <3>2. calls + 1 \in Calls
      BY <1>0, <3>1 DEF Calls
    <3>3. \A row \in audit : row.call # calls + 1
      BY <1>0 DEF Calls
    <3> QED BY <3>1, <3>2, <3>3 DEF RowsOf
  <2>2. PICK end \in {"pending", "refused"} : outcome' = [outcome EXCEPT ![calls + 1] = end]
    BY <1>1 DEF CallTool, RefuseArguments
  <2>3. /\ outcome'[calls + 1] = end
        /\ \A c \in Calls : c # calls + 1 => outcome'[c] = outcome[c]
    BY <2>1, <2>2 DEF TypeInv, TypeOK
  <2>4. UNCHANGED <<audit, effects>>
    BY <1>1 DEF CallTool, RefuseArguments
  <2>5. \A c \in Calls : effects[c] <= effects'[c]
    BY <2>4 DEF TypeInv, TypeOK
  <2>6. RowsAreTrue' /\ AnsweredHasRow'
    BY <1>0, <2>1, <2>3, <2>4, <2>5, RowsStayTrue
  <2>7. CASE RefuseArguments
    <3>1. CallInProgress'
      BY <2>7 DEF RefuseArguments, CallInProgress
    <3> QED BY <2>6, <3>1 DEF AuditInv
  <2>8. CASE \E tool \in Tools, transient \in BOOLEAN : CallTool(tool, transient)
    <3>0. PICK tool \in Tools, transient \in BOOLEAN : CallTool(tool, transient)
      BY <2>8
    <3> DEFINE new == [IdleCall EXCEPT !.pc = "attempt", !.tool = tool,
                                       !.transient = transient]
    <3>5. call' = new
      BY <3>0 DEF CallTool
    <3>6. new.pc = "attempt"
      BY DEF IdleCall
    <3> HIDE DEF new
    <3>1. call'.pc = "attempt" /\ \A a \in Attempts : worker'[a].pc = "idle"
      BY <3>0, <3>5, <3>6 DEF CallTool, IdleWorker
    <3>2. outcome'[calls'] = "pending"
      BY <2>1, <2>8 DEF CallTool, TypeInv, TypeOK
    <3>3. RowsOf(calls)' = {}
      BY <2>1, <2>4 DEF RowsOf
    <3>4. CallInProgress'
      BY <3>1, <3>2, <3>3 DEF CallInProgress
    <3> QED BY <2>6, <3>4 DEF AuditInv
  <2> QED BY <1>1, <2>7, <2>8
<1>2. CASE Crash
  <2>1. UNCHANGED <<calls, audit, effects>> /\ call.pc # "idle" /\ call' = IdleCall
        /\ outcome' = [outcome EXCEPT ![calls] = "lost"]
    BY <1>2 DEF Crash
  <2>2. calls \in Calls /\ RowsOf(calls) = {}
    BY <2>1 DEF TypeInv, Progress, AuditInv, CallInProgress
  <2>3. /\ outcome'[calls] = "lost"
        /\ \A c \in Calls : c # calls => outcome'[c] = outcome[c]
    BY <2>1, <2>2 DEF TypeInv, TypeOK
  <2>4. \A c \in Calls : effects[c] <= effects'[c]
    BY <2>1 DEF TypeInv, TypeOK
  <2>5. RowsAreTrue' /\ AnsweredHasRow'
    BY <1>0, <2>1, <2>2, <2>3, <2>4, RowsStayTrue
  <2>6. CallInProgress'
    BY <2>1 DEF CallInProgress, IdleCall
  <2> QED BY <2>5, <2>6 DEF AuditInv
<1> QED BY <1>1, <1>2

\* While a call is tried, only its thread adds to what it committed.
LEMMA TryingKeepsAudit ==
    ASSUME TypeInv, AuditInv, TypeInv', ThreadInv,
           \/ Submit \/ CollectResult \/ CollectError \/ Join \/ Timeout
           \/ \E a \in Attempts : Work(a)
    PROVE  AuditInv'
<1>0. UNCHANGED <<audit, outcome, calls>>
  BY DEF Submit, CollectResult, CollectError, Join, Timeout, Work, WorkerRaises,
         WorkerReads, WorkerCommits
<1>1. calls \in 0..MaxCalls /\ calls <= calls'
  BY <1>0, BoundsAssumption DEF TypeInv, TypeOK, BoundsAssumption
<1>2. CASE Submit \/ CollectResult \/ CollectError \/ Join \/ Timeout
  <2>1. UNCHANGED effects /\ call.pc # "idle" /\ call'.tool = call.tool
    BY <1>2 DEF Submit, CollectResult, CollectError, Join, Timeout, Goto, TypeInv, TypeOK,
                CallStates
  <2>2. \A a \in Attempts : worker'[a].pc = "ok" => worker[a].pc = "ok"
    <3>1. CASE Submit
      <4>1. call.attempts + 1 \in Attempts
        BY <3>1, RetriesAssumption
           DEF RetriesAssumption, Submit, TypeInv, Progress, TypeOK, CallStates, Attempts
      <4> QED BY <3>1, <4>1 DEF Submit, IdleWorker, TypeInv, TypeOK
    <3> QED BY <1>2, <3>1 DEF CollectResult, CollectError, Join, Timeout
  <2>3. call'.pc = "audit_success" => \E a \in Attempts : worker[a].pc = "ok"
    <3>1. CASE CollectResult
      <4>1. call.attempts \in Attempts
        BY <3>1 DEF CollectResult, TypeInv, Progress
      <4> QED BY <3>1, <4>1 DEF CollectResult
    <3>2. CASE Submit \/ CollectError \/ Join \/ Timeout
      BY <3>2 DEF Submit, CollectError, Join, Timeout, Goto, AfterFailure, TypeInv, TypeOK,
                  CallStates
    <3> QED BY <1>2, <3>1, <3>2
  <2>4. CallInProgress'
    BY <1>0, <2>1, <2>2, <2>3 DEF AuditInv, CallInProgress, RowsOf
  <2>5. \A c \in Calls : effects[c] <= effects'[c]
    BY <2>1 DEF TypeInv, TypeOK
  <2> QED BY <1>0, <1>1, <2>4, <2>5, RowsStayTrue DEF AuditInv
<1>3. ASSUME NEW a \in Attempts, Work(a) PROVE AuditInv'
  <2>0. UNCHANGED call /\ worker[a].pc \in Active /\ call.pc \in {"waiting", "joining"}
    BY <1>3 DEF Work, WorkerRaises, WorkerReads, WorkerCommits, ThreadInv, SessionNotShared,
                Active
  <2>1. calls \in Calls
    BY <2>0 DEF TypeInv, Progress
  <2>2. \A b \in Attempts \ {a} : worker'[b] = worker[b]
    BY <1>3 DEF Work, WorkerRaises, WorkerReads, WorkerCommits, SetWorker, TypeInv, TypeOK
  <2>3. CASE WorkerCommits(a)
    <3>1. \A c \in Calls : effects[c] \in Nat
      BY DEF TypeInv, TypeOK
    <3>2. effects' = [effects EXCEPT ![calls] = effects[calls] + 1]
      BY <2>3 DEF WorkerCommits
    <3>3. effects'[calls] = effects[calls] + 1
          /\ \A c \in Calls : c # calls => effects'[c] = effects[c]
      BY <2>1, <3>2 DEF TypeInv, TypeOK
    <3>4. \A c \in Calls : effects[c] <= effects'[c]
      BY <3>1, <3>3
    <3>5. effects'[calls] >= 1
      BY <2>1, <3>1, <3>3
    <3>6. CallInProgress'
      BY <1>0, <2>0, <3>5 DEF AuditInv, CallInProgress, RowsOf
    <3> QED BY <1>0, <1>1, <3>4, <3>6, RowsStayTrue DEF AuditInv
  <2>4. CASE WorkerRaises(a) \/ WorkerReads(a)
    <3>1. UNCHANGED effects
      BY <2>4 DEF WorkerRaises, WorkerReads
    <3>2. worker'[a].pc = "ok" => call.tool \notin Effectful
      BY <2>4 DEF WorkerRaises, WorkerReads, SetWorker, TypeInv, TypeOK, WorkerStates
    <3>3. CallInProgress'
      BY <1>0, <2>0, <2>2, <3>1, <3>2 DEF AuditInv, CallInProgress, RowsOf
    <3>4. \A c \in Calls : effects[c] <= effects'[c]
      BY <3>1 DEF TypeInv, TypeOK
    <3> QED BY <1>0, <1>1, <3>3, <3>4, RowsStayTrue DEF AuditInv
  <2> QED BY <1>3, <2>3, <2>4 DEF Work
<1> QED BY <1>2, <1>3

\* The row of a call that ends is its first and says how it ends.
LEMMA EndKeepsAudit ==
    ASSUME TypeInv, AuditInv, TypeInv', AuditSuccess \/ AuditFailure
    PROVE  AuditInv'
<1>1. PICK status \in {"succeeded", "failed"} :
          LET end == IF status = "succeeded" THEN "returned" ELSE "raised" IN
          /\ AuditAndEnd(call.pc, status, end)
          /\ status = "succeeded" => call.pc = "audit_success"
          /\ call.pc # "idle"
  BY DEF AuditSuccess, AuditFailure, AuditAndEnd
<1>n. PICK new : new = AuditRow(status)
  OBVIOUS
<1> DEFINE end == IF status = "succeeded" THEN "returned" ELSE "raised"
<1>2. /\ audit' = audit \cup {new} /\ outcome' = [outcome EXCEPT ![calls] = end]
      /\ call' = IdleCall /\ UNCHANGED <<calls, effects>>
  BY <1>1, <1>n DEF AuditAndEnd
<1>3. new.call = calls /\ new.status = status /\ new.tool = call.tool
  BY <1>n DEF AuditRow
<1>4. end \in {"returned", "raised"} /\ (end = "returned" <=> status = "succeeded")
  OBVIOUS
<1> HIDE DEF end
<1>5. calls \in Calls /\ calls <= calls
  BY <1>1 DEF TypeInv, Progress, Calls
<1>6. /\ outcome'[calls] = end
      /\ \A c \in Calls : c # calls => outcome'[c] = outcome[c]
  BY <1>2, <1>5 DEF TypeInv, TypeOK
<1>7. RowsOf(calls) = {}
      /\ (call.pc = "audit_success" /\ call.tool \in Effectful => effects[calls] >= 1)
  BY <1>1 DEF AuditInv, CallInProgress
<1>8. \A row \in audit : row.call \in Calls /\ row.call # calls
  BY <1>7 DEF RowsOf, TypeInv, TypeOK, AuditRows
<1>9. RowsAreTrue'
  <2>1. RowIsTrue(new)'
    BY <1>1, <1>2, <1>3, <1>4, <1>5, <1>6, <1>7, <1>8 DEF RowIsTrue
  <2>2. \A row \in audit : RowIsTrue(row)'
    BY <1>2, <1>3, <1>6, <1>8 DEF AuditInv, RowsAreTrue, RowIsTrue
  <2> QED BY <1>2, <2>1, <2>2 DEF RowsAreTrue
<1>10. AnsweredHasRow'
  <2> SUFFICES ASSUME NEW c \in Calls, outcome'[c] \in {"returned", "raised"}
               PROVE  RowsOf(c)' # {}
    BY DEF AnsweredHasRow
  <2>1. CASE c = calls
    BY <1>2, <1>3, <2>1 DEF RowsOf
  <2>2. CASE c # calls
    BY <1>2, <1>6, <2>2 DEF AuditInv, AnsweredHasRow, RowsOf
  <2> QED BY <2>1, <2>2
<1>11. CallInProgress'
  BY <1>2 DEF CallInProgress, IdleCall
<1> QED BY <1>9, <1>10, <1>11 DEF AuditInv

\* Every step keeps the rows true.
LEMMA AuditInductive ==
    ASSUME TypeInv, ThreadInv, AuditInv, [Next]_vars
    PROVE  AuditInv'
<1>1. CASE UNCHANGED vars
  BY <1>1 DEF vars, AuditInv, CallInProgress, RowsAreTrue, RowIsTrue, AnsweredHasRow, RowsOf
<1> QED BY <1>1, TypeInductive, CallsKeepAudit, TryingKeepsAudit, EndKeepsAudit
        DEF Next, Execute

\* The invariant says what AuditTellsTheTruth says.
LEMMA AuditInvSuffices == ASSUME TypeInv, AuditInv PROVE AuditTellsTheTruth
<1> SUFFICES ASSUME NEW c \in Calls
             PROVE  IF outcome[c] \in {"returned", "raised"}
                    THEN /\ Cardinality(RowsOf(c)) = 1
                         /\ \A row \in RowsOf(c) :
                                /\ row.status = "succeeded" <=> outcome[c] = "returned"
                                /\ row.status = "succeeded" /\ row.tool \in Effectful =>
                                      effects[c] >= 1
                    ELSE RowsOf(c) = {}
  BY DEF AuditTellsTheTruth
<1>1. \A row \in RowsOf(c) : row.call = c /\ RowIsTrue(row)
  BY DEF RowsOf, AuditInv, RowsAreTrue
<1>2. CASE outcome[c] \in {"returned", "raised"}
  <2>1. PICK row \in RowsOf(c) : TRUE
    BY <1>2 DEF AuditInv, AnsweredHasRow
  <2>2. RowsOf(c) = {row}
    BY <1>1, <2>1 DEF RowIsTrue, RowsOf
  <2>3. Cardinality(RowsOf(c)) = 1
    BY <2>2, FS_Singleton
  <2> QED BY <1>1, <1>2, <2>3 DEF RowIsTrue
<1>3. CASE outcome[c] \notin {"returned", "raised"}
  BY <1>1, <1>3 DEF RowIsTrue
<1> QED BY <1>2, <1>3

\* A call for which _execute returned or raised has exactly one audit row, which says what
\* the graph was told and what the tool did, and no other call has one, over every
\* timeout, retry and crash.
THEOREM AuditTellsTheTruthHolds == Spec => []AuditTellsTheTruth
<1>1. Init => ThreadInv
  BY DEF Init, ThreadInv, SessionNotShared, UpsertNotStale, IdleWorker, Active
<1>2. Init => AuditInv
  BY DEF Init, AuditInv, CallInProgress, RowsAreTrue, AnsweredHasRow, RowsOf, IdleCall
<1> QED BY <1>1, <1>2, InitTyped, TypeInductive, ThreadInductive, AuditInductive,
           AuditInvSuffices, PTL DEF Spec
-----------------------------------------------------------------------------
(* A call ends: it is never stuck, and each step leaves fewer to come *)

\* The attempt waited for was handed to its thread.
Submitted == call.pc \in {"waiting", "joining"} => worker[call.attempts].pc # "idle"

\* What the thread of the last attempt may still do.
WorkLeft(w) == CASE w.pc = "running" -> 2
                 [] w.pc = "writing" -> 1
                 [] OTHER            -> 0

\* What is left before the next attempt, or the end, with w for the attempt's thread.
AttemptLeft(pc, w) == CASE pc = "waiting" -> 4 + w
                        [] pc = "joining" -> 3 + w
                        [] pc = "attempt" -> 2
                        [] OTHER          -> 1

\* A bound on the steps of the call in progress: six for every attempt not yet made.
StepsLeft == 6 * (MaxRetries + 1 - call.attempts)
                + AttemptLeft(call.pc, WorkLeft(worker[call.attempts]))

\* The guard of Execute: a statement to run, or the thread waited for has ended.
MayExecute ==
    \/ call.pc \in {"attempt", "audit_success", "audit_failure"}
    \/ call.pc \in {"waiting", "joining"} /\ Done(call.attempts)

\* The guard of Work: the attempt's tool is not through.
MayWork(a) == worker[a].pc \in Active

MayProceed == MayExecute \/ \E a \in Attempts : MayWork(a)

NoCallStuck == call.pc # "idle" => MayProceed /\ StepsLeft \in 1..(6 * MaxRetries + 8)

\* A call in progress ends with the step or has fewer steps left, whichever thread makes it.
CallDescends == call.pc # "idle" => call'.pc = "idle" \/ StepsLeft' < StepsLeft

\* Every step keeps the awaited attempt with its thread.
LEMMA SubmittedInductive ==
    ASSUME TypeInv, Submitted, [Next]_vars
    PROVE  Submitted'
<1>1. CASE UNCHANGED vars
  BY <1>1 DEF vars, Submitted
<1>2. CASE (\E tool \in Tools, transient \in BOOLEAN : CallTool(tool, transient)) \/ Crash
  <2>1. CASE Crash
    BY <2>1 DEF Crash, IdleCall, Submitted
  <2>2. CASE \E tool \in Tools, transient \in BOOLEAN : CallTool(tool, transient)
    <3>1. call'.pc = "attempt"
      BY <2>2 DEF CallTool, IdleCall
    <3> QED BY <3>1 DEF Submitted
  <2> QED BY <1>2, <2>1, <2>2
<1>3. CASE RefuseArguments
  BY <1>3 DEF RefuseArguments, Submitted
<1>4. CASE Submit
  <2>1. call.attempts + 1 \in Attempts
    BY <1>4, RetriesAssumption
       DEF RetriesAssumption, Submit, TypeInv, Progress, TypeOK, CallStates, Attempts
  <2>2. /\ call'.attempts = call.attempts + 1
        /\ worker'[call.attempts + 1].pc = "running"
    BY <1>4, <2>1 DEF Submit, IdleWorker, TypeInv, TypeOK, CallStates
  <2> QED BY <2>2 DEF Submitted
<1>5. CASE CollectResult \/ CollectError \/ Join \/ AuditSuccess \/ AuditFailure
  <2>1. call \in CallStates
    BY DEF TypeInv, TypeOK
  <2>2. call'.pc \in {"attempt", "audit_success", "audit_failure", "idle"}
    <3>1. CASE CollectResult
      BY <2>1, <3>1 DEF CollectResult, Goto, CallStates
    <3>2. CASE CollectError \/ Join
      BY <2>1, <3>2 DEF CollectError, Join, AfterFailure, CallStates
    <3>3. CASE AuditSuccess \/ AuditFailure
      BY <3>3 DEF AuditSuccess, AuditFailure, AuditAndEnd, IdleCall
    <3> QED BY <1>5, <3>1, <3>2, <3>3
  <2> QED BY <2>2 DEF Submitted
<1>6. CASE Timeout
  BY <1>6 DEF Timeout, Goto, Submitted, TypeInv, TypeOK, CallStates
<1>7. ASSUME NEW a \in Attempts, Work(a)
      PROVE  Submitted'
  <2>1. UNCHANGED call /\ \A b \in Attempts : worker'[b].pc # "idle" \/ worker'[b] = worker[b]
    BY <1>7 DEF Work, WorkerRaises, WorkerReads, WorkerCommits, SetWorker, TypeInv, TypeOK,
                WorkerStates
  <2>2. call.pc \in {"waiting", "joining"} => call.attempts \in Attempts
    BY DEF TypeInv, Progress
  <2> QED BY <2>1, <2>2 DEF Submitted
<1> QED BY <1>1, <1>2, <1>3, <1>4, <1>5, <1>6, <1>7 DEF Next, Execute

\* The thread's part is at most two steps, the attempt's at most six.
LEMMA LeftBounded ==
  /\ \A w : WorkLeft(w) \in 0..2
  /\ \A pc, w : AttemptLeft(pc, WorkLeft(w)) \in 1..6
  /\ \A w : AttemptLeft("attempt", WorkLeft(w)) = 2
<1>1. \A w : WorkLeft(w) \in 0..2
  BY DEF WorkLeft
<1>2. \A pc : \A k \in 0..2 : AttemptLeft(pc, k) \in 1..6
  BY DEF AttemptLeft
<1>3. \A k \in 0..2 : AttemptLeft("attempt", k) = 2
  BY DEF AttemptLeft
<1> QED BY <1>1, <1>2, <1>3

\* Fewer steps of the attempt, or a further attempt made, are fewer steps of the call.
LEMMA LeftDescends ==
    ASSUME NEW k \in 0..(MaxRetries + 1), NEW l \in 0..(MaxRetries + 1),
           NEW i \in 1..6, NEW j \in 1..6, (k = l /\ j < i) \/ (k + 1 = l /\ i = 2)
    PROVE  6 * (MaxRetries + 1 - l) + j < 6 * (MaxRetries + 1 - k) + i
BY RetriesAssumption DEF RetriesAssumption

\* A step of the graph's thread ends the call or leaves it fewer steps.
LEMMA CallerDescends ==
    ASSUME TypeInv, TypeInv', call.pc # "idle", Execute \/ Timeout
    PROVE  call'.pc = "idle" \/ StepsLeft' < StepsLeft
<1>a. /\ call \in CallStates /\ call.attempts \in 0..(MaxRetries + 1)
      /\ call'.attempts \in 0..(MaxRetries + 1)
  BY DEF TypeInv, TypeOK, CallStates
<1>b. PICK i \in 1..6 : i = AttemptLeft(call.pc, WorkLeft(worker[call.attempts]))
  BY LeftBounded
<1>c. PICK j \in 1..6 : j = AttemptLeft(call'.pc, WorkLeft(worker'[call'.attempts]))
  BY LeftBounded
<1>d. PICK k \in 0..(MaxRetries + 1) : k = call.attempts
  BY <1>a
<1>e. PICK l \in 0..(MaxRetries + 1) : l = call'.attempts
  BY <1>a
<1>f. /\ StepsLeft  = 6 * (MaxRetries + 1 - k) + i
      /\ StepsLeft' = 6 * (MaxRetries + 1 - l) + j
  BY <1>b, <1>c, <1>d, <1>e DEF StepsLeft
<1>g. (k = l /\ j < i) \/ (k + 1 = l /\ i = 2) => StepsLeft' < StepsLeft
  BY <1>f, LeftDescends
<1>1. CASE Submit
  <2>1. call'.pc = "waiting" /\ call'.attempts = call.attempts + 1 /\ call.pc = "attempt"
    BY <1>1, <1>a DEF Submit, CallStates
  <2>2. i = 2
    BY <1>b, <2>1, LeftBounded
  <2> QED BY <1>d, <1>e, <1>g, <2>1, <2>2
<1>2. CASE CollectResult \/ CollectError \/ Join
  <2>1. /\ call.pc \in {"waiting", "joining"} /\ call'.attempts = call.attempts
        /\ call'.pc \in {"attempt", "audit_success", "audit_failure"}
    BY <1>2, <1>a DEF CollectResult, CollectError, Join, Goto, AfterFailure, CallStates
  <2>2. j \in 1..2
    BY <1>c, <2>1 DEF AttemptLeft
  <2>3. i \in 3..6
    <3>1. \A n \in 0..2 : AttemptLeft(call.pc, n) \in 3..6
      BY <2>1 DEF AttemptLeft
    <3> QED BY <1>b, <3>1, LeftBounded
  <2>4. j < i
    BY <2>2, <2>3
  <2> QED BY <1>d, <1>e, <1>g, <2>1, <2>4
<1>3. CASE Timeout
  <2>1. /\ call.pc = "waiting" /\ call'.attempts = call.attempts /\ call'.pc = "joining"
        /\ UNCHANGED worker
    BY <1>3, <1>a DEF Timeout, Goto, CallStates
  <2>2. \A n \in 0..2 : AttemptLeft("joining", n) < AttemptLeft("waiting", n)
    BY DEF AttemptLeft
  <2>3. j < i
    BY <1>b, <1>c, <2>1, <2>2, LeftBounded
  <2> QED BY <1>d, <1>e, <1>g, <2>1, <2>3
<1>4. CASE AuditSuccess \/ AuditFailure
  BY <1>4 DEF AuditSuccess, AuditFailure, AuditAndEnd, IdleCall
<1> QED BY <1>1, <1>2, <1>3, <1>4 DEF Execute

\* A step of a tool's thread leaves the call fewer steps.
LEMMA WorkerDescends ==
    ASSUME TypeInv, ThreadInv, call.pc # "idle", NEW a \in Attempts, Work(a)
    PROVE  StepsLeft' < StepsLeft
<1>1. worker[a].pc \in Active /\ UNCHANGED call
  BY DEF Work, WorkerRaises, WorkerReads, WorkerCommits, Active
<1>2. call.pc \in {"waiting", "joining"} /\ a = call.attempts
  BY <1>1 DEF ThreadInv, SessionNotShared
<1>3. WorkLeft(worker'[a]) < WorkLeft(worker[a])
  BY DEF Work, WorkerRaises, WorkerReads, WorkerCommits, SetWorker, WorkLeft, TypeInv, TypeOK,
         WorkerStates
<1>4. \A k, l \in 0..2 : l < k => AttemptLeft(call.pc, l) < AttemptLeft(call.pc, k)
  BY <1>2 DEF AttemptLeft
<1>5. call.attempts \in 0..(MaxRetries + 1)
  BY DEF TypeInv, TypeOK, CallStates
<1>6. PICK i \in 1..6 : i = AttemptLeft(call.pc, WorkLeft(worker[a]))
  BY LeftBounded
<1>7. PICK j \in 1..6 : j = AttemptLeft(call.pc, WorkLeft(worker'[a]))
  BY LeftBounded
<1>8. j < i
  BY <1>3, <1>4, <1>6, <1>7, LeftBounded
<1>9. PICK k \in 0..(MaxRetries + 1) : k = call.attempts
  BY <1>5
<1>10. /\ StepsLeft  = 6 * (MaxRetries + 1 - k) + i
       /\ StepsLeft' = 6 * (MaxRetries + 1 - k) + j
  BY <1>1, <1>2, <1>6, <1>7, <1>9 DEF StepsLeft
<1> QED BY <1>8, <1>10, LeftDescends

\* Whatever times out and however often the tool fails: a call in progress is never stuck,
\* and ends after at most eight steps and six more for each retry, the tool's own included.
\* Given that both threads are scheduled, _execute returns or raises.
THEOREM CallsEndInTime == Spec => []NoCallStuck /\ [][CallDescends]_vars
<1>1. TypeInv /\ ThreadInv /\ Submitted => NoCallStuck
  <2> SUFFICES ASSUME TypeInv, Submitted, call.pc # "idle"
               PROVE  MayProceed /\ StepsLeft \in 1..(6 * MaxRetries + 8)
    BY DEF NoCallStuck
  <2>1. call \in CallStates /\ call.attempts \in 0..(MaxRetries + 1)
    BY DEF TypeInv, TypeOK, CallStates
  <2>2. call.pc \in {"waiting", "joining"} =>
            call.attempts \in Attempts /\ worker[call.attempts].pc \in Active \cup Finished
    BY DEF TypeInv, TypeOK, Progress, Submitted, WorkerStates
  <2>3. MayProceed
    BY <2>1, <2>2 DEF MayProceed, MayExecute, MayWork, CallStates, Done
  <2>4. call.pc \notin {"idle", "attempt"} => call.attempts >= 1
    BY <2>1 DEF TypeInv, Progress, Attempts
  <2>5. PICK i \in 1..6 : i = AttemptLeft(call.pc, WorkLeft(worker[call.attempts]))
    BY LeftBounded
  <2>6. call.pc = "attempt" => i = 2
    BY <2>5, LeftBounded
  <2>7. PICK k \in 0..(MaxRetries + 1) : k = call.attempts
    BY <2>1
  <2>8. 6 * (MaxRetries + 1 - k) + i \in 1..(6 * MaxRetries + 8)
    BY <2>4, <2>6, <2>7, RetriesAssumption DEF RetriesAssumption
  <2>9. StepsLeft \in 1..(6 * MaxRetries + 8)
    BY <2>5, <2>7, <2>8 DEF StepsLeft
  <2> QED BY <2>3, <2>9
<1>2. ASSUME TypeInv, ThreadInv, [Next]_vars PROVE [CallDescends]_vars
  <2> SUFFICES ASSUME call.pc # "idle", Next
               PROVE  call'.pc = "idle" \/ StepsLeft' < StepsLeft
    BY <1>2 DEF CallDescends
  <2>1. Crash => call'.pc = "idle"
    BY DEF Crash, IdleCall
  <2>2. Execute \/ Timeout \/ Crash \/ \E a \in Attempts : Work(a)
    BY DEF Next, CallTool, RefuseArguments
  <2>3. TypeInv'
    BY <1>2, TypeInductive
  <2> QED BY <1>2, <2>1, <2>2, <2>3, CallerDescends, WorkerDescends
<1>3. Init => ThreadInv /\ Submitted
  BY DEF Init, ThreadInv, SessionNotShared, UpsertNotStale, IdleWorker, IdleCall, Active, Submitted
<1>4. TypeInv /\ Submitted /\ [Next]_vars => Submitted'
  BY SubmittedInductive
<1>5. TypeInv /\ ThreadInv /\ [Next]_vars => ThreadInv'
  BY ThreadInductive
<1>6. TypeInv /\ [Next]_vars => TypeInv'
  BY TypeInductive
<1> HIDE DEF NoCallStuck, CallDescends
<1> QED BY <1>1, <1>2, <1>3, <1>4, <1>5, <1>6, InitTyped, PTL DEF Spec

-----------------------------------------------------------------------------
(* Liveness: given that both threads are scheduled, every call is answered       *)

\* FairSpec's assumptions, with the guards in place of ENABLED Execute and ENABLED Work(a).
ExecuteScheduled == []<>~MayExecute \/ []<><<Execute>>_vars
WorkScheduled(a) == []<>~MayWork(a) \/ []<><<Work(a)>>_vars

EachScheduled   == ExecuteScheduled /\ \A a \in Attempts : WorkScheduled(a)
AlwaysScheduled == []EachScheduled

\* What a call in progress can rely on.
Descending  == [](TypeInv /\ NoCallStuck) /\ [][Next]_vars /\ [][CallDescends]_vars
Progressing == Descending /\ AlwaysScheduled

InProgress == call.pc # "idle"

\* A call in progress with n steps to go at most.
Within(n) == InProgress /\ StepsLeft <= n

\* It gets to m steps, or to its end; from n steps.
Soon(m)     == <>(Within(m) \/ ~InProgress)
Nears(n, m) == Progressing => (Within(n) => Soon(m))

\* A step, of either thread, brings the call closer to its end.
LEMMA StepIsCloser ==
  ASSUME NEW m \in Nat, NEW n \in Nat, n = m + 1, TypeInv, TypeInv', NoCallStuck, NoCallStuck',
         Within(n), [CallDescends]_vars
  PROVE  \/ UNCHANGED vars
         \/ Within(m)' \/ ~InProgress'
<1> SUFFICES ASSUME ~UNCHANGED vars, InProgress' PROVE Within(m)'
  OBVIOUS
<1>1. StepsLeft' < StepsLeft
  BY DEF Within, InProgress, CallDescends
<1>2. PICK i \in 1..(6 * MaxRetries + 8) : i = StepsLeft
  BY DEF Within, InProgress, NoCallStuck
<1>3. PICK j \in 1..(6 * MaxRetries + 8) : j = StepsLeft'
  BY DEF InProgress, NoCallStuck
<1>4. i \in Nat /\ j \in Nat
  BY RetriesAssumption DEF RetriesAssumption
<1> QED
  BY <1>1, <1>2, <1>3, <1>4 DEF Within

\* The graph's thread brings it closer while it is its turn.
LEMMA ExecuteNears ==
  ASSUME NEW m \in Nat, NEW n \in Nat, n = m + 1
  PROVE  Descending /\ ExecuteScheduled => (Within(n) /\ MayExecute => Soon(m))
<1>1. TypeInv /\ TypeInv' /\ NoCallStuck /\ NoCallStuck' /\ Within(n) /\ MayExecute
        /\ [CallDescends]_vars
          => (Within(n) /\ MayExecute)' \/ Within(m)' \/ ~InProgress'
  <2>1. UNCHANGED vars /\ Within(n) /\ MayExecute => (Within(n) /\ MayExecute)'
    BY DEF vars, Within, InProgress, StepsLeft, AttemptLeft, WorkLeft, MayExecute, Done
  <2> QED
    BY <2>1, StepIsCloser
<1>2. TypeInv /\ TypeInv' /\ NoCallStuck /\ NoCallStuck' /\ Within(n) /\ [CallDescends]_vars
        /\ <<Execute>>_vars
          => Within(m)' \/ ~InProgress'
  BY StepIsCloser
<1> HIDE DEF CallDescends, NoCallStuck
<1> QED
  BY <1>1, <1>2, PTL DEF Descending, ExecuteScheduled, Soon

\* So does a tool's thread.
LEMMA WorkNears ==
  ASSUME NEW m \in Nat, NEW n \in Nat, n = m + 1, NEW a \in Attempts
  PROVE  Descending /\ WorkScheduled(a) => (Within(n) /\ MayWork(a) => Soon(m))
<1>1. TypeInv /\ TypeInv' /\ NoCallStuck /\ NoCallStuck' /\ Within(n) /\ MayWork(a)
        /\ [CallDescends]_vars
          => (Within(n) /\ MayWork(a))' \/ Within(m)' \/ ~InProgress'
  <2>1. UNCHANGED vars /\ Within(n) /\ MayWork(a) => (Within(n) /\ MayWork(a))'
    BY DEF vars, Within, InProgress, StepsLeft, AttemptLeft, WorkLeft, MayWork
  <2> QED
    BY <2>1, StepIsCloser
<1>2. TypeInv /\ TypeInv' /\ NoCallStuck /\ NoCallStuck' /\ Within(n) /\ [CallDescends]_vars
        /\ <<Work(a)>>_vars
          => Within(m)' \/ ~InProgress'
  BY StepIsCloser
<1> HIDE DEF CallDescends, NoCallStuck
<1> QED
  BY <1>1, <1>2, PTL DEF Descending, WorkScheduled, Soon

\* One step more brings a call closer to its end, whichever thread's turn it is.
LEMMA OneStepFewer ==
  ASSUME NEW m \in Nat, NEW n \in Nat, n = m + 1
  PROVE  Nears(n, m)
<1>1. Descending /\ EachScheduled => (NoCallStuck /\ Within(n) => Soon(m))
  <2>1. NoCallStuck /\ Within(n) => MayExecute \/ \E a \in Attempts : MayWork(a)
    BY DEF NoCallStuck, MayProceed, Within, InProgress
  <2>2. Descending /\ ExecuteScheduled => (Within(n) /\ MayExecute => Soon(m))
    BY ExecuteNears
  <2>3. \A a \in Attempts :
          Descending /\ WorkScheduled(a) => (Within(n) /\ MayWork(a) => Soon(m))
    BY WorkNears
  <2> QED
    BY <2>1, <2>2, <2>3 DEF EachScheduled
<1>2. Descending => NoCallStuck
  BY PTL DEF Descending
<1> QED
  BY <1>1, <1>2, PTL DEF Nears, Progressing, AlwaysScheduled

\* Twice as many steps, as often as it takes to cover them all.
LEMMA TwoStepsFewer ==
  ASSUME NEW m \in Nat, NEW n \in Nat, n = m + 2
  PROVE  Nears(n, m)
<1>1. PICK k \in Nat : n = k + 1 /\ k = m + 1
  OBVIOUS
<1>2. Nears(n, k)
  BY <1>1, OneStepFewer
<1>3. Nears(k, m)
  BY <1>1, OneStepFewer
<1>4. Progressing => []Progressing
  BY PTL DEF Progressing, Descending, AlwaysScheduled
<1> QED
  BY <1>2, <1>3, <1>4, PTL DEF Nears, Soon

\* Four steps.
LEMMA FourStepsFewer ==
  ASSUME NEW m \in Nat, NEW n \in Nat, n = m + 4
  PROVE  Nears(n, m)
<1>1. PICK k \in Nat : n = k + 2 /\ k = m + 2
  OBVIOUS
<1>2. Nears(n, k)
  BY <1>1, TwoStepsFewer
<1>3. Nears(k, m)
  BY <1>1, TwoStepsFewer
<1>4. Progressing => []Progressing
  BY PTL DEF Progressing, Descending, AlwaysScheduled
<1> QED
  BY <1>2, <1>3, <1>4, PTL DEF Nears, Soon

\* Eight steps.
LEMMA EightStepsFewer ==
  ASSUME NEW m \in Nat, NEW n \in Nat, n = m + 8
  PROVE  Nears(n, m)
<1>1. PICK k \in Nat : n = k + 4 /\ k = m + 4
  OBVIOUS
<1>2. Nears(n, k)
  BY <1>1, FourStepsFewer
<1>3. Nears(k, m)
  BY <1>1, FourStepsFewer
<1>4. Progressing => []Progressing
  BY PTL DEF Progressing, Descending, AlwaysScheduled
<1> QED
  BY <1>2, <1>3, <1>4, PTL DEF Nears, Soon

\* Sixteen steps.
LEMMA SixteenStepsFewer ==
  ASSUME NEW m \in Nat, NEW n \in Nat, n = m + 16
  PROVE  Nears(n, m)
<1>1. PICK k \in Nat : n = k + 8 /\ k = m + 8
  OBVIOUS
<1>2. Nears(n, k)
  BY <1>1, EightStepsFewer
<1>3. Nears(k, m)
  BY <1>1, EightStepsFewer
<1>4. Progressing => []Progressing
  BY PTL DEF Progressing, Descending, AlwaysScheduled
<1> QED
  BY <1>2, <1>3, <1>4, PTL DEF Nears, Soon

\* Thirty-two steps.
LEMMA ThirtyTwoStepsFewer ==
  ASSUME NEW m \in Nat, NEW n \in Nat, n = m + 32
  PROVE  Nears(n, m)
<1>1. PICK k \in Nat : n = k + 16 /\ k = m + 16
  OBVIOUS
<1>2. Nears(n, k)
  BY <1>1, SixteenStepsFewer
<1>3. Nears(k, m)
  BY <1>1, SixteenStepsFewer
<1>4. Progressing => []Progressing
  BY PTL DEF Progressing, Descending, AlwaysScheduled
<1> QED
  BY <1>2, <1>3, <1>4, PTL DEF Nears, Soon

\* Only the call in progress is yet to be answered.
OnlyItsCallPends == \A c \in Calls : outcome[c] = "pending" => InProgress /\ c = calls

\* Every step keeps that.
LEMMA PendingInductive ==
  ASSUME TypeInv, OnlyItsCallPends, [Next]_vars
  PROVE  OnlyItsCallPends'
<1>a. outcome \in [Calls -> {"none", "pending", "returned", "raised",
                               "refused", "lost"}]
  BY DEF TypeInv, TypeOK
<1>1. CASE UNCHANGED vars
  BY <1>1 DEF vars, OnlyItsCallPends, InProgress
<1>2. CASE \E tool \in Tools, transient \in BOOLEAN : CallTool(tool, transient)
  <2>1. /\ call.pc = "idle" /\ calls' = calls + 1 /\ call'.pc = "attempt"
        /\ outcome' = [outcome EXCEPT ![calls + 1] = "pending"]
    BY <1>2 DEF CallTool, IdleCall
  <2> QED
    BY <1>a, <2>1 DEF OnlyItsCallPends, InProgress
<1>3. CASE RefuseArguments
  BY <1>3, <1>a DEF RefuseArguments, OnlyItsCallPends, InProgress
<1>4. CASE Submit \/ CollectResult \/ CollectError \/ Join \/ Timeout
  <2>1. UNCHANGED <<calls, outcome>>
    BY <1>4 DEF Submit, CollectResult, CollectError, Join, Timeout
  <2>2. call'.pc # "idle"
    BY <1>4 DEF Submit, CollectResult, CollectError, Join, Timeout, Goto, AfterFailure, TypeInv,
                TypeOK, CallStates
  <2> QED
    BY <2>1, <2>2 DEF OnlyItsCallPends, InProgress
<1>5. CASE AuditSuccess \/ AuditFailure \/ Crash
  <2>1. PICK end \in {"returned", "raised", "lost"} :
            UNCHANGED calls /\ outcome' = [outcome EXCEPT ![calls] = end]
    BY <1>5 DEF AuditSuccess, AuditFailure, AuditAndEnd, Crash
  <2> QED
    BY <1>a, <2>1 DEF OnlyItsCallPends, InProgress
<1>6. CASE \E a \in Attempts : Work(a)
  BY <1>6 DEF Work, WorkerRaises, WorkerReads, WorkerCommits, OnlyItsCallPends, InProgress
<1> QED
  BY <1>1, <1>2, <1>3, <1>4, <1>5, <1>6 DEF Next, Execute

\* A call in progress comes to its end: the longest takes 38 steps.
LEMMA CallsReturn == Progressing => (InProgress => <>~InProgress)
<1>1. Nears(38, 6)
  BY ThirtyTwoStepsFewer
<1>2. Nears(6, 2)
  BY FourStepsFewer
<1>3. Nears(2, 0)
  BY TwoStepsFewer
<1>4. NoCallStuck /\ InProgress => Within(38) /\ ~Within(0)
  <2> SUFFICES ASSUME NoCallStuck, InProgress PROVE Within(38) /\ ~Within(0)
    OBVIOUS
  <2>1. PICK i \in 1..(6 * MaxRetries + 8) : i = StepsLeft
    BY DEF NoCallStuck, InProgress
  <2>2. i \in 1..38
    BY RetriesAssumption DEF RetriesAssumption
  <2> QED
    BY <2>1, <2>2 DEF Within
<1>5. Within(0) => InProgress
  BY DEF Within
<1>6. Progressing => []NoCallStuck /\ []Progressing
  BY PTL DEF Progressing, Descending, AlwaysScheduled
<1> HIDE DEF NoCallStuck
<1> QED
  BY <1>1, <1>2, <1>3, <1>4, <1>5, <1>6, PTL DEF Nears, Soon

\* Every call that reached the tool's thread is answered or lost with its process, whatever
\* times out and however often the tool fails, for every setting of the retries.
THEOREM EveryCallEndsHolds == Spec /\ AlwaysScheduled => EveryCallEnds
<1> SUFFICES ASSUME NEW c \in Calls
             PROVE  Spec /\ AlwaysScheduled => (outcome[c] = "pending" ~> outcome[c] # "pending")
  BY DEF EveryCallEnds
<1>1. Init => OnlyItsCallPends
  BY DEF Init, OnlyItsCallPends
<1>2. TypeInv /\ OnlyItsCallPends /\ [Next]_vars => OnlyItsCallPends'
  BY PendingInductive
<1>3. TypeInv /\ [Next]_vars => TypeInv'
  BY TypeInductive
<1>4. Spec => []TypeInv /\ []OnlyItsCallPends
  BY <1>1, <1>2, <1>3, InitTyped, PTL DEF Spec
<1>5. OnlyItsCallPends => (outcome[c] = "pending" => InProgress)
                            /\ (~InProgress => outcome[c] # "pending")
  BY DEF OnlyItsCallPends
<1>6. Spec => []Descending
  <2> HIDE DEF CallDescends, NoCallStuck
  <2> QED
    BY <1>4, CallsEndInTime, PTL DEF Descending, Spec
<1>7. Spec /\ AlwaysScheduled => []Progressing
  BY <1>6, PTL DEF Progressing, AlwaysScheduled
<1> QED
  BY <1>4, <1>5, <1>7, CallsReturn, PTL
=============================================================================
