-------------------------- MODULE MCWorkflowService --------------------------
(* WorkflowService on small instances: all runs analyse versions of one document. *)
EXTENDS WorkflowService, TLC

CONSTANTS d1, l1, w1, w2

OneRun      == {1}
TwoRuns     == {1, 2}
ThreeRuns   == {1, 2, 3}
OneDocument == {d1}
OneLoop     == {l1}
OneWorker   == {w1}
TwoWorkers  == {w1, w2}
AnyDecision == Payloads
OnlyApprove == {[action |-> "approve", edits |-> FALSE]}
SameDocument == [r \in Runs |-> d1]

\* Worker threads are interchangeable in the runs without liveness properties.
WorkerSymmetry == Permutations({w1, w2})
=============================================================================
