---------------------------- MODULE HumanApproval ----------------------------
(***************************************************************************)
(* What the agent promises about a run, with no database, graph or thread: *)
(* a run is analysed, pauses for a person, and is concluded once, the way  *)
(* somebody asked.  WorkflowService implements Spec for one reviewer, and  *)
(* ContestedSpec for any number of them.                                   *)
(***************************************************************************)
CONSTANTS
    Runs,       \* agent runs
    Payloads    \* the decisions a reviewer may submit, [action, edits]

VARIABLES
    phase,      \* phase[r]: "none" before the run, then its status
    verdicts    \* verdicts[r]: every decision submitted for the run

vars == <<phase, verdicts>>

Favourable(v)   == v.action \in {"approve", "edit"}
Unfavourable(v) == v.action = "reject"

Init == /\ phase = [r \in Runs |-> "none"]
        /\ verdicts = [r \in Runs |-> {}]

Move(r, from, to) == /\ phase[r] = from
                     /\ phase' = [phase EXCEPT ![r] = to]
                     /\ UNCHANGED verdicts

\* The analysis: it never concludes a run, it only pauses it or fails.
Open(r)  == Move(r, "none", "running")
Pause(r) == Move(r, "running", "waiting_approval")
Break(r) == Move(r, "running", "failed")

\* A person decides, only about a run that waits.
Submit(r, v) == /\ phase[r] = "waiting_approval"
                /\ verdicts' = [verdicts EXCEPT ![r] = @ \cup {v}]
                /\ UNCHANGED phase

\* The run is concluded as somebody asked; carrying an edit out may fail.
Approve(r) == /\ \E v \in verdicts[r] : Favourable(v)
              /\ Move(r, "waiting_approval", "approved")
Reject(r)  == /\ \E v \in verdicts[r] : Unfavourable(v)
              /\ Move(r, "waiting_approval", "rejected")
Spoil(r)   == /\ \E v \in verdicts[r] : v.edits
              /\ Move(r, "waiting_approval", "failed")

Next == \E r \in Runs :
          \/ Open(r) \/ Pause(r) \/ Break(r)
          \/ Approve(r) \/ Reject(r) \/ Spoil(r)
          \/ \E v \in Payloads : Submit(r, v)

Spec == Init /\ [][Next]_vars

-----------------------------------------------------------------------------
(* Several people at once, or again after a crash: less is promised *)

\* What a run may come out as when its decisions overtake one another: as somebody asked,
\* or rejected as soon as anybody was heard.
Outcomes(r) ==
    {s \in {"approved", "rejected", "failed"} :
        /\ verdicts[r] # {}
        /\ s = "approved" => \E v \in verdicts[r] : Favourable(v)
        /\ s = "failed"   => \E v \in verdicts[r] : v.edits}

\* A decision accepted earlier is carried out now, over the outcome of another one.
Overrule(r) == /\ phase[r] \in {"waiting_approval", "approved", "rejected", "failed"}
               /\ \E s \in Outcomes(r) : phase' = [phase EXCEPT ![r] = s]
               /\ UNCHANGED verdicts

ContestedNext == Next \/ \E r \in Runs : Overrule(r)

ContestedSpec == Init /\ [][ContestedNext]_vars
=============================================================================
