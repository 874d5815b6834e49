------------------------------ MODULE ReviewPage ------------------------------
(***************************************************************************)
(* The review page, streamlit_app.py, as a client of the API.  Streamlit   *)
(* runs the whole script once per click.  The script keeps two things      *)
(* between runs, in st.session_state: the list of runs and the selected    *)
(* run, a copy of what the API answered.  The screen shows what the last   *)
(* script run drew.  A click while a script waits for the API starts a new *)
(* script at once and the waiting one is stopped: its answer is dropped,   *)
(* its call is not (streamlit's fastReruns, on by default).                *)
(***************************************************************************)
EXTENDS TenantApi

CONSTANTS
    Sessions,       \* browser sessions
    Typed,          \* Typed[o]: what may stand below tenant o: <<email, token>>
    Requests,       \* what the other clients send, among everything they may
    MaxClicks       \* bound: MaxClicks[f] clicks or requests of client f

ASSUME SessionsAssumption == /\ Sessions \subseteq Clients
                             /\ Typed \in [Organizations -> SUBSET (Emails \X Tokens)]
                             /\ Requests \subseteq AnyRequest
                             /\ MaxClicks \in [Clients -> Nat]

VARIABLES
    page,       \* per session: tenant chosen, session_state, screen, script
    clicks,     \* per client: clicks and requests so far
    gaveUp      \* history: runs a session sent a decision for and stopped waiting

pageVars == <<page, clicks, gaveUp>>
vars     == <<apiVars, pageVars>>

NoRow   == [run |-> NoRun, status |-> None]
NoCall  == 0
NewPage(o) == [org |-> o, selected |-> NoRow, shown |-> NoRow, drawn |-> TRUE,
               call |-> NoCall]

Busy(s) == page[s].call # NoCall

Init == /\ ApiInit
        /\ page \in [Sessions -> {NewPage(o) : o \in Organizations}]
        /\ clicks = [f \in Clients |-> 0]
        /\ gaveUp = [s \in Sessions |-> {}]

-----------------------------------------------------------------------------
(* Clicks.  Each stops the script that may be waiting for an answer. *)

Abandoned(s) == IF Busy(s) /\ Req(page[s].call).op = "resume"
                THEN {Req(page[s].call).run} ELSE {}

Counted(f) == /\ clicks[f] < MaxClicks[f]
              /\ clicks' = [clicks EXCEPT ![f] = clicks[f] + 1]

Abandon(s) == gaveUp' = [gaveUp EXCEPT ![s] = gaveUp[s] \cup Abandoned(s)]

Turn(s, p) == page' = [page EXCEPT ![s] = p]

\* Connections are taken in order.
NextFree(c) == At(c, "free") /\ \A d \in Calls : d < c => ~At(d, "free")

\* build_headers and httpx: the script sends a request and waits.
Post(s, p, op, r, key, action, edits) ==
    \E c \in Calls, t \in Typed[p.org] :
        /\ NextFree(c)
        /\ Send(c, [from |-> s, op |-> op, token |-> t[2], org |-> p.org,
                    email |-> t[1], run |-> r, key |-> key, action |-> action,
                    edits |-> edits])
        /\ Turn(s, [p EXCEPT !.call = c])
        /\ Abandon(s)

StartWorkflow(s) == \E k \in Keys : Post(s, page[s], "upload", NoRun, k, None, NoEdits)

RefreshRuns(s) == Post(s, page[s], "list", NoRun, None, None, NoEdits)

\* The list may be of any age and of another tenant: any run may be on it.
OpenRun(s) == \E r \in Runs : Post(s, page[s], "get", r, None, None, NoEdits)

\* Choosing another tenant in the sidebar only changes the headers of later calls.
SwitchTenant(s) ==
    /\ \E o \in Organizations \ {page[s].org} :
          Turn(s, [page[s] EXCEPT !.org = o, !.shown = page[s].selected,
                                  !.drawn = TRUE, !.call = NoCall])
    /\ Abandon(s)
    /\ UNCHANGED apiVars

\* A new browser session.
Reload(s) ==
    /\ \E o \in Organizations : Turn(s, NewPage(o))
    /\ Abandon(s)
    /\ UNCHANGED apiVars

PageEdits(action) == IF action = "edit" THEN {"due_date", "description", "category"}
                     ELSE NoEdits

Undecided(row) == row.status = "waiting_approval"

\* The buttons the screen shows carry no run: the new script draws the selected run,
\* and acts on that one.
Decide(s, action) ==
    LET p == [page[s] EXCEPT !.shown = page[s].selected, !.drawn = TRUE] IN
    /\ page[s].shown.status = "waiting_approval"
    /\ IF Undecided(p.selected)
       THEN Post(s, p, "resume", p.selected.run, None, action, PageEdits(action))
       ELSE /\ Turn(s, [p EXCEPT !.call = NoCall])
            /\ Abandon(s)
            /\ UNCHANGED apiVars

-----------------------------------------------------------------------------
(* Answers *)

\* Mutant: an answer reaches the page although its script was stopped.
AwaitsAny(s, c) == call[c].pc \in {"answered", "lost"} /\ Req(c).from = s

Awaits(s, c) == page[s].call = c

Succeeded(c) == At(c, "answered") /\ call[c].code \in {200, 202}

Stored(s, c) == IF Req(c).op \in {"get", "resume"}
                THEN CHOOSE row \in call[c].rows : TRUE ELSE page[s].selected

\* Mutant: the list of runs is moved below the review.
ListBelowReview(op) == op \in {"get", "resume"}

\* What a script stores is drawn by what follows in it.
LastInScript(op) == op = "resume"

\* The script stores the answer; the decision buttons come last in the script, so
\* after them nothing is drawn again.
TakeAnswer(s, c) ==
    LET op == Req(c).op IN
    /\ Awaits(s, c) /\ Succeeded(c)
    /\ Turn(s, [page[s] EXCEPT
                  !.selected = Stored(s, c),
                  !.drawn = LastInScript(op),
                  !.call = NoCall])
    /\ Close(c)
    /\ UNCHANGED <<clicks, gaveUp>>

\* raise_for_status, a lost connection or the client's timeout raise: the script ends
\* before the review column, or after it when a decision was sent.  A refused upload
\* is only reported and the script goes on.
Fails(s, c) ==
    LET op == Req(c).op IN
    /\ Awaits(s, c) /\ ~Succeeded(c)
    /\ Turn(s, [page[s] EXCEPT
                  !.shown = IF op = "resume" THEN @ ELSE NoRow,
                  !.drawn = ~(op = "upload" /\ At(c, "answered")),
                  !.call = NoCall])
    /\ IF At(c, "answered") THEN UNCHANGED gaveUp ELSE Abandon(s)
    /\ UNCHANGED clicks
    /\ IF call[c].pc \in {"answered", "lost"} THEN Close(c) ELSE UNCHANGED apiVars

\* The rest of the script, and the browser: the selected run appears.
Draw(s) ==
    /\ ~page[s].drawn /\ ~Busy(s)
    /\ Turn(s, [page[s] EXCEPT !.shown = page[s].selected, !.drawn = TRUE])
    /\ UNCHANGED <<apiVars, clicks, gaveUp>>

\* Mutant: a connection is reused while a page waits for its answer.
DiscardAny(c) == Close(c) /\ UNCHANGED pageVars

\* Nobody waits for the answer any more.
Discard(c) ==
    /\ \A s \in Sessions : ~Awaits(s, c)
    /\ Close(c)
    /\ UNCHANGED pageVars

-----------------------------------------------------------------------------

Click(s) ==
    /\ Counted(s)
    /\ \/ StartWorkflow(s) \/ RefreshRuns(s) \/ OpenRun(s) \/ SwitchTenant(s) \/ Reload(s)
       \/ \E action \in Actions : Decide(s, action)

ServerStep(c) == Serve(c) /\ UNCHANGED pageVars

\* Somebody else, at another page or with curl (examples/), sends what he likes.
OthersSend(c, req) ==
    /\ NextFree(c)
    /\ req.from \notin Sessions
    /\ Counted(req.from)
    /\ Send(c, req)
    /\ UNCHANGED <<page, gaveUp>>

Next ==
    \/ \E c \in Calls, req \in Requests : OthersSend(c, req)
    \/ \E s \in Sessions : Click(s) \/ Draw(s)
    \/ \E s \in Sessions, c \in Calls : TakeAnswer(s, c) \/ Fails(s, c)
    \/ \E c \in Calls : ServerStep(c) \/ Discard(c)
    \/ Crash /\ UNCHANGED pageVars

Spec == Init /\ [][Next]_vars

-----------------------------------------------------------------------------
(* Properties *)

RowsShown == [run : Runs, status : Statuses] \cup {NoRow}

\* The page holds rows the API can have answered, and waits for one call at most.
TypeOK ==
    /\ ApiTypeOK
    /\ page \in [Sessions ->
         [org : Organizations, selected : RowsShown, shown : RowsShown,
          drawn : BOOLEAN, call : Calls \cup {NoCall}]]
    /\ \A f \in Clients : clicks[f] \in 0..MaxClicks[f]
    /\ gaveUp \in [Sessions -> SUBSET Runs]
    /\ \A s \in Sessions : Busy(s) => /\ call[page[s].call].pc # "free"
                                      /\ Req(page[s].call).from = s

\* Two decisions meet on a run only if two people decide it, or one who did not wait
\* for the answer to the first: the page itself never sends a decision twice.
PatientReviewerNeverRaces ==
    \A r \in Runs, s \in Sessions :
        run[r].contested /\ (\A v \in run[r].verdicts : v.from = s) => r \in gaveUp[s]

\* The copy of a run the page keeps does not go back: once it shows the run as decided,
\* no late answer makes it wait for a decision again.
CopyNeverGoesBack ==
    [][\A s \in Sessions :
          /\ page[s].selected.status \in Concluded
          /\ page'[s].selected.run = page[s].selected.run
          => page'[s].selected.status # "waiting_approval"]_vars

NewDecision(c, s, r) == /\ At(c, "free") /\ At(c, "sent")'
                        /\ Req(c)'.from = s /\ Req(c)'.op = "resume"
                        /\ Req(c)'.run = r

\* A decision is about the run on the screen, though the buttons do not name it:
\* except in the moment between an answer's arrival and its being drawn.
DecidesWhatIsDrawn ==
    [][\A c \in Calls, s \in Sessions, r \in Runs :
          NewDecision(c, s, r) /\ page[s].drawn => page[s].shown.run = r]_vars

\* "Edit: reviewer adjusts fields and resumes from checkpoint" (README): an edit the
\* page sends for a known user is not turned away for its form.
EditsReachTheRun ==
    \A c \in Calls : At(c, "answered") /\ Req(c).action = "edit" => call[c].code # 422

=============================================================================
