--------------------------- MODULE ReviewPageProofs ---------------------------
(***************************************************************************)
(* Proofs about ReviewPage: it implements TenantApi; its types; a decision *)
(* is about the run drawn; the page's copy of a run never goes back; and a *)
(* reviewer who waits for answers never races with himself.                *)
(***************************************************************************)
EXTENDS ReviewPage, TenantApiProofs

\* The types of TypeOK, in the form the proof uses.
PageStates == [org : Organizations, selected : RowsShown, shown : RowsShown,
               drawn : BOOLEAN, call : Calls \cup {NoCall}]

\* The page's part of the type invariant.
PageTyped == /\ page \in [Sessions -> PageStates]
             /\ clicks \in [Clients -> Nat]
             /\ \A f \in Clients : clicks[f] \in 0..MaxClicks[f]
             /\ gaveUp \in [Sessions -> SUBSET Runs]

\* The call a page waits for is its own, and a decision it waits for is about the run
\* it shows; what is drawn is what is selected.
SessionOK(s) ==
    /\ Busy(s) =>
          /\ call[page[s].call].pc # "free"
          /\ Req(page[s].call).from = s
          /\ Req(page[s].call).op = "resume" =>
                /\ page[s].drawn /\ page[s].selected.run \in Runs
                /\ Req(page[s].call).run = page[s].selected.run
    /\ page[s].drawn =>
          page[s].shown = NoRow \/ page[s].shown.run = page[s].selected.run

\* An answer about one run is about the run it was asked for.
AnswersNamed == \A c \in Calls :
    At(c, "answered") /\ call[c].code \in {200, 202} /\ Req(c).op \in {"get", "resume"} =>
        \A row \in call[c].rows : row.run = Req(c).run

\* The inductive invariant of the page: the API's, its types, its sessions.
PageInv == StagedInv /\ AnswersNamed /\ PageTyped /\ \A s \in Sessions : SessionOK(s)

\* No run and no connection is numbered zero.
LEMMA NumbersApart == NoRun \notin Runs /\ NoCall \notin Calls
  BY NumberedAssumption DEF NoRun, NoCall

\* A row on the page that has a status of a run is about a run.
LEMMA RowsShownFields ==
    ASSUME NEW row \in RowsShown
    PROVE  /\ row.status = "waiting_approval" => row.run \in Runs
           /\ row.status \in Concluded => row.run \in Runs
           /\ row.run \in Runs \cup {NoRun}
  BY DEF RowsShown, NoRow, None, Concluded

\* The empty page is one the page may show.
LEMMA NoRowShown == NoRow \in RowsShown
  BY DEF RowsShown

\* What a click does: the page turns, and a request may have been sent.
Sent(s, p, op, r) ==
    \E c \in Calls, req \in AnyRequest :
        /\ Send(c, req) /\ req.from = s /\ req.op = op /\ req.run = r
        /\ page' = [page EXCEPT ![s] = [p EXCEPT !.call = c]]

\* A script's request is one of those the API may meet.
LEMMA PostSent ==
    ASSUME PageTyped, NEW s \in Sessions, NEW p \in PageStates,
           NEW op \in {"list", "get", "resume", "upload"}, NEW r \in Runs \cup {NoRun},
           NEW key \in Keys \cup {None}, NEW action \in Actions \cup {None},
           NEW edits \in (SUBSET (EditFields \cup {"category"})) \cup {NoEdits},
           Post(s, p, op, r, key, action, edits)
    PROVE  Sent(s, p, op, r) /\ Abandon(s)
  <1>1. PICK c \in Calls, t \in Typed[p.org] :
           /\ Send(c, [from |-> s, op |-> op, token |-> t[2], org |-> p.org,
                       email |-> t[1], run |-> r, key |-> key, action |-> action,
                       edits |-> edits])
           /\ Turn(s, [p EXCEPT !.call = c])
           /\ Abandon(s)
    BY DEF Post
  <1>2. p.org \in Organizations /\ t[1] \in Emails /\ t[2] \in Tokens
    BY SessionsAssumption DEF PageStates
  <1> DEFINE req == [from |-> s, op |-> op, token |-> t[2], org |-> p.org,
                     email |-> t[1], run |-> r, key |-> key, action |-> action,
                     edits |-> edits]
  <1>3. req \in AnyRequest
    BY <1>2, SessionsAssumption DEF AnyRequest
  <1>4. req.from = s /\ req.op = op /\ req.run = r
    OBVIOUS
  <1>5. Send(c, req) /\ page' = [page EXCEPT ![s] = [p EXCEPT !.call = c]] /\ Abandon(s)
    BY <1>1 DEF Turn
  <1> HIDE DEF req
  <1> QED
    BY <1>3, <1>4, <1>5 DEF Sent

\* What a click does, whichever button it was.
Clicked(s) ==
    \/ Sent(s, page[s], "upload", NoRun)
    \/ Sent(s, page[s], "list", NoRun)
    \/ \E r \in Runs : Sent(s, page[s], "get", r)
    \/ \E o \in Organizations :
          /\ page' = [page EXCEPT ![s] = [page[s] EXCEPT !.org = o, !.shown = page[s].selected,
                                             !.drawn = TRUE, !.call = NoCall]]
          /\ UNCHANGED apiVars
    \/ \E o \in Organizations : page' = [page EXCEPT ![s] = NewPage(o)] /\ UNCHANGED apiVars
    \/ /\ page[s].selected.status = "waiting_approval" /\ page[s].shown.status = "waiting_approval"
       /\ Sent(s, [page[s] EXCEPT !.shown = page[s].selected, !.drawn = TRUE],
               "resume", page[s].selected.run)
    \/ /\ page' = [page EXCEPT ![s] = [page[s] EXCEPT !.shown = page[s].selected,
                                          !.drawn = TRUE, !.call = NoCall]]
       /\ UNCHANGED apiVars

\* A click sends a request or only turns the page; the call waited for is given up.
LEMMA ClickDoes ==
    ASSUME PageTyped, NEW s \in Sessions, Click(s)
    PROVE  Clicked(s) /\ Abandon(s) /\ Counted(s)
  <1>1. Counted(s)
    BY DEF Click
  <1>2. page[s] \in PageStates
    BY DEF PageTyped
  <1>3. CASE StartWorkflow(s)
    <2>1. PICK k \in Keys : Post(s, page[s], "upload", NoRun, k, None, NoEdits)
      BY <1>3 DEF StartWorkflow
    <2>2. /\ k \in Keys \cup {None} /\ None \in Actions \cup {None}
          /\ NoRun \in Runs \cup {NoRun}
          /\ NoEdits \in (SUBSET (EditFields \cup {"category"})) \cup {NoEdits}
      OBVIOUS
    <2>3. Sent(s, page[s], "upload", NoRun) /\ Abandon(s)
      BY <1>2, <2>1, <2>2, PostSent
    <2> QED
      BY <1>1, <2>3 DEF Clicked
  <1>4. CASE RefreshRuns(s)
    <2>1. Post(s, page[s], "list", NoRun, None, None, NoEdits)
      BY <1>4 DEF RefreshRuns
    <2>2. Sent(s, page[s], "list", NoRun) /\ Abandon(s)
      BY <1>2, <2>1, PostSent
    <2> QED
      BY <1>1, <2>2 DEF Clicked
  <1>5. CASE OpenRun(s)
    <2>1. PICK r \in Runs : Post(s, page[s], "get", r, None, None, NoEdits)
      BY <1>5 DEF OpenRun
    <2>2. Sent(s, page[s], "get", r) /\ Abandon(s)
      BY <1>2, <2>1, PostSent
    <2> QED
      BY <1>1, <2>2 DEF Clicked
  <1>6. CASE SwitchTenant(s)
    BY <1>1, <1>6 DEF SwitchTenant, Turn, Clicked
  <1>7. CASE Reload(s)
    BY <1>1, <1>7 DEF Reload, Turn, Clicked
  <1>8. ASSUME NEW action \in Actions, Decide(s, action)
        PROVE  Clicked(s) /\ Abandon(s)
    <2> DEFINE p == [page[s] EXCEPT !.shown = page[s].selected, !.drawn = TRUE]
    <2>1. p \in PageStates /\ p.selected = page[s].selected
          /\ [p EXCEPT !.call = NoCall] =
                [page[s] EXCEPT !.shown = page[s].selected, !.drawn = TRUE, !.call = NoCall]
      BY <1>2 DEF PageStates
    <2>2. CASE Undecided(p.selected)
      <3>1. p.selected.run \in Runs
        BY <1>2, <2>1, <2>2, RowsShownFields DEF Undecided, PageStates
      <3>2. Post(s, p, "resume", p.selected.run, None, action, PageEdits(action))
        BY <1>8, <2>2 DEF Decide
      <3>3. PageEdits(action) \in (SUBSET (EditFields \cup {"category"})) \cup {NoEdits}
        BY DEF PageEdits, EditFields
      <3>4. Sent(s, p, "resume", p.selected.run) /\ Abandon(s)
        <4> HIDE DEF p
        <4> QED
          BY <2>1, <3>1, <3>2, <3>3, PostSent
      <3>5. page[s].shown.status = "waiting_approval" /\ page[s].selected.status = "waiting_approval"
        BY <1>8, <2>1, <2>2 DEF Decide, Undecided
      <3> QED
        BY <2>1, <3>4, <3>5 DEF Clicked
    <2>3. CASE ~Undecided(p.selected)
      <3>1. Turn(s, [p EXCEPT !.call = NoCall]) /\ Abandon(s) /\ UNCHANGED apiVars
        BY <1>8, <2>3 DEF Decide
      <3> QED
        BY <2>1, <3>1 DEF Clicked, Turn
    <2> QED
      BY <2>2, <2>3
  <1> QED
    BY <1>1, <1>3, <1>4, <1>5, <1>6, <1>7, <1>8 DEF Click

\* The call a session waits for stays its own over a step.
AwaitedKept(t) ==
    Busy(t) => LET c == page[t].call IN
        /\ call'[c].pc # "free"
        /\ call'[c].req.from = call[c].req.from /\ call'[c].req.op = call[c].req.op
        /\ call[c].req.op = "resume" => call'[c].req.run = call[c].req.run

\* The fields of a page.
LEMMA PageTypes ==
    ASSUME PageTyped, NEW s \in Sessions
    PROVE  /\ page[s] \in PageStates /\ page[s].org \in Organizations
           /\ page[s].selected \in RowsShown /\ page[s].shown \in RowsShown
           /\ page[s].drawn \in BOOLEAN
           /\ Busy(s) <=> page[s].call \in Calls
           /\ Busy(s) <=> page[s].call # NoCall
  BY NumbersApart DEF PageTyped, PageStates, Busy

\* A page that does not change keeps its invariant if its call is kept.
LEMMA UntouchedSession ==
    ASSUME PageInv, NEW t \in Sessions, page'[t] = page[t], AwaitedKept(t)
    PROVE  SessionOK(t)'
  BY DEF PageInv, SessionOK, AwaitedKept, Busy, Req

\* A new request uses a free connection: nobody waits on it.
LEMMA SendKeepsAwaited ==
    ASSUME PageInv, NEW c \in Calls, NEW req \in AnyRequest, Send(c, req)
    PROVE  /\ \A t \in Sessions : AwaitedKept(t)
           /\ call'[c].pc = "sent" /\ call'[c].req = req
           /\ \A d \in Calls \ {c} : call'[d] = call[d]
           /\ UNCHANGED run /\ call[c].pc = "free"
  <1>1. /\ call'[c].pc = "sent" /\ call'[c].req = req
        /\ \A d \in Calls \ {c} : call'[d] = call[d]
        /\ UNCHANGED run /\ call[c].pc = "free"
    BY DEF PageInv, StagedInv, ApiInv, ApiTypeOK, Send, Become, Pending, At
  <1>2. ASSUME NEW t \in Sessions, Busy(t)
        PROVE  page[t].call \in Calls \ {c}
    BY <1>1, <1>2, PageTypes DEF PageInv, SessionOK
  <1> QED
    BY <1>1, <1>2 DEF AwaitedKept, PageInv, SessionOK

\* Closing a connection concerns those who wait on it only.
LEMMA CloseKeepsAwaited ==
    ASSUME PageInv, NEW c \in Calls, Close(c), NEW t \in Sessions, page[t].call # c
    PROVE  AwaitedKept(t)
  <1>1. \A d \in Calls \ {c} : call'[d] = call[d]
    BY DEF PageInv, StagedInv, ApiInv, ApiTypeOK, Close, Become
  <1>2. Busy(t) => page[t].call \in Calls \ {c}
    BY PageTypes DEF PageInv
  <1> QED
    BY <1>1, <1>2 DEF AwaitedKept, PageInv, SessionOK

\* The server does not change who asked for what; an upload names its run.
LEMMA ServeKeepsAwaited ==
    ASSUME PageInv, NEW c \in Calls, Serve(c), NEW t \in Sessions
    PROVE  AwaitedKept(t)
  <1> SUFFICES ASSUME Busy(t) PROVE AwaitedKept(t)
    BY DEF AwaitedKept
  <1>1. page[t].call \in Calls /\ call[page[t].call].pc # "free"
    BY PageTypes DEF PageInv, SessionOK
  <1>2. CASE page[t].call # c
    <2>1. call'[page[t].call] = call[page[t].call]
      BY <1>1, <1>2, ServeDoes
         DEF PageInv, Answers, Accepts, Concludes, Starts, Finishes, Moves
    <2> QED
      BY <1>1, <2>1 DEF AwaitedKept
  <1>3. CASE page[t].call = c
    <2>1. CASE Starts(c)
      <3>1. call[c].req \in AnyRequest /\ call[c].req.op = "upload"
        BY <1>1, <1>3, <2>1, ReqTyped DEF PageInv, StagedInv, ApiInv, Starts, Req
      <3>2. call'[c].pc = "analysing" /\ \E r : call'[c].req = [call[c].req EXCEPT !.run = r]
        BY <2>1 DEF Starts
      <3> QED
        BY <1>3, <3>1, <3>2 DEF AwaitedKept, AnyRequest
    <2>2. CASE Answers(c) \/ Accepts(c) \/ Concludes(c) \/ Finishes(c)
      <3>1. call'[c].req = call[c].req /\ call'[c].pc \in {"answered", "deciding", "decided"}
        BY <2>2 DEF Answers, Accepts, Concludes, Finishes, Moves
      <3> QED
        BY <1>3, <3>1 DEF AwaitedKept
    <2> QED
      BY <2>1, <2>2, ServeDoes DEF PageInv
  <1> QED
    BY <1>2, <1>3

\* A crash loses calls, not who made them.
LEMMA CrashKeepsAwaited ==
    ASSUME PageInv, Crash, NEW t \in Sessions
    PROVE  AwaitedKept(t)
  <1> SUFFICES ASSUME Busy(t) PROVE AwaitedKept(t)
    BY DEF AwaitedKept
  <1>1. page[t].call \in Calls /\ call[page[t].call].pc # "free"
    BY PageTypes DEF PageInv, SessionOK
  <1>2. call'[page[t].call].pc # "free" /\ call'[page[t].call].req = call[page[t].call].req
    BY <1>1 DEF Crash, Req
  <1> QED
    BY <1>2 DEF AwaitedKept

\* Answers about one run keep naming the run asked for.
LEMMA AnswersNamedStep ==
    StagedInv /\ AnswersNamed /\ [ApiNext]_apiVars => AnswersNamed'
  <1> SUFFICES ASSUME StagedInv, AnswersNamed, [ApiNext]_apiVars PROVE AnswersNamed'
    OBVIOUS
  <1>1. ASSUME \A d \in Calls : call'[d] = call[d] \/ call'[d].pc # "answered"
        PROVE  AnswersNamed'
    BY <1>1 DEF AnswersNamed, At, Req
  <1>2. ASSUME NEW c \in Calls, NEW req \in AnyRequest, Send(c, req) PROVE AnswersNamed'
    BY <1>1, <1>2 DEF StagedInv, ApiInv, ApiTypeOK, Send, Become, Pending
  <1>3. ASSUME NEW c \in Calls, Close(c) PROVE AnswersNamed'
    BY <1>1, <1>3, FreeTyped DEF StagedInv, ApiInv, ApiTypeOK, Close, Become
  <1>4. ASSUME NEW c \in Calls, Serve(c) PROVE AnswersNamed'
    <2>1. CASE Answers(c)
      <3>1. \A d \in Calls \ {c} : call'[d] = call[d]
        BY <2>1 DEF Answers, Moves
      <3>2. /\ call'[c].req = call[c].req
            /\ call'[c].code \in {200, 202} /\ Req(c).op \in {"get", "resume"} =>
                  \A row \in call'[c].rows : row.run = Req(c).run
        BY <2>1 DEF Answers, Moves, RowOf
      <3> QED
        BY <3>1, <3>2 DEF AnswersNamed, At, Req
    <2>2. CASE Accepts(c) \/ Concludes(c) \/ Starts(c)
      BY <1>1, <2>2 DEF Accepts, Concludes, Starts, Moves
    <2>3. CASE Finishes(c)
      <3>1. \A d \in Calls \ {c} : call'[d] = call[d]
        BY <2>3 DEF Finishes, Moves
      <3>2. call'[c].req = call[c].req /\ call[c].req.op = "upload"
        BY <2>3 DEF Finishes, Moves, StagedInv, Stages, Req
      <3> QED
        BY <3>1, <3>2 DEF AnswersNamed, At, Req
    <2> QED
      BY <1>4, <2>1, <2>2, <2>3, ServeDoes
  <1>5. CASE Crash
    BY <1>5 DEF Crash, AnswersNamed, At, Req
  <1>6. CASE UNCHANGED apiVars
    BY <1>6 DEF AnswersNamed, apiVars, At, Req
  <1> QED
    BY <1>2, <1>3, <1>4, <1>5, <1>6 DEF ApiNext

\* Every step of the page is a step of the API, or none.
LEMMA StepIsApi ==
    ASSUME PageTyped, [Next]_vars
    PROVE  [ApiNext]_apiVars
  <1>1. ASSUME NEW s \in Sessions, Click(s) PROVE [ApiNext]_apiVars
    BY <1>1, ClickDoes DEF Clicked, Sent, ApiNext
  <1>2. ASSUME NEW c \in Calls, NEW req \in Requests, OthersSend(c, req) PROVE [ApiNext]_apiVars
    BY <1>2, SessionsAssumption DEF OthersSend, ApiNext
  <1>3. ASSUME NEW s \in Sessions, NEW c \in Calls, TakeAnswer(s, c) \/ Fails(s, c)
        PROVE  [ApiNext]_apiVars
    BY <1>3 DEF TakeAnswer, Fails, ApiNext
  <1>4. ASSUME NEW s \in Sessions, Draw(s) PROVE [ApiNext]_apiVars
    BY <1>4 DEF Draw
  <1>5. ASSUME NEW c \in Calls, ServerStep(c) \/ Discard(c) PROVE [ApiNext]_apiVars
    BY <1>5 DEF ServerStep, Discard, ApiNext
  <1>6. Crash => [ApiNext]_apiVars
    BY DEF ApiNext
  <1>7. UNCHANGED vars => [ApiNext]_apiVars
    BY DEF vars
  <1> QED
    BY <1>1, <1>2, <1>3, <1>4, <1>5, <1>6, <1>7 DEF Next

\* What a successful answer leaves on the page.
LEMMA StoredRow ==
    ASSUME PageInv, NEW s \in Sessions, NEW c \in Calls, TakeAnswer(s, c)
    PROVE  /\ Stored(s, c) \in RowsShown
           /\ Req(c).op \in {"get", "resume"} =>
                 Stored(s, c) \in call[c].rows /\ Stored(s, c).run = Req(c).run
           /\ Req(c).op \notin {"get", "resume"} => Stored(s, c) = page[s].selected
           /\ page[s].call = c
  <1>1. At(c, "answered") /\ call[c].code \in {200, 202} /\ page[s].call = c
    BY DEF TakeAnswer, Succeeded, Awaits
  <1>2. CASE Req(c).op \in {"get", "resume"}
    <2>1. \E row \in Rows : call[c].rows = {row}
      BY <1>1, <1>2 DEF PageInv, StagedInv, ApiInv, AnswersFilled
    <2>2. Stored(s, c) \in call[c].rows /\ call[c].rows \subseteq Rows
      BY <1>2, <2>1 DEF Stored
    <2>3. Stored(s, c) \in RowsShown
      BY <2>2 DEF RowsShown, Rows
    <2>4. Stored(s, c).run = Req(c).run
      BY <1>1, <1>2, <2>2 DEF PageInv, AnswersNamed
    <2> QED
      BY <1>1, <1>2, <2>2, <2>3, <2>4
  <1>3. CASE Req(c).op \notin {"get", "resume"}
    BY <1>1, <1>3, PageTypes DEF Stored, PageInv
  <1> QED
    BY <1>2, <1>3

\* The page's part of the invariant after the step.
Tidy == PageTyped' /\ \A t \in Sessions : SessionOK(t)'

\* Turning a page keeps its type.
LEMMA PageTurned ==
    ASSUME PageTyped, NEW s \in Sessions, NEW p \in PageStates, page' = [page EXCEPT ![s] = p]
    PROVE  page' \in [Sessions -> PageStates]
  BY DEF PageTyped

\* So does counting a click.
LEMMA CountedTyped ==
    ASSUME PageTyped, NEW f \in Clients, Counted(f)
    PROVE  clicks' \in [Clients -> Nat] /\ \A g \in Clients : clicks'[g] \in 0..MaxClicks[g]
  <1> DEFINE n == clicks[f] + 1
  <1>0. clicks[f] \in Nat /\ MaxClicks[f] \in Nat /\ clicks[f] < MaxClicks[f]
    BY SessionsAssumption DEF PageTyped, Counted
  <1>1. n \in 0..MaxClicks[f] /\ n \in Nat /\ clicks' = [clicks EXCEPT ![f] = n]
    BY <1>0 DEF Counted
  <1> HIDE DEF n
  <1> QED
    BY <1>1 DEF PageTyped

\* And giving up a call.
LEMMA AbandonTyped ==
    ASSUME PageInv, NEW s \in Sessions, Abandon(s)
    PROVE  gaveUp' \in [Sessions -> SUBSET Runs]
  <1>1. Abandoned(s) \subseteq Runs
    BY DEF Abandoned, PageInv, SessionOK
  <1> QED
    BY <1>1 DEF PageInv, PageTyped, Abandon

\* A step of one session leaves the pages of the others as they should be.
LEMMA OthersUntouched ==
    ASSUME PageInv, NEW s \in Sessions, NEW p, page' = [page EXCEPT ![s] = p],
           \A t \in Sessions \ {s} : AwaitedKept(t)
    PROVE  \A t \in Sessions \ {s} : SessionOK(t)'
  <1>1. \A t \in Sessions \ {s} : page'[t] = page[t]
    BY DEF PageInv, PageTyped
  <1> QED
    BY <1>1, UntouchedSession

\* Calls that do not change are kept.
LEMMA QuietAwaited ==
    ASSUME PageInv, NEW t \in Sessions, UNCHANGED apiVars PROVE AwaitedKept(t)
  BY DEF AwaitedKept, apiVars, PageInv, SessionOK

\* A session that waits for nothing and shows what is drawn.
LEMMA Idle ==
    ASSUME PageInv, NEW s \in Sessions, NEW p \in PageStates, page' = [page EXCEPT ![s] = p],
           p.call = NoCall, p.drawn => p.shown = NoRow \/ p.shown.run = p.selected.run
    PROVE  SessionOK(s)' /\ page' \in [Sessions -> PageStates]
  <1>1. page'[s] = p /\ PageTyped
    BY DEF PageInv, PageTyped
  <1> QED
    BY <1>1, PageTurned DEF SessionOK, Busy

\* A page that has sent a request: a decision it sends is about the run drawn.
LEMMA SentTidy ==
    ASSUME PageInv, NEW s \in Sessions, NEW p \in PageStates,
           p.drawn => p.shown = NoRow \/ p.shown.run = p.selected.run,
           NEW op, NEW r,
           op = "resume" => p.drawn /\ p.selected.run \in Runs /\ r = p.selected.run,
           Sent(s, p, op, r)
    PROVE  /\ page' \in [Sessions -> PageStates]
           /\ \A t \in Sessions : SessionOK(t)'
  <1>0. PageTyped
    BY DEF PageInv
  <1>1. PICK c \in Calls, req \in AnyRequest :
           /\ Send(c, req) /\ req.from = s /\ req.op = op /\ req.run = r
           /\ page' = [page EXCEPT ![s] = [p EXCEPT !.call = c]]
    BY DEF Sent
  <1>2. /\ \A t \in Sessions : AwaitedKept(t)
        /\ call'[c].pc = "sent" /\ call'[c].req = req
    BY <1>1, SendKeepsAwaited
  <1> DEFINE q == [p EXCEPT !.call = c]
  <1>3. /\ q \in PageStates /\ q.call = c /\ q.drawn = p.drawn
        /\ q.selected = p.selected /\ q.shown = p.shown
    BY DEF PageStates
  <1>4. page' = [page EXCEPT ![s] = q]
    BY <1>1
  <1> HIDE DEF q
  <1>5. page'[s] = q
    BY <1>0, <1>4 DEF PageTyped
  <1>6. SessionOK(s)'
    BY <1>1, <1>2, <1>3, <1>5 DEF SessionOK, Req, Busy
  <1>7. \A t \in Sessions \ {s} : SessionOK(t)'
    BY <1>2, <1>4, OthersUntouched
  <1> QED
    BY <1>0, <1>3, <1>4, <1>6, <1>7, PageTurned

\* A click keeps the page's invariant.
LEMMA ClickTidy ==
    ASSUME PageInv, NEW s \in Sessions, Click(s)
    PROVE  Tidy
  <1>0. PageTyped /\ page[s] \in PageStates /\ s \in Clients /\ SessionOK(s)
    BY SessionsAssumption DEF PageInv, PageTyped
  <1>1. Clicked(s) /\ Abandon(s) /\ Counted(s)
    BY <1>0, ClickDoes
  <1>2. /\ clicks' \in [Clients -> Nat] /\ \A f \in Clients : clicks'[f] \in 0..MaxClicks[f]
        /\ gaveUp' \in [Sessions -> SUBSET Runs]
    BY <1>0, <1>1, CountedTyped, AbandonTyped
  <1>3. SUFFICES page' \in [Sessions -> PageStates] /\ \A t \in Sessions : SessionOK(t)'
    BY <1>2 DEF Tidy, PageTyped
  <1>4. ASSUME NEW op \in {"upload", "list", "get"}, NEW r, Sent(s, page[s], op, r)
        PROVE  page' \in [Sessions -> PageStates] /\ \A t \in Sessions : SessionOK(t)'
    BY <1>0, <1>4, SentTidy DEF SessionOK
  <1>5. ASSUME NEW p \in PageStates, page' = [page EXCEPT ![s] = p], p.call = NoCall,
               p.drawn => p.shown = NoRow \/ p.shown.run = p.selected.run, UNCHANGED apiVars
        PROVE  page' \in [Sessions -> PageStates] /\ \A t \in Sessions : SessionOK(t)'
    <2>1. \A t \in Sessions \ {s} : SessionOK(t)'
      BY <1>5, QuietAwaited, OthersUntouched
    <2> QED
      BY <1>5, <2>1, Idle
  <1>6. CASE \E o \in Organizations :
                /\ page' = [page EXCEPT ![s] = [page[s] EXCEPT !.org = o,
                               !.shown = page[s].selected, !.drawn = TRUE, !.call = NoCall]]
                /\ UNCHANGED apiVars
    <2>1. PICK o \in Organizations :
             page' = [page EXCEPT ![s] = [page[s] EXCEPT !.org = o,
                               !.shown = page[s].selected, !.drawn = TRUE, !.call = NoCall]]
      BY <1>6
    <2> DEFINE p == [page[s] EXCEPT !.org = o, !.shown = page[s].selected, !.drawn = TRUE,
                                    !.call = NoCall]
    <2>2. p \in PageStates /\ p.call = NoCall /\ p.shown = p.selected
      BY <1>0 DEF PageStates
    <2>3. page' = [page EXCEPT ![s] = p] /\ UNCHANGED apiVars
      BY <1>6, <2>1
    <2> HIDE DEF p
    <2> QED
      BY <1>5, <2>2, <2>3
  <1>7. CASE \E o \in Organizations :
                page' = [page EXCEPT ![s] = NewPage(o)] /\ UNCHANGED apiVars
    <2>1. PICK o \in Organizations : page' = [page EXCEPT ![s] = NewPage(o)]
      BY <1>7
    <2>2. NewPage(o) \in PageStates /\ NewPage(o).call = NoCall /\ NewPage(o).shown = NoRow
      BY NoRowShown DEF PageStates, NewPage
    <2> QED
      BY <1>5, <1>7, <2>1, <2>2
  <1> DEFINE d == [page[s] EXCEPT !.shown = page[s].selected, !.drawn = TRUE]
             e == [page[s] EXCEPT !.shown = page[s].selected, !.drawn = TRUE, !.call = NoCall]
  <1>8. CASE page[s].selected.status = "waiting_approval" /\ Sent(s, d, "resume", page[s].selected.run)
    <2>1. d \in PageStates /\ d.drawn /\ d.shown = d.selected /\ d.selected = page[s].selected
      BY <1>0 DEF PageStates
    <2>2. d.selected.run \in Runs
      BY <1>0, <1>8, <2>1, RowsShownFields DEF PageStates
    <2>3. Sent(s, d, "resume", d.selected.run)
      BY <1>8, <2>1
    <2> HIDE DEF d
    <2> QED
      BY <2>1, <2>2, <2>3, SentTidy
  <1>9. CASE page' = [page EXCEPT ![s] = e] /\ UNCHANGED apiVars
    <2>1. e \in PageStates /\ e.call = NoCall /\ e.shown = e.selected
      BY <1>0 DEF PageStates
    <2> HIDE DEF e
    <2> QED
      BY <1>5, <1>9, <2>1
  <1> QED
    BY <1>1, <1>4, <1>6, <1>7, <1>8, <1>9 DEF Clicked

\* An answer keeps it: the answer to a decision is about the run drawn.
LEMMA TakeAnswerTidy ==
    ASSUME PageInv, NEW s \in Sessions, NEW c \in Calls, TakeAnswer(s, c)
    PROVE  Tidy
  <1>0. PageTyped /\ page[s] \in PageStates /\ SessionOK(s)
    BY DEF PageInv, PageTyped
  <1>1. /\ Stored(s, c) \in RowsShown /\ page[s].call = c
        /\ Req(c).op = "resume" => Stored(s, c).run = Req(c).run
    BY StoredRow
  <1> DEFINE p == [page[s] EXCEPT !.selected = Stored(s, c),
                                  !.drawn = LastInScript(Req(c).op), !.call = NoCall]
  <1>2. /\ p \in PageStates /\ p.call = NoCall /\ p.selected = Stored(s, c)
        /\ p.drawn = LastInScript(Req(c).op) /\ p.shown = page[s].shown
    BY <1>0, <1>1 DEF PageStates, LastInScript
  <1>3. page' = [page EXCEPT ![s] = p] /\ Close(c) /\ UNCHANGED <<clicks, gaveUp>>
    BY DEF TakeAnswer, Turn
  <1> HIDE DEF p
  <1>4. p.drawn => p.shown = NoRow \/ p.shown.run = p.selected.run
    <2> SUFFICES ASSUME p.drawn PROVE p.shown = NoRow \/ p.shown.run = p.selected.run
      OBVIOUS
    <2>1. Req(c).op = "resume" /\ Busy(s)
      BY <1>1, <1>2, PageTypes DEF LastInScript, PageInv
    <2>2. page[s].drawn /\ Req(c).run = page[s].selected.run
      BY <1>0, <1>1, <2>1 DEF SessionOK
    <2> QED
      BY <1>0, <1>1, <1>2, <2>1, <2>2 DEF SessionOK
  <1>5. ASSUME NEW t \in Sessions \ {s} PROVE AwaitedKept(t)
    <2>1. page[t].call # c
      <3>1. page[t].call = c => Req(c).from = t /\ Req(c).from = s
        BY <1>1, PageTypes DEF PageInv, SessionOK
      <3> QED
        BY <3>1
    <2> QED
      BY <1>3, <2>1, CloseKeepsAwaited
  <1>6. \A t \in Sessions \ {s} : SessionOK(t)'
    BY <1>3, <1>5, OthersUntouched
  <1>7. SessionOK(s)' /\ page' \in [Sessions -> PageStates]
    BY <1>2, <1>3, <1>4, Idle
  <1> QED
    BY <1>0, <1>3, <1>6, <1>7 DEF Tidy, PageTyped

\* So does a failed call.
LEMMA FailsTidy ==
    ASSUME PageInv, NEW s \in Sessions, NEW c \in Calls, Fails(s, c)
    PROVE  Tidy
  <1>0. PageTyped /\ page[s] \in PageStates /\ SessionOK(s)
    BY DEF PageInv, PageTyped
  <1> DEFINE p == [page[s] EXCEPT
                     !.shown = IF Req(c).op = "resume" THEN page[s].shown ELSE NoRow,
                     !.drawn = ~(Req(c).op = "upload" /\ At(c, "answered")), !.call = NoCall]
  <1>1. /\ page[s].call = c /\ Busy(s)
        /\ page' = [page EXCEPT ![s] = p] /\ UNCHANGED clicks
        /\ Close(c) \/ UNCHANGED apiVars
        /\ UNCHANGED gaveUp \/ Abandon(s)
    BY PageTypes DEF Fails, Turn, Awaits, PageInv
  <1>2. /\ p \in PageStates /\ p.call = NoCall /\ p.selected = page[s].selected
        /\ p.shown = NoRow \/ (Req(c).op = "resume" /\ p.shown = page[s].shown)
    BY <1>0, NoRowShown DEF PageStates
  <1> HIDE DEF p
  <1>3. p.drawn => p.shown = NoRow \/ p.shown.run = p.selected.run
    BY <1>0, <1>1, <1>2 DEF SessionOK
  <1>4. ASSUME NEW t \in Sessions \ {s} PROVE AwaitedKept(t)
    <2>1. page[t].call # c
      <3>1. page[t].call = c => Req(c).from = t /\ Req(c).from = s
        BY <1>1, PageTypes DEF PageInv, SessionOK
      <3> QED
        BY <3>1
    <2> QED
      BY <1>1, <2>1, CloseKeepsAwaited, QuietAwaited
  <1>5. \A t \in Sessions \ {s} : SessionOK(t)'
    BY <1>1, <1>4, OthersUntouched
  <1>6. SessionOK(s)' /\ page' \in [Sessions -> PageStates]
    BY <1>1, <1>2, <1>3, Idle
  <1>7. gaveUp' \in [Sessions -> SUBSET Runs]
    BY <1>0, <1>1, AbandonTyped DEF PageTyped
  <1> QED
    BY <1>0, <1>1, <1>5, <1>6, <1>7 DEF Tidy, PageTyped

\* And drawing the page.
LEMMA DrawTidy ==
    ASSUME PageInv, NEW s \in Sessions, Draw(s)
    PROVE  Tidy
  <1>0. PageTyped /\ page[s] \in PageStates
    BY DEF PageInv, PageTyped
  <1> DEFINE p == [page[s] EXCEPT !.shown = page[s].selected, !.drawn = TRUE]
  <1>1. /\ p \in PageStates /\ p.shown = p.selected /\ p.call = NoCall
        /\ page' = [page EXCEPT ![s] = p] /\ UNCHANGED <<apiVars, clicks, gaveUp>>
    BY <1>0, PageTypes DEF Draw, Turn, PageStates
  <1> HIDE DEF p
  <1>2. \A t \in Sessions \ {s} : SessionOK(t)'
    BY <1>1, QuietAwaited, OthersUntouched
  <1>3. SessionOK(s)' /\ page' \in [Sessions -> PageStates]
    BY <1>1, Idle
  <1> QED
    BY <1>0, <1>1, <1>2, <1>3 DEF Tidy, PageTyped

\* The page's invariant is inductive.
LEMMA PageInvStep == PageInv /\ [Next]_vars => PageInv'
  <1> SUFFICES ASSUME PageInv, [Next]_vars PROVE PageInv'
    OBVIOUS
  <1>0. PageTyped /\ [ApiNext]_apiVars
    BY StepIsApi DEF PageInv
  <1>1. StagedInv' /\ AnswersNamed'
    BY <1>0, StagedInvStep, AnswersNamedStep DEF PageInv
  <1>2. SUFFICES Tidy
    BY <1>1 DEF PageInv, Tidy
  <1>3. ASSUME UNCHANGED page, UNCHANGED gaveUp, \A t \in Sessions : AwaitedKept(t),
               UNCHANGED clicks \/ \E f \in Clients : Counted(f)
        PROVE  Tidy
    <2>1. \A t \in Sessions : SessionOK(t)'
      BY <1>3, UntouchedSession
    <2>2. clicks' \in [Clients -> Nat] /\ \A f \in Clients : clicks'[f] \in 0..MaxClicks[f]
      BY <1>0, <1>3, CountedTyped DEF PageTyped
    <2> QED
      BY <1>0, <1>3, <2>1, <2>2 DEF Tidy, PageTyped
  <1>4. ASSUME NEW c \in Calls, NEW req \in Requests, OthersSend(c, req) PROVE Tidy
    <2>1. req \in AnyRequest /\ req.from \in Clients
      BY SessionsAssumption DEF AnyRequest
    <2>2. \A t \in Sessions : AwaitedKept(t)
      BY <1>4, <2>1, SendKeepsAwaited DEF OthersSend
    <2> QED
      BY <1>3, <1>4, <2>1, <2>2 DEF OthersSend
  <1>5. ASSUME NEW s \in Sessions, Click(s) \/ Draw(s) PROVE Tidy
    BY <1>5, ClickTidy, DrawTidy
  <1>6. ASSUME NEW s \in Sessions, NEW c \in Calls, TakeAnswer(s, c) \/ Fails(s, c) PROVE Tidy
    BY <1>6, TakeAnswerTidy, FailsTidy
  <1>7. ASSUME NEW c \in Calls, ServerStep(c) PROVE Tidy
    BY <1>3, <1>7, ServeKeepsAwaited DEF ServerStep, pageVars
  <1>8. ASSUME NEW c \in Calls, Discard(c) PROVE Tidy
    BY <1>3, <1>8, CloseKeepsAwaited DEF Discard, Awaits, pageVars
  <1>9. CASE Crash /\ UNCHANGED pageVars
    BY <1>3, <1>9, CrashKeepsAwaited DEF pageVars
  <1>10. CASE UNCHANGED vars
    BY <1>3, <1>10, QuietAwaited DEF vars, pageVars
  <1> QED
    BY <1>4, <1>5, <1>6, <1>7, <1>8, <1>9, <1>10 DEF Next

\* And holds at the start.
LEMMA PageInvInit == Init => PageInv
  <1> SUFFICES ASSUME Init PROVE PageInv
    OBVIOUS
  <1>1. StagedInv
    BY StagedInvInit DEF Init
  <1>2. AnswersNamed
    BY FreeTyped DEF Init, ApiInit, AnswersNamed, At
  <1>3. ASSUME NEW o \in Organizations
        PROVE  /\ NewPage(o) \in PageStates /\ NewPage(o).call = NoCall
               /\ NewPage(o).shown = NoRow
    BY NoRowShown DEF PageStates, NewPage
  <1>4. PageTyped
    BY <1>3, SessionsAssumption DEF Init, PageTyped
  <1>5. \A s \in Sessions : SessionOK(s)
    BY <1>3 DEF Init, SessionOK, Busy
  <1> QED
    BY <1>1, <1>2, <1>4, <1>5 DEF PageInv

\* The page, its tenant switches, retries and lost answers included, is a client the
\* API specification allows for: what is proved of the API holds with the page.
THEOREM PageImplementsApi == Spec => ApiSpec
  <1>1. Init => ApiInit
    BY DEF Init
  <1>2. PageInv /\ [Next]_vars => [ApiNext]_apiVars
    BY StepIsApi DEF PageInv
  <1> QED
    BY <1>1, <1>2, PageInvInit, PageInvStep, PTL DEF Spec, ApiSpec

\* The page holds rows the API can have answered and waits for its own calls only,
\* for any number of sessions, runs and clicks (st.session_state).
THEOREM TypeOKHolds == Spec => []TypeOK
  <1>1. PageInv => TypeOK
    BY DEF PageInv, StagedInv, ApiInv, PageTyped, PageStates, SessionOK, TypeOK
  <1> QED
    BY <1>1, PageInvInit, PageInvStep, PTL DEF Spec

\* With the page as a client, tenants stay apart.
THEOREM TenantsApartOnPage == Spec => []TenantsApart
  BY PageImplementsApi, TenantsApartHolds, PTL

\* A call turns from free to sent only by a click or by another client.
LEMMA NewCall ==
    ASSUME PageInv, [Next]_vars, NEW c \in Calls, call[c].pc = "free", call'[c].pc = "sent",
           call'[c].req.from \in Sessions
    PROVE  \E s \in Sessions : Click(s)
  <1>1. ASSUME NEW d \in Calls, NEW req \in Requests, OthersSend(d, req) PROVE FALSE
    <2>1. req \in AnyRequest
      BY SessionsAssumption
    <2>2. call'[d].req = req /\ \A e \in Calls \ {d} : call'[e] = call[e]
      BY <1>1, <2>1, SendKeepsAwaited DEF OthersSend
    <2> QED
      BY <1>1, <2>2 DEF OthersSend
  <1>2. ASSUME NEW d \in Calls, Close(d) PROVE FALSE
    BY <1>2, FreeTyped DEF Close, Become, PageInv, StagedInv, ApiInv, ApiTypeOK
  <1>3. ASSUME NEW s \in Sessions, NEW d \in Calls, TakeAnswer(s, d) \/ Fails(s, d) PROVE FALSE
    BY <1>2, <1>3 DEF TakeAnswer, Fails, apiVars
  <1>4. ASSUME NEW d \in Calls, ServerStep(d) PROVE FALSE
    <2>1. Serve(d) /\ StagedInv
      BY <1>4 DEF ServerStep, PageInv
    <2> QED
      BY <2>1, ServeDoes
         DEF Answers, Accepts, Concludes, Starts, Finishes, Moves, At
  <1>5. ASSUME NEW d \in Calls, Discard(d) PROVE FALSE
    BY <1>2, <1>5 DEF Discard
  <1>6. Crash => FALSE
    BY DEF Crash
  <1>7. UNCHANGED call => FALSE
    OBVIOUS
  <1> QED
    BY <1>1, <1>3, <1>4, <1>5, <1>6, <1>7 DEF Next, Draw, vars, apiVars

\* A decision sent from a page that is drawn is about the run drawn.
LEMMA DecidesDrawn ==
    ASSUME PageInv, [Next]_vars, NEW c \in Calls, NEW s \in Sessions, NEW r \in Runs,
           NewDecision(c, s, r), page[s].drawn
    PROVE  page[s].shown.run = r
  <1>1. call[c].pc = "free" /\ call'[c].pc = "sent" /\ call'[c].req.from = s
        /\ call'[c].req.op = "resume" /\ call'[c].req.run = r
    BY DEF NewDecision, At, Req
  <1>2. PICK t \in Sessions : Click(t)
    BY <1>1, NewCall
  <1>3. Clicked(t)
    BY <1>2, ClickDoes DEF PageInv
  <1>4. ASSUME NEW p, NEW op, NEW q, Sent(t, p, op, q) PROVE t = s /\ op = "resume" /\ q = r
    <2>1. PICK d \in Calls, req \in AnyRequest :
             Send(d, req) /\ req.from = t /\ req.op = op /\ req.run = q
      BY <1>4 DEF Sent
    <2>2. call'[d].req = req /\ \A e \in Calls \ {d} : call'[e] = call[e]
      BY <2>1, SendKeepsAwaited
    <2> QED
      BY <1>1, <2>1, <2>2
  <1>5. ~UNCHANGED apiVars
    BY <1>1 DEF apiVars
  <1> DEFINE d == [page[t] EXCEPT !.shown = page[t].selected, !.drawn = TRUE]
  <1>6. t = s /\ page[s].selected.run = r /\ page[s].shown.status = "waiting_approval"
    <2>1. /\ ~Sent(t, page[t], "upload", NoRun) /\ ~Sent(t, page[t], "list", NoRun)
          /\ \A q \in Runs : ~Sent(t, page[t], "get", q)
      BY <1>4
    <2>2. Sent(t, d, "resume", page[t].selected.run) => t = s /\ page[t].selected.run = r
      BY <1>4
    <2>3. page[t].shown.status = "waiting_approval" /\ Sent(t, d, "resume", page[t].selected.run)
      BY <1>3, <1>5, <2>1 DEF Clicked
    <2> HIDE DEF d
    <2> QED
      BY <2>2, <2>3
  <1>7. page[s].shown # NoRow
    BY <1>6 DEF NoRow, None
  <1> QED
    BY <1>6, <1>7 DEF PageInv, SessionOK

\* For any number of sessions: the decision buttons, which carry no run, decide the
\* run on the screen whenever the screen is up to date.
THEOREM DecidesWhatIsDrawnHolds == Spec => DecidesWhatIsDrawn
  <1> DEFINE A == \A c \in Calls, s \in Sessions, r \in Runs :
                     NewDecision(c, s, r) /\ page[s].drawn => page[s].shown.run = r
  <1>1. PageInv /\ [Next]_vars => A
    BY DecidesDrawn
  <1> QED
    BY <1>1, PageInvInit, PageInvStep, PTL DEF Spec, DecidesWhatIsDrawn

-----------------------------------------------------------------------------
(* The copy of a run never goes back *)

\* An answer that leaves a row on the page.
Told(c) == At(c, "answered") /\ call[c].code \in {200, 202} /\ Req(c).op \in {"get", "resume"}

\* What an answer or a page says was decided is decided, and an answer still to come
\* says so too of the run the page knows as decided.
RowsTrue == \A c \in Calls : Told(c) => \A row \in call[c].rows :
                row.status \in Concluded => run[row.run].status \in Concluded

\* A run the page knows as decided is, and answers to come agree.
CopyTrue(s) ==
    page[s].selected.status \in Concluded =>
        /\ run[page[s].selected.run].status \in Concluded
        /\ Busy(s) /\ Told(page[s].call) => \A row \in call[page[s].call].rows :
              row.run = page[s].selected.run => row.status \in Concluded

\* The inductive invariant behind CopyNeverGoesBack.
CopyInv == PageInv /\ RowsTrue /\ \A s \in Sessions : CopyTrue(s)

\* Such an answer holds rows of runs.
LEMMA ToldRows ==
    ASSUME PageInv, NEW c \in Calls, Told(c)
    PROVE  \A row \in call[c].rows : row.run \in Runs /\ row.status \in Statuses
  <1>1. call[c].rows \subseteq Rows
    BY CallFields DEF PageInv, StagedInv, ApiInv, ApiTypeOK, Told, At
  <1> QED
    BY <1>1 DEF Rows

\* A page step: calls are as they were, or free, or newly sent.
Plain == /\ UNCHANGED run
         /\ \A d \in Calls : call'[d] = call[d] \/ call'[d].pc \in {"free", "sent"}

\* Sending and closing are such steps.
LEMMA PlainSteps ==
    ASSUME PageInv, NEW c \in Calls
    PROVE  /\ \A req \in AnyRequest : Send(c, req) => Plain
           /\ Close(c) => Plain
           /\ UNCHANGED apiVars => Plain
  BY FreeTyped DEF Plain, Send, Close, Become, Pending, PageInv, StagedInv, ApiInv, ApiTypeOK,
     apiVars

\* They keep what a page knows, if it keeps its run or drops it.
LEMMA PlainCopy ==
    ASSUME CopyInv, Plain, NEW t \in Sessions,
           page'[t].selected = page[t].selected \/ page'[t].selected = NoRow,
           \/ page'[t].call = page[t].call \/ page'[t].call = NoCall
           \/ page'[t].call \in Calls /\ call'[page'[t].call].pc = "sent"
    PROVE  CopyTrue(t)'
  <1>1. CASE page'[t].selected = NoRow
    BY <1>1 DEF CopyTrue, NoRow, None, Concluded
  <1>2. CASE page'[t].selected = page[t].selected
    <2>1. Busy(t) => page[t].call \in Calls
      BY PageTypes DEF CopyInv, PageInv
    <2> QED
      BY <1>2, <2>1 DEF CopyInv, CopyTrue, Plain, Told, At, Req, Busy
  <1> QED
    BY <1>1, <1>2

\* And what answers say.
LEMMA PlainRows == CopyInv /\ Plain => RowsTrue'
  BY DEF CopyInv, RowsTrue, Plain, Told, At, Req

\* What a step has to keep.
CopyKept == RowsTrue' /\ \A t \in Sessions : CopyTrue(t)'

\* A click keeps it: the selected run stays or is dropped.
LEMMA ClickCopy ==
    ASSUME CopyInv, NEW s \in Sessions, Click(s)
    PROVE  Plain /\ CopyKept
  <1>0. PageInv /\ PageTyped /\ page[s] \in PageStates
    BY DEF CopyInv, PageInv, PageTyped
  <1>1. Clicked(s)
    BY <1>0, ClickDoes
  <1>2. ASSUME NEW p \in PageStates, p.selected = page[s].selected, NEW op, NEW r,
               Sent(s, p, op, r)
        PROVE  Plain /\ CopyKept
    <2>1. PICK c \in Calls, req \in AnyRequest :
             /\ Send(c, req)
             /\ page' = [page EXCEPT ![s] = [p EXCEPT !.call = c]]
      BY <1>2 DEF Sent
    <2>2. Plain /\ call'[c].pc = "sent"
      BY <1>0, <2>1, PlainSteps, SendKeepsAwaited
    <2>3. page'[s].selected = page[s].selected /\ page'[s].call = c
          /\ \A t \in Sessions \ {s} : page'[t] = page[t]
      BY <1>0, <1>2, <2>1 DEF PageTyped, PageStates
    <2> QED
      BY <2>2, <2>3, PlainCopy, PlainRows DEF CopyKept
  <1>3. ASSUME NEW p, UNCHANGED apiVars, page' = [page EXCEPT ![s] = p], p.call = NoCall,
               p.selected = page[s].selected \/ p.selected = NoRow
        PROVE  Plain /\ CopyKept
    <2>1. Plain
      BY <1>3 DEF Plain, apiVars
    <2>2. page'[s] = p /\ \A t \in Sessions \ {s} : page'[t] = page[t]
      BY <1>0, <1>3 DEF PageTyped
    <2> QED
      BY <1>3, <2>1, <2>2, PlainCopy, PlainRows DEF CopyKept
  <1>4. page[s].selected = page[s].selected
    OBVIOUS
  <1>5. CASE \E o \in Organizations :
                /\ page' = [page EXCEPT ![s] = [page[s] EXCEPT !.org = o,
                               !.shown = page[s].selected, !.drawn = TRUE, !.call = NoCall]]
                /\ UNCHANGED apiVars
    <2>1. PICK o \in Organizations :
             page' = [page EXCEPT ![s] = [page[s] EXCEPT !.org = o,
                               !.shown = page[s].selected, !.drawn = TRUE, !.call = NoCall]]
      BY <1>5
    <2> DEFINE p == [page[s] EXCEPT !.org = o, !.shown = page[s].selected, !.drawn = TRUE,
                                    !.call = NoCall]
    <2>2. p.call = NoCall /\ p.selected = page[s].selected
      BY <1>0 DEF PageStates
    <2>3. page' = [page EXCEPT ![s] = p] /\ UNCHANGED apiVars
      BY <1>5, <2>1
    <2> HIDE DEF p
    <2> QED
      BY <1>3, <2>2, <2>3
  <1>6. CASE \E o \in Organizations :
                page' = [page EXCEPT ![s] = NewPage(o)] /\ UNCHANGED apiVars
    <2>1. PICK o \in Organizations : page' = [page EXCEPT ![s] = NewPage(o)]
      BY <1>6
    <2>2. NewPage(o).call = NoCall /\ NewPage(o).selected = NoRow
      BY DEF NewPage
    <2> QED
      BY <1>3, <1>6, <2>1, <2>2
  <1> DEFINE d == [page[s] EXCEPT !.shown = page[s].selected, !.drawn = TRUE]
             e == [page[s] EXCEPT !.shown = page[s].selected, !.drawn = TRUE, !.call = NoCall]
  <1>7. CASE Sent(s, d, "resume", page[s].selected.run)
    <2>1. d \in PageStates /\ d.selected = page[s].selected
      BY <1>0 DEF PageStates
    <2> HIDE DEF d
    <2> QED
      BY <1>2, <1>7, <2>1
  <1>8. CASE page' = [page EXCEPT ![s] = e] /\ UNCHANGED apiVars
    <2>1. e.call = NoCall /\ e.selected = page[s].selected
      BY <1>0 DEF PageStates
    <2> HIDE DEF e
    <2> QED
      BY <1>3, <1>8, <2>1
  <1>9. CASE \/ Sent(s, page[s], "upload", NoRun) \/ Sent(s, page[s], "list", NoRun)
             \/ \E r \in Runs : Sent(s, page[s], "get", r)
    BY <1>0, <1>2, <1>9
  <1> QED
    BY <1>1, <1>5, <1>6, <1>7, <1>8, <1>9 DEF Clicked

\* An answer keeps it, and does not take back that a run was decided.
LEMMA TakeAnswerCopy ==
    ASSUME CopyInv, NEW s \in Sessions, NEW c \in Calls, TakeAnswer(s, c)
    PROVE  /\ CopyKept
           /\ page[s].selected.status \in Concluded /\ page'[s].selected.run = page[s].selected.run
                 => page'[s].selected.status # "waiting_approval"
           /\ \A t \in Sessions \ {s} : page'[t] = page[t]
  <1>0. PageInv /\ PageTyped /\ page[s] \in PageStates
    BY DEF CopyInv, PageInv, PageTyped
  <1>1. /\ page[s].call = c /\ Close(c)
        /\ Req(c).op \in {"get", "resume"} => Stored(s, c) \in call[c].rows
        /\ Req(c).op \notin {"get", "resume"} => Stored(s, c) = page[s].selected
    BY <1>0, StoredRow DEF TakeAnswer
  <1>2. Plain
    BY <1>0, <1>1, PlainSteps
  <1>3. /\ page'[s].selected = Stored(s, c) /\ page'[s].call = NoCall
        /\ \A t \in Sessions \ {s} : page'[t] = page[t]
    BY <1>0 DEF TakeAnswer, Turn, PageTyped, PageStates
  <1>4. RowsTrue' /\ \A t \in Sessions \ {s} : CopyTrue(t)'
    BY <1>2, <1>3, PlainCopy, PlainRows
  <1>5. CASE Req(c).op \notin {"get", "resume"}
    <2>1. page'[s].selected = page[s].selected
      BY <1>1, <1>3, <1>5
    <2>2. CopyTrue(s)'
      BY <1>2, <1>3, <2>1, PlainCopy
    <2> QED
      BY <1>3, <1>4, <2>1, <2>2 DEF CopyKept, Concluded
  <1>6. CASE Req(c).op \in {"get", "resume"}
    <2>1. Told(c) /\ Busy(s)
      BY <1>0, <1>1, <1>6, PageTypes DEF Told, TakeAnswer, Succeeded
    <2>2. /\ page'[s].selected \in call[c].rows
          /\ page'[s].selected.status \in Concluded =>
                run[page'[s].selected.run].status \in Concluded
      BY <1>1, <1>3, <1>6, <2>1 DEF CopyInv, RowsTrue
    <2>3. CopyTrue(s)'
      BY <1>2, <1>3, <2>2 DEF CopyTrue, Plain, Busy
    <2>4. page[s].selected.status \in Concluded /\ page'[s].selected.run = page[s].selected.run
             => page'[s].selected.status \in Concluded
      BY <1>1, <2>1, <2>2 DEF CopyInv, CopyTrue
    <2> QED
      BY <1>3, <1>4, <2>3, <2>4 DEF CopyKept, Concluded
  <1> QED
    BY <1>5, <1>6

\* Steps in which no page changes its run keep it.
LEMMA QuietCopy ==
    ASSUME CopyInv, Plain,
           \A t \in Sessions : /\ page'[t].selected = page[t].selected
                               /\ page'[t].call = page[t].call \/ page'[t].call = NoCall
    PROVE  CopyKept
  BY PlainCopy, PlainRows DEF CopyKept

\* The server keeps it: an answer is written from the rows of the moment.
LEMMA ServeCopy ==
    ASSUME CopyInv, NEW c \in Calls, Serve(c), UNCHANGED page
    PROVE  CopyKept
  <1>0. PageInv /\ StagedInv /\ PageTyped
    BY DEF CopyInv, PageInv
  <1>1. ConcludedStay
    BY <1>0, ServeSettles DEF ConcludedStay
  <1>2. ASSUME NEW d \in Calls, Told(d)'
        PROVE  \/ call'[d] = call[d] /\ Told(d)
               \/ call'[d].rows = {RowOf(Req(d).run)} /\ UNCHANGED run
    <2>1. CASE d # c
      <3>1. call'[d] = call[d]
        BY <1>0, <2>1, ServeDoes DEF Answers, Accepts, Concludes, Starts, Finishes, Moves
      <3> QED
        BY <1>2, <3>1 DEF Told, At, Req
    <2>2. CASE d = c
      <3>1. call'[c].pc = "answered"
        BY <1>2, <2>2 DEF Told, At
      <3>2. CASE Answers(c)
        BY <1>2, <2>2, <3>2 DEF Told, At, Req, Answers, Moves
      <3>3. CASE Finishes(c)
        BY <1>0, <1>2, <2>2, <3>3 DEF Told, At, Req, Finishes, Moves, StagedInv, Stages
      <3> QED
        BY <1>0, <3>1, <3>2, <3>3, ServeDoes DEF Accepts, Concludes, Starts, Moves
    <2> QED
      BY <2>1, <2>2
  <1>3. RowsTrue'
    <2> SUFFICES ASSUME NEW d \in Calls, Told(d)', NEW row \in call'[d].rows,
                        row.status \in Concluded
                 PROVE  run'[row.run].status \in Concluded
      BY DEF RowsTrue
    <2>1. CASE call'[d] = call[d] /\ Told(d)
      BY <1>0, <1>1, <2>1, ToldRows DEF ConcludedStay, CopyInv, RowsTrue
    <2>2. CASE call'[d].rows = {RowOf(Req(d).run)} /\ UNCHANGED run
      BY <2>2 DEF RowOf
    <2> QED
      BY <1>2, <2>1, <2>2
  <1>4. ASSUME NEW t \in Sessions PROVE CopyTrue(t)'
    <2> SUFFICES ASSUME page[t].selected.status \in Concluded PROVE CopyTrue(t)'
      BY DEF CopyTrue
    <2>1. page[t].selected.run \in Runs
      BY <1>0, PageTypes, RowsShownFields
    <2>2. run[page[t].selected.run].status \in Concluded
      BY DEF CopyInv, CopyTrue
    <2>3. run'[page[t].selected.run].status \in Concluded
      BY <1>1, <2>1, <2>2 DEF ConcludedStay
    <2>4. ASSUME Busy(t), Told(page[t].call)', NEW row \in call'[page[t].call].rows,
                 row.run = page[t].selected.run
          PROVE  row.status \in Concluded
      <3>1. page[t].call \in Calls
        BY <1>0, <2>4, PageTypes
      <3>2. CASE call'[page[t].call] = call[page[t].call] /\ Told(page[t].call)
        BY <2>4, <3>2 DEF CopyInv, CopyTrue
      <3>3. CASE call'[page[t].call].rows = {RowOf(Req(page[t].call).run)} /\ UNCHANGED run
        BY <2>2, <2>4, <3>3 DEF RowOf
      <3> QED
        BY <1>2, <2>4, <3>1, <3>2, <3>3
    <2> QED
      BY <2>3, <2>4 DEF CopyTrue, Busy
  <1> QED
    BY <1>3, <1>4 DEF CopyKept

\* CopyNeverGoesBack for one step.
Onward == \A s \in Sessions :
    page[s].selected.status \in Concluded /\ page'[s].selected.run = page[s].selected.run
        => page'[s].selected.status # "waiting_approval"

\* A click never selects another run by itself.
LEMMA ClickOnward ==
    ASSUME PageInv, NEW s \in Sessions, Click(s)
    PROVE  \A t \in Sessions :
              page'[t].selected = page[t].selected \/ page'[t].selected = NoRow
  <1>0. PageTyped /\ page[s] \in PageStates
    BY DEF PageInv, PageTyped
  <1>1. Clicked(s)
    BY <1>0, ClickDoes
  <1>2. ASSUME NEW p, page' = [page EXCEPT ![s] = p],
               p.selected = page[s].selected \/ p.selected = NoRow
        PROVE  \A t \in Sessions :
                  page'[t].selected = page[t].selected \/ page'[t].selected = NoRow
    BY <1>0, <1>2 DEF PageTyped
  <1>3. ASSUME NEW p \in PageStates, p.selected = page[s].selected, NEW op, NEW r,
               Sent(s, p, op, r)
        PROVE  \A t \in Sessions :
                  page'[t].selected = page[t].selected \/ page'[t].selected = NoRow
    <2>1. PICK c \in Calls : page' = [page EXCEPT ![s] = [p EXCEPT !.call = c]]
      BY <1>3 DEF Sent
    <2> DEFINE q == [p EXCEPT !.call = c]
    <2>2. q.selected = page[s].selected /\ page' = [page EXCEPT ![s] = q]
      BY <1>3, <2>1 DEF PageStates
    <2> HIDE DEF q
    <2> QED
      BY <1>2, <2>2
  <1>4. CASE \E o \in Organizations :
                page' = [page EXCEPT ![s] = [page[s] EXCEPT !.org = o,
                               !.shown = page[s].selected, !.drawn = TRUE, !.call = NoCall]]
    <2>1. PICK o \in Organizations :
             page' = [page EXCEPT ![s] = [page[s] EXCEPT !.org = o,
                               !.shown = page[s].selected, !.drawn = TRUE, !.call = NoCall]]
      BY <1>4
    <2> DEFINE p == [page[s] EXCEPT !.org = o, !.shown = page[s].selected, !.drawn = TRUE,
                                    !.call = NoCall]
    <2>2. p.selected = page[s].selected /\ page' = [page EXCEPT ![s] = p]
      BY <1>0, <2>1 DEF PageStates
    <2> HIDE DEF p
    <2> QED
      BY <1>2, <2>2
  <1>5. CASE \E o \in Organizations : page' = [page EXCEPT ![s] = NewPage(o)]
    BY <1>2, <1>5 DEF NewPage
  <1> DEFINE d == [page[s] EXCEPT !.shown = page[s].selected, !.drawn = TRUE]
             e == [page[s] EXCEPT !.shown = page[s].selected, !.drawn = TRUE, !.call = NoCall]
  <1>6. CASE Sent(s, d, "resume", page[s].selected.run)
    <2>1. d \in PageStates /\ d.selected = page[s].selected
      BY <1>0 DEF PageStates
    <2> HIDE DEF d
    <2> QED
      BY <1>3, <1>6, <2>1
  <1>7. CASE page' = [page EXCEPT ![s] = e]
    <2>1. e.selected = page[s].selected
      BY <1>0 DEF PageStates
    <2> HIDE DEF e
    <2> QED
      BY <1>2, <1>7, <2>1
  <1>8. CASE \/ Sent(s, page[s], "upload", NoRun) \/ Sent(s, page[s], "list", NoRun)
             \/ \E r \in Runs : Sent(s, page[s], "get", r)
    BY <1>0, <1>3, <1>8
  <1> QED
    BY <1>1, <1>4, <1>5, <1>6, <1>7, <1>8 DEF Clicked

\* Every step keeps what pages know and takes nothing back.
LEMMA CopyStep ==
    ASSUME CopyInv, [Next]_vars
    PROVE  CopyKept /\ Onward
  <1>0. PageInv /\ PageTyped
    BY DEF CopyInv, PageInv
  <1>1. ASSUME \A t \in Sessions :
                  page'[t].selected = page[t].selected \/ page'[t].selected = NoRow
        PROVE  Onward
    BY <1>1 DEF Onward, Concluded, NoRow, None
  <1>2. ASSUME NEW c \in Calls, NEW req \in Requests, OthersSend(c, req)
        PROVE  CopyKept /\ Onward
    <2>1. Plain /\ UNCHANGED page
      BY <1>0, <1>2, PlainSteps, SessionsAssumption DEF OthersSend
    <2> QED
      BY <1>1, <2>1, QuietCopy
  <1>3. ASSUME NEW s \in Sessions, Click(s) PROVE CopyKept /\ Onward
    BY <1>0, <1>1, <1>3, ClickCopy, ClickOnward
  <1>4. ASSUME NEW s \in Sessions, Draw(s) PROVE CopyKept /\ Onward
    <2>1. Plain /\ \A t \in Sessions : page'[t].selected = page[t].selected
                                       /\ page'[t].call = page[t].call
      BY <1>0, <1>4 DEF Draw, Turn, Plain, apiVars, PageTyped, PageStates
    <2> QED
      BY <1>1, <2>1, QuietCopy
  <1>5. ASSUME NEW s \in Sessions, NEW c \in Calls, TakeAnswer(s, c) PROVE CopyKept /\ Onward
    BY <1>5, TakeAnswerCopy DEF Onward, Concluded
  <1>6. ASSUME NEW s \in Sessions, NEW c \in Calls, Fails(s, c) PROVE CopyKept /\ Onward
    <2>1. Plain
      BY <1>0, <1>6, PlainSteps DEF Fails
    <2>2. \A t \in Sessions : /\ page'[t].selected = page[t].selected
                              /\ page'[t].call = page[t].call \/ page'[t].call = NoCall
      BY <1>0, <1>6 DEF Fails, Turn, PageTyped, PageStates
    <2> QED
      BY <1>1, <2>1, <2>2, QuietCopy
  <1>7. ASSUME NEW c \in Calls, ServerStep(c) PROVE CopyKept /\ Onward
    BY <1>1, <1>7, ServeCopy DEF ServerStep, pageVars
  <1>8. ASSUME NEW c \in Calls, Discard(c) PROVE CopyKept /\ Onward
    BY <1>0, <1>1, <1>8, PlainSteps, QuietCopy DEF Discard, pageVars
  <1>9. CASE Crash /\ UNCHANGED pageVars
    <2>0. \A d \in Calls : call'[d] = call[d] \/ call'[d].pc = "lost"
      BY <1>9 DEF Crash
    <2>1. \A d \in Calls : Told(d)' => Told(d) /\ call'[d] = call[d]
      BY <2>0 DEF Told, At, Req
    <2>2. \A t \in Sessions : Busy(t) => page[t].call \in Calls
      BY <1>0, PageTypes
    <2>3. CopyKept
      BY <1>9, <2>1, <2>2 DEF CopyKept, CopyInv, RowsTrue, CopyTrue, Busy, Crash, pageVars
    <2> QED
      BY <1>1, <1>9, <2>3 DEF pageVars
  <1>10. CASE UNCHANGED vars
    BY <1>0, <1>1, <1>10, PlainSteps, QuietCopy DEF vars, pageVars, Plain, apiVars
  <1> QED
    BY <1>2, <1>3, <1>4, <1>5, <1>6, <1>7, <1>8, <1>9, <1>10 DEF Next

\* At the start no page knows anything.
LEMMA CopyInvInit == Init => CopyInv
  <1> SUFFICES ASSUME Init PROVE CopyInv
    OBVIOUS
  <1>1. RowsTrue
    BY FreeTyped DEF Init, ApiInit, RowsTrue, Told, At
  <1>2. \A s \in Sessions : CopyTrue(s)
    BY DEF Init, CopyTrue, NewPage, NoRow, None, Concluded
  <1> QED
    BY <1>1, <1>2, PageInvInit DEF CopyInv

\* For any number of sessions and calls in flight: a run the page shows as decided
\* never waits for a decision on it again, however late an answer comes.
THEOREM CopyNeverGoesBackHolds == Spec => CopyNeverGoesBack
  <1>1. CopyInv /\ [Next]_vars => CopyInv' /\ Onward
    BY CopyStep, PageInvStep DEF CopyInv, CopyKept
  <1>2. Onward => \A s \in Sessions :
                     /\ page[s].selected.status \in Concluded
                     /\ page'[s].selected.run = page[s].selected.run
                     => page'[s].selected.status # "waiting_approval"
    BY DEF Onward
  <1> QED
    BY <1>1, <1>2, CopyInvInit, PTL DEF Spec, CopyNeverGoesBack

-----------------------------------------------------------------------------
(* A reviewer who waits for his answers never races *)

\* A decision of a session that is not carried out yet is one it waits for or gave up;
\* so is one the server has not taken up.
Patient(s) ==
    /\ \A r \in Runs : \A v \in run[r].verdicts : v.from = s =>
          \/ r \in gaveUp[s]
          \/ run[r].status \in Concluded
          \/ r \in Abandoned(s) /\ call[page[s].call].pc \in {"deciding", "lost"}
    /\ \A c \in Calls : At(c, "sent") /\ Req(c).op = "resume" /\ Req(c).from = s =>
          page[s].call = c \/ Req(c).run \in gaveUp[s]
    /\ \A r \in Runs :
          run[r].contested /\ (\A v \in run[r].verdicts : v.from = s) => r \in gaveUp[s]

\* The inductive invariant behind PatientReviewerNeverRaces.
PatientInv == PageInv /\ \A s \in Sessions : Patient(s)

\* A step that leaves the rows alone keeps a session patient, if what it stops
\* waiting for is answered or given up.
LEMMA PatientStep ==
    ASSUME PatientInv, NEW t \in Sessions, UNCHANGED run, gaveUp[t] \subseteq gaveUp'[t],
           \/ Abandoned(t) \subseteq gaveUp'[t]
           \/ page'[t].call = page[t].call
              /\ (Busy(t) => call'[page[t].call] = call[page[t].call])
           \/ Busy(t) /\ At(page[t].call, "answered"),
           \A d \in Calls : \/ call'[d] = call[d] \/ call'[d].pc = "free"
                            \/ /\ call'[d].pc = "sent"
                               /\ call'[d].req.from = t => page'[t].call = d
    PROVE  Patient(t)'
  <1>0. Patient(t)
    BY DEF PatientInv
  <1>1. ASSUME NEW r \in Runs, NEW v \in run[r].verdicts, v.from = t
        PROVE  \/ r \in gaveUp'[t] \/ run'[r].status \in Concluded
               \/ r \in Abandoned(t)' /\ call'[page'[t].call].pc \in {"deciding", "lost"}
    <2>1. \/ r \in gaveUp[t] \/ run[r].status \in Concluded
          \/ r \in Abandoned(t) /\ call[page[t].call].pc \in {"deciding", "lost"}
      BY <1>0, <1>1 DEF Patient
    <2>2. CASE r \in Abandoned(t) /\ call[page[t].call].pc \in {"deciding", "lost"}
      <3>1. Busy(t)
        BY <2>2 DEF Abandoned
      <3>2. \/ r \in gaveUp'[t]
            \/ page'[t].call = page[t].call /\ call'[page[t].call] = call[page[t].call]
        BY <2>2, <3>1 DEF At
      <3> QED
        BY <2>2, <3>1, <3>2 DEF Abandoned, Busy, Req
    <2> QED
      BY <2>1, <2>2
  <1>2. ASSUME NEW d \in Calls, At(d, "sent")', Req(d)'.op = "resume", Req(d)'.from = t
        PROVE  page'[t].call = d \/ Req(d)'.run \in gaveUp'[t]
    <2>1. CASE call'[d] = call[d]
      <3>1. page[t].call = d \/ Req(d).run \in gaveUp[t]
        BY <1>0, <1>2, <2>1 DEF Patient, At, Req
      <3>2. CASE page[t].call = d
        <4>1. Busy(t) /\ ~At(d, "answered") /\ Req(d).op = "resume"
          BY <1>2, <2>1, <3>2, PageTypes DEF At, Req, PatientInv, PageInv
        <4>2. Req(d).run \in Abandoned(t)
          BY <3>2, <4>1 DEF Abandoned
        <4> QED
          BY <2>1, <3>2, <4>1, <4>2 DEF Req
      <3> QED
        BY <2>1, <3>1, <3>2 DEF Req
    <2> QED
      BY <1>2, <2>1 DEF At, Req
  <1>3. ASSUME NEW r \in Runs, run[r].contested, \A v \in run[r].verdicts : v.from = t
        PROVE  r \in gaveUp'[t]
    BY <1>0, <1>3 DEF Patient
  <1> QED
    BY <1>1, <1>2, <1>3 DEF Patient

\* Every session after the step.
PatientKept == \A t \in Sessions : Patient(t)'

\* A step of one session that stops waiting for an answer or gives it up.
LEMMA SessionLeaves ==
    ASSUME PatientInv, NEW s \in Sessions, UNCHANGED run,
           gaveUp[s] \subseteq gaveUp'[s],
           \A t \in Sessions \ {s} : page'[t] = page[t] /\ gaveUp'[t] = gaveUp[t],
           \A t \in Sessions \ {s} : Busy(t) => call'[page[t].call] = call[page[t].call],
           \/ Abandoned(s) \subseteq gaveUp'[s]
           \/ page'[s].call = page[s].call
              /\ (Busy(s) => call'[page[s].call] = call[page[s].call])
           \/ Busy(s) /\ At(page[s].call, "answered"),
           \A d \in Calls : \/ call'[d] = call[d] \/ call'[d].pc = "free"
                            \/ /\ call'[d].pc = "sent"
                               /\ call'[d].req.from = s /\ page'[s].call = d
    PROVE  PatientKept
  <1>1. Patient(s)'
    BY PatientStep
  <1>2. ASSUME NEW t \in Sessions \ {s} PROVE Patient(t)'
    BY PatientStep
  <1> QED
    BY <1>1, <1>2 DEF PatientKept

\* Giving up adds to what was given up.
LEMMA AbandonAdds ==
    ASSUME PageTyped, NEW s \in Sessions, Abandon(s)
    PROVE  /\ gaveUp[s] \subseteq gaveUp'[s] /\ Abandoned(s) \subseteq gaveUp'[s]
           /\ \A t \in Sessions \ {s} : gaveUp'[t] = gaveUp[t]
  BY DEF PageTyped, Abandon

\* Clicks keep sessions patient.
LEMMA ClickPatient ==
    ASSUME PatientInv, NEW s \in Sessions, Click(s)
    PROVE  PatientKept
  <1>0. PageInv /\ PageTyped
    BY DEF PatientInv, PageInv
  <1>1. Clicked(s) /\ Abandon(s)
    BY <1>0, ClickDoes
  <1>2. /\ gaveUp[s] \subseteq gaveUp'[s] /\ Abandoned(s) \subseteq gaveUp'[s]
        /\ \A t \in Sessions \ {s} : gaveUp'[t] = gaveUp[t]
    BY <1>0, <1>1, AbandonAdds
  <1>3. ASSUME NEW p, page' = [page EXCEPT ![s] = p], UNCHANGED apiVars
        PROVE  PatientKept
    <2>1. \A t \in Sessions \ {s} : page'[t] = page[t]
      BY <1>0, <1>3 DEF PageTyped
    <2> QED
      BY <1>2, <1>3, <2>1, SessionLeaves DEF apiVars
  <1>4. ASSUME NEW p, p = page[s] \/ p \in PageStates, NEW op, NEW r, Sent(s, p, op, r)
        PROVE  PatientKept
    <2>1. PICK c \in Calls, req \in AnyRequest :
             /\ Send(c, req) /\ req.from = s
             /\ page' = [page EXCEPT ![s] = [p EXCEPT !.call = c]]
      BY <1>4 DEF Sent
    <2>2. /\ call'[c].pc = "sent" /\ call'[c].req = req /\ UNCHANGED run
          /\ \A d \in Calls \ {c} : call'[d] = call[d]
          /\ call[c].pc = "free"
      BY <1>0, <2>1, SendKeepsAwaited
    <2>3. p \in PageStates
      BY <1>0, <1>4 DEF PageTyped
    <2>4. page'[s].call = c /\ \A t \in Sessions \ {s} : page'[t] = page[t]
      BY <1>0, <2>1, <2>3 DEF PageTyped, PageStates
    <2>5. \A t \in Sessions : Busy(t) => call'[page[t].call] = call[page[t].call]
      BY <1>0, <2>2, PageTypes DEF PageInv, SessionOK
    <2> QED
      BY <1>2, <2>1, <2>2, <2>4, <2>5, SessionLeaves
  <1>5. CASE \E o \in Organizations :
                /\ page' = [page EXCEPT ![s] = [page[s] EXCEPT !.org = o,
                               !.shown = page[s].selected, !.drawn = TRUE, !.call = NoCall]]
                /\ UNCHANGED apiVars
    <2>1. PICK o \in Organizations :
             page' = [page EXCEPT ![s] = [page[s] EXCEPT !.org = o,
                               !.shown = page[s].selected, !.drawn = TRUE, !.call = NoCall]]
      BY <1>5
    <2> DEFINE p == [page[s] EXCEPT !.org = o, !.shown = page[s].selected, !.drawn = TRUE,
                                    !.call = NoCall]
    <2>2. page' = [page EXCEPT ![s] = p] /\ UNCHANGED apiVars
      BY <1>5, <2>1
    <2> HIDE DEF p
    <2> QED
      BY <1>3, <2>2
  <1>6. CASE \E o \in Organizations :
                page' = [page EXCEPT ![s] = NewPage(o)] /\ UNCHANGED apiVars
    BY <1>3, <1>6
  <1> DEFINE d == [page[s] EXCEPT !.shown = page[s].selected, !.drawn = TRUE]
             e == [page[s] EXCEPT !.shown = page[s].selected, !.drawn = TRUE, !.call = NoCall]
  <1>7. CASE Sent(s, d, "resume", page[s].selected.run)
    <2>1. d \in PageStates
      BY <1>0 DEF PageTyped, PageStates
    <2> HIDE DEF d
    <2> QED
      BY <1>4, <1>7, <2>1
  <1>8. CASE page' = [page EXCEPT ![s] = e] /\ UNCHANGED apiVars
    <2> HIDE DEF e
    <2> QED
      BY <1>3, <1>8
  <1>9. CASE \/ Sent(s, page[s], "upload", NoRun) \/ Sent(s, page[s], "list", NoRun)
             \/ \E r \in Runs : Sent(s, page[s], "get", r)
    BY <1>4, <1>9
  <1> QED
    BY <1>1, <1>5, <1>6, <1>7, <1>8, <1>9 DEF Clicked

\* Closing the connection a session waits on, or one nobody waits on.
LEMMA CloseFrees ==
    ASSUME PageInv, NEW c \in Calls, Close(c)
    PROVE  /\ \A d \in Calls \ {c} : call'[d] = call[d]
           /\ call'[c].pc = "free" /\ UNCHANGED run
           /\ \A t \in Sessions : Busy(t) /\ page[t].call # c =>
                 call'[page[t].call] = call[page[t].call]
  <1>1. /\ \A d \in Calls \ {c} : call'[d] = call[d]
        /\ call'[c].pc = "free" /\ UNCHANGED run
    BY FreeTyped DEF Close, Become, PageInv, StagedInv, ApiInv, ApiTypeOK
  <1>2. \A t \in Sessions : Busy(t) => page[t].call \in Calls
    BY PageTypes DEF PageInv
  <1> QED
    BY <1>1, <1>2

\* No two sessions wait on one connection.
LEMMA OneWaiter ==
    ASSUME PageInv, NEW s \in Sessions, NEW t \in Sessions \ {s}, NEW c \in Calls,
           page[s].call = c
    PROVE  page[t].call # c
  <1>1. Busy(s) /\ Req(c).from = s
    BY PageTypes DEF PageInv, SessionOK
  <1>2. page[t].call = c => Busy(t) /\ Req(c).from = t
    BY PageTypes DEF PageInv, SessionOK
  <1> QED
    BY <1>1, <1>2

\* So do answers.
LEMMA TakeAnswerPatient ==
    ASSUME PatientInv, NEW s \in Sessions, NEW c \in Calls, TakeAnswer(s, c)
    PROVE  PatientKept
  <1>0. PageInv /\ PageTyped
    BY DEF PatientInv, PageInv
  <1>1. page[s].call = c /\ At(c, "answered") /\ Busy(s) /\ Close(c) /\ UNCHANGED gaveUp
    BY <1>0, PageTypes DEF TakeAnswer, Awaits, Succeeded
  <1>2. \A t \in Sessions \ {s} : page'[t] = page[t]
    BY <1>0 DEF TakeAnswer, Turn, PageTyped
  <1>3. \A t \in Sessions \ {s} : Busy(t) => call'[page[t].call] = call[page[t].call]
    BY <1>0, <1>1, CloseFrees, OneWaiter
  <1> QED
    BY <1>0, <1>1, <1>2, <1>3, CloseFrees, SessionLeaves

\* And failures: a decision without an answer counts as given up.
LEMMA FailsPatient ==
    ASSUME PatientInv, NEW s \in Sessions, NEW c \in Calls, Fails(s, c)
    PROVE  PatientKept
  <1>0. PageInv /\ PageTyped
    BY DEF PatientInv, PageInv
  <1>1. page[s].call = c /\ Busy(s) /\ (Close(c) \/ UNCHANGED apiVars)
        /\ ((At(c, "answered") /\ UNCHANGED gaveUp) \/ Abandon(s))
    BY <1>0, PageTypes DEF Fails, Awaits
  <1>2. \A t \in Sessions \ {s} : page'[t] = page[t]
    BY <1>0 DEF Fails, Turn, PageTyped
  <1>3. /\ gaveUp[s] \subseteq gaveUp'[s]
        /\ \A t \in Sessions \ {s} : gaveUp'[t] = gaveUp[t]
        /\ Abandoned(s) \subseteq gaveUp'[s] \/ At(c, "answered")
    BY <1>0, <1>1, AbandonAdds
  <1>4. /\ \A t \in Sessions \ {s} : Busy(t) => call'[page[t].call] = call[page[t].call]
        /\ UNCHANGED run
        /\ \A d \in Calls : call'[d] = call[d] \/ call'[d].pc = "free"
    BY <1>0, <1>1, CloseFrees, OneWaiter DEF apiVars
  <1> QED
    BY <1>1, <1>2, <1>3, <1>4, SessionLeaves

\* Other clients are not these sessions.
LEMMA OthersPatient ==
    ASSUME PatientInv, NEW c \in Calls, NEW req \in Requests, OthersSend(c, req)
    PROVE  PatientKept
  <1>0. PageInv /\ req \in AnyRequest
    BY SessionsAssumption DEF PatientInv
  <1>1. /\ call'[c].pc = "sent" /\ call'[c].req = req /\ UNCHANGED run
        /\ \A d \in Calls \ {c} : call'[d] = call[d]
        /\ call[c].pc = "free" /\ req.from \notin Sessions /\ UNCHANGED <<page, gaveUp>>
    BY <1>0, SendKeepsAwaited DEF OthersSend
  <1>2. ASSUME NEW t \in Sessions PROVE Patient(t)'
    <2>1. Busy(t) => call'[page[t].call] = call[page[t].call]
      BY <1>0, <1>1, PageTypes DEF PageInv, SessionOK
    <2> QED
      BY <1>1, <2>1, PatientStep
  <1> QED
    BY <1>2 DEF PatientKept

\* Only taking up a decision adds to what a run notes.
LEMMA ServeVerdicts ==
    ASSUME StagedInv, NEW c \in Calls, Serve(c), NEW r \in Runs
    PROVE  \/ run'[r].verdicts = run[r].verdicts /\ run'[r].contested = run[r].contested
           \/ /\ Accepts(c) /\ r = Req(c).run
              /\ run'[r].verdicts = run[r].verdicts \cup {Verdict(Req(c))}
              /\ run'[r].contested = (run[r].verdicts # {})
  BY ServeDoes DEF Answers, Accepts, Concludes, Starts, Finishes, StatusBecomes

\* A call a session waits for is left alone by what is served elsewhere, and a decision
\* that is being served is carried out.
LEMMA ServeAwaited ==
    ASSUME PageInv, NEW c \in Calls, Serve(c), UNCHANGED page, NEW t \in Sessions,
           NEW r \in Runs, r \in Abandoned(t),
           call[page[t].call].pc \in {"deciding", "lost"}
    PROVE  \/ r \in Abandoned(t)' /\ call'[page[t].call].pc \in {"deciding", "lost"}
           \/ run'[r].status \in Concluded
  <1>0. StagedInv
    BY DEF PageInv
  <1>1. Busy(t) /\ r = Req(page[t].call).run /\ page[t].call \in Calls
        /\ Req(page[t].call).op = "resume"
    BY PageTypes DEF Abandoned, PageInv
  <1>2. CASE page[t].call # c
    <2>1. call'[page[t].call] = call[page[t].call]
      BY <1>0, <1>1, <1>2, ServeDoes
         DEF Answers, Accepts, Concludes, Starts, Finishes, Moves
    <2> QED
      BY <1>1, <2>1 DEF Abandoned, Busy, Req
  <1>3. CASE page[t].call = c
    <2>1. Concludes(c)
      BY <1>0, <1>3, ServeDoes DEF Answers, Accepts, Starts, Finishes, At
    <2> QED
      BY <1>1, <1>3, <2>1 DEF Concludes, StatusBecomes
  <1> QED
    BY <1>2, <1>3

\* The server keeps sessions patient: a second decision of one session is taken up
\* only if it stopped waiting for the first.
LEMMA ServePatient ==
    ASSUME PatientInv, NEW c \in Calls, Serve(c), UNCHANGED pageVars, NEW t \in Sessions
    PROVE  Patient(t)'
  <1>0. PageInv /\ StagedInv /\ Patient(t) /\ UNCHANGED <<page, gaveUp>>
    BY DEF PatientInv, PageInv, pageVars
  <1>1. \A d \in Calls : At(d, "sent")' => call'[d] = call[d]
    BY <1>0, ServeDoes DEF Answers, Accepts, Concludes, Starts, Finishes, Moves, At
  <1>2. ASSUME Accepts(c)
        PROVE  /\ call'[c].pc = "deciding" /\ call'[c].req = call[c].req
               /\ At(c, "sent") /\ Req(c).op = "resume" /\ Req(c).run \in Runs
               /\ run[Req(c).run].status = "waiting_approval"
    BY <1>2 DEF Accepts, Moves
  <1>3. ASSUME NEW r \in Runs, NEW v \in run[r].verdicts, v.from = t
        PROVE  \/ r \in gaveUp[t] \/ run'[r].status \in Concluded
               \/ r \in Abandoned(t)' /\ call'[page[t].call].pc \in {"deciding", "lost"}
    <2>1. \/ r \in gaveUp[t] \/ run[r].status \in Concluded
          \/ r \in Abandoned(t) /\ call[page[t].call].pc \in {"deciding", "lost"}
      BY <1>0, <1>3 DEF Patient
    <2> QED
      BY <1>0, <2>1, ServeSettles, ServeAwaited
  <1>4. ASSUME NEW r \in Runs, NEW v \in run'[r].verdicts, v.from = t
        PROVE  \/ r \in gaveUp'[t] \/ run'[r].status \in Concluded
               \/ r \in Abandoned(t)' /\ call'[page'[t].call].pc \in {"deciding", "lost"}
    <2>1. CASE v \in run[r].verdicts
      BY <1>0, <1>3, <1>4, <2>1
    <2>2. CASE v \notin run[r].verdicts
      <3>1. Accepts(c) /\ r = Req(c).run /\ v = Verdict(Req(c))
        BY <1>0, <1>4, <2>2, ServeVerdicts
      <3>2. Req(c).from = t
        BY <1>4, <3>1 DEF Verdict
      <3>3. page[t].call = c \/ r \in gaveUp[t]
        BY <1>0, <1>2, <3>1, <3>2 DEF Patient
      <3>4. CASE page[t].call = c
        BY <1>0, <1>2, <3>1, <3>4, NumbersApart DEF Abandoned, Busy, Req
      <3> QED
        BY <1>0, <3>3, <3>4
    <2> QED
      BY <2>1, <2>2
  <1>5. ASSUME NEW d \in Calls, At(d, "sent")', Req(d)'.op = "resume", Req(d)'.from = t
        PROVE  page'[t].call = d \/ Req(d)'.run \in gaveUp'[t]
    BY <1>0, <1>1, <1>5 DEF Patient, At, Req
  <1>6. ASSUME NEW r \in Runs, run'[r].contested, \A v \in run'[r].verdicts : v.from = t
        PROVE  r \in gaveUp'[t]
    <2>1. CASE run'[r].verdicts = run[r].verdicts /\ run'[r].contested = run[r].contested
      BY <1>0, <1>6, <2>1 DEF Patient
    <2>2. CASE /\ Accepts(c) /\ r = Req(c).run
               /\ run'[r].verdicts = run[r].verdicts \cup {Verdict(Req(c))}
               /\ run'[r].contested = (run[r].verdicts # {})
      <3>1. PICK w \in run[r].verdicts : w.from = t
        BY <1>6, <2>2
      <3>2. Req(c).from = t
        <4>1. Verdict(Req(c)) \in run'[r].verdicts
          BY <2>2
        <4>2. Verdict(Req(c)).from = t
          BY <1>6, <4>1
        <4> QED
          BY <4>2 DEF Verdict
      <3>3. page[t].call = c \/ r \in gaveUp[t]
        BY <1>0, <1>2, <2>2, <3>2 DEF Patient
      <3>4. r \in gaveUp[t] \/ call[page[t].call].pc \in {"deciding", "lost"}
        BY <1>0, <1>2, <2>2, <3>1 DEF Patient, Concluded
      <3> QED
        BY <1>0, <1>2, <2>2, <3>3, <3>4 DEF At
    <2> QED
      BY <1>0, <2>1, <2>2, ServeVerdicts
  <1> QED
    BY <1>4, <1>5, <1>6 DEF Patient

\* A crash does too: the lost decision is still waited for.
LEMMA CrashPatient ==
    ASSUME PatientInv, Crash, UNCHANGED pageVars, NEW t \in Sessions
    PROVE  Patient(t)'
  <1>0. PageInv /\ Patient(t) /\ UNCHANGED <<page, gaveUp, run>>
    BY DEF PatientInv, pageVars, Crash
  <1>1. \A d \in Calls : \/ call'[d] = call[d]
                         \/ call'[d].pc = "lost" /\ call'[d].req = call[d].req
    BY DEF Crash, Req
  <1>2. ASSUME NEW r \in Abandoned(t), call[page[t].call].pc \in {"deciding", "lost"}
        PROVE  r \in Abandoned(t)' /\ call'[page'[t].call].pc \in {"deciding", "lost"}
    <2>1. Busy(t) /\ page[t].call \in Calls
      BY <1>0, <1>2, PageTypes DEF Abandoned, PageInv
    <2>2. call'[page[t].call].req = call[page[t].call].req
          /\ call'[page[t].call].pc \in {"deciding", "lost"}
      BY <1>1, <1>2, <2>1
    <2> QED
      BY <1>0, <1>2, <2>1, <2>2 DEF Abandoned, Busy, Req
  <1>3. \A d \in Calls : At(d, "sent")' => call'[d] = call[d]
    BY <1>1 DEF At
  <1> QED
    BY <1>0, <1>2, <1>3 DEF Patient, At, Req

\* The invariant is inductive.
LEMMA PatientInvStep == PatientInv /\ [Next]_vars => PatientInv'
  <1> SUFFICES ASSUME PatientInv, [Next]_vars PROVE PatientKept
    BY PageInvStep DEF PatientInv, PatientKept
  <1>0. PageInv
    BY DEF PatientInv
  <1>1. ASSUME NEW s \in Sessions, Draw(s) PROVE PatientKept
    <2>1. /\ UNCHANGED <<run, call, gaveUp>> /\ page'[s].call = page[s].call
          /\ \A t \in Sessions \ {s} : page'[t] = page[t]
      BY <1>0, <1>1 DEF Draw, Turn, apiVars, PageInv, PageTyped, PageStates
    <2> QED
      BY <1>1, <2>1, SessionLeaves
  <1>2. ASSUME NEW c \in Calls, Discard(c) PROVE PatientKept
    <2>1. /\ \A d \in Calls : call'[d] = call[d] \/ call'[d].pc = "free"
          /\ \A t \in Sessions : Busy(t) => call'[page[t].call] = call[page[t].call]
          /\ UNCHANGED <<run, page, gaveUp>>
      BY <1>0, <1>2, CloseFrees DEF Discard, Awaits, pageVars
    <2> QED
      BY <2>1, PatientStep DEF PatientKept
  <1>3. CASE UNCHANGED vars
    <2>1. UNCHANGED <<run, call, page, gaveUp>>
      BY <1>3 DEF vars, apiVars, pageVars
    <2> QED
      BY <2>1, PatientStep DEF PatientKept
  <1> QED
    BY <1>1, <1>2, <1>3, ClickPatient, OthersPatient, TakeAnswerPatient, FailsPatient,
       ServePatient, CrashPatient DEF Next, ServerStep, PatientKept

\* And holds at the start.
LEMMA PatientInvInit == Init => PatientInv
  <1> SUFFICES ASSUME Init, NEW s \in Sessions PROVE Patient(s)
    BY PageInvInit DEF PatientInv
  <1>1. \A r \in Runs : run[r].verdicts = {} /\ ~run[r].contested
    BY DEF Init, ApiInit, NoRecord
  <1>2. \A c \in Calls : call[c].pc = "free"
    BY FreeTyped DEF Init, ApiInit
  <1> QED
    BY <1>1, <1>2 DEF Patient, At

\* For any number of sessions: two decisions of one person meet on a run only if
\* that person stopped waiting for the first one's answer (streamlit_app.py never
\* sends a decision twice).
THEOREM PatientReviewerNeverRacesHolds == Spec => []PatientReviewerNeverRaces
  <1>1. PatientInv => PatientReviewerNeverRaces
    BY DEF PatientInv, Patient, PatientReviewerNeverRaces
  <1> QED
    BY <1>1, PatientInvInit, PatientInvStep, PTL DEF Spec

=============================================================================
