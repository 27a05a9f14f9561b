------------------------------ MODULE WebClient ------------------------------
(***************************************************************************)
(* One browser tab of the web client.  A tenant provider switches between  *)
(* the organisations of the user (apps/web/src/components/providers.tsx,   *)
(* lib/tenant-transition.ts): every switch begins a new epoch, and a       *)
(* request that was sent in an earlier epoch is rejected (lib/api.ts).     *)
(* The Trade Room page (app/trade/[tradeId]/trade-page-client.tsx) shows   *)
(* the objects of a trade: it loads them anew whenever the event stream    *)
(* has delivered an event (features/trade/use-trade-workflow.ts), and the  *)
(* handlers of its buttons make one call of the API after the other and    *)
(* then read the objects again.  Events go from a trigger of the database  *)
(* through the EventHub of the API (services/events.ts) to the stream;     *)
(* what happens while a tab is not subscribed is not told to it later.     *)
(*                                                                         *)
(* The objects of an organisation's trade are the kinds that exist, which  *)
(* is all that the handlers look at.                                       *)
(***************************************************************************)
EXTENDS Naturals, Sequences, FiniteSets

CONSTANTS
  Org,        \* the organisations there may be
  Click,      \* handlers that may be running at the same time
  MaxEpoch,   \* bound: switches of the tenant
  MaxEvents,  \* the length at which the list of events is cut: 200
  Handler,    \* the buttons the user presses
  Foreign,    \* the kinds that other users of the organisation create
  Stocked,    \* the kinds that a trade has at first
  MaxInFlight,\* bound: events on their way to the tab
  None

Kind == {"trade_room", "document", "extraction_result", "clearance_check",
         "readiness_state", "payment_intent", "agent_work_result", "approval",
         "decision", "execution_task", "task_update", "proof_bundle",
         "document_pack", "external_access_grant", "document_request",
         "submission", "answer", "standalone"}
Handlers ==
  {"refresh", "ai", "document", "upload", "doc_pack", "payment",
   "attach_candidate", "story", "proof", "agent", "approval", "decision",
   "task", "access", "doc_request", "doc_submit"}

ASSUME EpochAssumption == MaxEpoch \in Nat
ASSUME EventsAssumption == MaxEvents \in Nat \ {0}
ASSUME HandlerAssumption == Handler \subseteq Handlers
ASSUME KindAssumption == Foreign \subseteq Kind /\ Stocked \subseteq Kind
ASSUME FlightAssumption == MaxInFlight \in Nat
ASSUME NoneAssumption == None \notin Org \cup Kind \cup Handlers

VARIABLES
  \* the tenant provider
  epoch,      \* TenantTransitionState.epoch, and requestEpoch of the API client
  visible,    \* visibleOrgId
  pending,    \* pendingOrgId
  resuming,   \* the epochs of the transitions that await cancelQueries
  orgs,       \* the organisations it has listed
  saved,      \* localStorage traibox_org_id
  listing,    \* the epoch in which refreshOrgs has asked for the list
  csrf,       \* a CSRF token is remembered
  \* the page that React has mounted
  shown,      \* the snapshot it was rendered with: the render key
  view,       \* alphaObjects, and whose they are
  loading,    \* alphaLoading
  loads,      \* loads of the effect that may still set alphaObjects
  stream,     \* the EventSource
  inbox,      \* events that are on their way to it
  events,     \* wf.events.length
  excuse,     \* a reason for which the page may have missed a change
  click,      \* the handlers
  \* the API
  member,     \* the organisations of the user
  stock       \* the objects of the trade in each organisation

tenant == <<epoch, visible, pending, resuming, saved>>
provider == <<orgs, listing>>
page == <<shown, view, loading, loads, stream, inbox, events, excuse>>
server == <<member, stock>>
vars == <<tenant, provider, csrf, page, click, server>>

Nobody == [org |-> None, kinds |-> {}]
Idle == [at |-> "idle"]

Init ==
  /\ epoch = 0
  /\ visible = None
  /\ pending = None
  /\ resuming = {}
  /\ orgs = {}
  /\ saved \in Org \cup {None}
  /\ listing = 0
  /\ csrf = TRUE
  /\ shown = [epoch |-> 0, org |-> None]
  /\ view = Nobody
  /\ loading = None
  /\ loads = {}
  /\ stream = "closed"
  /\ inbox = 0
  /\ events = 0
  /\ excuse = FALSE
  /\ click = [c \in Click |-> Idle]
  /\ member \in SUBSET Org
  /\ stock = [o \in Org |-> Stocked]

\* Mutant: the response is taken as it comes.
AnyResponse(e) == TRUE

\* assertCurrentTenantRequest: the response of an earlier epoch is rejected.
Current(e) == e = epoch
-----------------------------------------------------------------------------
(* Tenants                                                                  *)

\* executeTenantTransition up to its await; nothing for the visible tenant
BeginSwitch(o) ==
  IF visible = o /\ pending = None
  THEN UNCHANGED tenant
  ELSE /\ epoch < MaxEpoch
       /\ epoch' = epoch + 1
       /\ visible' = None
       /\ pending' = o
       /\ resuming' = resuming \cup {epoch + 1}
       /\ UNCHANGED saved

\* setOrgId, as the page was rendered: an organisation that was not listed by
\* then counts as none.
Selected(o, listed) == IF o \in listed THEN o ELSE None

SelectOrg(o) ==
  /\ ~(visible = o /\ pending = None)
  /\ BeginSwitch(Selected(o, orgs))
  /\ UNCHANGED <<provider, csrf, page, click, server>>

\* Mutant: the transition that resumes last commits.
CommitAny(e) == TRUE

\* TenantTransitionState.commit: only the latest transition does.
Commits(e) == e = epoch

Resume(e) ==
  /\ resuming' = resuming \ {e}
  /\ IF Commits(e)
     THEN /\ visible' = pending
          /\ pending' = None
          /\ saved' = pending
     ELSE UNCHANGED <<visible, pending, saved>>
  /\ UNCHANGED <<epoch, provider, csrf, page, click, server>>

RefreshOrgs ==
  /\ listing = None
  /\ listing' = epoch
  /\ UNCHANGED <<tenant, orgs, csrf, page, click, server>>

\* reconcileOrganizationSelection of the visible or else the saved tenant
Reconciled(listed) ==
  LET current == IF visible # None THEN visible ELSE saved IN
  IF current \in listed THEN {current}
  ELSE IF listed = {} THEN {None} ELSE listed

AnswerOrgs ==
  /\ listing # None
  /\ listing' = None
  /\ IF Current(listing)
     THEN /\ orgs' = member
          /\ \E o \in Reconciled(member) : BeginSwitch(o)
     ELSE UNCHANGED <<tenant, orgs>>
  /\ UNCHANGED <<csrf, page, click, server>>

\* The session is found to have ended, in this tab or in another one.
LoseCsrf ==
  /\ csrf
  /\ csrf' = FALSE
  /\ UNCHANGED <<tenant, provider, page, click, server>>
-----------------------------------------------------------------------------
(* The page                                                                 *)

\* Mutant: the subtree is kept, whatever the tenant.
SameSubtree(s) == TRUE

\* tenantRenderKey: React keeps the subtree, and its state, only for the same.
Kept(s) == s = shown

NewLoad == [org |-> shown.org, epoch |-> epoch, got |-> None]

\* React renders the snapshot that was applied last.
Render ==
  LET s == [epoch |-> epoch, org |-> visible] IN
  /\ s # shown
  /\ shown' = s
  /\ IF Kept(s)
     THEN UNCHANGED <<view, loading, loads, stream, inbox, events, excuse>>
     ELSE /\ view' = Nobody
          /\ loading' = None
          /\ loads' = IF visible = None THEN {}
                      ELSE {[org |-> visible, epoch |-> epoch, got |-> None]}
          /\ stream' = IF visible = None THEN "closed" ELSE "opening"
          /\ inbox' = 0
          /\ events' = 0
          /\ excuse' = FALSE
  /\ UNCHANGED <<tenant, provider, csrf, click, server>>

\* GET /v1/events: the API has subscribed the tab.
OpenStream ==
  /\ stream = "opening"
  /\ stream' = "open"
  /\ UNCHANGED <<tenant, provider, csrf, shown, view, loading, loads, inbox,
                 events, excuse, click, server>>

\* The connection breaks; the browser connects again, and misses what is under
\* way or happens meanwhile.
DropStream ==
  /\ stream = "open"
  /\ stream' = "opening"
  /\ inbox' = 0
  /\ excuse' = (excuse \/ inbox > 0)
  /\ UNCHANGED <<tenant, provider, csrf, shown, view, loading, loads, events,
                 click, server>>

\* The objects of the trade; the page also shows some that have none.
OfTrade(kinds) == kinds \ {"standalone"}

\* A change of the trade commits: NOTIFY, EventHub.broadcast, the stream, which
\* tells the tab of this trade alone.
Publish(o, k) ==
  IF shown.org # o \/ k = "standalone" THEN UNCHANGED <<inbox, excuse>>
  ELSE IF stream = "open" THEN inbox' = inbox + 1 /\ UNCHANGED excuse
  ELSE excuse' = TRUE /\ UNCHANGED inbox

Change(o, k) ==
  /\ inbox < MaxInFlight
  /\ stock' = [stock EXCEPT ![o] = @ \cup {k}]
  /\ Publish(o, k)

\* Another member of the organisation works on the trade.
ForeignChange(o, k) ==
  /\ Change(o, k)
  /\ UNCHANGED <<tenant, provider, csrf, shown, view, loading, loads, stream,
                 events, click, member>>

\* Mutant: the effect is cleaned up without a flag.
KeepAll(ls) == ls

\* The clean-up of the effect sets cancelled: the earlier load sets nothing.
Uncancelled(ls) == {}

\* onmessage: the list grows until it is full, and its length is what the
\* effect depends on.
ReceiveEvent ==
  /\ inbox > 0
  /\ inbox' = inbox - 1
  /\ IF events < MaxEvents
     THEN /\ events' = events + 1
          /\ loads' = Uncancelled(loads) \cup {NewLoad}
          /\ excuse' = FALSE
     ELSE excuse' = TRUE /\ UNCHANGED <<events, loads>>
  /\ UNCHANGED <<tenant, provider, csrf, shown, view, loading, stream, click,
                 server>>

ServeLoad(l) ==
  /\ l.got = None
  /\ loads' = (loads \ {l}) \cup {[l EXCEPT !.got = stock[l.org]]}
  /\ UNCHANGED <<tenant, provider, csrf, shown, view, loading, stream, inbox,
                 events, excuse, click, server>>

AnswerLoad(l) ==
  /\ l.got # None
  /\ Current(l.epoch)
  /\ loads' = loads \ {l}
  /\ view' = [org |-> l.org, kinds |-> l.got]
  /\ UNCHANGED <<tenant, provider, csrf, shown, loading, stream, inbox, events,
                 excuse, click, server>>

\* The request fails or is rejected: the page is emptied.
FailLoad(l) ==
  /\ loads' = loads \ {l}
  /\ view' = Nobody
  /\ excuse' = TRUE
  /\ UNCHANGED <<tenant, provider, csrf, shown, loading, stream, inbox, events,
                 click, server>>
-----------------------------------------------------------------------------
(* The handlers of the buttons: what each needs to see, and the objects it   *)
(* makes by one call after the other                                         *)

EnsureRoom(v) == IF "trade_room" \in v THEN <<>> ELSE <<"trade_room">>

ExtractReferenceDocument(v) ==
  EnsureRoom(v) \o <<"extraction_result">>
    \o (IF "clearance_check" \in v THEN <<>> ELSE <<"clearance_check">>)
    \o <<"readiness_state">>

\* Readiness is only evaluated for a text that could be extracted.
UploadDocument == {<<"extraction_result", "readiness_state">>, <<"document">>}

\* A payment is created outside the trade, attached, and evaluated.
AttachPayment(v) ==
  EnsureRoom(v) \o <<"standalone", "payment_intent", "readiness_state">>

\* The candidate is one of the objects outside the trade.
AttachCandidate(v) ==
  IF "standalone" \notin v THEN {}
  ELSE {EnsureRoom(v) \o <<k, "readiness_state">> :
          k \in {"payment_intent", "clearance_check"}}

RunCopilot == {<<"answer">>}

GenerateProof(v) == IF v = {} THEN {} ELSE {<<"proof_bundle">>}

LaunchAgent == {<<"agent_work_result">>}

CreateAccess == {<<"external_access_grant">>}

RequestDocument == {<<"document_request">>}

RequestApproval(v) ==
  IF "payment_intent" \in v THEN {<<"approval">>} ELSE {}

Awaiting(v) == "approval" \in v /\ "decision" \notin v

Decide(v) ==
  IF Awaiting(v) THEN {<<"decision", "readiness_state">>} ELSE {}

UpdateTask(v) == IF "execution_task" \in v THEN {<<"task_update">>} ELSE {}

SubmitDocument(v) ==
  IF "document_request" \in v THEN {<<"submission">>} ELSE {}

GeneratePack(v) ==
  IF v \cap {"document", "extraction_result"} # {} THEN {<<"document_pack">>}
  ELSE {}

\* continueReferenceStory does the first thing the page does not show.
Story(v) ==
  IF ~({"trade_room", "extraction_result"} \subseteq v) THEN "document"
  ELSE IF "payment_intent" \notin v THEN "payment"
  ELSE IF "agent_work_result" \notin v THEN "agent"
  ELSE IF "approval" \notin v THEN "approval"
  ELSE IF Awaiting(v) \/ "proof_bundle" \in v THEN None
  ELSE "proof"

Calls(h, v) ==
  CASE h = "refresh" -> {<<>>}
    [] h = "ai" -> RunCopilot
    [] h = "document" -> {ExtractReferenceDocument(v)}
    [] h = "upload" -> UploadDocument
    [] h = "doc_pack" -> GeneratePack(v)
    [] h = "payment" -> {AttachPayment(v)}
    [] h = "attach_candidate" -> AttachCandidate(v)
    [] h = "proof" -> GenerateProof(v)
    [] h = "agent" -> LaunchAgent
    [] h = "approval" -> RequestApproval(v)
    [] h = "decision" -> Decide(v)
    [] h = "task" -> UpdateTask(v)
    [] h = "access" -> CreateAccess
    [] h = "doc_request" -> RequestDocument
    [] h = "doc_submit" -> SubmitDocument(v)
    [] OTHER -> {}

\* A button is disabled while its own flag is set, the story's by any.
Pressable(n) == IF n = "story" THEN loading = None ELSE loading # n

Mounted(c) == click[c].page = shown

\* setAlphaLoading(null), which a page that is gone ignores
StopLoading(c) == loading' = IF Mounted(c) THEN None ELSE loading

\* The next call of a handler, made as soon as the last one has been answered;
\* the tenant is looked up after the CSRF token is at hand.  After the last
\* call the objects are read, which takes no token.
NextCall(r, todo) ==
  IF todo = <<>> THEN [r EXCEPT !.at = "reading", !.todo = todo, !.sent = epoch]
  ELSE IF csrf THEN [r EXCEPT !.at = "sent", !.todo = todo, !.sent = epoch]
  ELSE [r EXCEPT !.at = "token", !.todo = todo, !.sent = None]

Begun == [at |-> "idle", page |-> shown, began |-> epoch, todo |-> <<>>,
          sent |-> None, waited |-> FALSE, got |-> None]

Press(c, n) ==
  /\ click[c] = Idle
  /\ shown.org # None
  /\ Pressable(n)
  /\ LET h == IF n = "story" THEN Story(view.kinds) ELSE n IN
       /\ \E todo \in Calls(h, view.kinds) :
            click' = [click EXCEPT ![c] = NextCall(Begun, todo)]
       /\ loading' = h
  /\ UNCHANGED <<tenant, provider, csrf, shown, view, loads, stream, inbox,
                 events, excuse, server>>

\* csrfTokenForRequest loads the session again.
LoadToken(c) ==
  /\ click[c].at = "token"
  /\ csrf' = TRUE
  /\ click' = [click EXCEPT ![c].at = "sent", ![c].sent = epoch,
                            ![c].waited = TRUE]
  /\ UNCHANGED <<tenant, provider, page, server>>

\* The API carries out the call for the organisation the page was made for.
Serve(c) ==
  /\ click[c].at = "sent"
  /\ Change(click[c].page.org, Head(click[c].todo))
  /\ click' = [click EXCEPT ![c].at = "served"]
  /\ UNCHANGED <<tenant, provider, csrf, shown, view, loading, loads, stream,
                 events, member>>

\* refreshAlphaContext(null) clears the flag before the objects are read.
Answer(c) ==
  LET r == click[c] IN
  /\ r.at = "served"
  /\ Current(r.sent)
  /\ click' = [click EXCEPT ![c] = NextCall(r, Tail(r.todo))]
  /\ IF Tail(r.todo) = <<>> THEN StopLoading(c) ELSE UNCHANGED loading
  /\ UNCHANGED <<tenant, provider, csrf, shown, view, loads, stream, inbox,
                 events, excuse, server>>

\* A call fails, or a response is rejected: the handler reports it and ends.
Fail(c) ==
  /\ click[c].at \in {"token", "sent", "served", "reading", "read"}
  /\ click' = [click EXCEPT ![c] = Idle]
  /\ StopLoading(c)
  /\ UNCHANGED <<tenant, provider, csrf, shown, view, loads, stream, inbox,
                 events, excuse, server>>

ServeReread(c) ==
  /\ click[c].at = "reading"
  /\ click' = [click EXCEPT ![c].at = "read",
                            ![c].got = stock[click[c].page.org]]
  /\ UNCHANGED <<tenant, provider, csrf, page, server>>

\* Nothing tells whether a later load has been answered before.
AnswerReread(c) ==
  LET r == click[c] IN
  /\ r.at = "read"
  /\ Current(r.sent)
  /\ view' = IF Mounted(c) THEN [org |-> r.page.org, kinds |-> r.got] ELSE view
  /\ excuse' = (excuse \/
                (Mounted(c) /\ OfTrade(r.got) # OfTrade(stock[r.page.org])))
  /\ StopLoading(c)
  /\ click' = [click EXCEPT ![c] = Idle]
  /\ UNCHANGED <<tenant, provider, csrf, shown, loads, stream, inbox, events,
                 server>>
-----------------------------------------------------------------------------
Next ==
  \/ \E o \in Org :
       \/ SelectOrg(o)
       \/ \E k \in Foreign : ForeignChange(o, k)
  \/ \E e \in resuming : Resume(e)
  \/ RefreshOrgs \/ AnswerOrgs \/ LoseCsrf
  \/ Render \/ OpenStream \/ DropStream \/ ReceiveEvent
  \/ \E l \in loads : ServeLoad(l) \/ AnswerLoad(l) \/ FailLoad(l)
  \/ \E c \in Click :
       \/ \E n \in Handler : Press(c, n)
       \/ LoadToken(c) \/ Serve(c) \/ Answer(c) \/ Fail(c)
       \/ ServeReread(c) \/ AnswerReread(c)

Spec == Init /\ [][Next]_vars
-----------------------------------------------------------------------------
Snapshot == [epoch : 0..MaxEpoch, org : Org \cup {None}]
TypeOK ==
  /\ epoch \in 0..MaxEpoch
  /\ {visible, pending, saved} \subseteq Org \cup {None}
  /\ resuming \subseteq 1..MaxEpoch
  /\ orgs \subseteq member /\ member \subseteq Org
  /\ listing \in 0..MaxEpoch \cup {None}
  /\ csrf \in BOOLEAN
  /\ shown \in Snapshot
  /\ view \in [org : Org \cup {None}, kinds : SUBSET Kind]
  /\ loading \in Handlers \cup {None}
  /\ loads \subseteq [org : Org, epoch : 0..MaxEpoch,
                      got : {None} \cup SUBSET Kind]
  /\ stream \in {"closed", "opening", "open"}
  /\ inbox \in 0..MaxInFlight
  /\ events \in 0..MaxEvents
  /\ excuse \in BOOLEAN
  /\ click \in [Click -> {Idle} \cup
       [at : {"token", "sent", "served", "reading", "read"}, page : Snapshot,
        began : 0..MaxEpoch, todo : Seq(Kind), sent : 0..MaxEpoch \cup {None},
        waited : BOOLEAN, got : {None} \cup SUBSET Kind]]
  /\ stock \in [Org -> SUBSET Kind]

\* What the page shows belongs to the organisation that the header shows.
NothingOfAnotherTenant == view.org # None => view.org = shown.org

\* A handler that has begun under one tenant makes no call after the tenant has
\* changed, unless it was waiting for a CSRF token meanwhile.
HandlersStopAtSwitch ==
  \A c \in Click :
    click[c].at \in {"sent", "served", "reading", "read"} =>
      \/ click[c].sent = click[c].began
      \/ click[c].waited

\* When no load is under way and no event is on its way, the page shows what
\* there is, unless an event was missed or ignored, a load has failed, or the
\* answer to a handler's reading came late.
QuietRoomIsCurrent ==
  (shown.org # None /\ loads = {} /\ inbox = 0) =>
    \/ excuse
    \/ /\ view.org = shown.org
       /\ OfTrade(view.kinds) = OfTrade(stock[shown.org])

\* An organisation that is visible stays so until the next switch begins: a
\* transition that resumes late takes nothing back.
VisibleUntilSwitch ==
  [][visible # None /\ visible' # visible => epoch' # epoch]_vars
=============================================================================
