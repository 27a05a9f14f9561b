-------------------------- MODULE WebClientProofs --------------------------
(***************************************************************************)
(* Proofs about WebClient, for every set of organisations, handlers and    *)
(* kinds of objects, and every bound.                                      *)
(***************************************************************************)
EXTENDS WebClient, SequenceTheorems, TLAPS

Running == {"token", "sent", "served", "reading", "read"}

HandlerRecord ==
  [at : Running, page : Snapshot, began : 0..MaxEpoch, todo : Seq(Kind),
   sent : 0..MaxEpoch \cup {None}, waited : BOOLEAN, got : {None} \cup SUBSET Kind]

\* A handler that has a call to make or under way knows which, for an
\* organisation; one that has read the objects has got them.
HandlersKnow ==
  \A c \in Click :
    /\ click[c].at \in Running => click[c].page.org \in Org
    /\ click[c].at \in {"token", "sent", "served"} => click[c].todo # <<>>
    /\ click[c].at = "read" => click[c].got \in SUBSET Kind

\* Events only come to a page of an organisation.
EventsOfPage == inbox > 0 => shown.org # None

Typed == TypeOK /\ HandlersKnow /\ EventsOfPage

\* TypeOK in parts: the provider, the page, the handlers and the API
ProviderTyped ==
  /\ epoch \in 0..MaxEpoch
  /\ visible \in Org \cup {None}
  /\ pending \in Org \cup {None}
  /\ saved \in Org \cup {None}
  /\ resuming \subseteq 1..MaxEpoch
  /\ orgs \subseteq member /\ member \subseteq Org
  /\ listing \in 0..MaxEpoch \cup {None}

LoadRecord == [org : Org, epoch : 0..MaxEpoch, got : {None} \cup SUBSET Kind]

PageTyped ==
  /\ shown \in Snapshot
  /\ view \in [org : Org \cup {None}, kinds : SUBSET Kind]
  /\ loading \in Handlers \cup {None}
  /\ loads \subseteq LoadRecord
  /\ stream \in {"closed", "opening", "open"}
  /\ events \in 0..MaxEvents

StockTyped ==
  /\ stock \in [Org -> SUBSET Kind]
  /\ inbox \in 0..MaxInFlight
  /\ EventsOfPage

FlagsTyped == csrf \in BOOLEAN /\ excuse \in BOOLEAN

HandlersTyped ==
  /\ click \in [Click -> {Idle} \cup HandlerRecord]
  /\ HandlersKnow

\* A switch that has been committed is over.
VisibleIsSettled == visible # None => pending = None /\ epoch \notin resuming

\* The effect has one load under way, for the organisation of the page.
OneLoad ==
  /\ \A l \in loads : l.org = shown.org
  /\ \A l1, l2 \in loads : l1 = l2

IsCurrent(kinds) == OfTrade(kinds) = OfTrade(stock[shown.org])

\* What the page shows, or what its load will show, is what there is; it is so
\* while nothing was missed and no event is on its way.
Displayed ==
  IF loads = {} THEN view.org = shown.org /\ IsCurrent(view.kinds)
  ELSE \A l \in loads : l.got = None \/ IsCurrent(l.got)

NothingMissed == shown.org # None => excuse \/ inbox > 0 \/ Displayed

Inv ==
  /\ Typed
  /\ VisibleIsSettled
  /\ OneLoad
  /\ NothingOfAnotherTenant
  /\ HandlersStopAtSwitch
  /\ NothingMissed
-----------------------------------------------------------------------------
(* The handlers' calls                                                      *)

LEMMA CallLists ==
  /\ <<>> \in Seq(Kind)
  /\ \A k \in Kind : <<k>> \in Seq(Kind)
  /\ \A j, k \in Kind : <<j, k>> \in Seq(Kind)
  /\ \A i, j, k \in Kind : <<i, j, k>> \in Seq(Kind)
  /\ \A s, t \in Seq(Kind) : s \o t \in Seq(Kind)
  OBVIOUS

LEMMA RoomEnsured ==
  ASSUME NEW v
  PROVE  EnsureRoom(v) \in Seq(Kind)
  <1>1. "trade_room" \in Kind
    BY DEF Kind
  <1> QED BY <1>1, CallLists DEF EnsureRoom

\* Every button makes objects of the kinds there are.
LEMMA CallsTyped ==
  ASSUME NEW v, NEW h
  PROVE  Calls(h, v) \subseteq Seq(Kind)
  <1>1. {"trade_room", "document", "extraction_result", "clearance_check",
         "readiness_state", "payment_intent", "agent_work_result", "approval",
         "decision", "task_update", "proof_bundle", "document_pack",
         "external_access_grant", "document_request", "submission", "answer",
         "standalone"} \subseteq Kind
    BY DEF Kind
  <1>2. ExtractReferenceDocument(v) \in Seq(Kind)
    <2> DEFINE check == IF "clearance_check" \in v THEN <<>> ELSE <<"clearance_check">>
    <2>1. check \in Seq(Kind)
      BY <1>1, CallLists
    <2>2. /\ <<"extraction_result">> \in Seq(Kind)
          /\ <<"readiness_state">> \in Seq(Kind)
      BY <1>1, CallLists
    <2>3. (EnsureRoom(v) \o <<"extraction_result">>) \o check \in Seq(Kind)
      <3> HIDE DEF check
      <3> QED BY <2>1, <2>2, CallLists, RoomEnsured
    <2>4. ((EnsureRoom(v) \o <<"extraction_result">>) \o check) \o <<"readiness_state">>
            \in Seq(Kind)
      <3> HIDE DEF check
      <3> QED BY <2>2, <2>3, CallLists
    <2> QED BY <2>4, Zenon DEF ExtractReferenceDocument
  <1>3. UploadDocument \subseteq Seq(Kind)
    BY <1>1, CallLists DEF UploadDocument
  <1>4. AttachPayment(v) \in Seq(Kind)
    BY <1>1, CallLists, RoomEnsured DEF AttachPayment
  <1>5. AttachCandidate(v) \subseteq Seq(Kind)
    <2>1. ASSUME NEW k \in {"payment_intent", "clearance_check"}
          PROVE  EnsureRoom(v) \o <<k, "readiness_state">> \in Seq(Kind)
      BY <1>1, CallLists, RoomEnsured
    <2> QED BY <2>1, Zenon DEF AttachCandidate
  <1>6. /\ RunCopilot \subseteq Seq(Kind)
        /\ GenerateProof(v) \subseteq Seq(Kind)
        /\ LaunchAgent \subseteq Seq(Kind)
        /\ CreateAccess \subseteq Seq(Kind)
        /\ RequestDocument \subseteq Seq(Kind)
    BY <1>1, CallLists DEF RunCopilot, GenerateProof, LaunchAgent, CreateAccess,
       RequestDocument
  <1>7. /\ RequestApproval(v) \subseteq Seq(Kind)
        /\ Decide(v) \subseteq Seq(Kind)
        /\ UpdateTask(v) \subseteq Seq(Kind)
        /\ SubmitDocument(v) \subseteq Seq(Kind)
        /\ GeneratePack(v) \subseteq Seq(Kind)
    BY <1>1, CallLists DEF RequestApproval, Decide, UpdateTask, SubmitDocument,
       GeneratePack
  <1>8. {<<>>} \subseteq Seq(Kind)
    BY CallLists
  <1> HIDE <1>1
  <1>9. ASSUME NEW todo \in Calls(h, v)
        PROVE  todo \in Seq(Kind)
    <2>1. \/ todo \in {<<>>} \/ todo \in RunCopilot
          \/ todo = ExtractReferenceDocument(v) \/ todo \in UploadDocument
          \/ todo \in GeneratePack(v) \/ todo = AttachPayment(v)
          \/ todo \in AttachCandidate(v) \/ todo \in GenerateProof(v)
          \/ todo \in LaunchAgent \/ todo \in RequestApproval(v)
          \/ todo \in Decide(v) \/ todo \in UpdateTask(v)
          \/ todo \in CreateAccess \/ todo \in RequestDocument
          \/ todo \in SubmitDocument(v)
      BY Zenon DEF Calls
    <2> QED BY <2>1, <1>2, <1>3, <1>4, <1>5, <1>6, <1>7, <1>8, Zenon
  <1> QED BY <1>9

\* The story does one of the things that have a button, or nothing.
LEMMA PressedKnown ==
  ASSUME NEW v, NEW n \in Handler
  PROVE  (IF n = "story" THEN Story(v) ELSE n) \in Handlers \cup {None}
  BY HandlerAssumption DEF Story, Handlers
-----------------------------------------------------------------------------
(* Types                                                                    *)

LEMMA TypedParts ==
  /\ Typed <=> ProviderTyped /\ PageTyped /\ StockTyped /\ FlagsTyped /\ HandlersTyped
  /\ Typed' <=> /\ ProviderTyped' /\ PageTyped' /\ StockTyped'
                /\ FlagsTyped' /\ HandlersTyped'
  <1>1. Typed <=> ProviderTyped /\ PageTyped /\ StockTyped /\ FlagsTyped /\ HandlersTyped
    BY Zenon DEF Typed, TypeOK, ProviderTyped, PageTyped, StockTyped, FlagsTyped,
       HandlersTyped, HandlerRecord, LoadRecord, Running
  <1>2. Typed' <=> /\ ProviderTyped' /\ PageTyped' /\ StockTyped'
                   /\ FlagsTyped' /\ HandlersTyped'
    BY Zenon DEF Typed, TypeOK, ProviderTyped, PageTyped, StockTyped, FlagsTyped,
       HandlersTyped, HandlerRecord, LoadRecord, Running
  <1> QED BY <1>1, <1>2

LEMMA TypedInit == Init => Typed
  <1> SUFFICES ASSUME Init
               PROVE  ProviderTyped /\ PageTyped /\ StockTyped /\ FlagsTyped /\ HandlersTyped
    BY TypedParts
  <1>1. ProviderTyped
    BY EpochAssumption DEF Init, ProviderTyped
  <1>2. PageTyped
    BY EpochAssumption, EventsAssumption DEF Init, PageTyped, Snapshot, Nobody
  <1>3. StockTyped
    BY FlightAssumption, KindAssumption DEF Init, StockTyped, EventsOfPage
  <1>4. FlagsTyped
    BY Zenon DEF Init, FlagsTyped
  <1>5. HandlersTyped
    BY DEF Init, HandlersTyped, HandlersKnow, Idle, Running
  <1> QED BY <1>1, <1>2, <1>3, <1>4, <1>5

\* A switch keeps the provider's state in its types.
LEMMA TypedBegin ==
  ASSUME ProviderTyped, NEW o \in Org \cup {None}, BeginSwitch(o)
  PROVE  /\ epoch' \in 0..MaxEpoch
         /\ visible' \in Org \cup {None}
         /\ pending' \in Org \cup {None}
         /\ saved' \in Org \cup {None}
         /\ resuming' \subseteq 1..MaxEpoch
  <1>1. CASE visible = o /\ pending = None
    BY <1>1 DEF ProviderTyped, BeginSwitch, tenant
  <1>2. CASE ~(visible = o /\ pending = None)
    <2>1. epoch + 1 \in 1..MaxEpoch
      BY <1>2, EpochAssumption DEF ProviderTyped, BeginSwitch
    <2>2. /\ epoch' = epoch + 1
          /\ visible' = None /\ pending' = o /\ saved' = saved
          /\ resuming' = resuming \cup {epoch + 1}
      BY <1>2 DEF BeginSwitch
    <2> QED BY <2>1, <2>2 DEF ProviderTyped
  <1> QED BY <1>1, <1>2

\* Flags are flags.
LEMMA TypedFlags == FlagsTyped /\ [Next]_vars => FlagsTyped'
  <1>1. ASSUME FlagsTyped, [Next]_vars
        PROVE  csrf' \in BOOLEAN
    BY <1>1, Zenon DEF FlagsTyped, Next, vars, SelectOrg, Resume, RefreshOrgs,
       AnswerOrgs, LoseCsrf, Render, OpenStream, DropStream, ReceiveEvent,
       ForeignChange, ServeLoad, AnswerLoad, FailLoad, Press, LoadToken, Serve,
       Answer, Fail, ServeReread, AnswerReread
  <1>2. ASSUME FlagsTyped, [Next]_vars
        PROVE  excuse' \in BOOLEAN
    BY <1>2, Zenon DEF FlagsTyped, Next, vars, page, SelectOrg, Resume, RefreshOrgs,
       AnswerOrgs, LoseCsrf, Render, OpenStream, DropStream, ReceiveEvent, Change,
       Publish, ForeignChange, ServeLoad, AnswerLoad, FailLoad, Press, LoadToken,
       Serve, Answer, Fail, ServeReread, AnswerReread
  <1> QED BY <1>1, <1>2 DEF FlagsTyped

LEMMA TypedTenant ==
  ASSUME Typed,
         \/ \E o \in Org : SelectOrg(o)
         \/ \E e \in resuming : Resume(e)
         \/ RefreshOrgs \/ AnswerOrgs \/ LoseCsrf
  PROVE  ProviderTyped' /\ PageTyped' /\ StockTyped' /\ HandlersTyped'
  <1>1. ProviderTyped /\ PageTyped /\ StockTyped /\ FlagsTyped /\ HandlersTyped
    BY TypedParts
  <1>2. UNCHANGED <<page, click, stock>>
    BY DEF SelectOrg, Resume, RefreshOrgs, AnswerOrgs, LoseCsrf, server
  <1>3. PageTyped' /\ StockTyped' /\ HandlersTyped'
    BY <1>1, <1>2 DEF PageTyped, StockTyped, EventsOfPage, HandlersTyped, HandlersKnow,
       page
  <1>4. ProviderTyped'
    <2> USE <1>1 DEF provider, server, tenant
    <2>1. ASSUME NEW o \in Org, SelectOrg(o)
          PROVE  ProviderTyped'
      <3>1. Selected(o, orgs) \in Org \cup {None} /\ BeginSwitch(Selected(o, orgs))
        BY <2>1 DEF SelectOrg, Selected
      <3> QED BY <2>1, <3>1, TypedBegin DEF SelectOrg, ProviderTyped
    <2>2. ASSUME NEW e \in resuming, Resume(e)
          PROVE  ProviderTyped'
      BY <2>2 DEF Resume, ProviderTyped
    <2>3. CASE RefreshOrgs
      BY <2>3 DEF RefreshOrgs, ProviderTyped
    <2>4. CASE AnswerOrgs
      <3>1. CASE Current(listing)
        <4>1. PICK o \in Reconciled(member) : BeginSwitch(o)
          BY <2>4, <3>1 DEF AnswerOrgs
        <4>2. o \in Org \cup {None}
          BY DEF Reconciled, ProviderTyped
        <4> QED BY <2>4, <3>1, <4>1, <4>2, TypedBegin DEF AnswerOrgs, ProviderTyped
      <3>2. CASE ~Current(listing)
        BY <2>4, <3>2 DEF AnswerOrgs, ProviderTyped
      <3> QED BY <3>1, <3>2
    <2>5. CASE LoseCsrf
      BY <2>5 DEF LoseCsrf, ProviderTyped
    <2> QED BY <2>1, <2>2, <2>3, <2>4, <2>5
  <1> QED BY <1>3, <1>4

\* A change in an organisation keeps its objects and the events in their types.
LEMMA TypedChange ==
  ASSUME StockTyped, NEW o \in Org, NEW k \in Kind, Change(o, k), shown' = shown
  PROVE  StockTyped'
  <1>1. stock' \in [Org -> SUBSET Kind]
    BY DEF StockTyped, Change
  <1>2. inbox' \in 0..MaxInFlight /\ EventsOfPage'
    BY FlightAssumption, NoneAssumption DEF StockTyped, EventsOfPage, Change, Publish
  <1> QED BY <1>1, <1>2 DEF StockTyped

LEMMA TypedPage ==
  ASSUME Typed,
         \/ Render \/ OpenStream \/ DropStream \/ ReceiveEvent
         \/ \E o \in Org, k \in Foreign : ForeignChange(o, k)
         \/ \E l \in loads : ServeLoad(l) \/ AnswerLoad(l) \/ FailLoad(l)
  PROVE  ProviderTyped' /\ PageTyped' /\ StockTyped' /\ HandlersTyped'
  <1>1. ProviderTyped /\ PageTyped /\ StockTyped /\ FlagsTyped /\ HandlersTyped
    BY TypedParts
  <1>2. UNCHANGED <<tenant, provider, csrf, click, member>>
    BY DEF Render, OpenStream, DropStream, ReceiveEvent, ForeignChange, ServeLoad,
       AnswerLoad, FailLoad, server
  <1>3. ProviderTyped' /\ HandlersTyped'
    BY <1>1, <1>2 DEF ProviderTyped, HandlersTyped, HandlersKnow, tenant, provider
  <1>4. PageTyped' /\ StockTyped'
    <2> USE <1>1, EventsAssumption, FlightAssumption DEF server, EventsOfPage
    <2>1. CASE Render
      <3>1. shown' \in Snapshot /\ view' \in [org : Org \cup {None}, kinds : SUBSET Kind]
        BY <2>1 DEF Render, Snapshot, Nobody, ProviderTyped, PageTyped
      <3>2. loads' \subseteq LoadRecord
        BY <2>1 DEF Render, LoadRecord, ProviderTyped, PageTyped
      <3> QED BY <2>1, <3>1, <3>2 DEF Render, Kept, PageTyped, StockTyped
    <2>2. CASE OpenStream
      BY <2>2 DEF OpenStream, PageTyped, StockTyped
    <2>3. CASE DropStream
      BY <2>3 DEF DropStream, PageTyped, StockTyped
    <2>4. CASE ReceiveEvent
      <3>1. inbox \in Nat /\ inbox > 0 /\ inbox' = inbox - 1 /\ shown.org # None
        BY <2>4 DEF ReceiveEvent, StockTyped
      <3>2. NewLoad \in LoadRecord
        BY <3>1 DEF NewLoad, LoadRecord, Snapshot, ProviderTyped, PageTyped
      <3>3. StockTyped'
        BY <2>4, <3>1 DEF ReceiveEvent, StockTyped
      <3>4. CASE events < MaxEvents
        <4>1. events' = events + 1 /\ loads' = {NewLoad}
          BY <2>4, <3>4 DEF ReceiveEvent, Uncancelled
        <4>2. events' \in 0..MaxEvents
          BY <3>4, <4>1 DEF PageTyped
        <4> QED BY <2>4, <3>2, <3>3, <4>1, <4>2 DEF ReceiveEvent, PageTyped
      <3>5. CASE ~(events < MaxEvents)
        BY <2>4, <3>3, <3>5 DEF ReceiveEvent, PageTyped
      <3> QED BY <3>4, <3>5
    <2>5. ASSUME NEW o \in Org, NEW k \in Foreign, ForeignChange(o, k)
          PROVE  PageTyped' /\ StockTyped'
      <3>1. k \in Kind /\ Change(o, k)
        BY <2>5, KindAssumption DEF ForeignChange
      <3> QED BY <2>5, <3>1, TypedChange DEF ForeignChange, PageTyped
    <2>6. ASSUME NEW l \in loads, ServeLoad(l)
          PROVE  PageTyped' /\ StockTyped'
      <3>1. [l EXCEPT !.got = stock[l.org]] \in LoadRecord
        BY DEF LoadRecord, PageTyped, StockTyped
      <3> QED BY <2>6, <3>1 DEF ServeLoad, PageTyped, StockTyped
    <2>7. ASSUME NEW l \in loads, AnswerLoad(l)
          PROVE  PageTyped' /\ StockTyped'
      <3>1. l.org \in Org /\ l.got \in SUBSET Kind
        BY <2>7 DEF AnswerLoad, LoadRecord, PageTyped
      <3>2. view' \in [org : Org \cup {None}, kinds : SUBSET Kind]
        BY <2>7, <3>1 DEF AnswerLoad
      <3> QED BY <2>7, <3>2 DEF AnswerLoad, PageTyped, StockTyped
    <2>8. ASSUME NEW l \in loads, FailLoad(l)
          PROVE  PageTyped' /\ StockTyped'
      BY <2>8 DEF FailLoad, Nobody, PageTyped, StockTyped
    <2> QED BY <2>1, <2>2, <2>3, <2>4, <2>5, <2>6, <2>7, <2>8
  <1> QED BY <1>3, <1>4

\* The next call of a handler of some page, or its reading.
LEMMA NextCallTyped ==
  ASSUME ProviderTyped, NEW todo \in Seq(Kind), NEW r,
         r.page \in Snapshot, r.page.org \in Org, r.began \in 0..MaxEpoch,
         r.waited \in BOOLEAN, r.got \in {None} \cup SUBSET Kind,
         r = [at |-> r.at, page |-> r.page, began |-> r.began, todo |-> r.todo,
              sent |-> r.sent, waited |-> r.waited, got |-> r.got]
  PROVE  LET n == NextCall(r, todo) IN
         /\ n \in HandlerRecord
         /\ n.at \in {"reading", "sent", "token"}
         /\ n.at # "reading" => n.todo # <<>>
         /\ n.at = "token" \/ n.sent = epoch
         /\ n.page = r.page /\ n.began = r.began /\ n.waited = r.waited
  <1>1. CASE todo = <<>>
    BY <1>1 DEF NextCall, HandlerRecord, Running, ProviderTyped
  <1>2. CASE todo # <<>> /\ csrf
    BY <1>2 DEF NextCall, HandlerRecord, Running, ProviderTyped
  <1>3. CASE todo # <<>> /\ ~csrf
    BY <1>3 DEF NextCall, HandlerRecord, Running, ProviderTyped
  <1> QED BY <1>1, <1>2, <1>3

\* The same for a handler in its record.
LEMMA NextOfRecord ==
  ASSUME ProviderTyped, NEW r \in HandlerRecord, r.page.org \in Org,
         NEW todo \in Seq(Kind)
  PROVE  LET n == NextCall(r, todo) IN
         /\ n \in HandlerRecord
         /\ n.at \in {"reading", "sent", "token"}
         /\ n.at # "reading" => n.todo # <<>>
         /\ n.at = "token" \/ n.sent = epoch
         /\ n.page = r.page /\ n.began = r.began /\ n.waited = r.waited
  <1>1. /\ r.page \in Snapshot /\ r.began \in 0..MaxEpoch
        /\ r.waited \in BOOLEAN /\ r.got \in {None} \cup SUBSET Kind
        /\ r = [at |-> r.at, page |-> r.page, began |-> r.began, todo |-> r.todo,
                sent |-> r.sent, waited |-> r.waited, got |-> r.got]
    BY DEF HandlerRecord
  <1> QED BY <1>1, NextCallTyped, Zenon

\* A handler that starts makes its first call in the epoch in which it began.
LEMMA PressedTyped ==
  ASSUME ProviderTyped, PageTyped, NEW todo \in Seq(Kind), shown.org # None
  PROVE  LET n == NextCall(Begun, todo) IN
         /\ n \in HandlerRecord
         /\ n.at \in {"reading", "sent", "token"}
         /\ n.at # "reading" => n.todo # <<>>
         /\ n.at = "token" \/ n.sent = epoch
         /\ n.page = shown /\ n.page.org \in Org /\ n.began = epoch
  <1>1. /\ Begun.page = shown /\ Begun.began = epoch /\ Begun.waited = FALSE
        /\ Begun.got = None
        /\ Begun = [at |-> Begun.at, page |-> Begun.page, began |-> Begun.began,
                    todo |-> Begun.todo, sent |-> Begun.sent,
                    waited |-> Begun.waited, got |-> Begun.got]
    BY DEF Begun
  <1>2. /\ shown \in Snapshot /\ shown.org \in Org /\ epoch \in 0..MaxEpoch
    BY DEF PageTyped, ProviderTyped, Snapshot
  <1>3. FALSE \in BOOLEAN
    OBVIOUS
  <1> QED BY <1>1, <1>2, <1>3, NextCallTyped, Zenon

\* What each step of a handler makes of it
LEMMA HandlerSteps ==
  ASSUME ProviderTyped, PageTyped, StockTyped, HandlersTyped, NEW c \in Click,
         \/ \E n \in Handler : Press(c, n)
         \/ LoadToken(c) \/ Serve(c) \/ Answer(c) \/ Fail(c)
         \/ ServeReread(c) \/ AnswerReread(c)
  PROVE  \E r \in {Idle} \cup HandlerRecord :
           /\ click' = [click EXCEPT ![c] = r]
           /\ r.at \in Running => r.page.org \in Org
           /\ r.at \in {"token", "sent", "served"} => r.todo # <<>>
           /\ r.at = "read" => r.got \in SUBSET Kind
  <1> DEFINE q == click[c]
  <1> USE DEF HandlersTyped, HandlersKnow
  <1>1. ASSUME NEW n \in Handler, Press(c, n)
        PROVE  \E r \in HandlerRecord :
                 /\ click' = [click EXCEPT ![c] = r]
                 /\ r.at \in {"reading", "sent", "token"}
                 /\ r.at # "reading" => r.todo # <<>>
                 /\ r.page.org \in Org
    <2>1. PICK todo \in Seq(Kind) : click' = [click EXCEPT ![c] = NextCall(Begun, todo)]
      BY <1>1, CallsTyped DEF Press
    <2>2. shown.org # None
      BY <1>1 DEF Press
    <2> QED BY <2>1, <2>2, PressedTyped
  <1>2. ASSUME q.at \in Running
        PROVE  q \in HandlerRecord /\ q.page.org \in Org
    BY <1>2 DEF Idle, Running
  <1>3. CASE LoadToken(c)
    <2>1. q \in HandlerRecord /\ q.at = "token" /\ q.page.org \in Org /\ q.todo # <<>>
      BY <1>2, <1>3 DEF LoadToken, Running
    <2> DEFINE r == [q EXCEPT !.at = "sent", !.sent = epoch, !.waited = TRUE]
    <2>2. click' = [click EXCEPT ![c] = r]
      BY <1>3, <2>1 DEF LoadToken, HandlerRecord
    <2>3. r \in HandlerRecord
      BY <2>1 DEF HandlerRecord, Running, ProviderTyped
    <2>4. r.at = "sent" /\ r.page = q.page /\ r.todo = q.todo
      BY <2>1 DEF HandlerRecord
    <2> QED BY <2>1, <2>2, <2>3, <2>4
  <1>4. CASE Serve(c)
    <2>1. q \in HandlerRecord /\ q.at = "sent" /\ q.page.org \in Org /\ q.todo # <<>>
      BY <1>2, <1>4 DEF Serve, Running
    <2> DEFINE r == [q EXCEPT !.at = "served"]
    <2>2. click' = [click EXCEPT ![c] = r]
      BY <1>4, <2>1 DEF Serve
    <2>3. r \in HandlerRecord
      BY <2>1 DEF HandlerRecord, Running
    <2>4. r.at = "served" /\ r.page = q.page /\ r.todo = q.todo
      BY <2>1 DEF HandlerRecord
    <2> QED BY <2>1, <2>2, <2>3, <2>4
  <1>5. CASE Answer(c)
    <2>1. q \in HandlerRecord /\ q.at = "served" /\ q.page.org \in Org /\ q.todo # <<>>
      BY <1>2, <1>5 DEF Answer, Running
    <2>2. Tail(q.todo) \in Seq(Kind)
      BY <2>1 DEF HandlerRecord
    <2>3. click' = [click EXCEPT ![c] = NextCall(q, Tail(q.todo))]
      BY <1>5 DEF Answer
    <2> QED BY <2>1, <2>2, <2>3, NextOfRecord
  <1>6. CASE Fail(c) \/ AnswerReread(c)
    BY <1>6 DEF Fail, AnswerReread, Idle, Running
  <1>7. CASE ServeReread(c)
    <2>1. q \in HandlerRecord /\ q.at = "reading" /\ q.page.org \in Org
      BY <1>2, <1>7 DEF ServeReread, Running
    <2> DEFINE r == [q EXCEPT !.at = "read", !.got = stock[q.page.org]]
    <2>2. click' = [click EXCEPT ![c] = r]
      BY <1>7, <2>1 DEF ServeReread, HandlerRecord
    <2>3. stock[q.page.org] \in SUBSET Kind
      BY <2>1 DEF StockTyped
    <2>4. r \in HandlerRecord
      BY <2>1, <2>3 DEF HandlerRecord, Running
    <2>5. r.at = "read" /\ r.page = q.page /\ r.got = stock[q.page.org]
      BY <2>1 DEF HandlerRecord
    <2> QED BY <2>1, <2>2, <2>3, <2>4, <2>5
  <1> QED
    <2>1. ASSUME NEW n \in Handler, Press(c, n)
          PROVE  \E r \in {Idle} \cup HandlerRecord :
                   /\ click' = [click EXCEPT ![c] = r]
                   /\ r.at \in Running => r.page.org \in Org
                   /\ r.at \in {"token", "sent", "served"} => r.todo # <<>>
                   /\ r.at = "read" => r.got \in SUBSET Kind
      BY <1>1, <2>1
    <2> QED BY <2>1, <1>3, <1>4, <1>5, <1>6, <1>7, Zenon

LEMMA TypedHandler ==
  ASSUME Typed, NEW c \in Click,
         \/ \E n \in Handler : Press(c, n)
         \/ LoadToken(c) \/ Serve(c) \/ Answer(c) \/ Fail(c)
         \/ ServeReread(c) \/ AnswerReread(c)
  PROVE  ProviderTyped' /\ PageTyped' /\ StockTyped' /\ HandlersTyped'
  <1>1. ProviderTyped /\ PageTyped /\ StockTyped /\ HandlersTyped
    BY TypedParts
  <1>2. UNCHANGED <<tenant, provider, member, shown, loads, stream, events>>
    BY DEF Press, LoadToken, Serve, Answer, Fail, ServeReread, AnswerReread, server,
       page
  <1>3. ProviderTyped'
    BY <1>1, <1>2 DEF ProviderTyped, tenant, provider
  <1>4. HandlersTyped'
    BY <1>1, HandlerSteps DEF HandlersTyped, HandlersKnow
  <1>5. StockTyped'
    <2>1. CASE Serve(c)
      <3>1. click[c] \in HandlerRecord /\ click[c].page.org \in Org /\ click[c].todo # <<>>
        BY <1>1, <2>1 DEF Serve, HandlersTyped, HandlersKnow, Idle, Running
      <3>2. Head(click[c].todo) \in Kind
        BY <3>1 DEF HandlerRecord
      <3> QED BY <1>1, <1>2, <2>1, <3>1, <3>2, TypedChange DEF Serve
    <2>2. CASE ~Serve(c)
      <3>1. UNCHANGED <<stock, inbox, shown>>
        BY <2>2 DEF Press, LoadToken, Answer, Fail, ServeReread, AnswerReread, server,
           page
      <3> QED BY <1>1, <3>1 DEF StockTyped, EventsOfPage
    <2> QED BY <2>1, <2>2
  <1>6. view' \in [org : Org \cup {None}, kinds : SUBSET Kind]
    <2>1. CASE AnswerReread(c)
      <3>1. click[c].page.org \in Org /\ click[c].got \in SUBSET Kind
        BY <1>1, <2>1 DEF AnswerReread, HandlersTyped, HandlersKnow, Running
      <3> QED BY <1>1, <2>1, <3>1 DEF AnswerReread, PageTyped
    <2>2. CASE ~AnswerReread(c)
      BY <1>1, <2>2 DEF Press, LoadToken, Serve, Answer, Fail, ServeReread, page,
         PageTyped
    <2> QED BY <2>1, <2>2
  <1>7. loading' \in Handlers \cup {None}
    <2>1. ASSUME NEW n \in Handler, Press(c, n)
          PROVE  loading' \in Handlers \cup {None}
      BY <2>1, PressedKnown DEF Press
    <2>2. CASE ~\E n \in Handler : Press(c, n)
      BY <1>1, <2>2 DEF LoadToken, Serve, Answer, Fail, ServeReread, AnswerReread,
         StopLoading, page, PageTyped
    <2> QED BY <2>1, <2>2
  <1>8. PageTyped'
    BY <1>1, <1>2, <1>6, <1>7 DEF PageTyped
  <1> QED BY <1>3, <1>4, <1>5, <1>8

LEMMA TypedStep == Typed /\ [Next]_vars => Typed'
  <1> SUFFICES ASSUME Typed, [Next]_vars PROVE Typed'
    OBVIOUS
  <1>1. FlagsTyped'
    BY TypedParts, TypedFlags
  <1>2. CASE UNCHANGED vars
    <2>1. ProviderTyped /\ PageTyped /\ StockTyped /\ HandlersTyped
      BY TypedParts
    <2>2. UNCHANGED <<tenant, provider, page, click, server>>
      BY <1>2 DEF vars
    <2>3. ProviderTyped' /\ StockTyped'
      BY <2>1, <2>2 DEF tenant, provider, page, server, ProviderTyped, StockTyped,
         EventsOfPage
    <2>4. PageTyped' /\ HandlersTyped'
      BY <2>1, <2>2 DEF page, PageTyped, HandlersTyped, HandlersKnow
    <2> QED BY <1>1, <2>3, <2>4, TypedParts
  <1>3. CASE Next
    <2>1. ProviderTyped' /\ PageTyped' /\ StockTyped' /\ HandlersTyped'
      BY <1>3, TypedTenant, TypedPage, TypedHandler DEF Next
    <2> QED BY <1>1, <2>1, TypedParts
  <1> QED BY <1>2, <1>3

\* The provider, the page and its handlers keep to their types.
THEOREM TypeCorrect == Spec => []TypeOK
  <1>1. Typed => TypeOK
    BY DEF Typed
  <1> QED BY <1>1, TypedInit, TypedStep, PTL DEF Spec
-----------------------------------------------------------------------------
(* Switches                                                                 *)

\* Until its await a switch makes nothing visible.
LEMMA SwitchBegins ==
  ASSUME ProviderTyped, VisibleIsSettled, NEW o, BeginSwitch(o)
  PROVE  /\ VisibleIsSettled'
         /\ visible' = visible \/ epoch' # epoch
  BY DEF ProviderTyped, VisibleIsSettled, BeginSwitch, tenant

\* A tenant that is visible is so until the next switch begins.
LEMMA SettledStep ==
  ASSUME ProviderTyped, VisibleIsSettled, [Next]_vars
  PROVE  /\ VisibleIsSettled'
         /\ visible # None /\ visible' # visible => epoch' # epoch
  <1>1. ASSUME NEW o \in Org, SelectOrg(o)
        PROVE  VisibleIsSettled' /\ (visible' = visible \/ epoch' # epoch)
    BY <1>1, SwitchBegins DEF SelectOrg
  <1>2. CASE AnswerOrgs
    <2>1. CASE Current(listing)
      BY <1>2, <2>1, SwitchBegins DEF AnswerOrgs
    <2>2. CASE ~Current(listing)
      BY <1>2, <2>2 DEF AnswerOrgs, tenant, VisibleIsSettled
    <2> QED BY <2>1, <2>2
  <1>3. ASSUME NEW e \in resuming, Resume(e)
        PROVE  VisibleIsSettled' /\ (visible # None => visible' = visible)
    BY <1>3 DEF Resume, Commits, VisibleIsSettled
  <1>4. CASE UNCHANGED tenant
    BY <1>4 DEF tenant, VisibleIsSettled
  <1>5. \/ UNCHANGED tenant \/ AnswerOrgs
        \/ \E o \in Org : SelectOrg(o)
        \/ \E e \in resuming : Resume(e)
    BY DEF Next, vars, RefreshOrgs, LoseCsrf, Render, OpenStream, DropStream,
       ReceiveEvent, ForeignChange, ServeLoad, AnswerLoad, FailLoad, Press,
       LoadToken, Serve, Answer, Fail, ServeReread, AnswerReread
  <1> QED BY <1>1, <1>2, <1>3, <1>4, <1>5
-----------------------------------------------------------------------------
(* Handlers                                                                 *)

Stopped(r) ==
  r.at \in {"sent", "served", "reading", "read"} => r.sent = r.began \/ r.waited

\* A handler goes on in the epoch in which it has been answered.
LEMMA StopsStep ==
  ASSUME Typed, HandlersStopAtSwitch, [Next]_vars
  PROVE  HandlersStopAtSwitch'
  <1> SUFFICES ASSUME NEW c \in Click PROVE Stopped(click'[c])
    BY DEF HandlersStopAtSwitch, Stopped
  <1>1. ProviderTyped /\ PageTyped /\ StockTyped /\ HandlersTyped
    BY TypedParts
  <1>2. Stopped(click[c])
    BY DEF HandlersStopAtSwitch, Stopped
  <1>3. click[c].at \in Running => click[c] \in HandlerRecord /\ click[c].page.org \in Org
    BY <1>1 DEF HandlersTyped, HandlersKnow, Idle, Running
  <1>4. ASSUME NEW n \in Handler, Press(c, n)
        PROVE  Stopped(click'[c])
    <2>1. PICK todo \in Seq(Kind) : click' = [click EXCEPT ![c] = NextCall(Begun, todo)]
      BY <1>4, CallsTyped DEF Press
    <2>2. shown.org # None
      BY <1>4 DEF Press
    <2>3. Stopped(NextCall(Begun, todo))
      BY <1>1, <2>2, PressedTyped DEF Stopped
    <2> QED BY <1>1, <2>1, <2>3 DEF HandlersTyped
  <1>5. CASE LoadToken(c)
    <2>1. click'[c].waited = TRUE
      BY <1>1, <1>3, <1>5 DEF LoadToken, HandlersTyped, HandlerRecord, Running
    <2> QED BY <2>1 DEF Stopped
  <1>6. CASE Serve(c) \/ ServeReread(c)
    <2>1. /\ click[c].at \in {"sent", "reading"}
          /\ click'[c].sent = click[c].sent /\ click'[c].began = click[c].began
          /\ click'[c].waited = click[c].waited
      BY <1>1, <1>3, <1>6 DEF Serve, ServeReread, HandlersTyped, HandlerRecord, Running
    <2> QED BY <1>2, <2>1 DEF Stopped
  <1>7. CASE Answer(c)
    <2>1. /\ click[c] \in HandlerRecord /\ click[c].page.org \in Org
          /\ click[c].at = "served" /\ click[c].sent = epoch /\ click[c].todo # <<>>
      BY <1>1, <1>3, <1>7 DEF Answer, Current, Running, HandlersTyped, HandlersKnow
    <2>2. Tail(click[c].todo) \in Seq(Kind)
      BY <2>1 DEF HandlerRecord
    <2>3. Stopped(NextCall(click[c], Tail(click[c].todo)))
      BY <1>1, <1>2, <2>1, <2>2, NextOfRecord DEF Stopped
    <2>4. click'[c] = NextCall(click[c], Tail(click[c].todo))
      BY <1>1, <1>7 DEF Answer, HandlersTyped
    <2> QED BY <2>3, <2>4
  <1>8. CASE Fail(c) \/ AnswerReread(c)
    <2>1. click'[c] = Idle
      BY <1>1, <1>8 DEF Fail, AnswerReread, HandlersTyped
    <2> QED BY <2>1 DEF Stopped, Idle
  <1>9. CASE click'[c] = click[c]
    BY <1>2, <1>9
  <1>10. \/ click'[c] = click[c]
         \/ \E n \in Handler : Press(c, n)
         \/ LoadToken(c) \/ Serve(c) \/ Answer(c) \/ Fail(c)
         \/ ServeReread(c) \/ AnswerReread(c)
    <2>1. ASSUME NEW d \in Click, d # c,
                 \/ \E n \in Handler : Press(d, n)
                 \/ LoadToken(d) \/ Serve(d) \/ Answer(d) \/ Fail(d)
                 \/ ServeReread(d) \/ AnswerReread(d)
          PROVE  click'[c] = click[c]
      <3>1. \E r \in {Idle} \cup HandlerRecord : click' = [click EXCEPT ![d] = r]
        BY <1>1, <2>1, HandlerSteps
      <3> QED BY <1>1, <2>1, <3>1 DEF HandlersTyped
    <2>2. \/ UNCHANGED click
          \/ \E d \in Click :
               \/ \E n \in Handler : Press(d, n)
               \/ LoadToken(d) \/ Serve(d) \/ Answer(d) \/ Fail(d)
               \/ ServeReread(d) \/ AnswerReread(d)
      BY DEF Next, vars, SelectOrg, Resume, RefreshOrgs, AnswerOrgs, LoseCsrf, Render,
         OpenStream, DropStream, ReceiveEvent, ForeignChange, ServeLoad, AnswerLoad,
         FailLoad
    <2> QED BY <2>1, <2>2
  <1> QED BY <1>4, <1>5, <1>6, <1>7, <1>8, <1>9, <1>10
-----------------------------------------------------------------------------
(* The objects of the page                                                  *)

\* The effect has one load, for the page's organisation: a new one cancels the
\* one before, and a new page has none of the old.
LEMMA LoadStep ==
  ASSUME OneLoad, [Next]_vars
  PROVE  OneLoad'
  <1>1. CASE Render
    BY <1>1 DEF Render, Kept, OneLoad
  <1>2. CASE ReceiveEvent
    BY <1>2 DEF ReceiveEvent, Uncancelled, NewLoad, OneLoad
  <1>3. ASSUME NEW l \in loads, ServeLoad(l)
        PROVE  OneLoad'
    <2>1. loads = {l} /\ shown' = shown
      BY <1>3 DEF OneLoad, ServeLoad
    <2>2. loads' = {[l EXCEPT !.got = stock[l.org]]}
      BY <1>3, <2>1 DEF ServeLoad
    <2>3. [l EXCEPT !.got = stock[l.org]].org = l.org
      OBVIOUS
    <2> QED BY <2>1, <2>2, <2>3 DEF OneLoad
  <1>4. ASSUME NEW l \in loads, AnswerLoad(l) \/ FailLoad(l)
        PROVE  OneLoad'
    BY <1>4 DEF AnswerLoad, FailLoad, OneLoad
  <1>5. CASE UNCHANGED <<loads, shown>>
    BY <1>5 DEF OneLoad
  <1> QED
    BY <1>1, <1>2, <1>3, <1>4, <1>5 DEF Next, vars, page, SelectOrg, Resume,
       RefreshOrgs, AnswerOrgs, LoseCsrf, OpenStream, DropStream, ForeignChange,
       Press, LoadToken, Serve, Answer, Fail, ServeReread, AnswerReread

\* What the page is given to show is the page's own.
LEMMA ViewStep ==
  ASSUME Typed, OneLoad, NothingOfAnotherTenant, [Next]_vars
  PROVE  NothingOfAnotherTenant'
  <1>1. CASE Render
    BY <1>1 DEF Render, Kept, Nobody, NothingOfAnotherTenant
  <1>2. ASSUME NEW l \in loads, AnswerLoad(l) \/ FailLoad(l)
        PROVE  NothingOfAnotherTenant'
    BY <1>2 DEF AnswerLoad, FailLoad, Nobody, OneLoad, NothingOfAnotherTenant
  <1>3. ASSUME NEW c \in Click, AnswerReread(c)
        PROVE  NothingOfAnotherTenant'
    BY <1>3 DEF AnswerReread, Mounted, NothingOfAnotherTenant
  <1>4. CASE UNCHANGED <<view, shown>>
    BY <1>4 DEF NothingOfAnotherTenant
  <1> QED
    BY <1>1, <1>2, <1>3, <1>4 DEF Next, vars, page, SelectOrg, Resume, RefreshOrgs,
       AnswerOrgs, LoseCsrf, OpenStream, DropStream, ReceiveEvent, ForeignChange,
       ServeLoad, Press, LoadToken, Serve, Answer, Fail, ServeReread

\* A change of the page's objects is told to the page, or is missed.
LEMMA ChangeTold ==
  ASSUME StockTyped, NothingMissed, NEW o \in Org, NEW k \in Kind, Change(o, k),
         UNCHANGED <<shown, loads, view>>
  PROVE  NothingMissed'
  <1> SUFFICES ASSUME shown.org # None, ~excuse', ~(inbox' > 0)
               PROVE  Displayed'
    BY Zenon DEF NothingMissed
  <1>1. shown.org # o \/ k = "standalone"
    <2> SUFFICES ASSUME shown.org = o, k # "standalone" PROVE FALSE
      OBVIOUS
    <2>1. CASE stream = "open"
      <3>1. inbox' = inbox + 1
        BY <2>1 DEF Change, Publish
      <3> QED BY <3>1 DEF StockTyped
    <2>2. CASE stream # "open"
      <3>1. excuse' = TRUE
        BY <2>2, Zenon DEF Change, Publish
      <3> QED BY <3>1
    <2> QED BY <2>1, <2>2
  <1>2. inbox' = inbox /\ excuse' = excuse
    BY <1>1, Zenon DEF Change, Publish
  <1>3. OfTrade(stock'[shown.org]) = OfTrade(stock[shown.org])
    BY <1>1 DEF Change, OfTrade, StockTyped
  <1>4. ~excuse
    BY <1>2, Zenon
  <1>5. Displayed
    BY <1>2, <1>4, Zenon DEF NothingMissed
  <1> QED BY <1>3, <1>5, Zenon DEF Displayed, IsCurrent

LEMMA MissedStep ==
  ASSUME Typed, OneLoad, NothingMissed, [Next]_vars
  PROVE  NothingMissed'
  <1>1. ProviderTyped /\ PageTyped /\ StockTyped /\ HandlersTyped
    BY TypedParts
  <1>2. CASE Render
    <2>1. loads' = {} \/ (\A l \in loads' : l.got = None)
      BY <1>2 DEF Render, Kept
    <2>2. loads' = {} => shown'.org = None
      BY <1>2 DEF Render, Kept
    <2> QED BY <2>1, <2>2, Zenon DEF NothingMissed, Displayed
  <1>3. CASE DropStream
    <2>1. CASE inbox > 0
      <3>1. excuse' = TRUE
        BY <1>3, <2>1, Zenon DEF DropStream
      <3> QED BY <3>1, Zenon DEF NothingMissed
    <2>2. CASE ~(inbox > 0)
      <3>1. excuse => excuse'
        BY <1>3, Zenon DEF DropStream
      <3>2. UNCHANGED <<shown, loads, view, stock>>
        BY <1>3 DEF DropStream, server
      <3> QED BY <2>2, <3>1, <3>2, Zenon DEF NothingMissed, Displayed, IsCurrent
    <2> QED BY <2>1, <2>2
  <1>4. CASE ReceiveEvent
    <2>1. CASE events < MaxEvents
      <3>1. loads' = {NewLoad} /\ NewLoad.got = None
        BY <1>4, <2>1 DEF ReceiveEvent, Uncancelled, NewLoad
      <3> QED BY <3>1, Zenon DEF NothingMissed, Displayed
    <2>2. CASE ~(events < MaxEvents)
      <3>1. excuse' = TRUE
        BY <1>4, <2>2, Zenon DEF ReceiveEvent
      <3> QED BY <3>1, Zenon DEF NothingMissed
    <2> QED BY <2>1, <2>2
  <1>5. ASSUME NEW l \in loads, ServeLoad(l)
        PROVE  NothingMissed'
    <2>1. loads' = {[l EXCEPT !.got = stock[l.org]]} /\ l.org = shown.org
      BY <1>5 DEF OneLoad, ServeLoad
    <2>2. [l EXCEPT !.got = stock[l.org]].got = stock[l.org]
      BY <1>1 DEF PageTyped, LoadRecord
    <2>3. UNCHANGED <<shown, stock>>
      BY <1>5 DEF ServeLoad, server
    <2> QED BY <2>1, <2>2, <2>3, Zenon DEF NothingMissed, Displayed, IsCurrent
  <1>6. ASSUME NEW l \in loads, AnswerLoad(l)
        PROVE  NothingMissed'
    <2>1. /\ loads' = {} /\ l.org = shown.org /\ l.got # None
          /\ view' = [org |-> l.org, kinds |-> l.got]
          /\ UNCHANGED <<shown, stock, inbox, excuse>>
      BY <1>6 DEF OneLoad, AnswerLoad, server
    <2>2. view'.org = shown.org /\ view'.kinds = l.got
      BY <2>1
    <2> QED BY <1>6, <2>1, <2>2, Zenon DEF NothingMissed, Displayed, IsCurrent
  <1>7. ASSUME NEW l \in loads, FailLoad(l)
        PROVE  NothingMissed'
    <2>1. excuse' = TRUE
      BY <1>7, Zenon DEF FailLoad
    <2> QED BY <2>1, Zenon DEF NothingMissed
  <1>8. ASSUME NEW o \in Org, NEW k \in Foreign, ForeignChange(o, k)
        PROVE  NothingMissed'
    <2>1. k \in Kind /\ Change(o, k) /\ UNCHANGED <<shown, loads, view>>
      BY <1>8, KindAssumption DEF ForeignChange
    <2> QED BY <1>1, <2>1, ChangeTold
  <1>9. ASSUME NEW c \in Click, Serve(c)
        PROVE  NothingMissed'
    <2>1. click[c] \in HandlerRecord /\ click[c].page.org \in Org /\ click[c].todo # <<>>
      BY <1>1, <1>9 DEF Serve, HandlersTyped, HandlersKnow, Idle, Running
    <2>2. Head(click[c].todo) \in Kind
      BY <2>1 DEF HandlerRecord
    <2> QED BY <1>1, <1>9, <2>1, <2>2, ChangeTold DEF Serve
  <1>10. ASSUME NEW c \in Click, AnswerReread(c)
         PROVE  NothingMissed'
    <2> DEFINE r == click[c]
    <2>1. UNCHANGED <<shown, loads, inbox, stock>>
      BY <1>10 DEF AnswerReread, server
    <2>2. CASE ~Mounted(c)
      <3>1. view' = view /\ (excuse => excuse')
        BY <1>10, <2>2, Zenon DEF AnswerReread
      <3> QED BY <2>1, <3>1, Zenon DEF NothingMissed, Displayed, IsCurrent
    <2>3. CASE Mounted(c) /\ OfTrade(r.got) # OfTrade(stock[r.page.org])
      <3>1. excuse' = TRUE
        BY <1>10, <2>3, Zenon DEF AnswerReread
      <3> QED BY <3>1, Zenon DEF NothingMissed
    <2>4. CASE Mounted(c) /\ OfTrade(r.got) = OfTrade(stock[r.page.org])
      <3>1. /\ view' = [org |-> r.page.org, kinds |-> r.got] /\ (excuse => excuse')
            /\ r.page = shown
        BY <1>10, <2>4, Zenon DEF AnswerReread, Mounted
      <3>2. view'.org = shown.org /\ view'.kinds = r.got
        BY <3>1
      <3> QED BY <2>1, <2>4, <3>1, <3>2, Zenon DEF NothingMissed, Displayed, IsCurrent
    <2> QED BY <2>2, <2>3, <2>4
  <1>11. CASE UNCHANGED <<shown, view, loads, inbox, excuse, stock>>
    BY <1>11, Zenon DEF NothingMissed, Displayed, IsCurrent
  <1> QED
    BY <1>2, <1>3, <1>4, <1>5, <1>6, <1>7, <1>8, <1>9, <1>10, <1>11 DEF Next, vars,
       page, server, SelectOrg, Resume, RefreshOrgs, AnswerOrgs, LoseCsrf,
       OpenStream, Press, LoadToken, Answer, Fail, ServeReread
-----------------------------------------------------------------------------
(* Theorems                                                                 *)

LEMMA InvInit == Init => Inv
  <1> SUFFICES ASSUME Init PROVE Inv
    OBVIOUS
  <1>1. Typed
    BY TypedInit
  <1>2. /\ VisibleIsSettled /\ OneLoad /\ NothingOfAnotherTenant
        /\ HandlersStopAtSwitch
    BY DEF Init, VisibleIsSettled, OneLoad, NothingOfAnotherTenant, Nobody,
       HandlersStopAtSwitch, Idle
  <1>3. NothingMissed
    BY DEF Init, NothingMissed
  <1> QED BY <1>1, <1>2, <1>3 DEF Inv

LEMMA InvStep == Inv /\ [Next]_vars => Inv'
  BY TypedStep, TypedParts, SettledStep, LoadStep, ViewStep, StopsStep, MissedStep
     DEF Inv

LEMMA Invariance == Spec => []Inv
  BY InvInit, InvStep, PTL DEF Spec

\* No page shows the objects of another tenant than its own.
THEOREM OwnTenantOnly == Spec => []NothingOfAnotherTenant
  <1>1. Inv => NothingOfAnotherTenant
    BY DEF Inv
  <1> QED BY <1>1, Invariance, PTL

\* A handler makes no call under a tenant that it has not begun under, but for
\* one that waited for its token.
THEOREM HandlersStop == Spec => []HandlersStopAtSwitch
  <1>1. Inv => HandlersStopAtSwitch
    BY DEF Inv
  <1> QED BY <1>1, Invariance, PTL

\* A page at rest shows what there is, but for the excuses named.
THEOREM RoomIsCurrent == Spec => []QuietRoomIsCurrent
  <1>1. Inv => QuietRoomIsCurrent
    <2> SUFFICES ASSUME NothingMissed, shown.org # None, loads = {}, inbox = 0, ~excuse
                 PROVE  view.org = shown.org /\ IsCurrent(view.kinds)
      BY DEF Inv, QuietRoomIsCurrent, IsCurrent
    <2>1. ~(inbox > 0)
      OBVIOUS
    <2> QED BY <2>1, Zenon DEF NothingMissed, Displayed
  <1> QED BY <1>1, Invariance, PTL

\* A tenant that is visible stays so until the next switch.
THEOREM SwitchedOnlyByUser == Spec => VisibleUntilSwitch
  <1>1. Inv /\ [Next]_vars =>
          [visible # None /\ visible' # visible => epoch' # epoch]_vars
    BY SettledStep, TypedParts DEF Inv
  <1> QED BY <1>1, Invariance, PTL DEF Spec, VisibleUntilSwitch
=============================================================================
