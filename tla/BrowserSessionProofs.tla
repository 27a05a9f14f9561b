----------------------- MODULE BrowserSessionProofs -----------------------
(***************************************************************************)
(* Proofs about BrowserSession, for every number of requests in flight,    *)
(* sign-ins and sessions.                                                  *)
(***************************************************************************)
EXTENDS BrowserSession, FiniteSetTheorems, TLAPS

Proxied == Kind \ {"callback"}
Sent == [kind : Proxied, cookie : Cookie, csrf : Id \cup {Absent}]
Callback == [kind : {"callback"}, cookie : Cookie, flow : Flow]
Authenticated ==
  [kind : Proxied, id : Id, row : [fresh : BOOLEAN, until : Id]]
Rotated == [kind : Proxied, new : Id]
Answered ==
  [kind : Kind, cookie : Cookie \cup {Absent}, csrf : Cookie \cup {Absent}]

At == {"idle", "sent", "authenticated", "refreshed", "rotated", "consumed",
       "answered"}

\* A request carries what its place needs.
ReqKnown(r) ==
  /\ at[r] = "idle" => req[r] = NoRequest
  /\ at[r] = "sent" => req[r] \in Sent \cup Callback
  /\ at[r] \in {"authenticated", "refreshed"} => req[r] \in Authenticated
  /\ at[r] = "rotated" => req[r] \in Rotated
  /\ at[r] = "consumed" => req[r] \in Callback
  /\ at[r] = "answered" => req[r] \in Answered

Requests ==
  /\ at \in [Request -> At]
  /\ req = [r \in Request |-> req[r]]
  /\ \A r \in Request : ReqKnown(r)

Tables ==
  /\ session \in [Id -> Row]
  /\ flow \in [Flow -> {"open", "spent"}]
  /\ passed \subseteq Id
  /\ cookie \in Cookie
  /\ csrf \in Cookie
  /\ root \in [Id -> Cookie]
  /\ made \in [Flow -> SUBSET Id]
  /\ signedOut \subseteq Id
  /\ lost \subseteq Id

\* A session has the deadline of its sign-in's session; a number that was not
\* given to a session has nothing.
SessionKnown(i) ==
  IF Used(i) THEN root[i] \in Id /\ Used(root[i]) /\ session[i].until = root[i]
  ELSE ~session[i].live /\ root[i] = None /\ i \notin signedOut

Rooted == \A i \in Id : SessionKnown(i)

\* What a handler holds is of a session that was made.
HandlersHold ==
  \A r \in Request :
    at[r] \in {"authenticated", "refreshed"} =>
      /\ Used(req[r].id)
      /\ req[r].row.until = root[req[r].id]

\* The sessions of a sign-in replace each other one by one: one of them, at
\* most, has no successor, and those that have one are revoked.
LiveIsNewest == \A i \in Id : session[i].live => session[i].next = None

OneNewest ==
  \A i, j \in Id :
    /\ Used(i) /\ Used(j) /\ root[i] = root[j]
    /\ session[i].next = None /\ session[j].next = None
    => i = j

\* A flow has made nothing until a callback has consumed it, and one callback
\* consumes it.
FlowsServeOnce ==
  /\ \A f \in Flow : flow[f] = "open" => made[f] = {}
  /\ \A r \in Request : at[r] = "consumed" =>
       flow[req[r].flow] = "spent" /\ made[req[r].flow] = {}
  /\ \A r, q \in Request :
       at[r] = "consumed" /\ at[q] = "consumed" /\ req[r].flow = req[q].flow
         => r = q
  /\ \A f \in Flow : \A i, j \in made[f] : i = j

Inv ==
  /\ Tables
  /\ Requests
  /\ Rooted
  /\ HandlersHold
  /\ LiveIsNewest
  /\ OneNewest
  /\ FlowsServeOnce
  /\ SuccessorReachesBrowser
  /\ SignedOutUnlessReplaced
-----------------------------------------------------------------------------
(* Operators                                                                *)

LEMMA RevokedFacts ==
  ASSUME NEW row \in Row, NEW n \in Cookie
  PROVE  /\ Revoked(row, n) \in Row
         /\ ~Revoked(row, n).live
         /\ Revoked(row, n).until = row.until
         /\ Revoked(row, n).next = n
  BY DEF Revoked, Row

LEMMA FreshFacts ==
  ASSUME Room
  PROVE  Fresh \in Id /\ ~Used(Fresh)
  BY DEF Room, Fresh

LEMMA Numbers ==
  /\ Absent \notin Id
  /\ Absent # None
  /\ None \notin Id
  /\ None \notin Kind
  /\ 1 \in Id
  BY MaxSessionAssumption, NoneAssumption DEF Absent, Id

\* Where there is no session, a request is answered with what its route says.
LEMMA UnauthenticatedFacts ==
  ASSUME NEW r \in Request, Unauthenticated(r)
  PROVE  \E c, t \in {None, Absent} : Answer(r, c, t)
  BY DEF Unauthenticated
-----------------------------------------------------------------------------
(* Requests                                                                 *)

\* A step that moves a request leaves the others alone.
LEMMA Moved ==
  ASSUME Requests, NEW r \in Request, NEW label \in At, NEW m,
         at' = [at EXCEPT ![r] = label], req' = [req EXCEPT ![r] = m]
  PROVE  /\ at'[r] = label /\ req'[r] = m
         /\ \A q \in Request \ {r} : at'[q] = at[q] /\ req'[q] = req[q]
         /\ ReqKnown(r)' => Requests'
  <1>1. at'[r] = label /\ at' \in [Request -> At]
    BY DEF Requests
  <1>2. req'[r] = m /\ req' = [q \in Request |-> req'[q]]
    BY DEF Requests
  <1>3. \A q \in Request \ {r} : at'[q] = at[q] /\ req'[q] = req[q]
    BY DEF Requests
  <1>4. ASSUME ReqKnown(r)'
        PROVE  Requests'
    <2>1. \A q \in Request : ReqKnown(q)'
      BY <1>3, <1>4 DEF Requests, ReqKnown
    <2> QED BY <1>1, <1>2, <2>1 DEF Requests
  <1> QED BY <1>1, <1>2, <1>3, <1>4

LEMMA Answering ==
  ASSUME Requests, NEW r \in Request, at[r] # "idle",
         NEW c \in Cookie \cup {Absent}, NEW t \in Cookie \cup {Absent},
         Answer(r, c, t)
  PROVE  /\ Requests'
         /\ at'[r] = "answered"
         /\ req'[r].cookie = c
         /\ \A q \in Request \ {r} : at'[q] = at[q] /\ req'[q] = req[q]
  <1> DEFINE m == [kind |-> req[r].kind, cookie |-> c, csrf |-> t]
  <1>1. req[r].kind \in Kind
    BY DEF Requests, ReqKnown, At, Sent, Callback, Authenticated, Rotated, Answered,
       Kind, Proxied
  <1>2. m \in Answered /\ m.cookie = c
    BY <1>1 DEF Answered
  <1>3. /\ at' = [at EXCEPT ![r] = "answered"]
        /\ req' = [req EXCEPT ![r] = m]
    BY DEF Answer, Requests
  <1> HIDE DEF m
  <1>4. /\ at'[r] = "answered" /\ req'[r] = m
        /\ \A q \in Request \ {r} : at'[q] = at[q] /\ req'[q] = req[q]
        /\ ReqKnown(r)' => Requests'
    BY <1>3, Moved DEF At
  <1>5. ReqKnown(r)'
    BY <1>2, <1>4 DEF ReqKnown
  <1> QED BY <1>2, <1>4, <1>5

\* A refusal brings no session.
LEMMA Refusing ==
  ASSUME Requests, NEW r \in Request, at[r] # "idle", Unauthenticated(r)
  PROVE  /\ Requests'
         /\ at'[r] = "answered"
         /\ req'[r].cookie \notin Id
         /\ \A q \in Request \ {r} : at'[q] = at[q] /\ req'[q] = req[q]
  <1>1. PICK c \in {None, Absent}, t \in {None, Absent} : Answer(r, c, t)
    BY UnauthenticatedFacts
  <1> QED BY <1>1, Answering, Numbers DEF Cookie

LEMMA RequestsStep ==
  ASSUME Tables, Requests, Rooted, NEW r \in Request, Browse(r) \/ Serve(r)
  PROVE  Requests' /\ \A q \in Request \ {r} : at'[q] = at[q] /\ req'[q] = req[q]
  <1> DEFINE Fine == Requests' /\ \A q \in Request \ {r} : at'[q] = at[q] /\ req'[q] = req[q]
  <1>1. ASSUME NEW label \in At, NEW m,
               at' = [at EXCEPT ![r] = label], req' = [req EXCEPT ![r] = m],
               \/ label = "idle" /\ m = NoRequest
               \/ label = "sent" /\ m \in Sent \cup Callback
               \/ label \in {"authenticated", "refreshed"} /\ m \in Authenticated
               \/ label = "rotated" /\ m \in Rotated
               \/ label = "consumed" /\ m \in Callback
        PROVE  Fine
    <2>1. /\ at'[r] = label /\ req'[r] = m
          /\ \A q \in Request \ {r} : at'[q] = at[q] /\ req'[q] = req[q]
          /\ ReqKnown(r)' => Requests'
      BY <1>1, Moved
    <2>2. ReqKnown(r)'
      BY <1>1, <2>1 DEF ReqKnown
    <2> QED BY <2>1, <2>2
  <1>2. ASSUME NEW label \in At, at' = [at EXCEPT ![r] = label], UNCHANGED req
        PROVE  at' = [at EXCEPT ![r] = label] /\ req' = [req EXCEPT ![r] = req[r]]
    BY <1>2 DEF Requests
  <1>3. CASE \E kind \in Kind \ {"callback"}, unsafe \in BOOLEAN : Send(r, kind, unsafe)
    <2>1. PICK kind \in Kind \ {"callback"}, unsafe \in BOOLEAN : Send(r, kind, unsafe)
      BY <1>3
    <2> DEFINE m == [kind |-> kind, cookie |-> cookie,
                     csrf |-> IF unsafe THEN csrf ELSE Absent]
    <2>2. (IF unsafe THEN csrf ELSE Absent) \in Id \cup {Absent}
      BY <2>1 DEF Send, Tables, Cookie
    <2>3. m \in Sent
      BY <2>2 DEF Sent, Proxied, Tables
    <2> HIDE DEF m
    <2>4. at' = [at EXCEPT ![r] = "sent"] /\ req' = [req EXCEPT ![r] = m]
      BY <2>1 DEF Send, m
    <2> QED BY <1>1, <2>3, <2>4 DEF At
  <1>4. CASE \E f \in Flow : OpenCallback(r, f)
    <2>1. PICK f \in Flow : OpenCallback(r, f)
      BY <1>4
    <2> DEFINE m == [kind |-> "callback", cookie |-> cookie, flow |-> f]
    <2>2. m \in Callback
      BY DEF Callback, Tables
    <2> HIDE DEF m
    <2>3. at' = [at EXCEPT ![r] = "sent"] /\ req' = [req EXCEPT ![r] = m]
      BY <2>1 DEF OpenCallback, m
    <2> QED BY <1>1, <2>2, <2>3 DEF At
  <1>5. CASE Arrive(r) \/ ArriveStale(r) \/ Lose(r)
    BY <1>1, <1>5 DEF Arrive, ArriveStale, Lose, At
  <1>6. CASE \E readable \in BOOLEAN : Authenticate(r, readable)
    <2> DEFINE i == req[r].cookie
    <2>1. at[r] = "sent" /\ req[r].kind # "callback" /\ req[r] \in Sent
      BY <1>6 DEF Authenticate, Requests, ReqKnown, Callback
    <2>2. CASE Unauthenticated(r)
      BY <2>1, <2>2, Refusing
    <2>3. CASE Answer(r, Absent, Absent)
      BY <2>1, <2>3, Answering
    <2>4. ASSUME i # None, Usable(i), at' = [at EXCEPT ![r] = "authenticated"],
                 req' = [req EXCEPT ![r] =
                   [kind |-> @.kind, id |-> i,
                    row |-> [fresh |-> session[i].fresh, until |-> session[i].until]]]
          PROVE  Fine
      <3> DEFINE m == [kind |-> req[r].kind, id |-> i,
                    row |-> [fresh |-> session[i].fresh, until |-> session[i].until]]
      <3>1. i \in Id /\ req[r].kind \in Proxied
        BY <2>1, <2>4 DEF Sent, Cookie
      <3>2. session[i].until \in Id
        BY <2>4, <3>1 DEF Rooted, SessionKnown, Usable
      <3>3. session[i].fresh \in BOOLEAN
        BY <3>1 DEF Tables, Row
      <3>4. m \in Authenticated
        BY <3>1, <3>2, <3>3 DEF Authenticated
      <3>5. req' = [req EXCEPT ![r] = m]
        BY <2>4 DEF Requests
      <3> HIDE DEF m, i
      <3> QED BY <1>1, <2>4, <3>4, <3>5 DEF At
    <2> QED
      BY <1>6, <2>1, <2>2, <2>3, <2>4 DEF Authenticate
  <1>7. CASE Refresh(r)
    <2>1. req[r] \in Authenticated /\ at[r] # "idle"
      BY <1>7 DEF Refresh, Requests, ReqKnown
    <2>2. CASE Unauthenticated(r)
      BY <2>1, <2>2, Refusing
    <2>3. CASE at' = [at EXCEPT ![r] = "refreshed"] /\ UNCHANGED req
      BY <1>1, <1>2, <2>1, <2>3 DEF At
    <2> QED BY <1>7, <2>2, <2>3 DEF Refresh
  <1>8. CASE Rotate(r)
    <2>1. req[r] \in Authenticated /\ at[r] # "idle"
      BY <1>8 DEF Rotate, Requests, ReqKnown
    <2>2. CASE Unauthenticated(r)
      BY <2>1, <2>2, Refusing
    <2>3. ASSUME Room, at' = [at EXCEPT ![r] = "rotated"],
                 req' = [req EXCEPT ![r] = [kind |-> @.kind, new |-> Fresh]]
          PROVE  Fine
      <3> DEFINE m == [kind |-> req[r].kind, new |-> Fresh]
      <3>1. m \in Rotated
        BY <2>1, <2>3, FreshFacts DEF Authenticated, Rotated
      <3>2. req' = [req EXCEPT ![r] = m]
        BY <2>3 DEF Requests
      <3> HIDE DEF m
      <3> QED BY <1>1, <2>3, <3>1, <3>2 DEF At
    <2> QED BY <1>8, <2>2, <2>3 DEF Rotate
  <1>9. CASE \E ok \in BOOLEAN : Forward(r, ok)
    <2>1. CASE at[r] = "authenticated"
      <3>1. req[r].id \in Cookie
        BY <2>1 DEF Requests, ReqKnown, Authenticated, Cookie
      <3> QED BY <1>9, <2>1, <3>1, Answering DEF Forward
    <2>2. CASE at[r] = "rotated"
      <3>1. req[r].new \in Cookie
        BY <2>2 DEF Requests, ReqKnown, Rotated, Cookie
      <3> QED BY <1>9, <2>2, <3>1, Answering DEF Forward, Finalize
    <2> QED BY <1>9, <2>1, <2>2 DEF Forward
  <1>10. CASE Revoke(r) \/ RefuseCode(r)
    BY <1>10, Answering DEF Revoke, RefuseCode, Cookie
  <1>11. CASE ConsumeFlow(r)
    <2>1. at[r] = "sent" /\ req[r] \in Callback
      BY <1>11 DEF ConsumeFlow, Requests, ReqKnown, Sent, Proxied
    <2>2. CASE Answer(r, Absent, None)
      BY <2>1, <2>2, Answering DEF Cookie
    <2>3. CASE at' = [at EXCEPT ![r] = "consumed"] /\ UNCHANGED req
      BY <1>1, <1>2, <2>1, <2>3 DEF At
    <2> QED BY <1>11, <2>2, <2>3 DEF ConsumeFlow
  <1>12. CASE Create(r)
    BY <1>12, FreshFacts, Answering DEF Create, Cookie
  <1> QED
    BY <1>3, <1>4, <1>5, <1>6, <1>7, <1>8, <1>9, <1>10, <1>11, <1>12 DEF Browse, Serve
-----------------------------------------------------------------------------
(* The table of sessions                                                    *)

\* A row that is not made or replaced by a step can only become worse.
Weakens(i) ==
  /\ session'[i].until = session[i].until
  /\ session'[i].next = session[i].next
  /\ session'[i].live => session[i].live
  /\ Usable(i)' => Usable(i)

Quiet ==
  /\ session' \in [Id -> Row]
  /\ UNCHANGED <<root, made>>
  /\ \A i \in Id : Weakens(i)

Rotates(r) == Rotate(r) /\ Usable(req[r].id)

\* A rotation replaces the row it insists on.
LEMMA RotateFacts ==
  ASSUME Tables, Requests, Rooted, HandlersHold, NEW r \in Request, Rotates(r)
  PROVE  LET i == req[r].id  n == Fresh IN
         /\ i \in Id /\ Used(i) /\ session[i].live /\ root[i] \in Id
         /\ n \in Id /\ ~Used(n) /\ n # i
         /\ session'[n].live /\ session'[n].until = root[i] /\ session'[n].next = None
         /\ ~session'[i].live /\ session'[i].until = session[i].until
         /\ session'[i].next = n
         /\ \A j \in Id \ {i, n} : session'[j] = session[j]
         /\ root' = [root EXCEPT ![n] = root[i]]
         /\ session' \in [Id -> Row]
         /\ at'[r] = "rotated" /\ req'[r].new = n
         /\ UNCHANGED <<flow, passed, cookie, csrf, made, signedOut, lost>>
  <1> DEFINE i == req[r].id
             n == Fresh
             row == [live |-> TRUE, idle |-> FALSE, fresh |-> TRUE,
                     until |-> req[r].row.until, next |-> None]
             old == Revoked(session[i], n)
  <1>1. req[r] \in Authenticated /\ i \in Id
    BY DEF Rotates, Rotate, Requests, ReqKnown, Authenticated
  <1>2. Used(i) /\ session[i].live
    BY <1>1 DEF Rotates, Usable, Rooted, SessionKnown
  <1>3. root[i] \in Id /\ req[r].row.until = root[i]
    BY <1>1, <1>2 DEF Rotates, Rotate, HandlersHold, Rooted, SessionKnown
  <1>4. Room
    BY DEF Rotates, Rotate
  <1>5. n \in Id /\ ~Used(n) /\ n # i
    BY <1>2, <1>4, FreshFacts
  <1>6. row \in Row /\ row.live /\ row.until = root[i] /\ row.next = None
    BY <1>3 DEF Row, Cookie
  <1>7. old \in Row /\ ~old.live /\ old.until = session[i].until /\ old.next = n
    BY <1>1, <1>5, RevokedFacts DEF Tables, Cookie
  <1>8. session' = [session EXCEPT ![i] = old, ![n] = row]
    BY DEF Rotates, Rotate, DeadlineOf
  <1>9. root' = [root EXCEPT ![n] = root[i]]
    BY DEF Rotates, Rotate
  <1>10. UNCHANGED <<flow, passed, cookie, csrf, made, signedOut, lost>>
    BY DEF Rotates, Rotate
  <1>11. at'[r] = "rotated" /\ req'[r].new = n
    <2> DEFINE m == [kind |-> req[r].kind, new |-> n]
    <2>1. at' = [at EXCEPT ![r] = "rotated"] /\ req' = [req EXCEPT ![r] = m]
      BY DEF Rotates, Rotate, Requests
    <2>2. m.new = n
      OBVIOUS
    <2>3. r \in DOMAIN at /\ r \in DOMAIN req
      BY DEF Requests
    <2> HIDE DEF m, row, old, i, n
    <2>4. at'[r] = "rotated" /\ req'[r] = m
      BY <2>1, <2>3
    <2> QED BY <2>2, <2>4
  <1> HIDE DEF row, old, i, n
  <1>12. /\ session'[n] = row /\ session'[i] = old
         /\ \A j \in Id \ {i, n} : session'[j] = session[j]
         /\ session' \in [Id -> Row]
    BY <1>1, <1>5, <1>6, <1>7, <1>8 DEF Tables
  <1> QED
    BY <1>1, <1>2, <1>3, <1>5, <1>6, <1>7, <1>9, <1>10, <1>11, <1>12 DEF i, n

\* A sign-in makes a session of its own, and may replace the browser's.
LEMMA CreateFacts ==
  ASSUME Tables, Requests, Rooted, NEW r \in Request, Create(r)
  PROVE  LET n == Fresh  f == req[r].flow IN
         /\ n \in Id /\ ~Used(n) /\ f \in Flow
         /\ session'[n].live /\ session'[n].until = n /\ session'[n].next = None
         /\ \A j \in Id \ {n} :
              /\ session'[j].until = session[j].until
              /\ \/ session'[j] = session[j]
                 \/ ~session'[j].live /\ Usable(j) /\ session'[j].next = n
         /\ root' = [root EXCEPT ![n] = n]
         /\ made' = [made EXCEPT ![f] = @ \cup {n}]
         /\ session' \in [Id -> Row]
         /\ at[r] = "consumed" /\ at'[r] = "answered" /\ req'[r].cookie = n
         /\ UNCHANGED <<flow, passed, cookie, csrf, signedOut, lost>>
  <1> DEFINE n == Fresh
             f == req[r].flow
             p == req[r].cookie
             row == [live |-> TRUE, idle |-> FALSE, fresh |-> TRUE, until |-> n,
                     next |-> None]
             old == Revoked(session[p], n)
  <1>1. at[r] = "consumed" /\ req[r] \in Callback
    BY DEF Create, Requests, ReqKnown
  <1>2. f \in Flow /\ p \in Cookie
    BY <1>1 DEF Callback
  <1>3. n \in Id /\ ~Used(n)
    BY FreshFacts DEF Create
  <1>4. ~session[n].live
    BY <1>3 DEF Rooted, SessionKnown
  <1>5. row \in Row /\ row.live /\ row.until = n /\ row.next = None
    BY <1>3 DEF Row, Cookie
  <1>6. p \in Id => /\ old \in Row /\ ~old.live /\ old.next = n
                    /\ old.until = session[p].until
    BY <1>3, RevokedFacts DEF Tables, Cookie
  <1>7. session' = [j \in Id |-> CASE j = n -> row
                                   [] j = p /\ Usable(j) -> Revoked(session[j], n)
                                   [] OTHER -> session[j]]
    BY DEF Create
  <1>8. /\ root' = [root EXCEPT ![n] = n]
        /\ made' = [made EXCEPT ![f] = @ \cup {n}]
        /\ UNCHANGED <<flow, passed, cookie, csrf, signedOut, lost>>
    BY DEF Create
  <1>9. at'[r] = "answered" /\ req'[r].cookie = n
    <2>1. Answer(r, n, None)
      BY DEF Create
    <2> QED BY <1>1, <1>3, <2>1, Answering DEF Cookie
  <1> HIDE DEF row
  <1>10. session'[n] = row
    BY <1>3, <1>4, <1>7 DEF Usable
  <1>11. \A j \in Id \ {n} :
           \/ session'[j] = session[j]
           \/ j = p /\ session'[j] = old /\ Usable(j)
    BY <1>7
  <1> HIDE DEF old, n, f, p
  <1>12. session' \in [Id -> Row]
    <2>1. \A j \in Id : session'[j] \in Row
      BY <1>3, <1>5, <1>6, <1>10, <1>11 DEF Tables
    <2>2. session' = [j \in Id |-> session'[j]]
      BY <1>7
    <2> QED BY <2>1, <2>2
  <1>13. \A j \in Id \ {n} :
           /\ session'[j].until = session[j].until
           /\ \/ session'[j] = session[j]
              \/ ~session'[j].live /\ Usable(j) /\ session'[j].next = n
    BY <1>6, <1>11
  <1> QED BY <1>1, <1>2, <1>3, <1>5, <1>8, <1>9, <1>10, <1>12, <1>13 DEF n, f, p

\* Any other step makes rows worse or leaves them.
LEMMA TableStep ==
  ASSUME Tables, Requests, Rooted, [Next]_vars
  PROVE  \/ Quiet
         \/ \E r \in Request : Rotates(r)
         \/ \E r \in Request : Create(r)
  <1>1. ASSUME UNCHANGED <<session, root, made>>, passed \subseteq passed'
        PROVE  Quiet
    BY <1>1 DEF Quiet, Weakens, Usable, Tables
  <1>2. ASSUME NEW i \in Id, NEW row \in Row, session' = [session EXCEPT ![i] = row],
               UNCHANGED <<root, made, passed>>,
               row.until = session[i].until, row.next = session[i].next,
               row.live => session[i].live, ~row.idle => ~session[i].idle \/ ~row.live
        PROVE  Quiet
    <2>1. session'[i] = row /\ \A j \in Id \ {i} : session'[j] = session[j]
      BY <1>2 DEF Tables
    <2>2. \A j \in Id : Weakens(j)
      BY <1>2, <2>1 DEF Weakens, Usable
    <2> QED BY <1>2, <2>2 DEF Quiet, Tables
  <1>3. ASSUME NEW i \in Id,
               session' = [session EXCEPT ![i] = Revoked(@, @.next)],
               UNCHANGED <<root, made, passed>>
        PROVE  Quiet
    <2> DEFINE row == Revoked(session[i], session[i].next)
    <2>1. session[i] \in Row /\ session[i].next \in Cookie
      BY DEF Tables, Row
    <2>2. row \in Row /\ ~row.live /\ row.until = session[i].until
          /\ row.next = session[i].next
      BY <2>1, RevokedFacts
    <2>3. session' = [session EXCEPT ![i] = row]
      BY <1>3
    <2> HIDE DEF row
    <2> QED BY <1>2, <1>3, <2>2, <2>3
  <1>4. ASSUME NEW r \in Request, Browse(r)
        PROVE  Quiet
    BY <1>1, <1>4 DEF Browse, Send, OpenCallback, Arrive, ArriveStale, Lose, tables,
       history
  <1>5. ASSUME NEW r \in Request, NEW readable \in BOOLEAN, Authenticate(r, readable)
        PROVE  Quiet
    <2>1. req[r].cookie \in Cookie
      BY <1>5 DEF Authenticate, Requests, ReqKnown, Sent, Callback
    <2>2. CASE UNCHANGED session
      BY <1>1, <1>5, <2>2 DEF Authenticate, history
    <2>3. CASE /\ req[r].cookie # None
               /\ session' = [session EXCEPT ![req[r].cookie] = Revoked(@, @.next)]
      BY <1>3, <1>5, <2>1, <2>3 DEF Authenticate, Cookie, history
    <2> QED BY <1>5, <2>2, <2>3 DEF Authenticate
  <1>6. ASSUME NEW r \in Request, Rotate(r), ~Usable(req[r].id)
        PROVE  Quiet
    BY <1>1, <1>6 DEF Rotate
  <1>7. ASSUME NEW r \in Request, Revoke(r)
        PROVE  Quiet
    <2>1. req[r].id \in Id
      BY <1>7 DEF Revoke, Requests, ReqKnown, Authenticated
    <2> QED BY <1>3, <1>7, <2>1 DEF Revoke, RevokeRow
  <1>8. ASSUME NEW r \in Request,
               \/ Refresh(r) \/ (\E ok \in BOOLEAN : Forward(r, ok))
               \/ ConsumeFlow(r) \/ RefuseCode(r)
        PROVE  Quiet
    BY <1>1, <1>8 DEF Refresh, Forward, ConsumeFlow, RefuseCode, tables, history
  <1>9. ASSUME NEW i \in Id, Age(i)
        PROVE  Quiet
    <2> DEFINE row == [session[i] EXCEPT !.fresh = FALSE]
    <2>1. /\ row \in Row /\ row.until = session[i].until /\ row.next = session[i].next
          /\ row.live = session[i].live /\ row.idle = session[i].idle
      BY DEF Tables, Row
    <2>2. session' = [session EXCEPT ![i] = row] /\ UNCHANGED <<root, made, passed>>
      BY <1>9 DEF Age, history
    <2> HIDE DEF row
    <2> QED BY <1>2, <2>1, <2>2
  <1>10. ASSUME NEW i \in Id, GoIdle(i)
         PROVE  Quiet
    <2> DEFINE row == [session[i] EXCEPT !.idle = TRUE, !.fresh = FALSE]
    <2>1. /\ row \in Row /\ row.until = session[i].until /\ row.next = session[i].next
          /\ row.live = session[i].live /\ row.idle = TRUE
      BY DEF Tables, Row
    <2>2. session' = [session EXCEPT ![i] = row] /\ UNCHANGED <<root, made, passed>>
      BY <1>10 DEF GoIdle, history, Tables, Row
    <2> HIDE DEF row
    <2> QED BY <1>2, <2>1, <2>2
  <1>11. ASSUME NEW i \in Id, Pass(i)
         PROVE  Quiet
    BY <1>1, <1>11 DEF Pass, history
  <1>12. ASSUME NEW f \in Flow, ExpireFlow(f)
         PROVE  Quiet
    BY <1>1, <1>12 DEF ExpireFlow, history
  <1>13. CASE UNCHANGED vars
    BY <1>1, <1>13 DEF vars, tables, history
  <1> QED
    BY <1>4, <1>5, <1>6, <1>7, <1>8, <1>9, <1>10, <1>11, <1>12, <1>13
       DEF Next, Serve, Rotates
-----------------------------------------------------------------------------
(* The steps keep the invariant                                             *)

\* Who is signed out, and what that leaves
LEMMA SignOutWriter ==
  ASSUME Tables, Requests, [Next]_vars
  PROVE  \/ UNCHANGED signedOut
         \/ \E r \in Request : /\ Revoke(r) /\ req[r].id \in Id
                               /\ signedOut' = signedOut \cup {req[r].id}
  <1>1. ASSUME NEW r \in Request, Revoke(r)
        PROVE  req[r].id \in Id /\ signedOut' = signedOut \cup {req[r].id}
    BY <1>1 DEF Revoke, Requests, ReqKnown, Authenticated
  <1> QED
    BY <1>1 DEF Next, Browse, Serve, vars, tables, history, Send, OpenCallback, Arrive,
       ArriveStale, Lose, Authenticate, Refresh, Rotate, Forward, ConsumeFlow,
       RefuseCode, Create, ExpireFlow, Age, GoIdle, Pass

LEMMA TablesStep ==
  ASSUME Tables, Requests, Rooted, HandlersHold, [Next]_vars
  PROVE  Tables'
  <1> USE DEF Tables
  <1>1. session' \in [Id -> Row]
    BY TableStep, RotateFacts, CreateFacts DEF Quiet
  <1>2. root' \in [Id -> Cookie]
    BY TableStep, RotateFacts, CreateFacts DEF Quiet, Cookie
  <1>3. made' \in [Flow -> SUBSET Id]
    <2>1. ASSUME NEW r \in Request, Create(r)
          PROVE  made' \in [Flow -> SUBSET Id]
      BY <2>1, CreateFacts
    <2>2. ASSUME NEW r \in Request, Rotates(r)
          PROVE  UNCHANGED made
      BY <2>2, RotateFacts
    <2> QED BY <2>1, <2>2, TableStep DEF Quiet
  <1>4. signedOut' \subseteq Id
    BY SignOutWriter
  <1>5. flow' \in [Flow -> {"open", "spent"}] /\ passed' \subseteq Id
    BY DEF Next, Browse, Serve, vars, tables, history, Send, OpenCallback, Arrive,
       ArriveStale, Lose, Authenticate, Refresh, Rotate, Forward, ConsumeFlow, Revoke,
       RefuseCode, Create, ExpireFlow, Age, GoIdle, Pass
  <1>6. cookie' \in Cookie /\ csrf' \in Cookie /\ lost' \subseteq Id
    <2>1. ASSUME NEW r \in Request, Arrive(r) \/ ArriveStale(r)
          PROVE  cookie' \in Cookie /\ csrf' \in Cookie /\ lost' \subseteq Id
      <3>1. req[r] \in Answered
        BY <2>1 DEF Arrive, ArriveStale, Requests, ReqKnown
      <3> QED BY <2>1, <3>1 DEF Arrive, ArriveStale, Received, Answered
    <2>2. ASSUME NEW r \in Request, Lose(r)
          PROVE  cookie' \in Cookie /\ csrf' \in Cookie /\ lost' \subseteq Id
      <3>1. Carries(r) \subseteq Id
        BY DEF Carries, Requests, ReqKnown, Rotated
      <3> QED BY <2>2, <3>1 DEF Lose
    <2> QED
      BY <2>1, <2>2 DEF Next, Browse, Serve, vars, tables, history, Send, OpenCallback,
         Authenticate, Refresh, Rotate, Forward, ConsumeFlow, Revoke,
         RefuseCode, Create, ExpireFlow, Age, GoIdle, Pass
  <1> QED BY <1>1, <1>2, <1>3, <1>4, <1>5, <1>6

\* Sessions keep their sign-in, and its deadline.
LEMMA RootedStep ==
  ASSUME Tables, Requests, Rooted, HandlersHold, [Next]_vars
  PROVE  Rooted'
  <1>1. \A j \in Id : ~Used(j) => j \notin signedOut' \/ Used(j)'
    <2>1. ASSUME NEW r \in Request, Revoke(r)
          PROVE  Used(req[r].id)
      BY <2>1 DEF Revoke, HandlersHold
    <2> QED BY <2>1, SignOutWriter DEF Rooted, SessionKnown
  <1>2. CASE Quiet
    <2>1. \A j \in Id : Used(j)' <=> Used(j)
      BY <1>2 DEF Quiet, Weakens, Used
    <2>2. \A j \in Id : SessionKnown(j)'
      BY <1>1, <1>2, <2>1 DEF Quiet, Weakens, Rooted, SessionKnown, Used
    <2> QED BY <2>2 DEF Rooted
  <1>3. ASSUME NEW r \in Request, Rotates(r)
        PROVE  Rooted'
    <2>1. PICK i \in Id, n \in Id :
          /\ Used(i) /\ root[i] \in Id
          /\ ~Used(n) /\ n # i
          /\ session'[n].until = root[i]
          /\ session'[i].until = session[i].until
          /\ \A j \in Id \ {i, n} : session'[j] = session[j]
          /\ root' = [root EXCEPT ![n] = root[i]]
      BY <1>3, RotateFacts
    <2>2. \A j \in Id : Used(j) => Used(j)'
      BY <2>1 DEF Used
    <2>3. Used(n)' /\ \A j \in Id \ {n} : Used(j)' => Used(j)
      BY <2>1, Numbers DEF Used
    <2>4. Used(root[i])
      BY <2>1 DEF Rooted, SessionKnown
    <2>5. root'[n] = root[i] /\ \A j \in Id \ {n} : root'[j] = root[j]
      BY <2>1 DEF Tables
    <2>6. SessionKnown(n)'
      BY <2>1, <2>2, <2>3, <2>4, <2>5 DEF SessionKnown
    <2>7. \A j \in Id \ {n} : SessionKnown(j)'
      BY <1>1, <2>1, <2>2, <2>3, <2>5 DEF Rooted, SessionKnown
    <2> QED BY <2>6, <2>7 DEF Rooted
  <1>4. ASSUME NEW r \in Request, Create(r)
        PROVE  Rooted'
    <2>1. PICK n \in Id :
          /\ ~Used(n)
          /\ session'[n].until = n
          /\ \A j \in Id \ {n} :
               /\ session'[j].until = session[j].until
               /\ session'[j] = session[j] \/ ~session'[j].live
          /\ root' = [root EXCEPT ![n] = n]
      BY <1>4, CreateFacts
    <2>2. \A j \in Id : Used(j) => Used(j)'
      BY <2>1 DEF Used
    <2>3. Used(n)' /\ \A j \in Id \ {n} : Used(j)' => Used(j)
      BY <2>1, Numbers DEF Used
    <2>4. root'[n] = n /\ \A j \in Id \ {n} : root'[j] = root[j]
      BY <2>1 DEF Tables
    <2>5. SessionKnown(n)'
      BY <2>1, <2>3, <2>4 DEF SessionKnown
    <2>6. \A j \in Id \ {n} : SessionKnown(j)'
      BY <1>1, <2>1, <2>2, <2>3, <2>4 DEF Rooted, SessionKnown
    <2> QED BY <2>5, <2>6 DEF Rooted
  <1> QED BY <1>2, <1>3, <1>4, TableStep

LEMMA NewestStep ==
  ASSUME Tables, Requests, Rooted, HandlersHold, LiveIsNewest, OneNewest, [Next]_vars
  PROVE  LiveIsNewest' /\ OneNewest'
  <1>1. CASE Quiet
    BY <1>1 DEF Quiet, Weakens, LiveIsNewest, OneNewest, Used
  <1>2. ASSUME NEW r \in Request, Rotates(r)
        PROVE  LiveIsNewest' /\ OneNewest'
    <2>1. PICK i \in Id, n \in Id :
          /\ Used(i) /\ session[i].live
          /\ ~Used(n) /\ n # i
          /\ session'[n].next = None
          /\ ~session'[i].live /\ session'[i].next = n
          /\ \A j \in Id \ {i, n} : session'[j] = session[j]
          /\ root' = [root EXCEPT ![n] = root[i]]
      BY <1>2, RotateFacts
    <2>2. root'[n] = root[i] /\ \A j \in Id \ {n} : root'[j] = root[j]
      BY <2>1 DEF Tables
    <2>3. LiveIsNewest'
      BY <2>1 DEF LiveIsNewest
    <2>4. session[i].next = None
      BY <2>1 DEF LiveIsNewest
    <2>5. OneNewest'
      BY <2>1, <2>2, <2>4, Numbers DEF OneNewest, Used
    <2> QED BY <2>3, <2>5
  <1>3. ASSUME NEW r \in Request, Create(r)
        PROVE  LiveIsNewest' /\ OneNewest'
    <2>1. PICK n \in Id :
          /\ ~Used(n)
          /\ session'[n].next = None
          /\ \A j \in Id \ {n} :
               /\ session'[j].until = session[j].until
               /\ \/ session'[j] = session[j]
                  \/ ~session'[j].live /\ session'[j].next = n
          /\ root' = [root EXCEPT ![n] = n]
      BY <1>3, CreateFacts
    <2>2. root'[n] = n /\ \A j \in Id \ {n} : root'[j] = root[j]
      BY <2>1 DEF Tables
    <2>3. \A j \in Id \ {n} : Used(j) => root[j] # n
      BY <2>1 DEF Rooted, SessionKnown
    <2>4. \A j \in Id \ {n} : Used(j)' => Used(j)
      BY <2>1 DEF Used
    <2>5. \A j \in Id \ {n} : session'[j].next = None => session'[j] = session[j]
      BY <2>1, Numbers
    <2>6. LiveIsNewest'
      BY <2>1 DEF LiveIsNewest
    <2>7. OneNewest'
      BY <2>2, <2>3, <2>4, <2>5 DEF OneNewest
    <2> QED BY <2>6, <2>7
  <1> QED BY <1>1, <1>2, <1>3, TableStep

\* How a request comes to hold a session, or a flow
LEMMA Holding ==
  ASSUME Tables, Requests, Rooted, [Next]_vars, NEW q \in Request
  PROVE  /\ at'[q] \in {"authenticated", "refreshed"} =>
              \/ at[q] \in {"authenticated", "refreshed"} /\ req'[q] = req[q]
              \/ /\ req'[q].id \in Id /\ Usable(req'[q].id)
                 /\ req'[q].row.until = session[req'[q].id].until
         /\ at'[q] = "consumed" =>
              \/ at[q] = "consumed" /\ req'[q] = req[q]
              \/ /\ at[q] = "sent" /\ req'[q] \in Callback
                 /\ flow[req'[q].flow] = "open"
                 /\ flow' = [flow EXCEPT ![req'[q].flow] = "spent"]
                 /\ UNCHANGED made
  <1> DEFINE Holds ==
         /\ at'[q] \in {"authenticated", "refreshed"} =>
              \/ at[q] \in {"authenticated", "refreshed"} /\ req'[q] = req[q]
              \/ /\ req'[q].id \in Id /\ Usable(req'[q].id)
                 /\ req'[q].row.until = session[req'[q].id].until
         /\ at'[q] = "consumed" =>
              \/ at[q] = "consumed" /\ req'[q] = req[q]
              \/ /\ at[q] = "sent" /\ req'[q] \in Callback
                 /\ flow[req'[q].flow] = "open"
                 /\ flow' = [flow EXCEPT ![req'[q].flow] = "spent"]
                 /\ UNCHANGED made
  <1>1. ASSUME NEW r \in Request \ {q}, Browse(r) \/ Serve(r)
        PROVE  Holds
    BY <1>1, RequestsStep
  <1>2. ASSUME NEW label \in At \ {"authenticated", "refreshed", "consumed"},
               at' = [at EXCEPT ![q] = label]
        PROVE  Holds
    BY <1>2 DEF Requests
  <1>3. CASE \E c, t \in Cookie \cup {Absent} : Answer(q, c, t)
    BY <1>2, <1>3 DEF Answer, At
  <1>4. CASE Unauthenticated(q)
    BY <1>3, <1>4, UnauthenticatedFacts DEF Cookie
  <1>5. CASE \E readable \in BOOLEAN : Authenticate(q, readable)
    <2> DEFINE i == req[q].cookie
    <2>1. i \in Cookie /\ None \notin Id
      BY <1>5, Numbers DEF Authenticate, Requests, ReqKnown, Sent, Callback
    <2>2. ASSUME i # None, Usable(i), at' = [at EXCEPT ![q] = "authenticated"],
                 req' = [req EXCEPT ![q] =
                   [kind |-> @.kind, id |-> i,
                    row |-> [fresh |-> session[i].fresh, until |-> session[i].until]]]
          PROVE  Holds
      <3> DEFINE m == [kind |-> req[q].kind, id |-> i,
                    row |-> [fresh |-> session[i].fresh, until |-> session[i].until]]
      <3>1. m.id = i /\ m.row.until = session[i].until
        OBVIOUS
      <3>2. req' = [req EXCEPT ![q] = m]
        BY <2>2 DEF Requests
      <3> HIDE DEF m
      <3>3. req'[q] = m
        BY <3>2 DEF Requests
      <3>4. at'[q] = "authenticated"
        BY <2>2 DEF Requests
      <3> QED BY <2>1, <2>2, <3>1, <3>3, <3>4 DEF Cookie
    <2> QED BY <1>3, <1>4, <1>5, <2>2 DEF Authenticate, Cookie
  <1>6. CASE Refresh(q)
    BY <1>4, <1>6 DEF Refresh, Requests
  <1>7. CASE ConsumeFlow(q)
    <2>1. req[q] \in Callback
      BY <1>7 DEF ConsumeFlow, Requests, ReqKnown, Sent, Proxied
    <2> QED
      BY <1>3, <1>7, <2>1 DEF ConsumeFlow, Consumable, Requests, history, Cookie
  <1>8. CASE Rotate(q)
    BY <1>2, <1>4, <1>8 DEF Rotate, At
  <1>9. CASE (\E ok \in BOOLEAN : Forward(q, ok)) \/ Revoke(q) \/ RefuseCode(q) \/ Create(q)
    BY <1>2, <1>9 DEF Forward, Finalize, Revoke, RefuseCode, Create, Answer, At
  <1>10. CASE Browse(q)
    BY <1>2, <1>10 DEF Browse, Send, OpenCallback, Arrive, ArriveStale, Lose, At
  <1>11. CASE UNCHANGED <<at, req>>
    BY <1>11
  <1> QED
    BY <1>1, <1>5, <1>6, <1>7, <1>8, <1>9, <1>10, <1>11
       DEF Next, Serve, vars, ExpireFlow, Age, GoIdle, Pass

LEMMA UsedStays ==
  ASSUME Tables, Requests, Rooted, HandlersHold, [Next]_vars, NEW j \in Id, Used(j)
  PROVE  Used(j)' /\ root'[j] = root[j]
  <1>1. CASE Quiet
    BY <1>1 DEF Quiet, Weakens, Used
  <1>2. ASSUME NEW r \in Request, Rotates(r)
        PROVE  Used(j)' /\ root'[j] = root[j]
    <2>1. PICK i \in Id, n \in Id :
          /\ ~Used(n)
          /\ session'[i].until = session[i].until
          /\ \A k \in Id \ {i, n} : session'[k] = session[k]
          /\ root' = [root EXCEPT ![n] = root[i]]
      BY <1>2, RotateFacts
    <2> QED BY <2>1 DEF Used, Tables
  <1>3. ASSUME NEW r \in Request, Create(r)
        PROVE  Used(j)' /\ root'[j] = root[j]
    <2>1. PICK n \in Id :
          /\ ~Used(n)
          /\ \A k \in Id \ {n} : session'[k].until = session[k].until
          /\ root' = [root EXCEPT ![n] = n]
      BY <1>3, CreateFacts
    <2> QED BY <2>1 DEF Used, Tables
  <1> QED BY <1>1, <1>2, <1>3, TableStep

LEMMA HandlersStep ==
  ASSUME Tables, Requests, Rooted, HandlersHold, [Next]_vars
  PROVE  HandlersHold'
  <1> SUFFICES ASSUME NEW q \in Request, at'[q] \in {"authenticated", "refreshed"}
               PROVE  Used(req[q].id)' /\ req'[q].row.until = root'[req'[q].id]
    BY DEF HandlersHold
  <1>1. CASE at[q] \in {"authenticated", "refreshed"} /\ req'[q] = req[q]
    <2>1. PICK i \in Id : i = req[q].id /\ Used(i) /\ req[q].row.until = root[i]
      BY <1>1 DEF HandlersHold, Requests, ReqKnown, Authenticated
    <2>2. Used(i)' /\ root'[i] = root[i]
      BY <2>1, UsedStays
    <2> QED BY <1>1, <2>1, <2>2 DEF Used
  <1>2. CASE /\ req'[q].id \in Id /\ Usable(req'[q].id)
             /\ req'[q].row.until = session[req'[q].id].until
    <2>1. PICK i \in Id : i = req'[q].id /\ Usable(i) /\ req'[q].row.until = session[i].until
      BY <1>2
    <2>2. Used(i) /\ session[i].until = root[i]
      BY <2>1 DEF Usable, Rooted, SessionKnown
    <2>3. Used(i)' /\ root'[i] = root[i]
      BY <2>2, UsedStays
    <2> QED BY <2>1, <2>2, <2>3 DEF Used
  <1> QED BY <1>1, <1>2, Holding

\* A flow makes a session in the hands of the callback that consumed it.
LEMMA FlowsStep ==
  ASSUME Tables, Requests, Rooted, HandlersHold, FlowsServeOnce, [Next]_vars
  PROVE  FlowsServeOnce'
  <1>1. \A f \in Flow : flow'[f] = "open" => flow[f] = "open"
    BY DEF Tables, Next, Browse, Serve, vars, tables, Send, OpenCallback, Arrive,
       ArriveStale, Lose, Authenticate, Refresh, Rotate, Forward, ConsumeFlow, Revoke,
       RefuseCode, Create, ExpireFlow, Age, GoIdle, Pass
  <1>2. \/ UNCHANGED made
        \/ \E r \in Request, n \in Id :
             /\ req[r].flow \in Flow
             /\ at[r] = "consumed" /\ at'[r] = "answered" /\ UNCHANGED flow
             /\ made' = [made EXCEPT ![req[r].flow] = @ \cup {n}]
    <2>1. ASSUME NEW r \in Request, Create(r)
          PROVE  \E n \in Id :
                   /\ req[r].flow \in Flow
                   /\ at[r] = "consumed" /\ at'[r] = "answered" /\ UNCHANGED flow
                   /\ made' = [made EXCEPT ![req[r].flow] = @ \cup {n}]
      BY <2>1, CreateFacts
    <2>2. ASSUME NEW r \in Request, Rotates(r)
          PROVE  UNCHANGED made
      BY <2>2, RotateFacts
    <2> QED BY <2>1, <2>2, TableStep DEF Quiet
  <1>3. ASSUME NEW f \in Flow, flow'[f] = "open"
        PROVE  made'[f] = {}
    BY <1>1, <1>2, <1>3 DEF FlowsServeOnce, Tables
  <1>4. ASSUME NEW q \in Request, at'[q] = "consumed"
        PROVE  flow'[req'[q].flow] = "spent" /\ made'[req'[q].flow] = {}
    <2>1. CASE at[q] = "consumed" /\ req'[q] = req[q]
      <3> DEFINE f == req[q].flow
      <3>1. f \in Flow
        BY <2>1 DEF Requests, ReqKnown, Callback
      <3>2. flow[f] = "spent" /\ made[f] = {}
        BY <2>1 DEF FlowsServeOnce
      <3>3. flow' \in [Flow -> {"open", "spent"}]
        BY TablesStep DEF Tables
      <3>4. flow'[f] = "spent"
        BY <1>1, <3>1, <3>2, <3>3
      <3>5. made'[f] = {}
        BY <1>2, <1>4, <2>1, <3>1, <3>2 DEF FlowsServeOnce, Tables
      <3> QED BY <2>1, <3>4, <3>5
    <2>2. CASE /\ req'[q] \in Callback /\ flow[req'[q].flow] = "open"
               /\ flow' = [flow EXCEPT ![req'[q].flow] = "spent"]
               /\ UNCHANGED made
      <3>1. req'[q].flow \in Flow
        BY <2>2 DEF Callback
      <3> QED BY <2>2, <3>1 DEF FlowsServeOnce, Tables
    <2> QED BY <1>4, <2>1, <2>2, Holding
  <1>5. ASSUME NEW r \in Request, NEW q \in Request,
               at'[r] = "consumed", at'[q] = "consumed", req'[r].flow = req'[q].flow
        PROVE  r = q
    <2>1. \A p \in Request : at[p] = "consumed" => flow[req[p].flow] = "spent"
      BY DEF FlowsServeOnce
    <2>2. CASE at[r] = "consumed" /\ req'[r] = req[r] /\ at[q] = "consumed" /\ req'[q] = req[q]
      BY <1>5, <2>2 DEF FlowsServeOnce
    <2>3. CASE at[r] # "consumed" \/ at[q] # "consumed"
      <3>1. ASSUME NEW p \in Request, at'[p] = "consumed", at[p] # "consumed"
            PROVE  Browse(p) \/ Serve(p)
        <4>1. \A o \in Request : Browse(o) \/ Serve(o) => o = p
          BY <3>1, RequestsStep
        <4> QED BY <3>1, <4>1 DEF Next, vars, ExpireFlow, Age, GoIdle, Pass
      <3>2. CASE at[r] # "consumed" /\ at[q] # "consumed"
        BY <1>5, <3>1, <3>2, RequestsStep
      <3>3. CASE at[r] = "consumed" \/ at[q] = "consumed"
        <4>1. ASSUME NEW p \in Request, NEW o \in Request, p # o,
                     at'[p] = "consumed", at'[o] = "consumed",
                     at[p] = "consumed", at[o] # "consumed"
              PROVE  req'[p].flow # req'[o].flow
          <5>1. req'[p] = req[p]
            BY <3>1, <4>1, RequestsStep
          <5>2. flow[req'[o].flow] = "open"
            BY <4>1, Holding
          <5> QED BY <2>1, <4>1, <5>1, <5>2
        <4> QED BY <1>5, <2>3, <3>3, <4>1
      <3> QED BY <3>2, <3>3
    <2> QED BY <1>5, <2>2, <2>3, Holding
  <1>6. ASSUME NEW f \in Flow, NEW i \in made'[f], NEW j \in made'[f]
        PROVE  i = j
    BY <1>2, <1>6 DEF FlowsServeOnce, Tables
  <1> QED BY <1>3, <1>4, <1>5, <1>6 DEF FlowsServeOnce

\* What is lost stays lost; a cookie that goes while its session is accepted,
\* and a session that does not arrive, are lost.
LEMMA Deliveries ==
  ASSUME Tables, Requests, Rooted, HandlersHold, [Next]_vars, NEW i \in Id, Usable(i)
  PROVE  /\ i \in lost => i \in lost'
         /\ i = cookie => i = cookie' \/ i \in lost'
         /\ \A r \in Request : i \in Carries(r) =>
              i \in Carries(r)' \/ i = cookie' \/ i \in lost'
  <1>1. ASSUME NEW r \in Request, Arrive(r) \/ ArriveStale(r)
        PROVE  /\ i \in lost => i \in lost'
               /\ i = cookie => i = cookie' \/ i \in lost'
               /\ i \in Carries(r) => i = cookie'
    <2>1. i \in Carries(r) => i = req[r].cookie /\ i # Absent
      BY <1>1, Numbers DEF Arrive, ArriveStale, Carries
    <2> QED BY <1>1, <2>1 DEF Arrive, ArriveStale, Received
  <1>2. ASSUME NEW r \in Request, Lose(r)
        PROVE  /\ i \in lost => i \in lost'
               /\ i \in Carries(r) => i \in lost'
               /\ UNCHANGED cookie
    BY <1>2 DEF Lose
  <1>3. ASSUME NEW r \in Request, Serve(r)
        PROVE  UNCHANGED <<cookie, lost>>
    BY <1>3 DEF Serve, history, Authenticate, Refresh, Rotate, Forward, Revoke,
       ConsumeFlow, RefuseCode, Create
  <1>4. ASSUME NEW r \in Request,
               \/ \E kind \in Kind \ {"callback"}, unsafe \in BOOLEAN : Send(r, kind, unsafe)
               \/ \E f \in Flow : OpenCallback(r, f)
        PROVE  UNCHANGED <<cookie, lost>> /\ at[r] = "idle"
    BY <1>4 DEF Send, OpenCallback, history
  <1>5. ASSUME NEW r \in Request, Serve(r), i \in Carries(r)
        PROVE  i \in Carries(r)'
    <2>1. at[r] = "rotated" /\ req[r].new = i
      BY <1>5 DEF Carries, Serve, Authenticate, Refresh, Rotate, Forward, Revoke,
         ConsumeFlow, RefuseCode, Create
    <2>2. Answer(r, i, i)
      BY <1>5, <2>1 DEF Serve, Authenticate, Refresh, Rotate, Forward, Finalize, Revoke,
         ConsumeFlow, RefuseCode, Create
    <2>3. at'[r] = "answered" /\ req'[r].cookie = i
      BY <2>1, <2>2, Answering DEF Cookie
    <2> QED BY <2>3 DEF Carries
  <1>6. ASSUME NEW r \in Request, at'[r] = at[r], req'[r] = req[r]
        PROVE  Carries(r)' = Carries(r)
    BY <1>6 DEF Carries
  <1>7. CASE \/ UNCHANGED vars
             \/ \E f \in Flow : ExpireFlow(f)
             \/ \E k \in Id : Age(k) \/ GoIdle(k) \/ Pass(k)
    <2>1. UNCHANGED <<cookie, lost, at, req>>
      BY <1>7 DEF vars, history, ExpireFlow, Age, GoIdle, Pass
    <2> QED BY <1>6, <2>1
  <1>8. ASSUME NEW r \in Request, Browse(r) \/ Serve(r)
        PROVE  /\ i \in lost => i \in lost'
               /\ i = cookie => i = cookie' \/ i \in lost'
               /\ \A q \in Request : i \in Carries(q) =>
                    i \in Carries(q)' \/ i = cookie' \/ i \in lost'
    <2>1. \A q \in Request \ {r} : Carries(q)' = Carries(q)
      BY <1>6, <1>8, RequestsStep
    <2>2. CASE Serve(r)
      BY <1>3, <1>5, <2>1, <2>2
    <2>3. CASE \/ \E kind \in Kind \ {"callback"}, unsafe \in BOOLEAN : Send(r, kind, unsafe)
               \/ \E f \in Flow : OpenCallback(r, f)
      <3>1. Carries(r) = {}
        BY <1>4, <2>3 DEF Carries
      <3> QED BY <1>4, <2>1, <2>3, <3>1
    <2>4. CASE Arrive(r) \/ ArriveStale(r)
      BY <1>1, <2>1, <2>4
    <2>5. CASE Lose(r)
      BY <1>2, <2>1, <2>5
    <2> QED BY <1>8, <2>2, <2>3, <2>4, <2>5 DEF Browse
  <1> QED BY <1>7, <1>8 DEF Next

LEMMA SuccessorStep ==
  ASSUME Tables, Requests, Rooted, HandlersHold, SuccessorReachesBrowser, [Next]_vars
  PROVE  SuccessorReachesBrowser'
  <1> SUFFICES ASSUME NEW i \in Id, Usable(i)'
               PROVE  \/ i = cookie' \/ \E r \in Request : i \in Carries(r)'
                      \/ i \in lost'
    BY DEF SuccessorReachesBrowser
  <1>1. ASSUME Usable(i)
        PROVE  \/ i = cookie' \/ \E r \in Request : i \in Carries(r)'
               \/ i \in lost'
    BY <1>1, Deliveries DEF SuccessorReachesBrowser
  <1>2. CASE Quiet
    BY <1>1, <1>2 DEF Quiet, Weakens
  <1>3. ASSUME NEW r \in Request, Rotates(r)
        PROVE  Usable(i) \/ i \in Carries(r)'
    <2>1. PICK j \in Id, n \in Id :
          /\ ~session'[j].live
          /\ \A k \in Id \ {j, n} : session'[k] = session[k]
          /\ at'[r] = "rotated" /\ req'[r].new = n
          /\ UNCHANGED passed
      BY <1>3, RotateFacts
    <2> QED BY <2>1 DEF Usable, Carries
  <1>4. ASSUME NEW r \in Request, Create(r)
        PROVE  Usable(i) \/ i \in Carries(r)'
    <2>1. PICK n \in Id :
          /\ \A k \in Id \ {n} : session'[k] = session[k] \/ ~session'[k].live
          /\ at'[r] = "answered" /\ req'[r].cookie = n
          /\ UNCHANGED passed
      BY <1>4, CreateFacts
    <2> QED BY <2>1 DEF Usable, Carries
  <1> QED BY <1>1, <1>2, <1>3, <1>4, TableStep

LEMMA SignedOutStep ==
  ASSUME Tables, Requests, Rooted, HandlersHold, LiveIsNewest, OneNewest,
         SignedOutUnlessReplaced, [Next]_vars
  PROVE  SignedOutUnlessReplaced'
  <1> SUFFICES ASSUME NEW s \in Id, s \in signedOut', NEW j \in Id,
                      session'[s].next = None, root'[j] = root'[s], session'[j].live
               PROVE  FALSE
    BY TablesStep DEF SignedOutUnlessReplaced, Tables
  <1>1. ASSUME NEW r \in Request, Revoke(r)
        PROVE  FALSE
    <2>1. PICK i \in Id : i = req[r].id
      BY <1>1 DEF Revoke, Requests, ReqKnown, Authenticated
    <2>2. Used(i)
      BY <1>1, <2>1 DEF Revoke, HandlersHold
    <2> DEFINE row == Revoked(session[i], session[i].next)
    <2>3. session[i] \in Row /\ session[i].next \in Cookie
      BY DEF Tables, Row
    <2>4. ~row.live /\ row.next = session[i].next
      BY <2>3, RevokedFacts
    <2>5. /\ session' = [session EXCEPT ![i] = row]
          /\ signedOut' = signedOut \cup {i}
          /\ UNCHANGED root
      BY <1>1, <2>1 DEF Revoke, RevokeRow
    <2> HIDE DEF row
    <2>6. /\ j # i /\ session[j].live
          /\ session[s].next = None /\ root[j] = root[s]
      BY <2>4, <2>5 DEF Tables
    <2>7. s = i
      BY <2>5, <2>6 DEF SignedOutUnlessReplaced
    <2>8. Used(j) /\ session[j].next = None
      BY <2>6 DEF Rooted, SessionKnown, LiveIsNewest
    <2> QED BY <2>2, <2>6, <2>7, <2>8 DEF OneNewest
  <1>2. CASE UNCHANGED signedOut
    <2>1. Used(s) /\ s \in signedOut
      BY <1>2 DEF Rooted, SessionKnown
    <2>2. CASE Quiet
      BY <2>1, <2>2 DEF Quiet, Weakens, SignedOutUnlessReplaced
    <2>3. ASSUME NEW r \in Request, Rotates(r)
          PROVE  FALSE
      <3>1. PICK i \in Id, n \in Id :
            /\ session[i].live
            /\ ~Used(n) /\ n # i
            /\ ~session'[i].live /\ session'[i].next = n
            /\ \A k \in Id \ {i, n} : session'[k] = session[k]
            /\ root' = [root EXCEPT ![n] = root[i]]
        BY <2>3, RotateFacts
      <3>2. s \notin {i, n}
        BY <2>1, <3>1, Numbers
      <3>3. session[s].next = None /\ root'[s] = root[s]
        BY <3>1, <3>2 DEF Tables
      <3>4. CASE j = n
        BY <2>1, <3>1, <3>3, <3>4 DEF Tables, SignedOutUnlessReplaced
      <3>5. CASE j # n
        BY <2>1, <3>1, <3>3, <3>5 DEF Tables, SignedOutUnlessReplaced
      <3> QED BY <3>4, <3>5
    <2>4. ASSUME NEW r \in Request, Create(r)
          PROVE  FALSE
      <3>1. PICK n \in Id :
            /\ ~Used(n)
            /\ \A k \in Id \ {n} :
                 \/ session'[k] = session[k]
                 \/ ~session'[k].live /\ session'[k].next = n
            /\ root' = [root EXCEPT ![n] = n]
        BY <2>4, CreateFacts
      <3>2. s # n /\ root[s] # n
        BY <2>1, <3>1 DEF Rooted, SessionKnown
      <3>3. session[s].next = None /\ root'[s] = root[s]
        BY <3>1, <3>2, Numbers DEF Tables
      <3>4. j # n
        BY <3>1, <3>2, <3>3 DEF Tables
      <3> QED BY <2>1, <3>1, <3>3, <3>4 DEF Tables, SignedOutUnlessReplaced
    <2> QED BY <2>2, <2>3, <2>4, TableStep
  <1> QED BY <1>1, <1>2, SignOutWriter
-----------------------------------------------------------------------------
LEMMA InvInit == Init => Inv
  <1> SUFFICES ASSUME Init PROVE Inv
    OBVIOUS
  <1>1. PICK fresh \in BOOLEAN :
          session = [i \in Id |-> IF i = 1
                       THEN [live |-> TRUE, idle |-> FALSE, fresh |-> fresh,
                             until |-> 1, next |-> None]
                       ELSE Unused]
    BY DEF Init
  <1> DEFINE row == [live |-> TRUE, idle |-> FALSE, fresh |-> fresh,
                     until |-> 1, next |-> None]
  <1>2. row \in Row /\ row.live /\ row.until = 1 /\ row.next = None
    BY Numbers DEF Row, Cookie
  <1>3. Unused \in Row /\ ~Unused.live /\ Unused.until = None /\ Unused.next = None
    BY DEF Unused, Row, Cookie
  <1>4. session = [i \in Id |-> IF i = 1 THEN row ELSE Unused]
    BY <1>1
  <1> HIDE DEF row
  <1>5. /\ session \in [Id -> Row]
        /\ session[1] = row
        /\ \A i \in Id \ {1} : session[i] = Unused
    BY <1>2, <1>3, <1>4, Numbers
  <1>6. root[1] = 1 /\ \A i \in Id \ {1} : root[i] = None
    BY Numbers DEF Init
  <1>7. Tables
    BY <1>5, Numbers DEF Init, Tables, Cookie
  <1>8. Requests
    BY DEF Init, Requests, ReqKnown, At
  <1>9. Used(1) /\ \A i \in Id \ {1} : ~Used(i)
    BY <1>2, <1>3, <1>5, Numbers DEF Used
  <1>10. Rooted
    BY <1>2, <1>3, <1>5, <1>6, <1>9, Numbers DEF Init, Rooted, SessionKnown
  <1>11. LiveIsNewest /\ OneNewest
    BY <1>2, <1>3, <1>5, <1>9 DEF LiveIsNewest, OneNewest
  <1>12. HandlersHold /\ FlowsServeOnce
    BY DEF Init, HandlersHold, FlowsServeOnce
  <1>13. SuccessorReachesBrowser
    BY <1>3, <1>5 DEF Init, SuccessorReachesBrowser, Usable
  <1>14. SignedOutUnlessReplaced
    BY DEF Init, SignedOutUnlessReplaced
  <1> QED BY <1>7, <1>8, <1>10, <1>11, <1>12, <1>13, <1>14 DEF Inv

LEMMA InvStep == Inv /\ [Next]_vars => Inv'
  <1> SUFFICES ASSUME Inv, [Next]_vars PROVE Inv'
    OBVIOUS
  <1> USE DEF Inv
  <1>1. Requests'
    <2>1. CASE UNCHANGED <<at, req>>
      BY <2>1 DEF Requests, ReqKnown
    <2> QED BY <2>1, RequestsStep DEF Next, vars, ExpireFlow, Age, GoIdle, Pass
  <1> QED
    BY <1>1, TablesStep, RootedStep, NewestStep, HandlersStep, FlowsStep, SuccessorStep,
       SignedOutStep

THEOREM Invariance == Spec => []Inv
  BY InvInit, InvStep, PTL DEF Spec

(* Every variable keeps its type, and a request that is idle carries nothing. *)
THEOREM TypeCorrect == Spec => []TypeOK
  <1>1. Inv => TypeOK
    <2> SUFFICES ASSUME Inv PROVE TypeOK
      OBVIOUS
    <2>1. NoRequest.kind = None
      BY DEF NoRequest
    <2>2. \A r \in Request : at[r] # "idle" => req[r].kind \in Kind
      BY DEF Inv, Requests, ReqKnown, At, Sent, Callback, Authenticated, Rotated,
         Answered, Proxied, Kind
    <2>3. \A r \in Request : at[r] = "idle" <=> req[r] = NoRequest
      BY <2>1, <2>2, Numbers DEF Inv, Requests, ReqKnown
    <2> QED BY <2>3 DEF Inv, Tables, Requests, At, TypeOK
  <1> QED BY <1>1, Invariance, PTL

(* Rotations that race do not fork a sign-in: each insists on the row it     *)
(* replaces, which is the sign-in's only one without a successor.            *)
THEOREM OneLive == Spec => []OneLivePerSignIn
  <1>1. Inv => OneLivePerSignIn
    BY DEF Inv, OneLivePerSignIn, LiveIsNewest, OneNewest, Rooted, SessionKnown
  <1> QED BY <1>1, Invariance, PTL

(* A session that is accepted reaches the browser that asked for it, but for *)
(* an answer or a cookie that is lost.                                       *)
THEOREM Delivered == Spec => []SuccessorReachesBrowser
  <1>1. Inv => SuccessorReachesBrowser
    BY DEF Inv
  <1> QED BY <1>1, Invariance, PTL

(* A confirmed sign-out leaves none of its sign-in's sessions, unless the    *)
(* session was replaced before it was revoked.                               *)
THEOREM SignOutReaches == Spec => []SignedOutUnlessReplaced
  <1>1. Inv => SignedOutUnlessReplaced
    BY DEF Inv
  <1> QED BY <1>1, Invariance, PTL

(* A rotated session is accepted no longer than the sign-in's first one is.  *)
THEOREM DeadlineIsKept == Spec => []DeadlineHolds
  <1>1. Inv => DeadlineHolds
    BY DEF Inv, DeadlineHolds, Rooted, SessionKnown, Usable
  <1> QED BY <1>1, Invariance, PTL

(* A callback that is opened again or twice at once signs in once.           *)
THEOREM SignsInOnce == Spec => []FlowSignsInOnce
  <1>1. Inv => FlowSignsInOnce
    <2> SUFFICES ASSUME Inv, NEW f \in Flow
                 PROVE  Cardinality(made[f]) <= 1
      BY DEF FlowSignsInOnce
    <2>1. \A i, j \in made[f] : i = j
      BY DEF Inv, FlowsServeOnce
    <2>2. CASE made[f] = {}
      BY <2>2, FS_EmptySet
    <2>3. CASE made[f] # {}
      <3>1. PICK i : i \in made[f]
        BY <2>3
      <3>2. made[f] = {i}
        BY <2>1, <3>1
      <3> QED BY <3>2, FS_Singleton
    <2> QED BY <2>2, <2>3
  <1> QED BY <1>1, Invariance, PTL
-----------------------------------------------------------------------------
(* The refinement of SignInOnce                                              *)

\* The mapped values as functions and sets
LEMMA MappedFacts ==
  ASSUME Tables, Rooted
  PROVE  /\ \A i : i \in Live <=> i \in Id /\ session[i].live
         /\ Heir = [i \in Id |-> Heir[i]]
         /\ \A i \in Id : Heir[i] = session[i].next
         /\ \A i \in Id : Once!New(i) <=> ~Used(i)
         /\ \A i \in Id : Usable(i) => Once!Accepted(i)
  BY Numbers DEF Tables, Live, Heir, Once!New, Once!Accepted, Usable, Rooted, SessionKnown

\* The browser is signed in at the start.
LEMMA RefinesInit == Init => Once!Init
  <1> SUFFICES ASSUME Init PROVE Once!Init
    OBVIOUS
  <1>1. PICK fresh \in BOOLEAN :
          session = [i \in Id |-> IF i = 1
                       THEN [live |-> TRUE, idle |-> FALSE, fresh |-> fresh,
                             until |-> 1, next |-> None]
                       ELSE Unused]
    BY DEF Init
  <1>2. Live = {1} /\ Heir = [i \in Id |-> None]
    BY <1>1, Numbers DEF Live, Heir, Unused
  <1> QED BY <1>2, Numbers DEF Init, Once!Init

\* A number that was not given to a session has no successor.
UnusedIsBlank == \A i \in Id : ~Used(i) => session[i].next = None

\* That holds initially, ...
LEMMA BlankInit == Init => UnusedIsBlank
  BY DEF Init, UnusedIsBlank, Used, Unused

\* ... and a successor is given to sessions only.
LEMMA BlankStep == Inv /\ UnusedIsBlank /\ [Next]_vars => UnusedIsBlank'
  <1> SUFFICES ASSUME Inv, UnusedIsBlank, [Next]_vars, NEW j \in Id,
                      session'[j].until = None
               PROVE  session'[j].next = None
    BY DEF UnusedIsBlank, Used
  <1>1. CASE Quiet
    BY <1>1 DEF Quiet, Weakens, UnusedIsBlank, Used
  <1>2. ASSUME NEW r \in Request, Rotates(r)
        PROVE  session'[j].next = None
    <2> DEFINE i == req[r].id
               n == Fresh
    <2>1. /\ Used(i) /\ root[i] \in Id /\ session'[n].until = root[i]
          /\ session'[i].until = session[i].until
          /\ \A k \in Id \ {i, n} : session'[k] = session[k]
      BY <1>2, RotateFacts DEF Inv
    <2> HIDE DEF i, n
    <2>2. j \in Id \ {i, n}
      BY <2>1, Numbers DEF Used
    <2> QED BY <2>1, <2>2 DEF UnusedIsBlank, Used
  <1>3. ASSUME NEW r \in Request, Create(r)
        PROVE  session'[j].next = None
    <2>1. /\ session'[Fresh].until = Fresh /\ Fresh \in Id
          /\ \A k \in Id \ {Fresh} :
               /\ session'[k].until = session[k].until
               /\ session'[k] = session[k] \/ Usable(k)
      BY <1>3, CreateFacts DEF Inv
    <2>2. j # Fresh
      BY <2>1, Numbers
    <2>3. ~Usable(j)
      BY <2>1, <2>2 DEF Inv, Rooted, SessionKnown, Used, Usable
    <2> QED BY <2>1, <2>2, <2>3 DEF UnusedIsBlank, Used
  <1> QED BY <1>1, <1>2, <1>3, TableStep DEF Inv

\* A rotation renews, ...
LEMMA RefinesRotate ==
  ASSUME Inv, UnusedIsBlank, NEW r \in Request, Rotates(r)
  PROVE  \E i, n \in Id : Once!Renew(i, n)
  <1> DEFINE i == req[r].id
             n == Fresh
  <1>1. /\ i \in Id /\ Usable(i)
        /\ n \in Id /\ ~Used(n) /\ n # i
        /\ session'[n].live /\ session'[n].next = None
        /\ ~session'[i].live /\ session'[i].next = n
        /\ \A j \in Id \ {i, n} : session'[j] = session[j]
        /\ root' = [root EXCEPT ![n] = root[i]]
        /\ UNCHANGED <<passed, made, signedOut>>
    BY RotateFacts DEF Inv, Rotates
  <1> HIDE DEF i, n
  <1>2. Live' = (Live \ {i}) \cup {n}
    BY <1>1 DEF Live
  <1>3. session[n].next = None
    BY <1>1 DEF UnusedIsBlank
  <1>4. Heir' = [Heir EXCEPT ![i] = n]
    BY <1>1, <1>3 DEF Heir
  <1>5. Once!Accepted(i) /\ Once!New(n)
    BY <1>1, MappedFacts DEF Inv
  <1> QED BY <1>1, <1>2, <1>4, <1>5 DEF Once!Renew

\* ... the callback of a link signs in, ...
LEMMA RefinesCreate ==
  ASSUME Inv, UnusedIsBlank, NEW r \in Request, Create(r)
  PROVE  \E f \in Flow, n \in Id, i \in Id \cup {None} : Once!SignIn(f, n, i)
  <1> DEFINE n == Fresh
             f == req[r].flow
             p == req[r].cookie
             i == IF p \in Id /\ Usable(p) THEN p ELSE None
  <1>1. /\ n \in Id /\ ~Used(n) /\ f \in Flow /\ made[f] = {}
        /\ session'[n].live /\ session'[n].next = None
        /\ \A j \in Id \ {n} :
             \/ session'[j] = session[j]
             \/ ~session'[j].live /\ session'[j].next = n
        /\ root' = [root EXCEPT ![n] = n]
        /\ made' = [made EXCEPT ![f] = @ \cup {n}]
        /\ UNCHANGED <<passed, signedOut>>
    BY CreateFacts DEF Inv, FlowsServeOnce
  <1>2. \A j \in Id \ {n} :
          IF j = p /\ Usable(j) THEN session'[j] = Revoked(session[j], n)
          ELSE session'[j] = session[j]
    BY DEF Create
  <1>3. i \in Id \cup {None} /\ i # n /\ (i \in Id => Usable(i) /\ i = p)
        /\ \A j \in Id \ {i} : ~(j = p /\ Usable(j))
    BY <1>1, Numbers DEF Inv, Rooted, SessionKnown, Usable
  <1> HIDE DEF n, f, p, i
  <1>4. \A j \in Id \ {n} :
          IF j = i THEN ~session'[j].live /\ session'[j].next = n
          ELSE session'[j] = session[j]
    <2>1. ASSUME i \in Id, i # n
          PROVE  ~session'[i].live /\ session'[i].next = n
      <3>1. session'[i] = Revoked(session[i], n)
        BY <1>2, <1>3, <2>1
      <3>2. session[i] \in Row /\ n \in Cookie
        BY <1>1, <2>1 DEF Inv, Tables, Cookie
      <3> QED BY <3>1, <3>2, RevokedFacts
    <2> QED BY <1>2, <1>3, <2>1
  <1>5. Live' = (Live \ {i}) \cup {n}
    BY <1>1, <1>4 DEF Live
  <1>6. session[n].next = None
    BY <1>1 DEF UnusedIsBlank
  <1>7. Heir' = [j \in Id |-> IF j = i THEN n ELSE Heir[j]]
    BY <1>1, <1>3, <1>4, <1>6 DEF Heir
  <1>8. made' = [made EXCEPT ![f] = {n}]
    BY <1>1
  <1>9. Once!New(n) /\ (i = None \/ Once!Accepted(i))
    BY <1>1, <1>3, MappedFacts DEF Inv
  <1> QED BY <1>1, <1>3, <1>5, <1>7, <1>8, <1>9 DEF Once!SignIn

\* ... a confirmed sign-out ends the session, ...
LEMMA RefinesRevoke ==
  ASSUME Inv, NEW r \in Request, Revoke(r)
  PROVE  \E i \in Id : Once!SignOut(i)
  <1> DEFINE i == req[r].id
             row == Revoked(session[i], session[i].next)
  <1>1. i \in Id /\ Used(i) /\ signedOut' = signedOut \cup {i}
    BY DEF Revoke, Inv, Requests, ReqKnown, Authenticated, HandlersHold
  <1>2. ~row.live /\ row.next = session[i].next
    <2>1. session[i] \in Row /\ session[i].next \in Cookie
      BY <1>1 DEF Inv, Tables, Row
    <2> QED BY <2>1, RevokedFacts
  <1>3. session' = [session EXCEPT ![i] = row]
    BY DEF Revoke, RevokeRow
  <1>4. UNCHANGED <<root, passed, made>>
    BY DEF Revoke
  <1> HIDE DEF i, row
  <1>5. Live' = Live \ {i} /\ Heir' = Heir
    BY <1>1, <1>2, <1>3 DEF Live, Heir, Inv, Tables
  <1>6. ~Once!New(i)
    BY <1>1, MappedFacts DEF Inv
  <1> QED BY <1>1, <1>4, <1>5, <1>6 DEF Once!SignOut

\* ... a deadline passes, and every other step revokes at most.
LEMMA RefinesStep ==
  Inv /\ UnusedIsBlank /\ [Next]_vars => [Once!Next]_Once!vars
  <1> SUFFICES ASSUME Inv, UnusedIsBlank, [Next]_vars
               PROVE  [Once!Next]_Once!vars
    OBVIOUS
  <1>1. ASSUME NEW i \in Id, Pass(i)
        PROVE  Once!Next
    BY <1>1 DEF Pass, history, Live, Heir, Once!Pass, Once!Next
  <1>2. CASE Quiet /\ UNCHANGED <<passed, signedOut>>
    <2>1. Live' \in SUBSET Live /\ Heir' = Heir
      BY <1>2 DEF Quiet, Weakens, Live, Heir
    <2> QED BY <1>2, <2>1 DEF Quiet, Once!Revoke, Once!Next
  <1>3. passed' = passed \/ \E i \in Id : Pass(i)
    BY DEF Next, Browse, Serve, vars, tables, Send, OpenCallback, Arrive,
       ArriveStale, Lose, Authenticate, Refresh, Rotate, Forward, Revoke,
       ConsumeFlow, RefuseCode, Create, ExpireFlow, Age, GoIdle
  <1>4. ASSUME NEW r \in Request, Revoke(r)
        PROVE  Once!Next
    BY <1>4, RefinesRevoke DEF Once!Next
  <1>5. signedOut' = signedOut \/ \E r \in Request : Revoke(r)
    BY SignOutWriter DEF Inv
  <1>6. ASSUME NEW r \in Request, Rotates(r) \/ Create(r)
        PROVE  Once!Next
    BY <1>6, RefinesRotate, RefinesCreate DEF Once!Next
  <1> QED BY <1>1, <1>2, <1>3, <1>4, <1>5, <1>6, TableStep DEF Inv

\* The web server's sessions implement SignInOnce: however requests overlap, a
\* sign-in is handed on from one session to one heir, in time, and is not taken
\* up again where it has ended.
THEOREM Refinement == Spec => HandsOnOneSession
  BY BlankInit, BlankStep, RefinesInit, RefinesStep, Invariance, PTL
  DEF Spec, HandsOnOneSession, Once!Spec
=============================================================================
