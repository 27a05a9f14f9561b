--------------------------- MODULE BrowserSession ---------------------------
(***************************************************************************)
(* One browser and its sessions: requests that pass the proxy or the       *)
(* routes under api/auth (apps/web/src/app/api/auth, apps/web/src/server/  *)
(* browser-security), the refresh of the provider's credential that        *)
(* replaces the session, sign-in and sign-out, and the page that holds the *)
(* CSRF token (apps/web/src/lib).                                          *)
(*                                                                         *)
(* A session is named by its number, which stands for its opaque id, the   *)
(* digest of that id and its CSRF token.  The functions of the schema      *)
(* browser_security are one statement each and so one step; everything     *)
(* between them interleaves.  The browser sends the cookie it has at that  *)
(* moment, and answers arrive in any order or never.                       *)
(***************************************************************************)
EXTENDS Naturals, FiniteSets

CONSTANTS
  Request,     \* requests the browser may have in flight
  Flow,        \* sign-ins that were begun: the state of a callback URL
  MaxSession,  \* bound: sessions made
  None

Id == 1 .. MaxSession
Cookie == Id \cup {None}
Kind == {"fetch", "view", "logout", "callback"}

ASSUME MaxSessionAssumption == MaxSession \in Nat \ {0}
ASSUME NoneAssumption == None \notin 0 .. MaxSession /\ None \notin Kind

VARIABLES
  session,    \* browser_sessions: its rows, by number
  flow,       \* browser_auth_flows: open, or spent (consumed or expired)
  passed,     \* absolute deadlines that are over, by the session that set them
  cookie,     \* what the browser holds
  csrf,       \* the token in the page's memory
  at,         \* where a request is
  req,        \* what a request carries and what its handler holds
  root,       \* history: the session of the sign-in a session descends from
  made,       \* history: the sessions a sign-in's flow made
  signedOut,  \* history: the sessions a sign-out was confirmed for
  lost        \* history: sessions whose answer never arrived, or whose cookie
              \* another answer replaced or cleared

tables == <<session, flow, passed>>
history == <<root, made, signedOut, lost>>
vars == <<tables, cookie, csrf, at, req, history>>

NoRequest == [kind |-> None]

Unused == [live |-> FALSE, idle |-> FALSE, fresh |-> FALSE, until |-> None,
           next |-> None]

\* What is left of a row that matters: it is revoked, and replaced by n or not
Revoked(row, n) == [row EXCEPT !.live = FALSE, !.idle = FALSE, !.fresh = FALSE,
                    !.next = n]

\* The browser is signed in and has just opened the page.
Init ==
  /\ \E fresh \in BOOLEAN :
       session = [i \in Id |-> IF i = 1
                    THEN [live |-> TRUE, idle |-> FALSE, fresh |-> fresh,
                          until |-> 1, next |-> None]
                    ELSE Unused]
  /\ flow = [f \in Flow |-> "open"]
  /\ passed = {}
  /\ cookie = 1
  /\ csrf = None
  /\ at = [r \in Request |-> "idle"]
  /\ req = [r \in Request |-> NoRequest]
  /\ root = [i \in Id |-> IF i = 1 THEN 1 ELSE None]
  /\ made = [f \in Flow |-> {}]
  /\ signedOut = {}
  /\ lost = {}
-----------------------------------------------------------------------------
Used(i) == session[i].until # None

\* WHERE revoked_at IS NULL AND idle_expires_at > ... AND absolute_... > ...
Usable(i) ==
  /\ session[i].live
  /\ ~session[i].idle
  /\ session[i].until \notin passed

\* The id the next session takes
Fresh == CHOOSE i \in Id : ~Used(i)
Room == \E i \in Id : ~Used(i)

\* A header that is not there
Absent == 0

\* An answer on its way: the cookie and the token for the page it brings, if any
Answer(r, c, t) ==
  /\ at' = [at EXCEPT ![r] = "answered"]
  /\ req' = [req EXCEPT ![r] = [kind |-> @.kind, cookie |-> c, csrf |-> t]]

Unauthenticated(r) ==
  CASE req[r].kind = "view"   -> Answer(r, Absent, None)
    [] req[r].kind = "logout" -> Answer(r, None, Absent)
    [] OTHER                  -> Answer(r, Absent, Absent)
-----------------------------------------------------------------------------
(* The browser                                                                *)

\* fetch (lib/api.ts) and loadBrowserSession: an unsafe request waits until
\* the page has a token.
Send(r, kind, unsafe) ==
  /\ at[r] = "idle"
  /\ kind # "fetch" => unsafe = (kind = "logout")
  /\ unsafe => csrf # None
  /\ at' = [at EXCEPT ![r] = "sent"]
  /\ req' = [req EXCEPT ![r] = [kind |-> kind, cookie |-> cookie,
       csrf |-> IF unsafe THEN csrf ELSE Absent]]
  /\ UNCHANGED <<tables, cookie, csrf, history>>

\* The link in the e-mail, opened once or more
OpenCallback(r, f) ==
  /\ at[r] = "idle"
  /\ at' = [at EXCEPT ![r] = "sent"]
  /\ req' = [req EXCEPT ![r] = [kind |-> "callback", cookie |-> cookie,
                                flow |-> f]]
  /\ UNCHANGED <<tables, cookie, csrf, history>>

\* What an answer in flight would make of the cookie
Received(r) == IF req[r].cookie = Absent THEN cookie ELSE req[r].cookie

\* The answer arrives.  A sign-in is a navigation and empties the page.
Arrive(r) ==
  /\ at[r] = "answered"
  /\ cookie' = Received(r)
  /\ csrf' = IF req[r].csrf = Absent THEN csrf ELSE req[r].csrf
  /\ lost' = lost \cup {i \in Id : i = cookie /\ i # cookie' /\ Usable(i)}
  /\ at' = [at EXCEPT ![r] = "idle"]
  /\ req' = [req EXCEPT ![r] = NoRequest]
  /\ UNCHANGED <<tables, root, made, signedOut>>

\* assertCurrentTenantRequest: the organisation was changed meanwhile.  The
\* browser has the cookie, the page throws before it reads the token.
ArriveStale(r) ==
  /\ at[r] = "answered" /\ req[r].kind = "fetch"
  /\ cookie' = Received(r)
  /\ lost' = lost \cup {i \in Id : i = cookie /\ i # cookie' /\ Usable(i)}
  /\ at' = [at EXCEPT ![r] = "idle"]
  /\ req' = [req EXCEPT ![r] = NoRequest]
  /\ UNCHANGED <<tables, csrf, root, made, signedOut>>

\* The session a request made and has not delivered
Carries(r) ==
  CASE at[r] = "rotated"                                -> {req[r].new}
    [] at[r] = "answered" /\ req[r].cookie \in Id       -> {req[r].cookie}
    [] OTHER                                            -> {}

\* The request is aborted, the server dies, or the answer is lost.
Lose(r) ==
  /\ at[r] # "idle"
  /\ lost' = lost \cup {i \in Carries(r) : Usable(i)}
  /\ at' = [at EXCEPT ![r] = "idle"]
  /\ req' = [req EXCEPT ![r] = NoRequest]
  /\ UNCHANGED <<tables, cookie, csrf, root, made, signedOut>>
-----------------------------------------------------------------------------
(* proxyBrowserRequest, and GET api/auth/session, which is "view"             *)

\* BrowserSessionManager.authenticate and validateCsrf.  A row that no key
\* opens any more is revoked.
Authenticate(r, readable) ==
  LET i == req[r].cookie IN
  /\ at[r] = "sent" /\ req[r].kind # "callback"
  /\ CASE i = None \/ ~Usable(i) ->
            Unauthenticated(r) /\ UNCHANGED session
       [] i # None /\ Usable(i) /\ ~readable ->
            /\ Unauthenticated(r)
            /\ session' = [session EXCEPT ![i] = Revoked(@, @.next)]
       [] i # None /\ Usable(i) /\ readable ->
            /\ IF req[r].csrf \notin {Absent, i}
               THEN Answer(r, Absent, Absent)
               ELSE /\ at' = [at EXCEPT ![r] = "authenticated"]
                    /\ req' = [req EXCEPT ![r] =
                         [kind |-> @.kind, id |-> i, row |->
                           [fresh |-> session[i].fresh,
                            until |-> session[i].until]]]
            /\ UNCHANGED session
  /\ UNCHANGED <<flow, passed, cookie, csrf, history>>

\* refreshSupabaseSession: the provider answers with new credentials, or not.
Refresh(r) ==
  /\ at[r] = "authenticated" /\ req[r].kind # "logout" /\ ~req[r].row.fresh
  /\ \/ /\ at' = [at EXCEPT ![r] = "refreshed"]
        /\ UNCHANGED req
     \/ Unauthenticated(r)
  /\ UNCHANGED <<tables, cookie, csrf, history>>

\* Mutant: a rotation does not insist on the row it replaces.
RotateAnyway(r) ==
  LET i == req[r].id  n == Fresh IN
  /\ at[r] = "refreshed" /\ Room
  /\ session' = [session EXCEPT
       ![i] = IF Usable(i) THEN Revoked(@, n) ELSE @,
       ![n] = [live |-> TRUE, idle |-> FALSE, fresh |-> TRUE,
               until |-> req[r].row.until, next |-> None]]
  /\ root' = [root EXCEPT ![n] = root[i]]
  /\ at' = [at EXCEPT ![r] = "rotated"]
  /\ req' = [req EXCEPT ![r] = [kind |-> @.kind, new |-> n]]
  /\ UNCHANGED <<flow, passed, cookie, csrf, made, signedOut, lost>>

\* absoluteExpiresAt: current.absoluteExpiresAt
DeadlineOf(row, n) == row.until

\* BrowserSessionManager.rotate: persist_session with a required replacement
Rotate(r) ==
  LET i == req[r].id  n == Fresh IN
  /\ at[r] = "refreshed"
  /\ IF Usable(i)
     THEN /\ Room
          /\ session' = [session EXCEPT
               ![i] = Revoked(@, n),
               ![n] = [live |-> TRUE, idle |-> FALSE, fresh |-> TRUE,
                       until |-> DeadlineOf(req[r].row, n), next |-> None]]
          /\ root' = [root EXCEPT ![n] = root[i]]
          /\ at' = [at EXCEPT ![r] = "rotated"]
          /\ req' = [req EXCEPT ![r] = [kind |-> @.kind, new |-> n]]
     ELSE /\ Unauthenticated(r)
          /\ UNCHANGED <<session, root>>
  /\ UNCHANGED <<flow, passed, cookie, csrf, made, signedOut, lost>>

\* Mutant: an upstream error answers without the new session.
Forget(r, ok) ==
  IF ok THEN Answer(r, req[r].new, req[r].new) ELSE Answer(r, Absent, Absent)

\* attachRotation: whatever became of the request
Finalize(r, ok) == Answer(r, req[r].new, req[r].new)

\* The upstream request, its error or timeout, or the view's answer
Forward(r, ok) ==
  /\ \/ /\ at[r] = "authenticated" /\ req[r].kind # "logout" /\ req[r].row.fresh
        /\ Answer(r, Absent, IF req[r].kind = "view" THEN req[r].id ELSE Absent)
     \/ at[r] = "rotated" /\ Finalize(r, ok)
  /\ UNCHANGED <<tables, cookie, csrf, history>>
-----------------------------------------------------------------------------
(* POST api/auth/logout                                                       *)

\* Mutant: the sign-out does not reach the row.
KeepRow(i) == UNCHANGED session

\* revoke_session, whether or not the row was replaced meanwhile
RevokeRow(i) == session' = [session EXCEPT ![i] = Revoked(@, @.next)]

\* The local row is revoked; what the provider says of its own is reported only.
Revoke(r) ==
  LET i == req[r].id IN
  /\ at[r] = "authenticated" /\ req[r].kind = "logout"
  /\ RevokeRow(i)
  /\ signedOut' = signedOut \cup {i}
  /\ Answer(r, None, None)
  /\ UNCHANGED <<flow, passed, cookie, csrf, root, made, lost>>
-----------------------------------------------------------------------------
(* GET api/auth/callback: completeSupabaseSignIn                              *)

\* WHERE consumed_at IS NULL AND expires_at > ...
Consumable(f) == flow[f] = "open"

ConsumeFlow(r) ==
  LET f == req[r].flow IN
  /\ at[r] = "sent" /\ req[r].kind = "callback"
  /\ IF Consumable(f)
     THEN /\ flow' = [flow EXCEPT ![f] = "spent"]
          /\ at' = [at EXCEPT ![r] = "consumed"]
          /\ UNCHANGED req
     ELSE Answer(r, Absent, None) /\ UNCHANGED flow
  /\ UNCHANGED <<session, passed, cookie, csrf, history>>

\* The provider refuses the code: the flow is spent.
RefuseCode(r) ==
  /\ at[r] = "consumed"
  /\ Answer(r, Absent, None)
  /\ UNCHANGED <<tables, cookie, csrf, history>>

\* BrowserSessionManager.create: persist_session replaces the row of the
\* cookie when it is still there.
Create(r) ==
  LET p == req[r].cookie  n == Fresh  f == req[r].flow IN
  /\ at[r] = "consumed" /\ Room
  /\ session' = [i \in Id |->
       CASE i = n -> [live |-> TRUE, idle |-> FALSE, fresh |-> TRUE,
                      until |-> n, next |-> None]
         [] i = p /\ Usable(i) -> Revoked(session[i], n)
         [] OTHER -> session[i]]
  /\ root' = [root EXCEPT ![n] = n]
  /\ made' = [made EXCEPT ![f] = @ \cup {n}]
  /\ Answer(r, n, None)
  /\ UNCHANGED <<flow, passed, cookie, csrf, signedOut, lost>>
-----------------------------------------------------------------------------
(* Time                                                                       *)

ExpireFlow(f) ==
  /\ flow[f] = "open"
  /\ flow' = [flow EXCEPT ![f] = "spent"]
  /\ UNCHANGED <<session, passed, cookie, csrf, at, req, history>>

\* credential_expires_at is less than a minute away.
Age(i) ==
  /\ Usable(i) /\ session[i].fresh
  /\ session' = [session EXCEPT ![i].fresh = FALSE]
  /\ UNCHANGED <<flow, passed, cookie, csrf, at, req, history>>

\* Half an hour without a request: the row stays, and is of no use any more.
GoIdle(i) ==
  /\ Usable(i)
  /\ session' = [session EXCEPT ![i].idle = TRUE, ![i].fresh = FALSE]
  /\ UNCHANGED <<flow, passed, cookie, csrf, at, req, history>>

\* The absolute deadline of the sign-in that made session i
Pass(i) ==
  /\ \E j \in Id : Usable(j) /\ root[j] = i
  /\ passed' = passed \cup {i}
  /\ UNCHANGED <<session, flow, cookie, csrf, at, req, history>>
-----------------------------------------------------------------------------
Browse(r) ==
  \/ \E kind \in Kind \ {"callback"}, unsafe \in BOOLEAN : Send(r, kind, unsafe)
  \/ \E f \in Flow : OpenCallback(r, f)
  \/ Arrive(r) \/ ArriveStale(r) \/ Lose(r)

Serve(r) ==
  \/ \E readable \in BOOLEAN : Authenticate(r, readable)
  \/ Refresh(r) \/ Rotate(r)
  \/ \E ok \in BOOLEAN : Forward(r, ok)
  \/ Revoke(r)
  \/ ConsumeFlow(r) \/ RefuseCode(r) \/ Create(r)

Next ==
  \/ \E r \in Request : Browse(r) \/ Serve(r)
  \/ \E f \in Flow : ExpireFlow(f)
  \/ \E i \in Id : Age(i) \/ GoIdle(i) \/ Pass(i)

Spec == Init /\ [][Next]_vars
-----------------------------------------------------------------------------
(* What this promises, whatever the browser gets to know of it               *)

Live == {i \in Id : session[i].live}
Heir == [i \in Id |-> session[i].next]

Once == INSTANCE SignInOnce WITH
  live <- Live, heir <- Heir, over <- passed, ended <- signedOut

\* Requests that rotate, sign in and sign out at the same time hand one sign-in
\* on from session to session (session.ts, V020).
HandsOnOneSession == Once!Spec
-----------------------------------------------------------------------------
Row == [live : BOOLEAN, idle : BOOLEAN, fresh : BOOLEAN,
        until : Cookie, next : Cookie]

TypeOK ==
  /\ session \in [Id -> Row]
  /\ flow \in [Flow -> {"open", "spent"}]
  /\ passed \subseteq Id
  /\ cookie \in Cookie /\ csrf \in Cookie
  /\ at \in [Request -> {"idle", "sent", "authenticated", "refreshed",
                         "rotated", "consumed", "answered"}]
  /\ \A r \in Request : at[r] = "idle" <=> req[r] = NoRequest
  /\ root \in [Id -> Cookie] /\ made \in [Flow -> SUBSET Id]
  /\ signedOut \subseteq Id
  /\ lost \subseteq Id

\* Requests that refresh the same session at the same time do not fork it: a
\* sign-in has one session that is not revoked, whatever was rotated.
OneLivePerSignIn ==
  \A i, j \in Id :
    session[i].live /\ session[j].live /\ root[i] = root[j] => i = j

\* Rotations do not lengthen a sign-in: when the absolute deadline of the
\* session it made is over, none that descends from it is accepted.
DeadlineHolds ==
  \A i \in Id : Used(i) /\ root[i] \in passed => ~Usable(i)

\* A callback that is opened again, or twice at once, signs in once.
FlowSignsInOnce == \A f \in Flow : Cardinality(made[f]) <= 1

\* A session that is accepted is the browser's or on its way to it, whatever
\* became of the request that made it, but for answers that are lost and for a
\* cookie that the answer of a racing sign-in, sign-out or rotation takes away.
SuccessorReachesBrowser ==
  \A i \in Id : Usable(i) =>
    \/ i = cookie \/ \E r \in Request : i \in Carries(r)
    \/ i \in lost

\* A confirmed sign-out leaves no session of its sign-in, unless a rotation or
\* a sign-in replaced the session between its authentication and revocation.
SignedOutUnlessReplaced ==
  \A i \in signedOut, j \in Id :
    session[i].next = None /\ root[j] = root[i] => ~session[j].live

\* browser-security-boundary.md:56: "Provider failure or timeout cannot restore
\* the local browser session; the response reports
\* `local_logout_completed: true`"
SignedOutStaysOut ==
  \A i \in signedOut, j \in Id : root[j] = root[i] => ~Usable(j)
=============================================================================
