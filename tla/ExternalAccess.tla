--------------------------- MODULE ExternalAccess ---------------------------
(***************************************************************************)
(* The access of external participants: grants and their one-time          *)
(* invitations, the exchange of an invitation for a participant session    *)
(* through the web server, what a session submits, and the revocation of a *)
(* grant (apps/api/src/services/alpha.ts, apps/web/src/app/api/auth/       *)
(* external/route.ts, migrations V008 and V020).                           *)
(*                                                                         *)
(* A visit is one request of a participant or of a member of the           *)
(* organisation.  It reads the session, the token and the grant in three   *)
(* transactions and acts in later ones, so a revocation can fall between   *)
(* any two of its steps.                                                   *)
(***************************************************************************)
EXTENDS FiniteSets

CONSTANTS
  Grant,       \* external_access_grant objects, each with one invitation token
  Target,      \* what a grant gives access to
  Visit,       \* requests; an exchange makes at most one session, named by it
  Revocation,  \* revokeExternalAccessGrantAlpha requests
  Link,        \* attachAlphaObject requests
  TargetOf,    \* the target of a grant
  None

Object == Grant \cup Target
Deadline == {"invitation", "grant", "session"}

ASSUME TargetOfAssumption == TargetOf \in [Grant -> Target]
ASSUME DisjointAssumption ==
  /\ Grant \cap Target = {}
  /\ Visit \cap Revocation = {}
  /\ Visit \cap Link = {}
  /\ Revocation \cap Link = {}
  /\ None \notin Grant \cup Target \cup Visit \cup Revocation

VARIABLES
  type,       \* alpha_objects.type of the targets
  status,     \* alpha_objects.status of grants and targets
  token,      \* alpha_external_access_tokens.status of a grant's token
  exchanged,  \* the grants whose token has exchanged_at
  session,    \* alpha_external_participant_sessions, by the exchange
  claimed,    \* browser_external_exchanges: the invitations the web server used
  browser,    \* the participant sessions some browser session holds
  lapsed,     \* the deadlines of a grant that have passed
  evidence,   \* evidence_refs_json of a target: the submissions in it
  tokenLock,  \* the revocation that holds the row lock of a token
  pc, visit,
  revocation, \* the grant of a revocation and the sessions it found
  link,       \* the object of a link and the status it read
  seen        \* the status of the onboarding record an evidence visit read

rows == <<type, status, token, exchanged, session, claimed, browser, evidence>>
vars == <<rows, lapsed, tokenLock, pc, visit, revocation, link, seen>>

TargetType == {"document_request", "onboarding_flow"}
ObjectStatus == {"absent", "pending_input", "ready_for_review", "attached",
                 "approved", "completed", "rejected", "cancelled"}
Kind == {"exchange", "submit", "internal", "evidence"}
VisitRecord == [kind : Kind, grant : Grant \cup {None}, target : Target,
                session : Visit \cup {None}, late : BOOLEAN]

(* The states in which an object's life has ended (object-lifecycle.ts).     *)
Terminal == {"completed", "rejected", "cancelled"}

IsRequest(o) == o \in Target /\ type[o] = "document_request"
IsOnboarding(o) == o \in Target /\ type[o] = "onboarding_flow"

Init ==
  /\ type \in [Target -> TargetType]
  /\ status = [o \in Object |-> IF o \in Grant THEN "absent"
                                ELSE IF IsRequest(o) THEN "pending_input"
                                ELSE "ready_for_review"]
  /\ token = [g \in Grant |-> "absent"]
  /\ exchanged = {}
  /\ session = [v \in Visit |-> "none"]
  /\ claimed = {}
  /\ browser = {}
  /\ evidence = [t \in Target |-> {}]
  /\ lapsed = {}
  /\ tokenLock = [g \in Grant |-> None]
  /\ pc = [p \in Visit \cup Revocation \cup Link |-> "idle"]
  /\ visit = [v \in Visit |-> None]
  /\ revocation = [x \in Revocation |-> None]
  /\ link = [l \in Link |-> None]
  /\ seen = [v \in Visit |-> None]
-----------------------------------------------------------------------------
Goto(p, label) == pc' = [pc EXCEPT ![p] = label]

Passed(g, deadline) == <<g, deadline>> \in lapsed

(* isolation: a statement waits for the transaction that changed the row     *)
Locked(g) == tokenLock[g] # None
-----------------------------------------------------------------------------
(* createExternalAccessGrantObject: the grant, its token and its invitation.  *)

CreateGrant(g) ==
  /\ status[g] = "absent"
  /\ status' = [status EXCEPT ![g] = "approved"]
  /\ token' = [token EXCEPT ![g] = "active"]
  /\ UNCHANGED <<type, exchanged, session, claimed, browser, evidence, lapsed,
                 tokenLock, pc, visit, revocation, link, seen>>

(* Time passes a deadline: exchange_expires_at, the grant's expires_at or the *)
(* expires_at of its session, which the grant's own expiry bounds.            *)
Lapse(g, deadline) ==
  /\ status[g] # "absent"
  /\ deadline = "session" => g \in exchanged
  /\ lapsed' = lapsed \cup {<<g, deadline>>}
               \cup (IF deadline = "grant" THEN {<<g, "session">>} ELSE {})
  /\ UNCHANGED <<rows, tokenLock, pc, visit, revocation, link, seen>>
-----------------------------------------------------------------------------
(* A visit arrives.  Late visits are those that arrive when access is over:   *)
(* a history of the visit no step reads.                                      *)

AccessOver(g) == token[g] = "revoked" \/ Passed(g, "grant")

Arrive(v, kind, g, t, s, label) ==
  /\ pc[v] = "idle"
  /\ visit' = [visit EXCEPT ![v] =
       [kind |-> kind, grant |-> g, target |-> t, session |-> s,
        late |-> g # None /\ AccessOver(g)]]
  /\ Goto(v, label)
  /\ UNCHANGED <<rows, lapsed, tokenLock, revocation, link, seen>>

(* The invitation's link is opened: GET /api/auth/external.                   *)
OpenInvitation(v) ==
  \E g \in Grant :
    /\ token[g] # "absent"
    /\ Arrive(v, "exchange", g, TargetOf[g], v, "token")

(* A participant submits through a browser session that holds a credential.   *)
OpenSubmission(v) ==
  \E s \in browser :
    LET g == visit[s].grant IN
    Arrive(v, IF IsOnboarding(TargetOf[g]) THEN "evidence" ELSE "submit",
           g, TargetOf[g], s, "session")

(* A member of the organisation answers the document request.                 *)
OpenInternal(v) ==
  \E t \in Target :
    /\ IsRequest(t)
    /\ Arrive(v, "internal", None, t, None, "begin")
-----------------------------------------------------------------------------
(* loadExternalAccessSession, a transaction for each row it reads.            *)

Refuse(v) ==
  /\ Goto(v, "refused")
  /\ UNCHANGED <<rows, seen>>

CheckSession(v) ==
  /\ pc[v] = "session"
  /\ IF session[visit[v].session] = "live" /\ ~Passed(visit[v].grant, "session")
     THEN Goto(v, "token") /\ UNCHANGED <<rows, seen>>
     ELSE Refuse(v)
  /\ UNCHANGED <<lapsed, tokenLock, visit, revocation, link>>

(* The invitation itself is presented until the exchange has made a session.  *)
Presenting(v) == visit[v].kind = "exchange" /\ session[v] = "none"

\* Mutant: the update does not require exchanged_at IS NULL.
ExchangeableAgain(g) == token[g] = "active" /\ ~Passed(g, "invitation")

Exchangeable(g) ==
  /\ token[g] = "active"
  /\ g \notin exchanged
  /\ ~Passed(g, "invitation")

\* Mutant: the expiry of the grant is not compared.
CheckTokenWithoutExpiry(v) ==
  /\ pc[v] = "token"
  /\ IF token[visit[v].grant] = "active"
     THEN Goto(v, "grant") /\ UNCHANGED <<rows, seen>>
     ELSE Refuse(v)
  /\ UNCHANGED <<lapsed, tokenLock, visit, revocation, link>>

CheckToken(v) ==
  /\ pc[v] = "token"
  /\ LET g == visit[v].grant IN
     IF /\ token[g] = "active"
        /\ Presenting(v) => Exchangeable(g)
        /\ ~Passed(g, "grant")
     THEN Goto(v, "grant") /\ UNCHANGED <<rows, seen>>
     ELSE Refuse(v)
  /\ UNCHANGED <<lapsed, tokenLock, visit, revocation, link>>

Loaded(v) ==
  CASE Presenting(v)              -> "consume"
    [] visit[v].kind = "exchange" /\ ~Presenting(v) -> "claim"
    [] visit[v].kind = "evidence" -> "resolve"
    [] OTHER                      -> "begin"

CheckGrant(v) ==
  /\ pc[v] = "grant"
  /\ IF status[visit[v].grant] = "approved"
     THEN Goto(v, Loaded(v)) /\ UNCHANGED <<rows, seen>>
     ELSE Refuse(v)
  /\ UNCHANGED <<lapsed, tokenLock, visit, revocation, link>>
-----------------------------------------------------------------------------
(* exchangeExternalParticipantAccessAlpha: one transaction consumes the       *)
(* token and stores the session; then the new credential loads its session.   *)

Consume(v) ==
  /\ pc[v] = "consume"
  /\ ~Locked(visit[v].grant)
  /\ IF Exchangeable(visit[v].grant)
     THEN /\ exchanged' = exchanged \cup {visit[v].grant}
          /\ session' = [session EXCEPT ![v] = "live"]
          /\ Goto(v, "session")
          /\ UNCHANGED <<type, status, token, claimed, browser, evidence, seen>>
     ELSE Refuse(v)
  /\ UNCHANGED <<lapsed, tokenLock, visit, revocation, link>>

(* The web server claims the invitation in its own store ...                  *)
Claim(v) ==
  /\ pc[v] = "claim"
  /\ IF visit[v].grant \notin claimed /\ ~Passed(visit[v].grant, "session")
     THEN /\ claimed' = claimed \cup {visit[v].grant}
          /\ Goto(v, "create")
          /\ UNCHANGED <<type, status, token, exchanged, session, browser,
                         evidence, seen>>
     ELSE Refuse(v)
  /\ UNCHANGED <<lapsed, tokenLock, visit, revocation, link>>

(* ... and creates the browser session that keeps the credential.             *)
CreateBrowserSession(v) ==
  /\ pc[v] = "create"
  /\ browser' = browser \cup {v}
  /\ Goto(v, "done")
  /\ UNCHANGED <<type, status, token, exchanged, session, claimed, evidence,
                 lapsed, tokenLock, visit, revocation, link, seen>>
-----------------------------------------------------------------------------
(* submitDocumentRequestAlpha: the request is checked in one transaction, the *)
(* document is extracted in others, and the request is completed in a last    *)
(* one that checks nothing and appends to the evidence that is there.         *)

BeginSubmission(v) ==
  /\ pc[v] = "begin"
  /\ IF status[visit[v].target] \notin Terminal
     THEN Goto(v, "complete") /\ UNCHANGED <<rows, seen>>
     ELSE Refuse(v)
  /\ UNCHANGED <<lapsed, tokenLock, visit, revocation, link>>

CompleteRequest(v) ==
  /\ pc[v] = "complete"
  /\ status' = [status EXCEPT ![visit[v].target] = "completed"]
  /\ evidence' = [evidence EXCEPT ![visit[v].target] = @ \cup {v}]
  /\ Goto(v, "done")
  /\ UNCHANGED <<type, token, exchanged, session, claimed, browser, lapsed,
                 tokenLock, visit, revocation, link, seen>>
-----------------------------------------------------------------------------
(* submitExternalOnboardingEvidenceAlpha: the record is read before the       *)
(* extraction, and its next status is computed from what was read.            *)

ResolveTargets(v) ==
  /\ pc[v] = "resolve"
  /\ seen' = [seen EXCEPT ![v] = status[visit[v].target]]
  /\ Goto(v, "apply")
  /\ UNCHANGED <<rows, lapsed, tokenLock, visit, revocation, link>>

ReviewStatus(read) ==
  IF read = "approved" THEN "approved" ELSE "ready_for_review"

ApplyEvidence(v) ==
  /\ pc[v] = "apply"
  /\ IF seen[v] \in Terminal
     THEN Refuse(v)
     ELSE /\ status' = [status EXCEPT
                          ![visit[v].target] = ReviewStatus(seen[v])]
          /\ evidence' = [evidence EXCEPT ![visit[v].target] = @ \cup {v}]
          /\ Goto(v, "done")
          /\ UNCHANGED <<type, token, exchanged, session, claimed, browser,
                         seen>>
  /\ UNCHANGED <<lapsed, tokenLock, visit, revocation, link>>

(* decideApprovalAlpha decides the target of an approval, as far as the       *)
(* transitions of its type allow: onboarding records, and attached objects.   *)
DecideTarget(o) ==
  /\ \/ IsOnboarding(o) /\ status[o] \notin Terminal
     \/ status[o] = "attached"
  /\ \E verdict \in {"approved", "rejected"} :
       status' = [status EXCEPT ![o] = verdict]
  /\ UNCHANGED <<type, token, exchanged, session, claimed, browser, evidence,
                 lapsed, tokenLock, pc, visit, revocation, link, seen>>
-----------------------------------------------------------------------------
(* The server that handles a visit dies, or the web server stops waiting for  *)
(* it; what has been committed stays.                                         *)

Active(p) == pc[p] \notin {"idle", "done", "refused", "lost"}

Abandon(v) ==
  /\ Active(v)
  /\ Goto(v, "lost")
  /\ UNCHANGED <<rows, lapsed, tokenLock, visit, revocation, link, seen>>
-----------------------------------------------------------------------------
(* revokeExternalAccessGrantAlpha, statement by statement: the token's row is *)
(* locked, then the sessions that exist are found, then all is committed.     *)

BeginRevocation(x) ==
  /\ pc[x] = "idle"
  /\ \E g \in Grant :
       /\ status[g] = "approved"
       /\ revocation' = [revocation EXCEPT ![x] = [grant |-> g, found |-> {}]]
  /\ Goto(x, "token")
  /\ UNCHANGED <<rows, lapsed, tokenLock, visit, link, seen>>

\* Mutant: the sessions are looked for before the token's row is updated.
SessionsFirst(x) ==
  /\ pc[x] = "token"
  /\ Goto(x, "sessions")
  /\ UNCHANGED <<rows, lapsed, tokenLock, visit, revocation, link, seen>>

RevokeToken(x) ==
  /\ pc[x] = "token"
  /\ ~Locked(revocation[x].grant)
  /\ tokenLock' = [tokenLock EXCEPT ![revocation[x].grant] = x]
  /\ Goto(x, "sessions")
  /\ UNCHANGED <<rows, lapsed, visit, revocation, link, seen>>

SessionsOf(g) ==
  {v \in Visit : session[v] # "none" /\ visit[v].grant = g}

RevokeSessions(x) ==
  /\ pc[x] = "sessions"
  /\ revocation' =
       [revocation EXCEPT ![x].found = SessionsOf(revocation[x].grant)]
  /\ Goto(x, "commit")
  /\ UNCHANGED <<rows, lapsed, tokenLock, visit, link, seen>>

CommitRevocation(x) ==
  /\ pc[x] = "commit"
  /\ LET g == revocation[x].grant IN
       /\ status' = [status EXCEPT ![g] = "cancelled"]
       /\ token' = [token EXCEPT ![g] = "revoked"]
       /\ session' = [v \in Visit |-> IF v \in revocation[x].found
                                      THEN "revoked" ELSE session[v]]
       /\ tokenLock' = [tokenLock EXCEPT ![g] = None]
  /\ Goto(x, "done")
  /\ UNCHANGED <<type, exchanged, claimed, browser, evidence, lapsed, visit,
                 revocation, link, seen>>

\* A statement fails or the process dies: nothing has been revoked.
FailRevocation(x) ==
  /\ Active(x)
  /\ tokenLock' = [g \in Grant |-> IF tokenLock[g] = x THEN None
                                    ELSE tokenLock[g]]
  /\ Goto(x, "lost")
  /\ UNCHANGED <<rows, lapsed, visit, revocation, link, seen>>
-----------------------------------------------------------------------------
(* attachAlphaObject reads the object without a lock and writes the status    *)
(* that follows from what it read: the same for a link.                       *)

Linkable(o) == status[o] \notin {"absent", "attached"}

ReadLinked(l) ==
  /\ pc[l] = "idle"
  /\ \E o \in Object, mode \in {"link", "attach"} :
       /\ Linkable(o)
       /\ mode = "attach" => status[o] \notin {"rejected", "cancelled"}
       /\ link' = [link EXCEPT ![l] =
            [object |-> o,
             next |-> IF mode = "link" THEN status[o] ELSE "attached"]]
  /\ Goto(l, "write")
  /\ UNCHANGED <<rows, lapsed, tokenLock, visit, revocation, seen>>

WriteLinked(l) ==
  /\ pc[l] = "write"
  /\ status' = [status EXCEPT ![link[l].object] = link[l].next]
  /\ Goto(l, "done")
  /\ UNCHANGED <<type, token, exchanged, session, claimed, browser, evidence,
                 lapsed, tokenLock, visit, revocation, link, seen>>
-----------------------------------------------------------------------------
VisitStep(v) ==
  \/ OpenInvitation(v) \/ OpenSubmission(v) \/ OpenInternal(v)
  \/ CheckSession(v) \/ CheckToken(v) \/ CheckGrant(v)
  \/ Consume(v) \/ Claim(v) \/ CreateBrowserSession(v)
  \/ BeginSubmission(v) \/ CompleteRequest(v)
  \/ ResolveTargets(v) \/ ApplyEvidence(v)
  \/ Abandon(v)

RevocationStep(x) ==
  \/ BeginRevocation(x) \/ RevokeToken(x) \/ RevokeSessions(x)
  \/ CommitRevocation(x) \/ FailRevocation(x)

LinkStep(l) == ReadLinked(l) \/ WriteLinked(l)

Next ==
  \/ \E g \in Grant : CreateGrant(g)
  \/ \E g \in Grant, d \in Deadline : Lapse(g, d)
  \/ \E v \in Visit : VisitStep(v)
  \/ \E x \in Revocation : RevocationStep(x)
  \/ \E l \in Link : LinkStep(l)
  \/ \E o \in Object : DecideTarget(o)

Spec == Init /\ [][Next]_vars
-----------------------------------------------------------------------------
(* What this promises, whatever the status of the grant object becomes.      *)

Visiting(v, g) == pc[v] # "idle" /\ visit[v].grant = g

Expired == {g \in Grant : Passed(g, "grant")}
Asked == [g \in Grant |-> {v \in Visit : Visiting(v, g) /\ ~visit[v].late}]
Members == {v \in Visit : Visiting(v, None)}
Admitted == [g \in Grant |-> SessionsOf(g)]
Inside == {v \in Visit : session[v] = "live"}

Once == INSTANCE AccessOnce WITH
  access <- token, expired <- Expired, asked <- Asked, members <- Members,
  admitted <- Admitted, inside <- Inside, handed <- browser

(* However often a link is opened at once, and wherever a revocation or an   *)
(* expiry falls between the steps of a visit: a grant admits one session,    *)
(* none stays, and only who came in time gets through (alpha.ts, V008).      *)
AdmitsOnce == Once!Spec
-----------------------------------------------------------------------------
TypeOK ==
  /\ type \in [Target -> TargetType]
  /\ status \in [Object -> ObjectStatus]
  /\ token \in [Grant -> {"absent", "active", "revoked"}]
  /\ exchanged \subseteq Grant
  /\ session \in [Visit -> {"none", "live", "revoked"}]
  /\ claimed \subseteq Grant
  /\ browser \subseteq Visit
  /\ evidence \in [Target -> SUBSET Visit]
  /\ lapsed \subseteq Grant \X Deadline
  /\ tokenLock \in [Grant -> Revocation \cup {None}]
  /\ visit \in [Visit -> VisitRecord \cup {None}]
  /\ revocation \in
       [Revocation -> [grant : Grant, found : SUBSET Visit] \cup {None}]
  /\ link \in [Link -> [object : Object, next : ObjectStatus] \cup {None}]
  /\ seen \in [Visit -> ObjectStatus \cup {None}]

(* No participant session outlives the token of its grant, also when an       *)
(* exchange is under way while the grant is revoked.                          *)
SessionsEndWithGrant ==
  \A v \in Visit : session[v] = "live" => token[visit[v].grant] = "active"

(* An invitation makes one participant session at most, and reaches at most   *)
(* one browser, however many times its link is opened at once.                *)
InvitationIsSpentOnce ==
  \A v, w \in Visit :
    /\ session[v] # "none"
    /\ session[w] # "none"
    /\ visit[v].grant = visit[w].grant
    => v = w

(* A visit that arrives after its grant was revoked or has expired changes    *)
(* nothing, whatever the status of the grant object has become meanwhile.     *)
LateVisitsChangeNothing ==
  \A v \in Visit :
    visit[v] # None /\ visit[v].late =>
      /\ session[v] = "none" \/ visit[v].kind # "exchange"
      /\ v \notin browser
      /\ v \notin evidence[visit[v].target]

(* A submission that was answered is in the evidence of its target, also      *)
(* when another one completed the same request meanwhile.                     *)
AnsweredIsEvidence ==
  \A v \in Visit :
    pc[v] = "done" /\ visit[v].kind # "exchange" =>
      v \in evidence[visit[v].target]

(* What validateLifecycleTransition enforces: no transition, an attachment    *)
(* included, leaves the states rejected and cancelled.                        *)
RejectedIsFinal ==
  [][\A o \in Object :
       status[o] \in {"rejected", "cancelled"} => status'[o] = status[o]]_vars
=============================================================================
