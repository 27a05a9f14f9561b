----------------------- MODULE ExternalAccessProofs -----------------------
(***************************************************************************)
(* Proofs about ExternalAccess, for every set of grants, targets, visits,  *)
(* revocations and links; and, in the second part, about                   *)
(* ExecutionWorkflow, whose tasks participants update.                     *)
(***************************************************************************)
EXTENDS ExternalAccess, Naturals, Sequences, TLAPS

VisitLabels ==
  {"idle", "session", "token", "grant", "consume", "claim", "create", "begin",
   "complete", "resolve", "apply", "done", "refused", "lost"}
RevocationLabels == {"idle", "token", "sessions", "commit", "done", "lost"}
LinkLabels == {"idle", "write", "done"}

\* A visit knows the grant it presents for as long as that matters, and is of
\* the kind whose steps it takes.
VisitKnown(v) ==
  /\ pc[v] \in VisitLabels
  /\ pc[v] # "idle" => visit[v] \in VisitRecord
  /\ pc[v] \in {"session", "token", "grant", "consume", "claim", "create",
                "resolve", "apply"} => visit[v].grant \in Grant
  /\ pc[v] = "session" => visit[v].session \in Visit
  /\ pc[v] # "idle" /\ visit[v].kind = "exchange" => visit[v].session = v
  /\ pc[v] \in {"consume", "claim", "create"} => visit[v].kind = "exchange"
  /\ pc[v] \in {"begin", "complete", "resolve", "apply"} =>
       visit[v].kind # "exchange"
  /\ pc[v] = "apply" => seen[v] \in ObjectStatus

LocalsKnown ==
  /\ pc \in [Visit \cup Revocation \cup Link ->
               VisitLabels \cup RevocationLabels \cup LinkLabels]
  /\ \A v \in Visit : VisitKnown(v)
  /\ \A x \in Revocation :
       /\ pc[x] \in RevocationLabels
       /\ pc[x] \in {"token", "sessions", "commit"} =>
            revocation[x] \in [grant : Grant, found : SUBSET Visit]
  /\ \A l \in Link :
       /\ pc[l] \in LinkLabels
       /\ pc[l] = "write" =>
            /\ link[l] \in [object : Object, next : ObjectStatus]
            /\ link[l].next # "absent"

Typed == TypeOK /\ LocalsKnown

\* A token belongs to a grant that has been created.
TokensOfGrants == \A g \in Grant : token[g] # "absent" => status[g] # "absent"

\* A session was made by an exchange that has spent its invitation; only
\* sessions get into a browser.
SessionsOfExchanges ==
  /\ \A v \in Visit :
       session[v] # "none" =>
         /\ pc[v] # "idle"
         /\ visit[v].kind = "exchange"
         /\ visit[v].grant \in exchanged
  /\ \A v \in browser : session[v] # "none"
  /\ \A v \in Visit : pc[v] \in {"claim", "create"} => session[v] # "none"

\* A revocation holds the row of its token from its update to its end, and by
\* its commit it has found the sessions of the grant.
Holds(x) ==
  /\ pc[x] \in {"sessions", "commit"} => tokenLock[revocation[x].grant] = x
  /\ pc[x] = "commit" => revocation[x].found = SessionsOf(revocation[x].grant)

RevocationsHold == \A x \in Revocation : Holds(x)

\* A visit that arrived too late is turned away by one of its first checks.
TurnedAway(v) ==
  /\ visit[v].grant \in Grant
  /\ AccessOver(visit[v].grant)
  /\ pc[v] \in {"session", "token", "refused", "lost"}
  /\ session[v] = "none"
  /\ \A t \in Target : v \notin evidence[t]

LateIsRefused ==
  \A v \in Visit : pc[v] # "idle" /\ visit[v].late => TurnedAway(v)

\* A visit that has not arrived has left nothing behind.
IdleIsNew ==
  \A v \in Visit :
    pc[v] = "idle" => visit[v] = None /\ \A t \in Target : v \notin evidence[t]

Inv ==
  /\ Typed
  /\ TokensOfGrants
  /\ SessionsOfExchanges
  /\ RevocationsHold
  /\ LateIsRefused
  /\ IdleIsNew
  /\ SessionsEndWithGrant
  /\ InvitationIsSpentOnce
  /\ AnsweredIsEvidence
-----------------------------------------------------------------------------
(* Types                                                                    *)

LEMMA TypedInit == Init => Typed
  <1> SUFFICES ASSUME Init PROVE Typed
    OBVIOUS
  <1>1. TypeOK
    BY DEF Init, TypeOK, ObjectStatus, Object, IsRequest
  <1>2. LocalsKnown
    BY DEF Init, LocalsKnown, VisitKnown, VisitLabels, RevocationLabels, LinkLabels
  <1> QED BY <1>1, <1>2 DEF Typed

\* The labels of a step of one party leave the others where they are.
LEMMA GotoFacts ==
  ASSUME LocalsKnown, NEW p \in Visit \cup Revocation \cup Link,
         NEW label \in VisitLabels \cup RevocationLabels \cup LinkLabels,
         Goto(p, label)
  PROVE  /\ pc' \in [Visit \cup Revocation \cup Link ->
                       VisitLabels \cup RevocationLabels \cup LinkLabels]
         /\ pc'[p] = label
         /\ \A q \in (Visit \cup Revocation \cup Link) \ {p} : pc'[q] = pc[q]
  BY DEF LocalsKnown, Goto

\* A step of a visit that keeps the others' locals keeps the locals' types, if
\* it keeps its own.
LEMMA VisitLocals ==
  ASSUME LocalsKnown, NEW v \in Visit, NEW label \in VisitLabels, Goto(v, label),
         UNCHANGED <<revocation, link>>,
         \A w \in Visit \ {v} : visit'[w] = visit[w] /\ seen'[w] = seen[w],
         VisitKnown(v)'
  PROVE  LocalsKnown'
  <1>1. /\ pc' \in [Visit \cup Revocation \cup Link ->
                      VisitLabels \cup RevocationLabels \cup LinkLabels]
        /\ \A q \in (Visit \cup Revocation \cup Link) \ {v} : pc'[q] = pc[q]
    BY GotoFacts
  <1>2. \A w \in Visit : VisitKnown(w)'
    BY <1>1 DEF LocalsKnown, VisitKnown
  <1>3. (\A x \in Revocation : pc'[x] = pc[x]) /\ (\A l \in Link : pc'[l] = pc[l])
    BY <1>1, DisjointAssumption
  <1> QED BY <1>1, <1>2, <1>3 DEF LocalsKnown

\* Grants are created, deadlines pass and approvals are decided.
LEMMA TypedEnvironment ==
  ASSUME Typed,
         \/ \E g \in Grant : CreateGrant(g)
         \/ \E g \in Grant, d \in Deadline : Lapse(g, d)
         \/ \E o \in Object : DecideTarget(o)
  PROVE  Typed'
  <1> USE DEF Typed
  <1>1. UNCHANGED <<pc, visit, revocation, link, seen>>
    BY DEF CreateGrant, Lapse, DecideTarget
  <1>2. LocalsKnown'
    BY <1>1 DEF LocalsKnown, VisitKnown
  <1>3. ASSUME NEW g \in Grant, CreateGrant(g)
        PROVE  TypeOK'
    BY <1>3 DEF CreateGrant, TypeOK, ObjectStatus, Object
  <1>4. ASSUME NEW g \in Grant, NEW d \in Deadline, Lapse(g, d)
        PROVE  TypeOK'
    BY <1>4 DEF Lapse, TypeOK, rows, Deadline
  <1>5. ASSUME NEW o \in Object, DecideTarget(o)
        PROVE  TypeOK'
    BY <1>5 DEF DecideTarget, TypeOK, ObjectStatus
  <1> QED BY <1>2, <1>3, <1>4, <1>5

\* A visit arrives with what its kind needs.
LEMMA TypedArrival ==
  ASSUME Typed, SessionsOfExchanges, NEW v \in Visit,
         OpenInvitation(v) \/ OpenSubmission(v) \/ OpenInternal(v)
  PROVE  Typed'
  <1> USE DEF Typed
  <1>1. ASSUME NEW kind \in Kind, NEW g \in Grant \cup {None}, NEW t \in Target,
               NEW s \in Visit \cup {None}, NEW label \in {"session", "token", "begin"},
               Arrive(v, kind, g, t, s, label),
               label # "begin" => g \in Grant,
               label = "begin" => kind # "exchange",
               label = "session" => s \in Visit,
               kind = "exchange" => s = v
        PROVE  Typed'
    <2> DEFINE r == [kind |-> kind, grant |-> g, target |-> t, session |-> s,
                     late |-> g # None /\ AccessOver(g)]
    <2>1. r \in VisitRecord
      <3>1. (g # None /\ AccessOver(g)) \in BOOLEAN
        OBVIOUS
      <3> QED BY <3>1 DEF VisitRecord
    <2>2. visit' = [visit EXCEPT ![v] = r] /\ Goto(v, label)
      BY <1>1 DEF Arrive
    <2>3. UNCHANGED <<rows, lapsed, tokenLock, revocation, link, seen>>
      BY <1>1 DEF Arrive
    <2>4. r.kind = kind /\ r.grant = g /\ r.session = s
      OBVIOUS
    <2> HIDE DEF r
    <2>5. TypeOK'
      BY <2>1, <2>2, <2>3 DEF TypeOK, rows
    <2>6. pc'[v] = label
      BY <2>2, GotoFacts DEF VisitLabels
    <2>7. VisitKnown(v)'
      BY <1>1, <2>1, <2>2, <2>4, <2>6 DEF VisitKnown, VisitLabels, TypeOK
    <2>8. LocalsKnown'
      BY <2>2, <2>3, <2>7, VisitLocals DEF VisitLabels, TypeOK
    <2> QED BY <2>5, <2>8
  <1>2. CASE OpenInvitation(v)
    BY <1>1, <1>2, TargetOfAssumption DEF OpenInvitation, Kind
  <1>3. CASE OpenSubmission(v)
    <2>1. PICK s \in browser :
            LET g == visit[s].grant IN
            Arrive(v, IF IsOnboarding(TargetOf[g]) THEN "evidence" ELSE "submit",
                   g, TargetOf[g], s, "session")
      BY <1>3 DEF OpenSubmission
    <2>2. s \in Visit /\ visit[s].grant \in Grant
      BY DEF SessionsOfExchanges, TypeOK
    <2> QED BY <1>1, <2>1, <2>2, TargetOfAssumption DEF Kind
  <1>4. CASE OpenInternal(v)
    BY <1>1, <1>4 DEF OpenInternal, Kind
  <1> QED BY <1>2, <1>3, <1>4

\* The checks of a visit and what they let through
LEMMA TypedVisit ==
  ASSUME Typed, NEW v \in Visit,
         \/ CheckSession(v) \/ CheckToken(v) \/ CheckGrant(v)
         \/ Consume(v) \/ Claim(v) \/ CreateBrowserSession(v)
         \/ BeginSubmission(v) \/ CompleteRequest(v)
         \/ ResolveTargets(v) \/ ApplyEvidence(v) \/ Abandon(v)
  PROVE  Typed'
  <1> USE DEF Typed
  <1>1. /\ visit[v] \in VisitRecord
        /\ visit[v].kind = "exchange" => visit[v].session = v
    BY DEF LocalsKnown, VisitKnown, CheckSession, CheckToken, CheckGrant, Consume,
       Claim, CreateBrowserSession, BeginSubmission, CompleteRequest,
       ResolveTargets, ApplyEvidence, Abandon, Active
  <1>2. visit[v].target \in Target /\ visit[v].target \in Object
    BY <1>1 DEF VisitRecord, Object
  <1>3. UNCHANGED <<lapsed, tokenLock, visit, revocation, link>>
    BY DEF CheckSession, CheckToken, CheckGrant, Consume, Claim,
       CreateBrowserSession, BeginSubmission, CompleteRequest, ResolveTargets,
       ApplyEvidence, Abandon, rows
  <1>4. TypeOK'
    <2>1. CASE CheckSession(v) \/ CheckToken(v) \/ CheckGrant(v) \/ BeginSubmission(v)
                \/ Abandon(v)
      BY <1>3, <2>1 DEF CheckSession, CheckToken, CheckGrant, BeginSubmission,
         Abandon, Refuse, TypeOK, rows
    <2>2. CASE Consume(v)
      <3>1. visit[v].grant \in Grant
        BY <2>2 DEF Consume, LocalsKnown, VisitKnown
      <3> QED BY <1>3, <2>2, <3>1 DEF Consume, Refuse, TypeOK, rows
    <2>3. CASE Claim(v)
      <3>1. visit[v].grant \in Grant
        BY <2>3 DEF Claim, LocalsKnown, VisitKnown
      <3> QED BY <1>3, <2>3, <3>1 DEF Claim, Refuse, TypeOK, rows
    <2>4. CASE CreateBrowserSession(v)
      BY <1>3, <2>4 DEF CreateBrowserSession, TypeOK
    <2>5. CASE CompleteRequest(v)
      BY <1>2, <1>3, <2>5 DEF CompleteRequest, TypeOK, ObjectStatus
    <2>6. CASE ResolveTargets(v)
      BY <1>2, <1>3, <2>6 DEF ResolveTargets, TypeOK, rows
    <2>7. CASE ApplyEvidence(v)
      <3>1. ReviewStatus(seen[v]) \in ObjectStatus
        BY DEF ReviewStatus, ObjectStatus
      <3> QED BY <1>2, <1>3, <2>7, <3>1 DEF ApplyEvidence, Refuse, TypeOK, rows
    <2> QED BY <2>1, <2>2, <2>3, <2>4, <2>5, <2>6, <2>7
  <1>5. LocalsKnown'
    <2>1. \A w \in Visit \ {v} : visit'[w] = visit[w] /\ seen'[w] = seen[w]
      BY <1>3 DEF TypeOK, CheckSession, CheckToken, CheckGrant, Consume, Claim,
         CreateBrowserSession, BeginSubmission, CompleteRequest, ResolveTargets,
         ApplyEvidence, Abandon, Refuse, rows
    <2>2. ASSUME NEW label \in VisitLabels, Goto(v, label), VisitKnown(v)'
          PROVE  LocalsKnown'
      BY <1>3, <2>1, <2>2, VisitLocals
    <2>3. ASSUME NEW label \in {"refused", "lost", "done"}, Goto(v, label)
          PROVE  LocalsKnown'
      <3>1. pc'[v] = label
        BY <2>3, GotoFacts DEF VisitLabels
      <3>2. VisitKnown(v)'
        BY <1>1, <1>3, <2>3, <3>1 DEF VisitKnown, VisitLabels
      <3> QED BY <2>2, <2>3, <3>2 DEF VisitLabels
    <2>4. ASSUME NEW label \in VisitLabels, Goto(v, label), label # "apply",
                 label \in {"session", "token", "grant", "consume", "claim", "create",
                           "resolve"} => visit[v].grant \in Grant,
                 label = "session" => visit[v].session \in Visit,
                 label \in {"consume", "claim", "create"} => visit[v].kind = "exchange",
                 label \in {"begin", "complete", "resolve"} => visit[v].kind # "exchange"
          PROVE  LocalsKnown'
      <3>1. pc'[v] = label
        BY <2>4, GotoFacts
      <3>2. VisitKnown(v)'
        BY <1>1, <1>3, <2>4, <3>1, Zenon DEF VisitKnown
      <3> QED BY <2>2, <2>4, <3>2
    <2>5. VisitKnown(v)
      BY DEF LocalsKnown
    <2>6. CASE CheckSession(v)
      BY <2>3, <2>4, <2>5, <2>6 DEF CheckSession, Refuse, VisitKnown, VisitLabels
    <2>7. CASE CheckToken(v)
      BY <2>3, <2>4, <2>5, <2>7 DEF CheckToken, Refuse, VisitKnown, VisitLabels
    <2>8. CASE CheckGrant(v)
      <3>1. /\ Loaded(v) \in {"consume", "claim", "resolve", "begin"}
            /\ Loaded(v) \in {"consume", "claim"} => visit[v].kind = "exchange"
            /\ Loaded(v) \in {"resolve", "begin"} => visit[v].kind # "exchange"
        <4>1. visit[v].kind = "exchange" => Loaded(v) \in {"consume", "claim"}
          BY DEF Loaded
        <4>2. visit[v].kind # "exchange" => Loaded(v) \in {"resolve", "begin"}
          BY DEF Loaded, Presenting
        <4> QED BY <4>1, <4>2
      <3> QED
        BY <2>3, <2>4, <2>5, <2>8, <3>1 DEF CheckGrant, Refuse, VisitKnown, VisitLabels
    <2>9. CASE Consume(v)
      <3>1. visit[v].grant \in Grant /\ visit[v].session \in Visit
        BY <1>1, <2>5, <2>9 DEF Consume, VisitKnown
      <3> QED BY <2>3, <2>4, <2>9, <3>1 DEF Consume, Refuse, VisitLabels
    <2>10. CASE Claim(v)
      BY <2>3, <2>4, <2>5, <2>10 DEF Claim, Refuse, VisitKnown, VisitLabels
    <2>11. CASE BeginSubmission(v)
      BY <2>3, <2>4, <2>5, <2>11 DEF BeginSubmission, Refuse, VisitKnown, VisitLabels
    <2>12. CASE ResolveTargets(v)
      <3>1. seen'[v] \in ObjectStatus
        BY <1>2, <2>12 DEF ResolveTargets, TypeOK
      <3>2. pc'[v] = "apply"
        BY <2>12, GotoFacts DEF ResolveTargets, VisitLabels
      <3>3. VisitKnown(v)'
        BY <1>1, <1>3, <2>5, <2>12, <3>1, <3>2 DEF ResolveTargets, VisitKnown, VisitLabels
      <3> QED BY <2>2, <2>12, <3>3 DEF ResolveTargets, VisitLabels
    <2>13. CASE CreateBrowserSession(v) \/ CompleteRequest(v) \/ ApplyEvidence(v)
                \/ Abandon(v)
      BY <2>3, <2>13 DEF CreateBrowserSession, CompleteRequest, ApplyEvidence,
         Abandon, Refuse
    <2> QED BY <2>6, <2>7, <2>8, <2>9, <2>10, <2>11, <2>12, <2>13
  <1> QED BY <1>4, <1>5

LEMMA TypedRevocation ==
  ASSUME Typed, NEW x \in Revocation, RevocationStep(x)
  PROVE  Typed'
  <1> USE DisjointAssumption DEF Typed
  <1>1. UNCHANGED <<lapsed, visit, link, seen>>
    BY DEF RevocationStep, BeginRevocation, RevokeToken, RevokeSessions,
       CommitRevocation, FailRevocation
  <1>2. ASSUME NEW label \in RevocationLabels, Goto(x, label),
               \A y \in Revocation \ {x} : revocation'[y] = revocation[y],
               label \in {"token", "sessions", "commit"} =>
                 revocation'[x] \in [grant : Grant, found : SUBSET Visit]
        PROVE  LocalsKnown'
    <2>1. /\ pc' \in [Visit \cup Revocation \cup Link ->
                        VisitLabels \cup RevocationLabels \cup LinkLabels]
          /\ pc'[x] = label
          /\ \A q \in (Visit \cup Revocation \cup Link) \ {x} : pc'[q] = pc[q]
      BY <1>2, GotoFacts
    <2>2. \A v \in Visit : VisitKnown(v)'
      BY <1>1, <2>1 DEF LocalsKnown, VisitKnown
    <2> QED BY <1>1, <1>2, <2>1, <2>2 DEF LocalsKnown
  <1>3. pc[x] \in {"token", "sessions", "commit"} =>
          revocation[x] \in [grant : Grant, found : SUBSET Visit]
    BY DEF LocalsKnown
  <1>4. CASE BeginRevocation(x)
    <2>1. PICK g \in Grant :
            revocation' = [revocation EXCEPT ![x] = [grant |-> g, found |-> {}]]
      BY <1>4 DEF BeginRevocation
    <2>2. TypeOK'
      BY <1>1, <1>4, <2>1 DEF BeginRevocation, TypeOK, rows
    <2>3. revocation'[x] \in [grant : Grant, found : SUBSET Visit]
      BY <2>1 DEF TypeOK
    <2>4. LocalsKnown'
      BY <1>2, <1>4, <2>1, <2>3 DEF BeginRevocation, RevocationLabels, TypeOK
    <2> QED BY <2>2, <2>4
  <1>5. CASE RevokeToken(x)
    <2>1. revocation[x] \in [grant : Grant, found : SUBSET Visit]
      BY <1>3, <1>5 DEF RevokeToken
    <2>2. TypeOK'
      BY <1>1, <1>5, <2>1 DEF RevokeToken, TypeOK, rows
    <2>3. LocalsKnown'
      BY <1>2, <1>5, <2>1 DEF RevokeToken, RevocationLabels
    <2> QED BY <2>2, <2>3
  <1>6. CASE RevokeSessions(x)
    <2>1. revocation[x] \in [grant : Grant, found : SUBSET Visit]
      BY <1>3, <1>6 DEF RevokeSessions
    <2> DEFINE r == [revocation[x] EXCEPT !.found = SessionsOf(revocation[x].grant)]
    <2>2. r \in [grant : Grant, found : SUBSET Visit]
      BY <2>1 DEF SessionsOf
    <2>3. /\ revocation' = [revocation EXCEPT ![x] = r]
          /\ Goto(x, "commit")
          /\ UNCHANGED <<rows, tokenLock>>
      BY <1>6 DEF RevokeSessions
    <2> HIDE DEF r
    <2>4. TypeOK'
      BY <1>1, <2>2, <2>3 DEF TypeOK, rows
    <2>5. LocalsKnown'
      BY <1>2, <2>2, <2>3 DEF RevocationLabels, TypeOK
    <2> QED BY <2>4, <2>5
  <1>7. CASE CommitRevocation(x)
    <2>1. revocation[x].grant \in Grant /\ revocation[x].grant \in Object
      BY <1>3, <1>7 DEF CommitRevocation, Object
    <2>2. TypeOK'
      BY <1>1, <1>7, <2>1 DEF CommitRevocation, TypeOK, ObjectStatus
    <2>3. LocalsKnown'
      BY <1>2, <1>7 DEF CommitRevocation, RevocationLabels
    <2> QED BY <2>2, <2>3
  <1>8. CASE FailRevocation(x)
    <2>1. TypeOK'
      BY <1>1, <1>8 DEF FailRevocation, TypeOK, rows
    <2>2. LocalsKnown'
      BY <1>2, <1>8 DEF FailRevocation, RevocationLabels
    <2> QED BY <2>1, <2>2
  <1> QED BY <1>4, <1>5, <1>6, <1>7, <1>8 DEF RevocationStep

LEMMA TypedLink ==
  ASSUME Typed, NEW l \in Link, LinkStep(l)
  PROVE  Typed'
  <1> USE DisjointAssumption DEF Typed
  <1>1. UNCHANGED <<lapsed, tokenLock, visit, revocation, seen>>
    BY DEF LinkStep, ReadLinked, WriteLinked
  <1>2. ASSUME NEW label \in LinkLabels, Goto(l, label),
               \A m \in Link \ {l} : link'[m] = link[m],
               label = "write" =>
                 /\ link'[l] \in [object : Object, next : ObjectStatus]
                 /\ link'[l].next # "absent"
        PROVE  LocalsKnown'
    <2>1. /\ pc' \in [Visit \cup Revocation \cup Link ->
                        VisitLabels \cup RevocationLabels \cup LinkLabels]
          /\ pc'[l] = label
          /\ \A q \in (Visit \cup Revocation \cup Link) \ {l} : pc'[q] = pc[q]
      BY <1>2, GotoFacts
    <2>2. \A v \in Visit : VisitKnown(v)'
      BY <1>1, <2>1 DEF LocalsKnown, VisitKnown
    <2> QED BY <1>1, <1>2, <2>1, <2>2 DEF LocalsKnown
  <1>3. CASE ReadLinked(l)
    <2>1. PICK o \in Object, mode \in {"link", "attach"} :
            /\ Linkable(o)
            /\ link' = [link EXCEPT ![l] =
                 [object |-> o, next |-> IF mode = "link" THEN status[o] ELSE "attached"]]
      BY <1>3 DEF ReadLinked
    <2> DEFINE r == [object |-> o, next |-> IF mode = "link" THEN status[o] ELSE "attached"]
    <2>2. r \in [object : Object, next : ObjectStatus] /\ r.next # "absent"
      BY <2>1 DEF Linkable, TypeOK, ObjectStatus
    <2>3. link' = [link EXCEPT ![l] = r]
      BY <2>1
    <2> HIDE DEF r
    <2>4. TypeOK'
      BY <1>1, <1>3, <2>2, <2>3 DEF ReadLinked, TypeOK, rows
    <2>5. LocalsKnown'
      BY <1>2, <1>3, <2>2, <2>3 DEF ReadLinked, LinkLabels, TypeOK
    <2> QED BY <2>4, <2>5
  <1>4. CASE WriteLinked(l)
    <2>1. link[l] \in [object : Object, next : ObjectStatus]
      BY <1>4 DEF WriteLinked, LocalsKnown
    <2>2. TypeOK'
      BY <1>1, <1>4, <2>1 DEF WriteLinked, TypeOK
    <2>3. LocalsKnown'
      BY <1>2, <1>4 DEF WriteLinked, LinkLabels
    <2> QED BY <2>2, <2>3
  <1> QED BY <1>3, <1>4 DEF LinkStep

LEMMA TypedStep == Typed /\ SessionsOfExchanges /\ [Next]_vars => Typed'
  <1>1. Typed /\ UNCHANGED vars => Typed'
    BY DEF Typed, TypeOK, LocalsKnown, VisitKnown, vars, rows
  <1> QED
    BY <1>1, TypedEnvironment, TypedArrival, TypedVisit, TypedRevocation, TypedLink
       DEF Next, VisitStep
-----------------------------------------------------------------------------
(* Grants and tokens                                                        *)

\* An object that has been created is not absent again.
LEMMA CreatedStays ==
  ASSUME Typed, [Next]_vars, NEW o \in Object, status[o] # "absent"
  PROVE  status'[o] # "absent"
  <1> USE DEF Typed, TypeOK
  <1>1. ASSUME NEW v \in Visit, ApplyEvidence(v)
        PROVE  status'[o] # "absent"
    <2>1. ReviewStatus(seen[v]) # "absent"
      BY DEF ReviewStatus
    <2> QED BY <1>1, <2>1 DEF ApplyEvidence, Refuse, rows
  <1>2. ASSUME NEW l \in Link, WriteLinked(l)
        PROVE  status'[o] # "absent"
    BY <1>2 DEF WriteLinked, LocalsKnown
  <1>3. ASSUME \/ \E g \in Grant : CreateGrant(g)
               \/ \E v \in Visit : CompleteRequest(v)
               \/ \E x \in Revocation : CommitRevocation(x)
               \/ \E p \in Object : DecideTarget(p)
        PROVE  status'[o] # "absent"
    BY <1>3 DEF CreateGrant, CompleteRequest, CommitRevocation, DecideTarget
  <1> QED
    BY <1>1, <1>2, <1>3 DEF Next, vars, rows, Lapse, VisitStep, Arrive, Refuse,
       OpenInvitation, OpenSubmission, OpenInternal, CheckSession, CheckToken,
       CheckGrant, Consume, Claim, CreateBrowserSession, BeginSubmission,
       ResolveTargets, Abandon, RevocationStep, BeginRevocation, RevokeToken,
       RevokeSessions, FailRevocation, LinkStep, ReadLinked

\* Tokens are made with their grant and revoked in a revocation's last step.
LEMMA TokenWriter ==
  ASSUME Typed, [Next]_vars, NEW g \in Grant, token'[g] # token[g]
  PROVE  \/ status[g] = "absent" /\ token'[g] = "active" /\ status'[g] = "approved"
         \/ \E x \in Revocation : /\ CommitRevocation(x)
                                  /\ revocation[x].grant = g
                                  /\ token'[g] = "revoked"
  <1> USE DEF Typed, TypeOK
  <1>1. ASSUME NEW h \in Grant, CreateGrant(h)
        PROVE  status[g] = "absent" /\ token'[g] = "active" /\ status'[g] = "approved"
    BY <1>1 DEF CreateGrant, Object
  <1>2. ASSUME NEW x \in Revocation, CommitRevocation(x)
        PROVE  revocation[x].grant = g /\ token'[g] = "revoked"
    BY <1>2 DEF CommitRevocation
  <1> QED
    BY <1>1, <1>2 DEF Next, vars, rows, Lapse, VisitStep, Arrive, Refuse,
       OpenInvitation, OpenSubmission, OpenInternal, CheckSession, CheckToken,
       CheckGrant, Consume, Claim, CreateBrowserSession, BeginSubmission,
       CompleteRequest, ResolveTargets, ApplyEvidence, Abandon, RevocationStep,
       BeginRevocation, RevokeToken, RevokeSessions, FailRevocation, LinkStep,
       ReadLinked, WriteLinked, DecideTarget

LEMMA TokensStep ==
  ASSUME Typed, TokensOfGrants, [Next]_vars
  PROVE  TokensOfGrants'
  <1> SUFFICES ASSUME NEW g \in Grant, token'[g] # "absent"
               PROVE  status'[g] # "absent"
    BY DEF TokensOfGrants
  <1>1. g \in Object
    BY DEF Object
  <1>2. CASE token[g] # "absent"
    BY <1>1, <1>2, CreatedStays DEF TokensOfGrants
  <1>3. CASE token[g] = "absent"
    <2>1. CASE status[g] # "absent"
      BY <1>1, <2>1, CreatedStays
    <2>2. CASE status[g] = "absent"
      <3>1. \/ status'[g] = "approved"
            \/ \E x \in Revocation : CommitRevocation(x) /\ revocation[x].grant = g
        BY <1>3, TokenWriter
      <3>2. ASSUME NEW x \in Revocation, CommitRevocation(x), revocation[x].grant = g
            PROVE  status'[g] = "cancelled"
        BY <1>1, <3>2 DEF CommitRevocation, Typed, TypeOK
      <3> QED BY <3>1, <3>2
    <2> QED BY <2>1, <2>2
  <1> QED BY <1>2, <1>3

\* Access that is over stays over.
LEMMA OverStays ==
  ASSUME Typed, TokensOfGrants, [Next]_vars, NEW g \in Grant, AccessOver(g)
  PROVE  AccessOver(g)'
  <1>1. token[g] = "revoked" => token'[g] = "revoked"
    BY TokenWriter DEF TokensOfGrants
  <1>2. lapsed \subseteq lapsed'
    BY DEF Next, vars, rows, CreateGrant, Lapse, VisitStep, Arrive, Refuse,
       OpenInvitation, OpenSubmission, OpenInternal, CheckSession, CheckToken,
       CheckGrant, Consume, Claim, CreateBrowserSession, BeginSubmission,
       CompleteRequest, ResolveTargets, ApplyEvidence, Abandon, RevocationStep,
       BeginRevocation, RevokeToken, RevokeSessions, CommitRevocation,
       FailRevocation, LinkStep, ReadLinked, WriteLinked, DecideTarget
  <1> QED BY <1>1, <1>2 DEF AccessOver, Passed
-----------------------------------------------------------------------------
(* Who changes what                                                         *)

\* What a visit brings with it when it arrives
LEMMA Arrivals ==
  ASSUME Typed, SessionsOfExchanges, NEW v \in Visit,
         OpenInvitation(v) \/ OpenSubmission(v) \/ OpenInternal(v)
  PROVE  /\ pc[v] = "idle"
         /\ pc'[v] \in {"session", "token", "begin"}
         /\ visit'[v].late => /\ visit'[v].grant \in Grant
                             /\ AccessOver(visit'[v].grant)
                             /\ pc'[v] # "begin"
         /\ \A w \in Visit \ {v} : visit'[w] = visit[w]
         /\ UNCHANGED <<rows, lapsed, tokenLock, revocation, link, seen>>
  <1> DEFINE Facts ==
         /\ pc[v] = "idle"
         /\ pc'[v] \in {"session", "token", "begin"}
         /\ visit'[v].late => /\ visit'[v].grant \in Grant
                             /\ AccessOver(visit'[v].grant)
                             /\ pc'[v] # "begin"
         /\ \A w \in Visit \ {v} : visit'[w] = visit[w]
         /\ UNCHANGED <<rows, lapsed, tokenLock, revocation, link, seen>>
  <1> USE DEF Typed
  <1>1. ASSUME NEW kind \in Kind, NEW g \in Grant \cup {None}, NEW t \in Target,
               NEW s \in Visit \cup {None}, NEW label \in {"session", "token", "begin"},
               Arrive(v, kind, g, t, s, label),
               label = "begin" => g = None
        PROVE  Facts
    <2> DEFINE r == [kind |-> kind, grant |-> g, target |-> t, session |-> s,
                     late |-> g # None /\ AccessOver(g)]
    <2>1. visit' = [visit EXCEPT ![v] = r]
      BY <1>1 DEF Arrive
    <2>2. r.grant = g /\ (r.late => g # None /\ AccessOver(g))
      OBVIOUS
    <2> HIDE DEF r
    <2>3. visit'[v] = r /\ \A w \in Visit \ {v} : visit'[w] = visit[w]
      BY <2>1 DEF TypeOK
    <2>4. pc[v] = "idle" /\ pc'[v] = label
      BY <1>1, GotoFacts DEF Arrive, VisitLabels
    <2>5. UNCHANGED <<rows, lapsed, tokenLock, revocation, link, seen>>
      BY <1>1 DEF Arrive
    <2> QED BY <1>1, <2>2, <2>3, <2>4, <2>5
  <1>2. CASE OpenInvitation(v)
    BY <1>1, <1>2, TargetOfAssumption, DisjointAssumption DEF OpenInvitation, Kind
  <1>3. CASE OpenSubmission(v)
    <2>1. PICK s \in browser :
            LET g == visit[s].grant IN
            Arrive(v, IF IsOnboarding(TargetOf[g]) THEN "evidence" ELSE "submit",
                   g, TargetOf[g], s, "session")
      BY <1>3 DEF OpenSubmission
    <2>2. s \in Visit /\ visit[s].grant \in Grant
      BY DEF SessionsOfExchanges, TypeOK
    <2> QED BY <1>1, <2>1, <2>2, TargetOfAssumption DEF Kind
  <1>4. CASE OpenInternal(v)
    BY <1>1, <1>4 DEF OpenInternal, Kind
  <1> QED BY <1>2, <1>3, <1>4

\* The steps of a visit after its arrival
Proceeds(v) ==
  \/ CheckSession(v) \/ CheckToken(v) \/ CheckGrant(v)
  \/ Consume(v) \/ Claim(v) \/ CreateBrowserSession(v)
  \/ BeginSubmission(v) \/ CompleteRequest(v)
  \/ ResolveTargets(v) \/ ApplyEvidence(v) \/ Abandon(v)

LEMMA Proceeding ==
  ASSUME Typed, NEW v \in Visit, Proceeds(v)
  PROVE  /\ pc[v] # "idle"
         /\ pc'[v] \in VisitLabels \ {"idle"}
         /\ \A q \in (Visit \cup Revocation \cup Link) \ {v} : pc'[q] = pc[q]
         /\ UNCHANGED <<type, token, lapsed, tokenLock, visit, revocation, link>>
  <1> USE DEF Typed
  <1>1. pc[v] # "idle"
    BY DEF Proceeds, CheckSession, CheckToken, CheckGrant, Consume, Claim,
       CreateBrowserSession, BeginSubmission, CompleteRequest, ResolveTargets,
       ApplyEvidence, Abandon, Active
  <1>2. UNCHANGED <<type, token, lapsed, tokenLock, visit, revocation, link>>
    BY DEF Proceeds, CheckSession, CheckToken, CheckGrant, Consume, Claim,
       CreateBrowserSession, BeginSubmission, CompleteRequest, ResolveTargets,
       ApplyEvidence, Abandon, Refuse, rows
  <1>3. Loaded(v) \in {"consume", "claim", "resolve", "begin"}
    BY DEF Loaded, Presenting
  <1>4. \E label \in VisitLabels \ {"idle"} : Goto(v, label)
    BY <1>3 DEF Proceeds, CheckSession, CheckToken, CheckGrant, Consume, Claim,
       CreateBrowserSession, BeginSubmission, CompleteRequest, ResolveTargets,
       ApplyEvidence, Abandon, Refuse, VisitLabels
  <1> QED BY <1>1, <1>2, <1>4, GotoFacts

\* Only its own steps move a visit, or put it in a browser or in evidence.
LEMMA VisitWriter ==
  ASSUME Typed, SessionsOfExchanges, [Next]_vars, NEW v \in Visit, ~VisitStep(v)
  PROVE  /\ pc'[v] = pc[v]
         /\ visit'[v] = visit[v]
         /\ v \in browser' => v \in browser
         /\ \A t \in Target : v \in evidence'[t] <=> v \in evidence[t]
  <1> USE DisjointAssumption DEF Typed
  <1>1. ASSUME NEW w \in Visit, VisitStep(w)
        PROVE  /\ pc'[v] = pc[v]
               /\ visit'[v] = visit[v]
               /\ v \in browser' => v \in browser
               /\ \A t \in Target : v \in evidence'[t] <=> v \in evidence[t]
    <2>1. w # v
      BY <1>1
    <2>2. CASE OpenInvitation(w) \/ OpenSubmission(w) \/ OpenInternal(w)
      <3>1. \E label \in VisitLabels : Goto(w, label)
        BY <2>2 DEF OpenInvitation, OpenSubmission, OpenInternal, Arrive, VisitLabels
      <3> QED BY <2>1, <2>2, <3>1, Arrivals, GotoFacts DEF rows
    <2>3. CASE Proceeds(w)
      <3>1. pc'[v] = pc[v] /\ visit'[v] = visit[v]
        BY <2>1, <2>3, Proceeding
      <3>2. v \in browser' => v \in browser
        BY <2>1, <2>3 DEF Proceeds, CheckSession, CheckToken, CheckGrant, Consume, Claim,
           CreateBrowserSession, BeginSubmission, CompleteRequest, ResolveTargets,
           ApplyEvidence, Abandon, Refuse, rows
      <3>3. \A t \in Target : v \in evidence'[t] <=> v \in evidence[t]
        BY <2>1, <2>3 DEF TypeOK, Proceeds, CheckSession, CheckToken, CheckGrant, Consume,
           Claim, CreateBrowserSession, BeginSubmission, CompleteRequest,
           ResolveTargets, ApplyEvidence, Abandon, Refuse, rows
      <3> QED BY <3>1, <3>2, <3>3
    <2> QED BY <1>1, <2>2, <2>3 DEF VisitStep, Proceeds
  <1>2. CASE \/ \E g \in Grant : CreateGrant(g)
             \/ \E g \in Grant, d \in Deadline : Lapse(g, d)
             \/ \E o \in Object : DecideTarget(o)
             \/ UNCHANGED vars
    BY <1>2 DEF CreateGrant, Lapse, DecideTarget, vars, rows
  <1>3. ASSUME NEW x \in Revocation, RevocationStep(x)
        PROVE  UNCHANGED <<visit, browser, evidence>> /\ pc'[v] = pc[v]
    BY <1>3 DEF RevocationStep, BeginRevocation, RevokeToken, RevokeSessions,
       CommitRevocation, FailRevocation, Goto, rows, LocalsKnown
  <1>4. ASSUME NEW l \in Link, LinkStep(l)
        PROVE  UNCHANGED <<visit, browser, evidence>> /\ pc'[v] = pc[v]
    BY <1>4 DEF LinkStep, ReadLinked, WriteLinked, Goto, rows, LocalsKnown
  <1> QED BY <1>1, <1>2, <1>3, <1>4 DEF Next

\* A visit's own steps take it on, and keep what it is.
LEMMA VisitMoves ==
  ASSUME Typed, SessionsOfExchanges, NEW v \in Visit, VisitStep(v)
  PROVE  /\ pc'[v] # "idle"
         /\ pc[v] # "idle" => visit'[v] = visit[v]
  BY Arrivals, Proceeding DEF VisitStep, Proceeds

\* A session is made by its exchange, once, and revoked with its grant.
LEMMA SessionWriter ==
  ASSUME Typed, [Next]_vars, NEW v \in Visit, session'[v] # session[v]
  PROVE  \/ /\ Consume(v)
            /\ Exchangeable(visit[v].grant)
            /\ exchanged' = exchanged \cup {visit[v].grant}
            /\ session' = [session EXCEPT ![v] = "live"]
         \/ \E x \in Revocation : /\ CommitRevocation(x)
                                  /\ v \in revocation[x].found
                                  /\ session'[v] = "revoked"
  <1> USE DEF Typed, TypeOK
  <1>1. ASSUME NEW w \in Visit, Consume(w)
        PROVE  /\ w = v
               /\ Exchangeable(visit[v].grant)
               /\ exchanged' = exchanged \cup {visit[v].grant}
               /\ session' = [session EXCEPT ![v] = "live"]
    BY <1>1 DEF Consume, Refuse, rows
  <1>2. ASSUME NEW x \in Revocation, CommitRevocation(x)
        PROVE  v \in revocation[x].found /\ session'[v] = "revoked"
    BY <1>2 DEF CommitRevocation
  <1> QED
    BY <1>1, <1>2 DEF Next, vars, rows, CreateGrant, Lapse, VisitStep, Arrive, Refuse,
       OpenInvitation, OpenSubmission, OpenInternal, CheckSession, CheckToken,
       CheckGrant, Claim, CreateBrowserSession, BeginSubmission, CompleteRequest,
       ResolveTargets, ApplyEvidence, Abandon, RevocationStep, BeginRevocation,
       RevokeToken, RevokeSessions, FailRevocation, LinkStep, ReadLinked,
       WriteLinked, DecideTarget

\* Invitations that were spent stay spent.
LEMMA ExchangedGrows ==
  ASSUME [Next]_vars
  PROVE  exchanged \subseteq exchanged'
  BY DEF Next, vars, rows, CreateGrant, Lapse, VisitStep, Arrive, Refuse,
     OpenInvitation, OpenSubmission, OpenInternal, CheckSession, CheckToken,
     CheckGrant, Consume, Claim, CreateBrowserSession, BeginSubmission,
     CompleteRequest, ResolveTargets, ApplyEvidence, Abandon, RevocationStep,
     BeginRevocation, RevokeToken, RevokeSessions, CommitRevocation, FailRevocation,
     LinkStep, ReadLinked, WriteLinked, DecideTarget
-----------------------------------------------------------------------------
(* The steps keep the invariant                                             *)

LEMMA SessionsStep ==
  ASSUME Typed, SessionsOfExchanges, RevocationsHold, [Next]_vars
  PROVE  SessionsOfExchanges'
  <1>1. \A v \in Visit : session[v] # "none" => session'[v] # "none"
    BY SessionWriter DEF Typed, TypeOK
  <1>2. ASSUME NEW v \in Visit, session'[v] # "none"
        PROVE  pc'[v] # "idle" /\ visit'[v].kind = "exchange" /\ visit'[v].grant \in exchanged'
    <2>1. CASE session[v] # "none"
      <3>1. pc[v] # "idle" /\ visit[v].kind = "exchange" /\ visit[v].grant \in exchanged
        BY <2>1 DEF SessionsOfExchanges
      <3>2. pc'[v] # "idle" /\ visit'[v] = visit[v]
        BY <3>1, VisitMoves, VisitWriter
      <3> QED BY <3>1, <3>2, ExchangedGrows
    <2>2. CASE session[v] = "none"
      <3>1. CASE Consume(v)
        <4>1. pc[v] = "consume" /\ visit[v].kind = "exchange"
          BY <3>1 DEF Consume, Typed, LocalsKnown, VisitKnown
        <4>2. exchanged' = exchanged \cup {visit[v].grant}
          BY <2>2, <1>2, <3>1 DEF Consume, Refuse, rows
        <4>3. pc'[v] # "idle" /\ visit'[v] = visit[v]
          BY <3>1, <4>1, VisitMoves DEF VisitStep
        <4> QED BY <4>1, <4>2, <4>3
      <3>2. ASSUME NEW x \in Revocation, CommitRevocation(x), v \in revocation[x].found
            PROVE  FALSE
        BY <2>2, <3>2 DEF CommitRevocation, RevocationsHold, Holds, SessionsOf
      <3> QED BY <1>2, <2>2, <3>1, <3>2, SessionWriter
    <2> QED BY <2>1, <2>2
  <1>3. ASSUME NEW v \in Visit, v \in browser'
        PROVE  session'[v] # "none"
    <2>1. v \in browser \/ pc[v] = "create"
      <3>1. CASE VisitStep(v)
        BY <1>3, <3>1, Arrivals DEF VisitStep, rows, CheckSession, CheckToken,
           CheckGrant, Consume, Claim, CreateBrowserSession, BeginSubmission,
           CompleteRequest, ResolveTargets, ApplyEvidence, Abandon, Refuse
      <3> QED BY <1>3, <3>1, VisitWriter
    <2> QED BY <1>1, <2>1 DEF SessionsOfExchanges
  <1>4. ASSUME NEW v \in Visit, pc'[v] \in {"claim", "create"}
        PROVE  session'[v] # "none"
    <2>1. pc[v] \in {"claim", "create"} \/ session[v] # "none"
      <3>1. ASSUME NEW label \in VisitLabels, Goto(v, label)
            PROVE  label \in {"claim", "create"}
        BY <1>4, <3>1, GotoFacts DEF Typed
      <3>2. CASE VisitStep(v)
        <4>1. CASE CheckGrant(v)
          <5>1. Loaded(v) \in {"claim", "create"}
            BY <3>1, <4>1 DEF CheckGrant, Refuse, Loaded, VisitLabels
          <5>2. visit[v].kind = "exchange"
            BY <5>1 DEF Loaded
          <5>3. ~Presenting(v)
            BY <5>1 DEF Loaded
          <5> QED BY <5>2, <5>3 DEF Presenting
        <4> QED
          BY <1>4, <3>1, <3>2, <4>1, Arrivals DEF VisitStep, CheckSession, CheckToken,
             Consume, Claim, CreateBrowserSession, BeginSubmission, CompleteRequest,
             ResolveTargets, ApplyEvidence, Abandon, Refuse, VisitLabels
      <3> QED BY <1>4, <3>2, VisitWriter
    <2> QED BY <1>1, <2>1 DEF SessionsOfExchanges
  <1>5. browser' \subseteq Visit
    BY TypedStep DEF Typed, TypeOK
  <1> QED BY <1>2, <1>3, <1>4, <1>5 DEF SessionsOfExchanges

\* The sessions of a grant whose token a revocation holds stay what they are.
LEMMA SessionsOfLocked ==
  ASSUME Typed, SessionsOfExchanges, RevocationsHold, [Next]_vars,
         NEW g \in Grant, Locked(g)
  PROVE  SessionsOf(g)' = SessionsOf(g)
  <1>1. ASSUME NEW v \in Visit, session[v] # "none"
        PROVE  session'[v] # "none" /\ visit'[v] = visit[v]
    <2>1. session'[v] # "none"
      BY <1>1, SessionWriter DEF Typed, TypeOK
    <2>2. pc[v] # "idle"
      BY <1>1 DEF SessionsOfExchanges
    <2> QED BY <2>1, <2>2, VisitMoves, VisitWriter
  <1>2. ASSUME NEW v \in Visit, session[v] = "none", session'[v] # "none"
        PROVE  visit'[v].grant # g
    <2>1. CASE Consume(v)
      <3>1. visit'[v] = visit[v]
        BY <2>1 DEF Consume
      <3>2. ~Locked(visit[v].grant)
        BY <2>1 DEF Consume
      <3> QED BY <3>1, <3>2
    <2>2. ASSUME NEW x \in Revocation, CommitRevocation(x), v \in revocation[x].found
          PROVE  FALSE
      BY <1>2, <2>2 DEF CommitRevocation, RevocationsHold, Holds, SessionsOf
    <2> QED BY <1>2, <2>1, <2>2, SessionWriter
  <1> QED BY <1>1, <1>2 DEF SessionsOf

\* A revocation's place moves with its own steps.
LEMMA RevocationWriter ==
  ASSUME Typed, SessionsOfExchanges, [Next]_vars, NEW x \in Revocation, ~RevocationStep(x)
  PROVE  pc'[x] = pc[x] /\ revocation'[x] = revocation[x]
  <1> USE DisjointAssumption DEF Typed
  <1>1. ASSUME NEW v \in Visit, VisitStep(v)
        PROVE  pc'[x] = pc[x] /\ revocation'[x] = revocation[x]
    <2>1. CASE OpenInvitation(v) \/ OpenSubmission(v) \/ OpenInternal(v)
      <3>1. \E label \in VisitLabels : Goto(v, label)
        BY <2>1 DEF OpenInvitation, OpenSubmission, OpenInternal, Arrive, VisitLabels
      <3> QED BY <2>1, <3>1, Arrivals, GotoFacts
    <2>2. CASE Proceeds(v)
      BY <2>2, Proceeding
    <2> QED BY <1>1, <2>1, <2>2 DEF VisitStep, Proceeds
  <1>2. ASSUME NEW y \in Revocation, RevocationStep(y)
        PROVE  pc'[x] = pc[x] /\ revocation'[x] = revocation[x]
    BY <1>2 DEF RevocationStep, BeginRevocation, RevokeToken, RevokeSessions,
       CommitRevocation, FailRevocation, Goto, LocalsKnown, TypeOK
  <1>3. ASSUME NEW l \in Link, LinkStep(l)
        PROVE  pc'[x] = pc[x] /\ revocation'[x] = revocation[x]
    BY <1>3 DEF LinkStep, ReadLinked, WriteLinked, Goto, LocalsKnown
  <1>4. CASE \/ \E g \in Grant : CreateGrant(g)
             \/ \E g \in Grant, d \in Deadline : Lapse(g, d)
             \/ \E o \in Object : DecideTarget(o)
             \/ UNCHANGED vars
    BY <1>4 DEF CreateGrant, Lapse, DecideTarget, vars, rows
  <1> QED BY <1>1, <1>2, <1>3, <1>4 DEF Next

\* A token that a revocation holds is let go by that revocation only.
LEMMA LockWriter ==
  ASSUME Typed, RevocationsHold, [Next]_vars, NEW x \in Revocation, ~RevocationStep(x),
         NEW g \in Grant, tokenLock[g] = x
  PROVE  tokenLock'[g] = x
  <1> USE DisjointAssumption DEF Typed, TypeOK
  <1>1. ASSUME NEW y \in Revocation, RevocationStep(y)
        PROVE  tokenLock'[g] = x
    <2>1. y # x /\ x # None
      BY <1>1
    <2>2. CASE BeginRevocation(y) \/ RevokeSessions(y)
      BY <2>2 DEF BeginRevocation, RevokeSessions
    <2>3. CASE RevokeToken(y)
      BY <2>1, <2>3 DEF RevokeToken, Locked
    <2>4. CASE CommitRevocation(y)
      <3>1. tokenLock[revocation[y].grant] = y
        BY <2>4 DEF CommitRevocation, RevocationsHold, Holds
      <3>2. tokenLock' = [tokenLock EXCEPT ![revocation[y].grant] = None]
        BY <2>4 DEF CommitRevocation
      <3> QED BY <2>1, <3>1, <3>2
    <2>5. CASE FailRevocation(y)
      BY <2>1, <2>5 DEF FailRevocation
    <2> QED BY <1>1, <2>2, <2>3, <2>4, <2>5 DEF RevocationStep
  <1>2. ASSUME NEW v \in Visit, VisitStep(v)
        PROVE  UNCHANGED tokenLock
    BY <1>2 DEF VisitStep, OpenInvitation, OpenSubmission, OpenInternal, Arrive,
       CheckSession, CheckToken, CheckGrant, Consume, Claim, CreateBrowserSession,
       BeginSubmission, CompleteRequest, ResolveTargets, ApplyEvidence, Abandon
  <1> QED
    BY <1>1, <1>2 DEF Next, vars, CreateGrant, Lapse, LinkStep, ReadLinked, WriteLinked,
       DecideTarget

LEMMA RevocationsHoldStep ==
  ASSUME Typed, SessionsOfExchanges, RevocationsHold, [Next]_vars
  PROVE  RevocationsHold'
  <1> USE DisjointAssumption DEF Typed
  <1> SUFFICES ASSUME NEW x \in Revocation
               PROVE  Holds(x)'
    BY DEF RevocationsHold
  <1>1. pc[x] \in {"token", "sessions", "commit"} =>
          revocation[x] \in [grant : Grant, found : SUBSET Visit]
    BY DEF LocalsKnown
  <1>2. CASE RevocationStep(x)
    <2>1. ASSUME NEW label \in RevocationLabels, Goto(x, label)
          PROVE  pc'[x] = label
      BY <2>1, GotoFacts
    <2>2. CASE RevokeToken(x)
      <3>1. pc'[x] = "sessions"
        BY <2>1, <2>2 DEF RevokeToken, RevocationLabels
      <3>2. revocation[x].grant \in Grant
        BY <1>1, <2>2 DEF RevokeToken
      <3>3. tokenLock'[revocation'[x].grant] = x
        BY <2>2, <3>2 DEF RevokeToken, TypeOK
      <3> QED BY <3>1, <3>3 DEF Holds
    <2>3. CASE RevokeSessions(x)
      <3>1. revocation[x] \in [grant : Grant, found : SUBSET Visit]
        BY <1>1, <2>3 DEF RevokeSessions
      <3> DEFINE g == revocation[x].grant
                 r == [revocation[x] EXCEPT !.found = SessionsOf(g)]
      <3>2. r.grant = g /\ r.found = SessionsOf(g)
        BY <3>1
      <3>3. /\ revocation' = [revocation EXCEPT ![x] = r]
            /\ UNCHANGED <<rows, tokenLock, visit>>
            /\ pc[x] = "sessions"
        BY <2>3 DEF RevokeSessions
      <3> HIDE DEF r
      <3>4. revocation'[x] = r
        BY <3>3 DEF TypeOK
      <3>5. tokenLock'[revocation'[x].grant] = x
        BY <3>2, <3>3, <3>4 DEF RevocationsHold, Holds
      <3>6. SessionsOf(g) = {v \in Visit : session'[v] # "none" /\ visit'[v].grant = g}
        BY <3>3 DEF SessionsOf, rows
      <3> HIDE DEF g
      <3>7. revocation'[x].found
              = {v \in Visit : session'[v] # "none" /\ visit'[v].grant = revocation'[x].grant}
        BY <3>2, <3>4, <3>6
      <3> QED BY <3>5, <3>7 DEF Holds, SessionsOf
    <2>4. CASE BeginRevocation(x) \/ CommitRevocation(x) \/ FailRevocation(x)
      BY <2>1, <2>4 DEF BeginRevocation, CommitRevocation, FailRevocation,
         RevocationLabels, Holds
    <2> QED BY <1>2, <2>2, <2>3, <2>4 DEF RevocationStep
  <1>3. CASE ~RevocationStep(x)
    <2>1. pc'[x] = pc[x] /\ revocation'[x] = revocation[x]
      BY <1>3, RevocationWriter
    <2>2. pc[x] \in {"sessions", "commit"} =>
            /\ revocation[x].grant \in Grant
            /\ tokenLock[revocation[x].grant] = x
            /\ Locked(revocation[x].grant)
      BY <1>1 DEF RevocationsHold, Holds, Locked
    <2>3. pc[x] \in {"sessions", "commit"} => tokenLock'[revocation[x].grant] = x
      BY <1>3, <2>2, LockWriter
    <2>4. ASSUME NEW g \in Grant, Locked(g)
          PROVE  {v \in Visit : session'[v] # "none" /\ visit'[v].grant = g}
                   = SessionsOf(g)
      BY <2>4, SessionsOfLocked DEF SessionsOf
    <2>5. pc[x] = "commit" =>
            {v \in Visit : session'[v] # "none" /\ visit'[v].grant = revocation[x].grant}
              = revocation[x].found
      BY <2>2, <2>4 DEF RevocationsHold, Holds
    <2> QED BY <2>1, <2>3, <2>5 DEF Holds, SessionsOf
  <1> QED BY <1>2, <1>3

LEMMA SessionsEndStep ==
  ASSUME Typed, TokensOfGrants, SessionsOfExchanges, RevocationsHold,
         SessionsEndWithGrant, [Next]_vars
  PROVE  SessionsEndWithGrant'
  <1> SUFFICES ASSUME NEW v \in Visit, session'[v] = "live"
               PROVE  token'[visit'[v].grant] = "active"
    BY DEF SessionsEndWithGrant
  <1>1. ASSUME session'[v] # session[v]
        PROVE  token'[visit'[v].grant] = "active"
    <2>1. Consume(v) /\ Exchangeable(visit[v].grant)
      BY <1>1, SessionWriter
    <2>2. UNCHANGED <<token, visit>>
      BY <2>1, Proceeding DEF Proceeds
    <2> QED BY <2>1, <2>2 DEF Exchangeable
  <1>2. ASSUME session'[v] = session[v]
        PROVE  token'[visit'[v].grant] = "active"
    <2> DEFINE g == visit[v].grant
    <2>1. pc[v] # "idle" /\ g \in exchanged
      BY <1>2 DEF SessionsOfExchanges
    <2>2. g \in Grant /\ token[g] = "active"
      BY <1>2, <2>1 DEF SessionsEndWithGrant, Typed, TypeOK
    <2>3. visit'[v] = visit[v]
      BY <2>1, VisitMoves, VisitWriter
    <2>4. ASSUME NEW x \in Revocation, CommitRevocation(x), revocation[x].grant = g
          PROVE  FALSE
      <3>1. v \in revocation[x].found
        BY <1>2, <2>4 DEF CommitRevocation, RevocationsHold, Holds, SessionsOf
      <3>2. session'[v] = "revoked"
        BY <2>4, <3>1 DEF CommitRevocation
      <3> QED BY <3>2
    <2> HIDE DEF g
    <2>5. token'[g] = token[g]
      BY <2>2, <2>4, TokenWriter DEF TokensOfGrants
    <2> QED BY <2>2, <2>3, <2>5 DEF g
  <1> QED BY <1>1, <1>2

\* A new session spends an invitation no other session has spent.
LEMMA SpentOnceStep ==
  ASSUME Typed, SessionsOfExchanges, RevocationsHold, InvitationIsSpentOnce, [Next]_vars
  PROVE  InvitationIsSpentOnce'
  <1>1. ASSUME NEW v \in Visit, session'[v] # "none", session[v] = "none"
        PROVE  /\ visit'[v].grant = visit[v].grant
               /\ visit[v].grant \notin exchanged
               /\ \A w \in Visit \ {v} : session'[w] = session[w]
    <2>1. ASSUME NEW x \in Revocation, CommitRevocation(x), v \in revocation[x].found
          PROVE  FALSE
      BY <1>1, <2>1 DEF CommitRevocation, RevocationsHold, Holds, SessionsOf
    <2>2. /\ Consume(v)
          /\ Exchangeable(visit[v].grant)
          /\ session' = [session EXCEPT ![v] = "live"]
      BY <1>1, <2>1, SessionWriter
    <2>3. UNCHANGED visit
      BY <2>2, Proceeding DEF Proceeds
    <2> QED BY <2>2, <2>3 DEF Exchangeable, Typed, TypeOK
  <1>2. ASSUME NEW v \in Visit, session[v] # "none"
        PROVE  visit'[v] = visit[v] /\ visit[v].grant \in exchanged
    BY <1>2, VisitMoves, VisitWriter DEF SessionsOfExchanges
  <1>3. ASSUME NEW v \in Visit, NEW w \in Visit,
               session'[v] # "none", session'[w] # "none",
               visit'[v].grant = visit'[w].grant
        PROVE  v = w
    <2>1. CASE session[v] # "none" /\ session[w] # "none"
      BY <1>2, <1>3, <2>1 DEF InvitationIsSpentOnce
    <2>2. CASE session[v] = "none" \/ session[w] = "none"
      BY <1>1, <1>2, <1>3, <2>2
    <2> QED BY <2>1, <2>2
  <1> QED BY <1>3 DEF InvitationIsSpentOnce

LEMMA LateStep ==
  ASSUME Typed, TokensOfGrants, SessionsOfExchanges, RevocationsHold, IdleIsNew,
         LateIsRefused, [Next]_vars
  PROVE  LateIsRefused'
  <1> SUFFICES ASSUME NEW v \in Visit, pc'[v] # "idle", visit'[v].late
               PROVE  TurnedAway(v)'
    BY DEF LateIsRefused
  <1>1. session[v] = "none" /\ ~Consume(v) => session'[v] = "none"
    <2>1. ASSUME NEW x \in Revocation, CommitRevocation(x), v \in revocation[x].found
          PROVE  session[v] # "none"
      BY <2>1 DEF CommitRevocation, RevocationsHold, Holds, SessionsOf
    <2> QED BY <2>1, SessionWriter
  <1>2. ASSUME NEW g \in Grant, AccessOver(g)
        PROVE  token'[g] = "revoked" \/ <<g, "grant">> \in lapsed'
    BY <1>2, OverStays DEF AccessOver, Passed
  <1>3. CASE OpenInvitation(v) \/ OpenSubmission(v) \/ OpenInternal(v)
    <2>1. /\ pc[v] = "idle"
          /\ pc'[v] \in {"session", "token"}
          /\ visit'[v].grant \in Grant
          /\ AccessOver(visit'[v].grant)
          /\ UNCHANGED <<rows, lapsed>>
      BY <1>3, Arrivals
    <2>2. session'[v] = "none"
      BY <2>1 DEF SessionsOfExchanges, Typed, TypeOK, rows
    <2>3. \A t \in Target : v \notin evidence'[t]
      BY <2>1 DEF IdleIsNew, rows
    <2> QED BY <1>2, <2>1, <2>2, <2>3 DEF TurnedAway, AccessOver, Passed
  <1>4. CASE Proceeds(v)
    <2>1. pc[v] # "idle" /\ UNCHANGED visit
      BY <1>4, Proceeding
    <2>2. TurnedAway(v)
      BY <2>1 DEF LateIsRefused
    <2>3. token[visit[v].grant] = "active" => Passed(visit[v].grant, "grant")
      BY <2>2 DEF TurnedAway, AccessOver
    <2>4. /\ CheckSession(v) \/ CheckToken(v) \/ Abandon(v)
          /\ pc'[v] \in {"session", "token", "refused", "lost"}
      <3>1. ASSUME NEW label \in {"token", "refused", "lost"}, Goto(v, label)
            PROVE  pc'[v] = label
        BY <3>1, GotoFacts DEF VisitLabels, Typed
      <3>2. CheckSession(v) \/ CheckToken(v) \/ Abandon(v)
        BY <1>4, <2>2 DEF Proceeds, TurnedAway, CheckGrant, Consume, Claim,
           CreateBrowserSession, BeginSubmission, CompleteRequest, ResolveTargets,
           ApplyEvidence
      <3> QED BY <2>3, <3>1, <3>2 DEF CheckSession, CheckToken, Abandon, Refuse
    <2>5. UNCHANGED <<session, evidence>>
      BY <2>4 DEF CheckSession, CheckToken, Abandon, Refuse, rows
    <2> QED BY <1>2, <2>1, <2>2, <2>4, <2>5 DEF TurnedAway, AccessOver, Passed
  <1>5. CASE ~VisitStep(v)
    <2>1. /\ pc'[v] = pc[v]
          /\ visit'[v] = visit[v]
          /\ \A t \in Target : v \in evidence'[t] <=> v \in evidence[t]
      BY <1>5, VisitWriter
    <2>2. TurnedAway(v)
      BY <2>1 DEF LateIsRefused
    <2>3. session'[v] = "none"
      BY <1>1, <1>5, <2>2 DEF TurnedAway, VisitStep
    <2> QED BY <1>2, <2>1, <2>2, <2>3 DEF TurnedAway, AccessOver, Passed
  <1> QED BY <1>3, <1>4, <1>5 DEF VisitStep, Proceeds

LEMMA IdleStep ==
  ASSUME Typed, SessionsOfExchanges, IdleIsNew, [Next]_vars
  PROVE  IdleIsNew'
  BY VisitMoves, VisitWriter DEF IdleIsNew

\* Only the last steps of a submission answer it, and they append it.
LEMMA AnsweredStep ==
  ASSUME Typed, SessionsOfExchanges, AnsweredIsEvidence, [Next]_vars
  PROVE  AnsweredIsEvidence'
  <1> SUFFICES ASSUME NEW v \in Visit, pc'[v] = "done", visit'[v].kind # "exchange"
               PROVE  v \in evidence'[visit'[v].target]
    BY DEF AnsweredIsEvidence
  <1> USE DEF Typed
  <1>1. CASE ~VisitStep(v)
    <2>1. /\ pc'[v] = pc[v]
          /\ visit'[v] = visit[v]
          /\ \A t \in Target : v \in evidence'[t] <=> v \in evidence[t]
      BY <1>1, VisitWriter
    <2>2. visit[v].target \in Target
      BY <2>1 DEF LocalsKnown, VisitKnown, VisitRecord
    <2> QED BY <2>1, <2>2 DEF AnsweredIsEvidence
  <1>2. CASE VisitStep(v)
    <2>1. Proceeds(v)
      BY <1>2, Arrivals DEF VisitStep, Proceeds
    <2>2. pc[v] # "idle" /\ UNCHANGED visit
      BY <2>1, Proceeding
    <2>3. visit[v].target \in Target
      BY <2>2 DEF LocalsKnown, VisitKnown, VisitRecord
    <2>4. ASSUME NEW label \in VisitLabels, Goto(v, label)
          PROVE  label = "done"
      BY <2>4, GotoFacts
    <2>5. CASE CompleteRequest(v)
      BY <2>2, <2>3, <2>5 DEF CompleteRequest, TypeOK
    <2>6. CASE ApplyEvidence(v)
      BY <2>2, <2>3, <2>4, <2>6 DEF ApplyEvidence, Refuse, TypeOK, VisitLabels
    <2>7. CASE CreateBrowserSession(v)
      BY <2>2, <2>7 DEF CreateBrowserSession, LocalsKnown, VisitKnown
    <2>8. Loaded(v) \in VisitLabels \ {"done"}
      BY DEF Loaded, Presenting, VisitLabels
    <2> QED
      BY <2>1, <2>4, <2>5, <2>6, <2>7, <2>8 DEF Proceeds, CheckSession, CheckToken,
         CheckGrant, Consume, Claim, BeginSubmission, ResolveTargets, Abandon, Refuse,
         VisitLabels
  <1> QED BY <1>1, <1>2
-----------------------------------------------------------------------------
LEMMA InvInit == Init => Inv
  <1> SUFFICES ASSUME Init PROVE Inv
    OBVIOUS
  <1>1. Typed
    BY TypedInit
  <1>2. \A p \in Visit \cup Revocation : pc[p] = "idle"
    BY DEF Init
  <1>3. TokensOfGrants /\ SessionsEndWithGrant /\ InvitationIsSpentOnce
    BY DEF Init, TokensOfGrants, SessionsEndWithGrant, InvitationIsSpentOnce
  <1>4. SessionsOfExchanges
    BY <1>2 DEF Init, SessionsOfExchanges
  <1>5. RevocationsHold /\ LateIsRefused /\ AnsweredIsEvidence
    BY <1>2 DEF RevocationsHold, Holds, LateIsRefused, AnsweredIsEvidence
  <1>6. IdleIsNew
    BY DEF Init, IdleIsNew
  <1> QED BY <1>1, <1>3, <1>4, <1>5, <1>6 DEF Inv

LEMMA InvStep == Inv /\ [Next]_vars => Inv'
  BY TypedStep, TokensStep, SessionsStep, RevocationsHoldStep, LateStep, IdleStep,
     SessionsEndStep, SpentOnceStep, AnsweredStep DEF Inv

THEOREM Invariance == Spec => []Inv
  BY InvInit, InvStep, PTL DEF Spec

(* Every variable keeps its type.                                            *)
THEOREM TypeCorrect == Spec => []TypeOK
  <1>1. Inv => TypeOK
    BY DEF Inv, Typed
  <1> QED BY <1>1, Invariance, PTL

(* A live participant session's token is active, also when the invitation is *)
(* exchanged while the grant is revoked: the exchange waits for the row the  *)
(* revocation holds, and the revocation finds the sessions only then.        *)
THEOREM RevocationReachesSessions == Spec => []SessionsEndWithGrant
  <1>1. Inv => SessionsEndWithGrant
    BY DEF Inv
  <1> QED BY <1>1, Invariance, PTL

(* Two sessions are never made from one invitation.                          *)
THEOREM SpentOnce == Spec => []InvitationIsSpentOnce
  <1>1. Inv => InvitationIsSpentOnce
    BY DEF Inv
  <1> QED BY <1>1, Invariance, PTL

(* A visit that arrives when its grant has been revoked or has expired makes *)
(* no session, reaches no browser and leaves no evidence.                    *)
THEOREM LateIsHarmless == Spec => []LateVisitsChangeNothing
  <1>1. Inv => LateVisitsChangeNothing
    <2> SUFFICES ASSUME Inv, NEW v \in Visit, visit[v] # None, visit[v].late
                 PROVE  /\ session[v] = "none" \/ visit[v].kind # "exchange"
                        /\ v \notin browser
                        /\ v \notin evidence[visit[v].target]
      BY DEF LateVisitsChangeNothing
    <2>1. pc[v] # "idle"
      BY DEF Inv, IdleIsNew
    <2>2. TurnedAway(v)
      BY <2>1 DEF Inv, LateIsRefused
    <2>3. visit[v].target \in Target
      BY <2>1 DEF Inv, Typed, LocalsKnown, VisitKnown, VisitRecord
    <2> QED BY <2>2, <2>3 DEF TurnedAway, Inv, SessionsOfExchanges
  <1> QED BY <1>1, Invariance, PTL

(* What was submitted and answered is in the evidence of its target for      *)
(* good, however many submissions run at once.                               *)
THEOREM AnsweredIsKept == Spec => []AnsweredIsEvidence
  <1>1. Inv => AnsweredIsEvidence
    BY DEF Inv
  <1> QED BY <1>1, Invariance, PTL
-----------------------------------------------------------------------------
(* The refinement of AccessOnce                                             *)

Arrives(v) == OpenInvitation(v) \/ OpenSubmission(v) \/ OpenInternal(v)

\* What is about a grant is about one that was given: its status, a revocation
\* of it, a link to it, ...
GrantsWereGiven ==
  /\ \A g \in Grant : status[g] # "absent" => token[g] # "absent"
  /\ \A x \in Revocation :
       pc[x] \in {"token", "sessions", "commit"} =>
         token[revocation[x].grant] # "absent"
  /\ \A l \in Link :
       pc[l] = "write" /\ link[l].object \in Grant =>
         token[link[l].object] # "absent"

\* ... and a visit, which is to the target of the grant and, if it submits, was
\* made with what an exchange left in a browser.
Behind(v) ==
  \/ visit[v].grant = None /\ visit[v].kind # "exchange"
  \/ /\ visit[v].grant \in Grant
     /\ token[visit[v].grant] # "absent"
     /\ visit[v].target = TargetOf[visit[v].grant]
     /\ visit[v].kind # "exchange" =>
          \E s \in browser : visit[s].grant = visit[v].grant

VisitsAreBehind == \A v \in Visit : pc[v] # "idle" => Behind(v)

\* A token that was made is there for good.
LEMMA TokenStays ==
  ASSUME Typed, TokensOfGrants, [Next]_vars, NEW g \in Grant, token[g] # "absent"
  PROVE  token'[g] # "absent"
  BY TokenWriter DEF TokensOfGrants

\* A visit that does not arrive is where it is, or goes on.
LEMMA VisitStays ==
  ASSUME Inv, [Next]_vars, NEW v \in Visit, ~Arrives(v)
  PROVE  /\ pc'[v] = "idle" <=> pc[v] = "idle"
         /\ visit'[v] = visit[v]
  <1>1. CASE Proceeds(v)
    BY <1>1, Proceeding DEF Inv
  <1>2. CASE ~VisitStep(v)
    BY <1>2, VisitWriter DEF Inv
  <1> QED BY <1>1, <1>2 DEF VisitStep, Proceeds, Arrives

\* An arrival takes a place that was free.
LEMMA ArrivesFacts ==
  ASSUME Inv, NEW v \in Visit, Arrives(v)
  PROVE  /\ pc[v] = "idle" /\ pc'[v] # "idle"
         /\ session[v] = "none"
         /\ \A w \in Visit \ {v} : pc'[w] = pc[w] /\ visit'[w] = visit[w]
         /\ UNCHANGED <<rows, lapsed, revocation, link>>
  <1>1. /\ pc[v] = "idle"
        /\ \A w \in Visit \ {v} : visit'[w] = visit[w]
        /\ UNCHANGED <<rows, lapsed, tokenLock, revocation, link, seen>>
    BY Arrivals DEF Arrives, Inv
  <1>2. PICK label \in {"session", "token", "begin"} : Goto(v, label)
    BY DEF Arrives, OpenInvitation, OpenSubmission, OpenInternal, Arrive
  <1>3. pc'[v] = label /\ \A w \in Visit \ {v} : pc'[w] = pc[w]
    BY <1>2, GotoFacts DEF Inv, Typed, VisitLabels
  <1>4. session[v] = "none"
    BY <1>1 DEF Inv, SessionsOfExchanges
  <1> QED BY <1>1, <1>3, <1>4

\* Of which kind an arrival is: of a member, or for a grant.
LEMMA ArrivesBehind ==
  ASSUME Inv, VisitsAreBehind, NEW v \in Visit, Arrives(v)
  PROVE  /\ visit'[v].late \in BOOLEAN
         /\ \/ /\ visit'[v].grant = None /\ visit'[v].kind # "exchange"
               /\ ~visit'[v].late
            \/ /\ visit'[v].grant \in Grant
               /\ token[visit'[v].grant] # "absent"
               /\ visit'[v].late <=> AccessOver(visit'[v].grant)
               /\ visit'[v].target = TargetOf[visit'[v].grant]
               /\ visit'[v].kind # "exchange" =>
                    \E s \in browser : visit[s].grant = visit'[v].grant
  <1> DEFINE Fine ==
         /\ visit'[v].late \in BOOLEAN
         /\ \/ /\ visit'[v].grant = None /\ visit'[v].kind # "exchange"
               /\ ~visit'[v].late
            \/ /\ visit'[v].grant \in Grant
               /\ token[visit'[v].grant] # "absent"
               /\ visit'[v].late <=> AccessOver(visit'[v].grant)
               /\ visit'[v].target = TargetOf[visit'[v].grant]
               /\ visit'[v].kind # "exchange" =>
                    \E s \in browser : visit[s].grant = visit'[v].grant
  <1>1. ASSUME NEW kind \in Kind, NEW g \in Grant \cup {None}, NEW t \in Target,
               NEW s \in Visit \cup {None}, NEW label \in VisitLabels,
               Arrive(v, kind, g, t, s, label),
               \/ g = None /\ kind # "exchange"
               \/ /\ g \in Grant /\ token[g] # "absent" /\ t = TargetOf[g]
                  /\ kind # "exchange" => \E b \in browser : visit[b].grant = g
        PROVE  Fine
    <2> DEFINE r == [kind |-> kind, grant |-> g, target |-> t, session |-> s,
                     late |-> g # None /\ AccessOver(g)]
    <2>1. visit' = [visit EXCEPT ![v] = r]
      BY <1>1 DEF Arrive
    <2>2. /\ r.kind = kind /\ r.grant = g /\ r.target = t
          /\ r.late = (g # None /\ AccessOver(g))
      OBVIOUS
    <2> HIDE DEF r
    <2>3. visit'[v] = r
      BY <2>1 DEF Inv, Typed, TypeOK
    <2>4. g \in Grant => g # None
      BY DisjointAssumption
    <2>5. r.late \in BOOLEAN
      BY <2>2
    <2> QED BY <1>1, <2>2, <2>3, <2>4, <2>5
  <1>2. CASE OpenInvitation(v)
    BY <1>1, <1>2, TargetOfAssumption DEF OpenInvitation, Kind, VisitLabels
  <1>3. CASE OpenSubmission(v)
    <2>1. PICK s \in browser :
            LET g == visit[s].grant IN
            Arrive(v, IF IsOnboarding(TargetOf[g]) THEN "evidence" ELSE "submit",
                   g, TargetOf[g], s, "session")
      BY <1>3 DEF OpenSubmission
    <2>2. s \in Visit /\ visit[s].grant \in Grant /\ pc[s] # "idle"
      BY DEF Inv, Typed, SessionsOfExchanges, TypeOK
    <2>3. token[visit[s].grant] # "absent"
      BY <2>2, DisjointAssumption DEF VisitsAreBehind, Behind
    <2> QED BY <1>1, <2>1, <2>2, <2>3, TargetOfAssumption DEF Kind, VisitLabels
  <1>4. CASE OpenInternal(v)
    BY <1>1, <1>4 DEF OpenInternal, Kind, VisitLabels
  <1> QED BY <1>2, <1>3, <1>4 DEF Arrives

LEMMA GivenInit == Init => GrantsWereGiven /\ VisitsAreBehind
  <1> SUFFICES ASSUME Init PROVE GrantsWereGiven /\ VisitsAreBehind
    OBVIOUS
  <1>1. \A p \in Visit \cup Revocation \cup Link : pc[p] = "idle"
    BY DEF Init
  <1>2. \A g \in Grant : status[g] = "absent"
    BY DEF Init, Object
  <1> QED BY <1>1, <1>2 DEF GrantsWereGiven, VisitsAreBehind

\* Of the objects, a step writes the status of grants that were given only.
LEMMA GrantWriter ==
  ASSUME Inv, GrantsWereGiven, [Next]_vars, NEW g \in Grant, status'[g] # status[g]
  PROVE  token'[g] # "absent"
  <1> USE DisjointAssumption DEF Inv, Typed, TypeOK
  <1>1. ASSUME NEW h \in Grant, CreateGrant(h)
        PROVE  token'[g] # "absent"
    BY <1>1 DEF CreateGrant, Object
  <1>2. ASSUME NEW x \in Revocation, CommitRevocation(x)
        PROVE  token'[g] # "absent"
    BY <1>2 DEF CommitRevocation, Object
  <1>3. ASSUME NEW l \in Link, WriteLinked(l)
        PROVE  token[g] # "absent"
    BY <1>3 DEF WriteLinked, GrantsWereGiven
  <1>4. ASSUME NEW o \in Object, DecideTarget(o)
        PROVE  token[g] # "absent"
    BY <1>4 DEF DecideTarget, GrantsWereGiven, IsOnboarding
  <1>5. ASSUME NEW v \in Visit, VisitStep(v)
        PROVE  FALSE
    <2>1. CASE Arrives(v)
      BY <2>1, ArrivesFacts DEF rows
    <2>2. CASE Proceeds(v)
      <3>1. visit[v].target \in Target
        BY <2>2, Proceeding DEF LocalsKnown, VisitKnown, VisitRecord
      <3>2. visit[v].target # g
        BY <3>1
      <3>3. CASE CompleteRequest(v) \/ ApplyEvidence(v)
        BY <3>2, <3>3 DEF CompleteRequest, ApplyEvidence, Refuse, rows, Object
      <3>4. CASE ~(CompleteRequest(v) \/ ApplyEvidence(v))
        BY <2>2, <3>4 DEF Proceeds, CheckSession, CheckToken, CheckGrant, Consume,
           Claim, CreateBrowserSession, BeginSubmission, ResolveTargets, Abandon,
           Refuse, rows
      <3> QED BY <3>3, <3>4
    <2> QED BY <1>5, <2>1, <2>2 DEF VisitStep, Proceeds, Arrives
  <1>6. token[g] # "absent" => token'[g] # "absent"
    BY TokenStays
  <1> QED
    BY <1>1, <1>2, <1>3, <1>4, <1>5, <1>6 DEF Next, vars, rows, Lapse, RevocationStep,
       BeginRevocation, RevokeToken, RevokeSessions, FailRevocation, LinkStep,
       ReadLinked

LEMMA GivenStep ==
  ASSUME Inv, GrantsWereGiven, [Next]_vars
  PROVE  GrantsWereGiven'
  <1> USE DisjointAssumption
  <1>1. \A g \in Grant : token[g] # "absent" => token'[g] # "absent"
    BY TokenStays DEF Inv
  <1>2. ASSUME NEW g \in Grant, status'[g] # "absent"
        PROVE  token'[g] # "absent"
    BY <1>1, <1>2, GrantWriter DEF GrantsWereGiven
  <1>3. ASSUME NEW x \in Revocation, pc'[x] \in {"token", "sessions", "commit"}
        PROVE  token'[revocation'[x].grant] # "absent"
    <2>1. CASE ~RevocationStep(x)
      <3>1. pc'[x] = pc[x] /\ revocation'[x] = revocation[x]
        BY <2>1, RevocationWriter DEF Inv
      <3>2. revocation[x].grant \in Grant
        BY <1>3, <3>1 DEF Inv, Typed, LocalsKnown
      <3> QED BY <1>1, <1>3, <3>1, <3>2 DEF GrantsWereGiven
    <2>2. CASE BeginRevocation(x)
      <3>1. PICK g \in Grant :
              /\ status[g] = "approved"
              /\ revocation' = [revocation EXCEPT ![x] = [grant |-> g, found |-> {}]]
        BY <2>2 DEF BeginRevocation
      <3>2. revocation'[x].grant = g
        BY <3>1 DEF Inv, Typed, TypeOK
      <3> QED BY <1>1, <3>1, <3>2 DEF GrantsWereGiven
    <2>3. CASE RevokeToken(x) \/ RevokeSessions(x)
      <3>1. pc[x] \in {"token", "sessions"}
        BY <2>3 DEF RevokeToken, RevokeSessions
      <3>2. revocation[x] \in [grant : Grant, found : SUBSET Visit]
        BY <3>1 DEF Inv, Typed, LocalsKnown
      <3>3. revocation'[x].grant = revocation[x].grant
        BY <2>3, <3>2 DEF RevokeToken, RevokeSessions, Inv, Typed, TypeOK
      <3> QED BY <1>1, <3>1, <3>2, <3>3 DEF GrantsWereGiven
    <2>4. CASE CommitRevocation(x) \/ FailRevocation(x)
      <3>1. pc'[x] \in {"done", "lost"}
        BY <2>4 DEF CommitRevocation, FailRevocation, Goto, Inv, Typed, LocalsKnown
      <3> QED BY <1>3, <3>1
    <2> QED BY <2>1, <2>2, <2>3, <2>4 DEF RevocationStep
  <1>4. ASSUME NEW l \in Link, pc'[l] = "write", link'[l].object \in Grant
        PROVE  token'[link'[l].object] # "absent"
    <2>1. CASE ReadLinked(l)
      <3>1. PICK o \in Object, mode \in {"link", "attach"} :
              /\ Linkable(o)
              /\ link' = [link EXCEPT ![l] =
                   [object |-> o, next |-> IF mode = "link" THEN status[o] ELSE "attached"]]
        BY <2>1 DEF ReadLinked
      <3>2. link'[l].object = o
        BY <3>1 DEF Inv, Typed, TypeOK
      <3> QED BY <1>1, <1>4, <3>1, <3>2 DEF GrantsWereGiven, Linkable
    <2>2. CASE ~ReadLinked(l)
      <3>1. pc[l] = "write" /\ link'[l] = link[l]
        <4>1. ASSUME NEW v \in Visit, VisitStep(v)
              PROVE  pc'[l] = pc[l] /\ link'[l] = link[l]
          <5>1. CASE Arrives(v)
            <6>1. PICK label \in VisitLabels : Goto(v, label)
              BY <5>1 DEF Arrives, OpenInvitation, OpenSubmission, OpenInternal, Arrive,
                 VisitLabels
            <6> QED BY <5>1, <6>1, ArrivesFacts, GotoFacts DEF Inv, Typed
          <5>2. CASE Proceeds(v)
            BY <5>2, Proceeding DEF Inv
          <5> QED BY <4>1, <5>1, <5>2 DEF VisitStep, Proceeds, Arrives
        <4>2. ASSUME NEW m \in Link, LinkStep(m)
              PROVE  pc[l] = "write" /\ link'[l] = link[l]
          BY <1>4, <2>2, <4>2 DEF LinkStep, ReadLinked, WriteLinked, Goto, Inv, Typed,
             TypeOK, LocalsKnown
        <4>3. ASSUME NEW x \in Revocation, RevocationStep(x)
              PROVE  pc'[l] = pc[l] /\ link'[l] = link[l]
          BY <4>3 DEF RevocationStep, BeginRevocation, RevokeToken, RevokeSessions,
             CommitRevocation, FailRevocation, Goto, Inv, Typed, LocalsKnown
        <4> QED
          BY <1>4, <4>1, <4>2, <4>3 DEF Next, vars, CreateGrant, Lapse, DecideTarget
      <3> QED BY <1>1, <1>4, <3>1 DEF GrantsWereGiven
    <2> QED BY <2>1, <2>2
  <1> QED BY <1>2, <1>3, <1>4 DEF GrantsWereGiven

\* What a browser holds stays there.
LEMMA BrowserGrows ==
  ASSUME [Next]_vars
  PROVE  browser \subseteq browser'
  BY DEF Next, vars, rows, CreateGrant, Lapse, VisitStep, Arrive, Refuse,
     OpenInvitation, OpenSubmission, OpenInternal, CheckSession, CheckToken,
     CheckGrant, Consume, Claim, CreateBrowserSession, BeginSubmission,
     CompleteRequest, ResolveTargets, ApplyEvidence, Abandon, RevocationStep,
     BeginRevocation, RevokeToken, RevokeSessions, CommitRevocation, FailRevocation,
     LinkStep, ReadLinked, WriteLinked, DecideTarget

LEMMA BehindStep ==
  ASSUME Inv, VisitsAreBehind, [Next]_vars
  PROVE  VisitsAreBehind'
  <1> SUFFICES ASSUME NEW v \in Visit, pc'[v] # "idle"
               PROVE  Behind(v)'
    BY DEF VisitsAreBehind
  <1>1. \A g \in Grant : token[g] # "absent" => token'[g] # "absent"
    BY TokenStays DEF Inv
  <1>2. ASSUME NEW s \in browser
        PROVE  s \in browser' /\ visit'[s] = visit[s]
    <2>1. s \in Visit /\ session[s] # "none" /\ pc[s] # "idle"
      BY DEF Inv, Typed, TypeOK, SessionsOfExchanges
    <2>2. ~Arrives(s)
      BY <2>1, ArrivesFacts
    <2> QED BY <2>1, <2>2, VisitStays, BrowserGrows
  <1>3. CASE Arrives(v)
    <2>1. \/ visit'[v].grant = None /\ visit'[v].kind # "exchange"
          \/ /\ visit'[v].grant \in Grant
             /\ token[visit'[v].grant] # "absent"
             /\ visit'[v].target = TargetOf[visit'[v].grant]
             /\ visit'[v].kind # "exchange" =>
                  \E s \in browser : visit[s].grant = visit'[v].grant
      BY <1>3, ArrivesBehind
    <2> QED BY <1>1, <1>2, <2>1 DEF Behind
  <1>4. CASE ~Arrives(v)
    <2>1. pc[v] # "idle" /\ visit'[v] = visit[v]
      BY <1>4, VisitStays
    <2>2. Behind(v)
      BY <2>1 DEF VisitsAreBehind
    <2> QED BY <1>1, <1>2, <2>1, <2>2 DEF Behind
  <1> QED BY <1>3, <1>4

\* The mapped values, member by member
LEMMA MappedFacts ==
  ASSUME Inv
  PROVE  /\ \A v \in Visit, g \in Grant :
              /\ v \in Asked[g] <=> Visiting(v, g) /\ ~visit[v].late
              /\ v \in Admitted[g] <=> session[v] # "none" /\ visit[v].grant = g
         /\ \A v \in Visit : v \in Members <=> Visiting(v, None)
         /\ \A g \in Grant : g \in Expired <=> Passed(g, "grant")
  BY DEF Asked, Admitted, Members, Expired, SessionsOf

\* Nothing is asked, granted or submitted at the start.
LEMMA RefinesInit == Init => Once!Init
  <1> SUFFICES ASSUME Init PROVE Once!Init
    OBVIOUS
  <1>1. \A v \in Visit : pc[v] = "idle" /\ session[v] = "none"
    BY DEF Init
  <1>2. /\ Expired = {} /\ Members = {} /\ Inside = {}
        /\ Asked = [g \in Grant |-> {}]
        /\ Admitted = [g \in Grant |-> {}]
    BY <1>1 DEF Init, Expired, Passed, Members, Inside, Asked, Admitted, SessionsOf,
       Visiting
  <1> QED BY <1>2 DEF Init, Once!Init

\* Who has asked does not change but by arrivals.
LEMMA AskedStays ==
  ASSUME Inv, [Next]_vars, \A v \in Visit : ~Arrives(v)
  PROVE  Asked' = Asked /\ Members' = Members
  <1>1. \A v \in Visit : /\ pc'[v] = "idle" <=> pc[v] = "idle"
                         /\ visit'[v] = visit[v]
    BY VisitStays
  <1> QED BY <1>1 DEF Asked, Members, Visiting

\* An arrival in time asks, ...
LEMMA RefinesArrival ==
  ASSUME Inv, GrantsWereGiven, VisitsAreBehind, NEW v \in Visit, Arrives(v)
  PROVE  [Once!Next]_Once!vars
  <1>1. /\ pc[v] = "idle" /\ pc'[v] # "idle"
        /\ session[v] = "none"
        /\ \A w \in Visit \ {v} : pc'[w] = pc[w] /\ visit'[w] = visit[w]
        /\ UNCHANGED <<rows, lapsed, revocation, link>>
    BY ArrivesFacts
  <1>2. UNCHANGED <<token, browser, evidence, Expired, Inside>>
    BY <1>1 DEF rows, Expired, Passed, Inside
  <1>3. Admitted' = Admitted
    BY <1>1 DEF Admitted, SessionsOf, rows
  <1>4. CASE /\ visit'[v].grant = None /\ ~visit'[v].late
    <2>1. Members' = Members \cup {v}
      BY <1>1, <1>4 DEF Members, Visiting
    <2>2. Asked' = Asked
      BY <1>1, <1>4, DisjointAssumption DEF Asked, Visiting
    <2> QED BY <1>2, <1>3, <2>1, <2>2 DEF Once!Join, Once!Next
  <1>5. CASE /\ visit'[v].grant \in Grant
             /\ token[visit'[v].grant] # "absent"
             /\ visit'[v].late <=> AccessOver(visit'[v].grant)
    <2> DEFINE g == visit'[v].grant
    <2>1. Members' = Members
      BY <1>1, <1>5, DisjointAssumption DEF Members, Visiting
    <2>2. CASE visit'[v].late
      <3>1. Asked' = Asked
        BY <1>1, <2>2 DEF Asked, Visiting
      <3> QED BY <1>2, <1>3, <2>1, <3>1 DEF Once!vars
    <2>3. CASE ~visit'[v].late
      <3>1. token[g] = "active" /\ g \notin Expired
        BY <1>5, <2>3 DEF AccessOver, Expired, Inv, Typed, TypeOK
      <3>2. Asked' = [Asked EXCEPT ![g] = @ \cup {v}]
        BY <1>1, <1>5, <2>3 DEF Asked, Visiting
      <3> QED BY <1>2, <1>3, <1>5, <2>1, <3>1, <3>2 DEF Once!Ask, Once!Next
    <2> QED BY <2>2, <2>3
  <1> QED BY <1>4, <1>5, ArrivesBehind

\* ... an exchange admits and hands over, a submission is one who may submit, ...
LEMMA RefinesVisit ==
  ASSUME Inv, VisitsAreBehind, NEW v \in Visit, Proceeds(v), [Next]_vars
  PROVE  [Once!Next]_Once!vars
  <1>1. /\ pc[v] # "idle"
        /\ UNCHANGED <<type, token, lapsed, tokenLock, visit, revocation, link>>
    BY Proceeding DEF Inv
  <1>2. \A w \in Visit : ~Arrives(w)
    <2> SUFFICES ASSUME NEW w \in Visit, Arrives(w) PROVE FALSE
      OBVIOUS
    <2>1. pc[w] = "idle" /\ pc'[w] # "idle"
      BY ArrivesFacts
    <2>2. w # v
      BY <1>1, <2>1
    <2> QED BY <2>1, <2>2, Proceeding DEF Inv
  <1>3. UNCHANGED <<token, Expired, Asked, Members>>
    BY <1>1, <1>2, AskedStays DEF Expired, Passed
  <1>4. visit[v].late => pc[v] \in {"session", "token", "refused", "lost"}
    BY <1>1 DEF Inv, LateIsRefused, TurnedAway
  <1>5. Behind(v)
    BY <1>1 DEF VisitsAreBehind
  <1>6. UNCHANGED session => UNCHANGED <<Admitted, Inside>>
    BY <1>1 DEF Admitted, SessionsOf, Inside
  <1>7. CASE Consume(v) /\ session' # session
    <2> DEFINE g == visit[v].grant
    <2>1. /\ g \in Grant /\ token[g] = "active" /\ g \notin exchanged
          /\ session' = [session EXCEPT ![v] = "live"]
          /\ UNCHANGED <<browser, evidence>>
      BY <1>7 DEF Consume, Exchangeable, Refuse, rows, Inv, Typed, LocalsKnown, VisitKnown
    <2>2. v \in Asked[g]
      BY <1>1, <1>4, <1>7, <2>1, MappedFacts DEF Consume, Visiting
    <2>3. Admitted[g] = {}
      BY <2>1 DEF Admitted, SessionsOf, Inv, SessionsOfExchanges
    <2>4. session'[v] = "live" /\ \A w \in Visit \ {v} : session'[w] = session[w]
      BY <2>1 DEF Inv, Typed, TypeOK
    <2>5. Inside' = Inside \cup {v}
      BY <2>4 DEF Inside
    <2>6. Admitted' = [Admitted EXCEPT ![g] = {v}]
      <3>1. \A w \in Visit : session[w] # "none" => visit[w].grant # g
        BY <2>1 DEF Inv, SessionsOfExchanges
      <3>2. ASSUME NEW h \in Grant
            PROVE  {w \in Visit : session'[w] # "none" /\ visit'[w].grant = h}
                     = IF h = g THEN {v} ELSE SessionsOf(h)
        BY <1>1, <2>4, <3>1 DEF SessionsOf
      <3> HIDE DEF g
      <3> QED BY <2>1, <3>2 DEF Admitted, SessionsOf
    <2> QED BY <1>3, <2>1, <2>2, <2>3, <2>5, <2>6 DEF Once!Admit, Once!Next
  <1>8. CASE CreateBrowserSession(v)
    <2>1. /\ browser' = browser \cup {v}
          /\ UNCHANGED <<session, evidence>>
      BY <1>8 DEF CreateBrowserSession
    <2>2. visit[v].grant \in Grant /\ v \in Admitted[visit[v].grant]
      BY <1>8, MappedFacts DEF CreateBrowserSession, Inv, SessionsOfExchanges, Typed,
         LocalsKnown, VisitKnown
    <2> QED BY <1>3, <1>6, <2>1, <2>2 DEF Once!HandOver, Once!Next
  <1>9. CASE (CompleteRequest(v) \/ ApplyEvidence(v)) /\ evidence' # evidence
    <2> DEFINE t == visit[v].target
               g == visit[v].grant
    <2>1. /\ pc[v] \in {"complete", "apply"}
          /\ evidence' = [evidence EXCEPT ![t] = @ \cup {v}]
          /\ UNCHANGED <<session, browser>>
      BY <1>9 DEF CompleteRequest, ApplyEvidence, Refuse, rows
    <2>2. t \in Target /\ visit[v].kind # "exchange" /\ ~visit[v].late
      BY <1>1, <1>4, <2>1 DEF Inv, Typed, LocalsKnown, VisitKnown, VisitRecord
    <2>3. Once!Entitled(v, t)
      <3>1. CASE g = None
        BY <1>1, <3>1 DEF Members, Visiting, Once!Entitled
      <3>2. CASE g # None
        <4>1. g \in Grant /\ t = TargetOf[g]
          BY <1>5, <3>2 DEF Behind
        <4>2. PICK s \in browser : visit[s].grant = g
          BY <1>5, <2>2, <3>2 DEF Behind
        <4>3. s \in Admitted[g] \cap browser
          BY <4>1, <4>2, MappedFacts DEF Inv, SessionsOfExchanges, Typed, TypeOK
        <4>4. v \in Asked[g]
          BY <1>1, <2>2, <4>1, MappedFacts DEF Visiting
        <4> QED BY <4>1, <4>3, <4>4 DEF Once!Entitled
      <3> QED BY <3>1, <3>2
    <2> QED BY <1>3, <1>6, <2>1, <2>2, <2>3 DEF Once!Submit, Once!Next
  <1>10. CASE UNCHANGED <<session, browser, evidence>>
    BY <1>3, <1>6, <1>10 DEF Once!vars
  <1>11. \/ Consume(v) /\ session' # session
         \/ CreateBrowserSession(v)
         \/ (CompleteRequest(v) \/ ApplyEvidence(v)) /\ evidence' # evidence
         \/ UNCHANGED <<session, browser, evidence>>
    BY DEF Proceeds, CheckSession, CheckToken, CheckGrant, Consume, Claim,
       CreateBrowserSession, BeginSubmission, CompleteRequest, ResolveTargets,
       ApplyEvidence, Abandon, Refuse, rows
  <1> QED BY <1>7, <1>8, <1>9, <1>10, <1>11

\* ... and a revocation withdraws, in its last step.
LEMMA RefinesRevocation ==
  ASSUME Inv, GrantsWereGiven, NEW x \in Revocation, RevocationStep(x), [Next]_vars
  PROVE  [Once!Next]_Once!vars
  <1>1. UNCHANGED <<lapsed, visit, browser, evidence>>
    BY DEF RevocationStep, BeginRevocation, RevokeToken, RevokeSessions,
       CommitRevocation, FailRevocation, rows
  <1>2. \A v \in Visit : pc'[v] = pc[v]
    BY DisjointAssumption DEF RevocationStep, BeginRevocation, RevokeToken,
       RevokeSessions, CommitRevocation, FailRevocation, Goto, Inv, Typed, LocalsKnown
  <1>3. UNCHANGED <<Expired, Asked, Members>>
    BY <1>1, <1>2 DEF Expired, Passed, Asked, Members, Visiting
  <1>4. CASE CommitRevocation(x)
    <2> DEFINE g == revocation[x].grant
    <2>1. /\ pc[x] = "commit"
          /\ token' = [token EXCEPT ![g] = "revoked"]
          /\ session' = [v \in Visit |-> IF v \in revocation[x].found
                                         THEN "revoked" ELSE session[v]]
      BY <1>4 DEF CommitRevocation
    <2>2. g \in Grant /\ token[g] # "absent" /\ revocation[x].found = SessionsOf(g)
      BY <2>1 DEF GrantsWereGiven, Inv, Typed, LocalsKnown, RevocationsHold, Holds
    <2> HIDE DEF g
    <2>3. Inside' = Inside \ Admitted[g]
      BY <2>1, <2>2 DEF Inside, Admitted, SessionsOf
    <2>4. Admitted' = Admitted
      BY <1>1, <2>1, <2>2 DEF Admitted, SessionsOf
    <2> QED BY <1>1, <1>3, <2>1, <2>2, <2>3, <2>4 DEF Once!Withdraw, Once!Next
  <1>5. CASE ~CommitRevocation(x)
    <2>1. UNCHANGED <<token, session>>
      BY <1>5 DEF RevocationStep, BeginRevocation, RevokeToken, RevokeSessions,
         FailRevocation, rows
    <2>2. UNCHANGED <<Admitted, Inside>>
      BY <1>1, <2>1 DEF Admitted, SessionsOf, Inside
    <2> QED BY <1>1, <1>3, <2>1, <2>2 DEF Once!vars
  <1> QED BY <1>4, <1>5

LEMMA RefinesStep ==
  Inv /\ GrantsWereGiven /\ VisitsAreBehind /\ [Next]_vars => [Once!Next]_Once!vars
  <1> SUFFICES ASSUME Inv, GrantsWereGiven, VisitsAreBehind, [Next]_vars
               PROVE  [Once!Next]_Once!vars
    OBVIOUS
  <1>1. ASSUME UNCHANGED <<pc, visit, session, browser, evidence>>
        PROVE  UNCHANGED <<Asked, Members, Admitted, Inside, browser, evidence>>
    BY <1>1 DEF Asked, Members, Admitted, Inside, Visiting, SessionsOf
  <1>2. ASSUME NEW g \in Grant, CreateGrant(g)
        PROVE  Once!Next
    <2>1. token[g] = "absent"
      BY <1>2 DEF CreateGrant, Inv, TokensOfGrants
    <2>2. UNCHANGED Expired
      BY <1>2 DEF CreateGrant, Expired, Passed
    <2> QED BY <1>1, <1>2, <2>1, <2>2 DEF CreateGrant, Once!Give, Once!Next
  <1>3. ASSUME NEW g \in Grant, NEW d \in Deadline, Lapse(g, d)
        PROVE  [Once!Next]_Once!vars
    <2>1. UNCHANGED <<Asked, Members, Admitted, Inside, browser, evidence, token>>
      BY <1>1, <1>3 DEF Lapse, rows
    <2>2. CASE d = "grant"
      <3>1. Expired' = Expired \cup {g}
        BY <1>3, <2>2 DEF Lapse, Expired, Passed
      <3> QED BY <2>1, <3>1 DEF Once!Expire, Once!Next
    <2>3. CASE d # "grant"
      <3>1. Expired' = Expired
        BY <1>3, <2>3 DEF Lapse, Expired, Passed
      <3> QED BY <2>1, <3>1 DEF Once!vars
    <2> QED BY <2>2, <2>3
  <1>4. ASSUME NEW l \in Link, LinkStep(l)
        PROVE  UNCHANGED Once!vars
    <2>1. UNCHANGED <<visit, session, browser, evidence, token, lapsed>>
      BY <1>4 DEF LinkStep, ReadLinked, WriteLinked, rows
    <2>2. \A v \in Visit : pc'[v] = pc[v]
      BY <1>4, DisjointAssumption DEF LinkStep, ReadLinked, WriteLinked, Goto, Inv,
         Typed, LocalsKnown
    <2> QED BY <2>1, <2>2 DEF Once!vars, Asked, Members, Admitted, Inside, Visiting,
         SessionsOf, Expired, Passed
  <1>5. CASE (\E o \in Object : DecideTarget(o)) \/ UNCHANGED vars
    <2>1. UNCHANGED <<pc, visit, session, browser, evidence, token, lapsed>>
      BY <1>5 DEF DecideTarget, vars, rows
    <2>2. UNCHANGED Expired
      BY <2>1 DEF Expired, Passed
    <2> QED BY <1>1, <2>1, <2>2 DEF Once!vars
  <1>6. ASSUME NEW v \in Visit, VisitStep(v)
        PROVE  [Once!Next]_Once!vars
    BY <1>6, RefinesArrival, RefinesVisit DEF VisitStep, Proceeds, Arrives
  <1> QED BY <1>2, <1>3, <1>4, <1>5, <1>6, RefinesRevocation DEF Next

(* However often a link is opened at once, and wherever a revocation or an   *)
(* expiry falls between the steps of a visit, every step is one AccessOnce   *)
(* allows, or changes nothing it knows of.                                   *)
THEOREM Refinement == Spec => AdmitsOnce
  <1>1. Inv /\ GrantsWereGiven /\ VisitsAreBehind /\ [Next]_vars
          => (GrantsWereGiven /\ VisitsAreBehind)'
    BY GivenStep, BehindStep
  <1> QED
    BY <1>1, GivenInit, RefinesInit, RefinesStep, Invariance, PTL
    DEF Spec, AdmitsOnce, Once!Spec
-----------------------------------------------------------------------------
(* Second part: ExecutionWorkflow, for every set of operators and writers.   *)
(* Its names carry the prefix EW; its seen is called reading here.           *)

CONSTANTS Operator, Writer, Monitor

VARIABLES task, run, signal, taskLock, at, reading, old, done, raced

EW == INSTANCE ExecutionWorkflow WITH seen <- reading

\* What a process that has read, or holds the lock, knows
RunRow == [status : EW!Status, told : EW!Status, log : Seq(EW!Step)]
Told == [phase : EW!Phase, attention : BOOLEAN]

TaskLocalsKnown ==
  /\ \A o \in Operator :
       /\ at[o] \in {"idle", "read", "locked", "done"}
       /\ at[o] = "read" => reading[o] \in [to : EW!Status]
       /\ at[o] = "locked" => reading[o] \in [to : EW!Status, run : RunRow]
  /\ \A q \in Writer :
       /\ at[q] \in {"idle", "read", "done"}
       /\ at[q] = "read" => reading[q] \in [to : EW!Status]
  /\ at[Monitor] \in {"idle", "scanning", "monitoring"}
  /\ at[Monitor] = "monitoring" =>
       reading[Monitor] \in [run : RunRow, signal : Told \cup {None},
                          decision : Told]

TaskTyped ==
  /\ EW!TypeOK
  /\ run \in RunRow
  /\ reading = [p \in EW!Request \cup {Monitor} |-> reading[p]]
  /\ TaskLocalsKnown

\* The task's lock is held by the operator that is past its UPDATE.
TaskLockHeld == \A o \in Operator : at[o] = "locked" <=> taskLock = o

\* What it read of the run's lifecycle is still there, unless the monitor wrote,
\* and the run may still take the status it brings: the monitor writes none.
RunAsRead ==
  \A o \in Operator :
    at[o] = "locked" =>
      /\ ~raced => reading[o].run.log = run.log
      /\ EW!RunTransition(run.status, reading[o].to)

TaskInv ==
  /\ TaskTyped
  /\ TaskLockHeld
  /\ RunAsRead
  /\ EW!StepsAreKept
  /\ EW!EndedRunTellsItsStatus
-----------------------------------------------------------------------------
LEMMA TaskTypes ==
  ASSUME EW!DisjointAssumption, TaskTyped
  PROVE  /\ DOMAIN at = EW!Request \cup {Monitor} /\ DOMAIN reading = EW!Request \cup {Monitor}
         /\ Operator \subseteq EW!Request /\ Writer \subseteq EW!Request
         /\ Operator \cap Writer = {} /\ Monitor \notin EW!Request /\ None \notin EW!Request
         /\ run.log \in Seq(EW!Step) /\ run.status \in EW!Status /\ run.told \in EW!Status
         /\ run = [status |-> run.status, told |-> run.told, log |-> run.log]
  BY DEF TaskTyped, EW!TypeOK, EW!Request, EW!DisjointAssumption, RunRow

LEMMA TaskInit ==
  ASSUME EW!DisjointAssumption, EW!Init
  PROVE  TaskInv
  <1>1. run \in RunRow /\ run.status = "in_progress" /\ run.told = run.status
        /\ run.log = <<EW!Start>>
    BY DEF EW!Init, RunRow, EW!Status, EW!Step
  <1>2. EW!TypeOK
    <2>1. /\ task \in EW!Status /\ taskLock \in Operator \cup {None}
          /\ old \subseteq Operator \cup {EW!Start} /\ done \in Seq(Operator)
          /\ signal \in [phase : EW!Phase, attention : BOOLEAN] \cup {None}
      BY DEF EW!Init, EW!Status
    <2>3. raced \in BOOLEAN
      BY DEF EW!Init
    <2>2. at \in [EW!Request \cup {Monitor} ->
            {"idle", "read", "locked", "done", "scanning", "monitoring"}]
      BY DEF EW!Init
    <2> QED BY <1>1, <2>1, <2>2, <2>3 DEF EW!TypeOK, RunRow
  <1>3. \A p \in EW!Request \cup {Monitor} : at[p] = "idle"
    BY DEF EW!Init
  <1>4. TaskLocalsKnown
    BY <1>3 DEF TaskLocalsKnown, EW!Request
  <1>5. TaskTyped
    BY <1>1, <1>2, <1>4 DEF TaskTyped, EW!Init
  <1>6. TaskLockHeld /\ RunAsRead
    BY <1>3, <1>5, TaskTypes DEF TaskLockHeld, RunAsRead, EW!Init
  <1>7. EW!StepsAreKept /\ EW!EndedRunTellsItsStatus
    BY <1>1 DEF EW!StepsAreKept, EW!EndedRunTellsItsStatus, EW!Init
  <1> QED BY <1>5, <1>6, <1>7 DEF TaskInv
-----------------------------------------------------------------------------
(* A request that has not got the lock moves on, and the run is as it was    *)

LEMMA TaskLocals ==
  ASSUME EW!DisjointAssumption, TaskTyped,
         NEW p \in EW!Request \cup {Monitor}, NEW label, NEW what,
         at' = [at EXCEPT ![p] = label], reading' = [reading EXCEPT ![p] = what],
         p \in Operator => label \in {"idle", "read", "locked", "done"},
         p \in Writer => label \in {"idle", "read", "done"},
         p = Monitor => label \in {"idle", "scanning", "monitoring"},
         label = "read" => what \in [to : EW!Status],
         label = "locked" => what \in [to : EW!Status, run : RunRow],
         label = "monitoring" => what \in [run : RunRow, signal : Told \cup {None},
                                           decision : Told]
  PROVE  /\ TaskLocalsKnown'
         /\ at' \in [EW!Request \cup {Monitor} ->
              {"idle", "read", "locked", "done", "scanning", "monitoring"}]
         /\ reading' = [q \in EW!Request \cup {Monitor} |-> reading'[q]]
         /\ at'[p] = label /\ reading'[p] = what
         /\ \A q \in (EW!Request \cup {Monitor}) \ {p} : at'[q] = at[q] /\ reading'[q] = reading[q]
  <1>1. /\ at'[p] = label /\ reading'[p] = what
        /\ \A q \in (EW!Request \cup {Monitor}) \ {p} : at'[q] = at[q] /\ reading'[q] = reading[q]
        /\ reading' = [q \in EW!Request \cup {Monitor} |-> reading'[q]]
    BY TaskTypes
  <1>2. label \in {"idle", "read", "locked", "done", "scanning", "monitoring"}
    BY DEF EW!Request
  <1>3. at' \in [EW!Request \cup {Monitor} ->
              {"idle", "read", "locked", "done", "scanning", "monitoring"}]
    BY <1>2 DEF TaskTyped, EW!TypeOK
  <1>4. ASSUME NEW o \in Operator
        PROVE  /\ at'[o] \in {"idle", "read", "locked", "done"}
               /\ at'[o] = "read" => reading'[o] \in [to : EW!Status]
               /\ at'[o] = "locked" => reading'[o] \in [to : EW!Status, run : RunRow]
    BY <1>1, TaskTypes DEF TaskTyped, TaskLocalsKnown
  <1>5. ASSUME NEW q \in Writer
        PROVE  /\ at'[q] \in {"idle", "read", "done"}
               /\ at'[q] = "read" => reading'[q] \in [to : EW!Status]
    BY <1>1, TaskTypes DEF TaskTyped, TaskLocalsKnown
  <1>6. /\ at'[Monitor] \in {"idle", "scanning", "monitoring"}
        /\ at'[Monitor] = "monitoring" =>
             reading'[Monitor] \in [run : RunRow, signal : Told \cup {None},
                                 decision : Told]
    BY <1>1, TaskTypes DEF TaskTyped, TaskLocalsKnown
  <1>7. TaskLocalsKnown'
    BY <1>4, <1>5, <1>6 DEF TaskLocalsKnown
  <1> QED BY <1>1, <1>3, <1>7

LEMMA TaskMoving ==
  ASSUME EW!DisjointAssumption, TaskInv,
         NEW p \in EW!Request \cup {Monitor}, NEW label, NEW what,
         at' = [at EXCEPT ![p] = label], reading' = [reading EXCEPT ![p] = what],
         p \in Operator => label \in {"idle", "read", "done"},
         p \in Writer => label \in {"idle", "read", "done"},
         p = Monitor => label \in {"idle", "scanning", "monitoring"},
         label = "read" => what \in [to : EW!Status],
         label = "monitoring" => what \in [run : RunRow, signal : Told \cup {None},
                                           decision : Told],
         taskLock' = IF taskLock = p THEN None ELSE taskLock,
         task' \in EW!Status, UNCHANGED <<run, signal, old, done, raced>>
  PROVE  TaskInv'
  <1>1. TaskTyped /\ TaskLockHeld /\ RunAsRead /\ EW!StepsAreKept /\ EW!EndedRunTellsItsStatus
    BY DEF TaskInv
  <1>2. label # "locked"
    BY TaskTypes DEF EW!Request
  <1>3. /\ TaskLocalsKnown'
        /\ at' \in [EW!Request \cup {Monitor} ->
             {"idle", "read", "locked", "done", "scanning", "monitoring"}]
        /\ reading' = [q \in EW!Request \cup {Monitor} |-> reading'[q]]
        /\ at'[p] = label /\ reading'[p] = what
        /\ \A q \in (EW!Request \cup {Monitor}) \ {p} : at'[q] = at[q] /\ reading'[q] = reading[q]
    BY <1>1, <1>2, TaskLocals
  <1>4. taskLock' \in Operator \cup {None}
    BY <1>1 DEF TaskTyped, EW!TypeOK
  <1>5. TaskTyped'
    BY <1>1, <1>3, <1>4 DEF TaskTyped, EW!TypeOK
  <1>6. \A o \in Operator : at'[o] = "locked" <=> at[o] = "locked" /\ o # p
    BY <1>1, <1>2, <1>3, TaskTypes
  <1>7. TaskLockHeld'
    BY <1>1, <1>6, TaskTypes DEF TaskLockHeld
  <1>8. \A o \in Operator : at'[o] = "locked" => at[o] = "locked" /\ reading'[o] = reading[o]
    BY <1>1, <1>3, <1>6, TaskTypes
  <1>9. RunAsRead'
    BY <1>1, <1>8 DEF RunAsRead
  <1>10. EW!StepsAreKept' /\ EW!EndedRunTellsItsStatus'
    BY <1>1 DEF EW!StepsAreKept, EW!EndedRunTellsItsStatus
  <1> QED BY <1>1, <1>5, <1>7, <1>9, <1>10 DEF TaskInv

LEMMA DecisionType ==
  ASSUME NEW s \in EW!Active, NEW log
  PROVE  EW!Decision(s, log) \in Told
  <1> DEFINE stale == EW!LastDomainStep(log) \in old
  <1>1. stale \in BOOLEAN
    OBVIOUS
  <1> HIDE DEF stale
  <1>2. EW!PhaseOf(s, stale) \in EW!Phase
    BY <1>1 DEF EW!PhaseOf, EW!Phase, EW!Active
  <1>3. (stale \/ s = "blocked") \in BOOLEAN
    OBVIOUS
  <1>4. EW!Decision(s, log) = [phase |-> EW!PhaseOf(s, stale), attention |-> stale \/ s = "blocked"]
    BY DEF EW!Decision, stale
  <1> QED BY <1>2, <1>3, <1>4 DEF Told

LEMMA TaskNext ==
  ASSUME EW!DisjointAssumption, TaskInv, EW!Next
  PROVE  TaskInv'
  <1>1. TaskTyped /\ TaskLockHeld /\ RunAsRead /\ EW!StepsAreKept /\ EW!EndedRunTellsItsStatus
    BY DEF TaskInv
  <1>2. /\ Operator \subseteq EW!Request \cup {Monitor} /\ Writer \subseteq EW!Request \cup {Monitor}
        /\ Monitor \in EW!Request \cup {Monitor} /\ Operator \cap Writer = {}
        /\ Monitor \notin Operator /\ Monitor \notin Writer /\ None \notin Operator
        /\ DOMAIN at = EW!Request \cup {Monitor} /\ DOMAIN reading = EW!Request \cup {Monitor}
        /\ reading = [p \in EW!Request \cup {Monitor} |-> reading[p]]
        /\ task \in EW!Status
    BY <1>1, TaskTypes DEF TaskTyped, EW!TypeOK
  <1>3. ASSUME NEW o \in Operator, NEW to \in EW!Status, NEW confirmed \in BOOLEAN,
               EW!ReadTask(o, to, confirmed)
        PROVE  TaskInv'
    <2>1. /\ at[o] = "idle" /\ UNCHANGED <<task, run, signal, taskLock, old, done, raced>>
          /\ \/ EW!Goto(o, "read") /\ reading' = [reading EXCEPT ![o] = [to |-> to]]
             \/ EW!Goto(o, "done") /\ UNCHANGED reading
      BY <1>3 DEF EW!ReadTask, EW!rows
    <2>2. taskLock # o
      BY <1>1, <2>1 DEF TaskLockHeld
    <2>3. reading = [reading EXCEPT ![o] = reading[o]]
      BY <1>2
    <2>4. CASE EW!Goto(o, "read") /\ reading' = [reading EXCEPT ![o] = [to |-> to]]
      BY <1>2, <2>1, <2>2, <2>4, TaskMoving DEF EW!Goto
    <2>5. CASE EW!Goto(o, "done") /\ UNCHANGED reading
      <3>1. /\ at' = [at EXCEPT ![o] = "done"]
            /\ reading' = [reading EXCEPT ![o] = reading[o]]
            /\ taskLock' = IF taskLock = o THEN None ELSE taskLock
            /\ task' \in EW!Status
        BY <1>2, <2>1, <2>2, <2>3, <2>5 DEF EW!Goto
      <3> QED BY <1>2, <2>1, <3>1, TaskMoving
    <2> QED BY <2>1, <2>4, <2>5
  <1>4. ASSUME NEW o \in Operator, EW!LockTask(o)
        PROVE  TaskInv'
    <2>1. /\ at[o] = "read" /\ taskLock = None
          /\ UNCHANGED <<task, run, signal, old, done, raced>>
          /\ reading[o] \in [to : EW!Status]
      BY <1>1, <1>4 DEF EW!LockTask, EW!rows, TaskTyped, TaskLocalsKnown
    <2>2. CASE EW!RunTransition(run.status, reading[o].to)
      <3> DEFINE what == [to |-> reading[o].to, run |-> run]
      <3>1. /\ taskLock' = o /\ reading' = [reading EXCEPT ![o] = what]
            /\ at' = [at EXCEPT ![o] = "locked"]
        BY <1>2, <1>4, <2>2 DEF EW!LockTask, EW!Goto
      <3>2. /\ what \in [to : EW!Status, run : RunRow]
            /\ what.run = run /\ what.to = reading[o].to
        BY <1>1, <2>1 DEF TaskTyped
      <3> HIDE DEF what
      <3>3. /\ TaskLocalsKnown'
            /\ at' \in [EW!Request \cup {Monitor} ->
                 {"idle", "read", "locked", "done", "scanning", "monitoring"}]
            /\ reading' = [q \in EW!Request \cup {Monitor} |-> reading'[q]]
            /\ at'[o] = "locked" /\ reading'[o] = what
            /\ \A q \in (EW!Request \cup {Monitor}) \ {o} :
                 at'[q] = at[q] /\ reading'[q] = reading[q]
        BY <1>1, <1>2, <3>1, <3>2, TaskLocals
      <3>4. TaskTyped'
        BY <1>1, <2>1, <3>1, <3>3 DEF TaskTyped, EW!TypeOK
      <3>5. \A q \in Operator : at'[q] = "locked" <=> q = o
        BY <1>1, <1>2, <2>1, <3>3 DEF TaskLockHeld
      <3>6. TaskLockHeld'
        BY <3>1, <3>5 DEF TaskLockHeld
      <3>7. RunAsRead'
        BY <2>1, <2>2, <3>2, <3>3, <3>5 DEF RunAsRead
      <3>8. EW!StepsAreKept' /\ EW!EndedRunTellsItsStatus'
        BY <1>1, <2>1 DEF EW!StepsAreKept, EW!EndedRunTellsItsStatus
      <3> QED BY <3>4, <3>6, <3>7, <3>8 DEF TaskInv
    <2>3. CASE ~EW!RunTransition(run.status, reading[o].to)
      <3>1. EW!Leave(o, "done") /\ UNCHANGED taskLock
        BY <1>4, <2>3 DEF EW!LockTask
      <3> QED BY <1>2, <2>1, <3>1, TaskMoving DEF EW!Leave, EW!Goto
    <2> QED BY <2>2, <2>3
  <1>5. ASSUME NEW o \in Operator, EW!CommitTask(o)
        PROVE  TaskInv'
    <2> DEFINE to == reading[o].to
               log == Append(reading[o].run.log, o)
               new == [status |-> to, told |-> to, log |-> log]
    <2>1. /\ at[o] = "locked" /\ task' = to /\ run' = new
          /\ taskLock' = None /\ done' = Append(done, o)
          /\ at' = [at EXCEPT ![o] = "done"] /\ reading' = [reading EXCEPT ![o] = None]
          /\ UNCHANGED <<signal, old, raced>>
      BY <1>5 DEF EW!CommitTask, EW!Leave, EW!Goto
    <2>2. /\ to \in EW!Status /\ reading[o].run.log \in Seq(EW!Step) /\ o \in EW!Step
          /\ ~raced => reading[o].run.log = run.log
      BY <1>1, <2>1 DEF TaskTyped, TaskLocalsKnown, RunAsRead, RunRow, EW!Step
    <2>3. log \in Seq(EW!Step) /\ new \in RunRow
      BY <2>2 DEF RunRow
    <2>4. new.status = to /\ new.told = to /\ new.log = log
      OBVIOUS
    <2> HIDE DEF new
    <2>5. /\ TaskLocalsKnown'
          /\ at' \in [EW!Request \cup {Monitor} ->
               {"idle", "read", "locked", "done", "scanning", "monitoring"}]
          /\ reading' = [q \in EW!Request \cup {Monitor} |-> reading'[q]]
          /\ at'[o] = "done"
          /\ \A q \in (EW!Request \cup {Monitor}) \ {o} : at'[q] = at[q]
      BY <1>1, <1>2, <2>1, TaskLocals
    <2>6. done' \in Seq(Operator)
      BY <1>1, <2>1 DEF TaskTyped, EW!TypeOK
    <2>7. TaskTyped'
      BY <1>1, <2>1, <2>2, <2>3, <2>4, <2>5, <2>6 DEF TaskTyped, EW!TypeOK
    <2>8. \A q \in Operator : at'[q] # "locked"
      BY <1>1, <1>2, <2>1, <2>5 DEF TaskLockHeld
    <2>9. TaskLockHeld' /\ RunAsRead'
      BY <1>2, <2>1, <2>8 DEF TaskLockHeld, RunAsRead
    <2>10. EW!StepsAreKept'
      <3>1. SUFFICES ASSUME ~raced
                     PROVE  log = <<EW!Start>> \o Append(done, o)
        BY <2>1, <2>4 DEF EW!StepsAreKept
      <3>2. log = Append(<<EW!Start>> \o done, o)
        BY <1>1, <2>2, <3>1 DEF EW!StepsAreKept
      <3>3. done \in Seq(Operator \cup {EW!Start}) /\ <<EW!Start>> \in Seq(Operator \cup {EW!Start})
        BY <1>1 DEF TaskTyped, EW!TypeOK
      <3> QED BY <3>2, <3>3
    <2>11. EW!EndedRunTellsItsStatus'
      BY <2>1, <2>4 DEF EW!EndedRunTellsItsStatus
    <2> QED BY <2>7, <2>9, <2>10, <2>11 DEF TaskInv
  <1>6. ASSUME NEW o \in Operator, EW!FailTask(o)
        PROVE  TaskInv'
    <2>1. /\ taskLock' = IF taskLock = o THEN None ELSE taskLock
          /\ at' = [at EXCEPT ![o] = "done"] /\ reading' = [reading EXCEPT ![o] = None]
          /\ UNCHANGED <<task, run, signal, old, done, raced>>
      BY <1>6 DEF EW!FailTask, EW!Leave, EW!Goto, EW!rows
    <2> QED BY <1>2, <2>1, TaskMoving
  <1>7. ASSUME NEW q \in Writer, EW!ReadForUpdate(q) \/ EW!ReadForLink(q)
        PROVE  TaskInv'
    <2>1. PICK to \in EW!Status : reading' = [reading EXCEPT ![q] = [to |-> to]]
      BY <1>2, <1>7 DEF EW!ReadForUpdate, EW!ReadForLink, EW!ParticipantStatus,
         EW!Status
    <2>2. /\ at' = [at EXCEPT ![q] = "read"]
          /\ UNCHANGED <<task, run, signal, taskLock, old, done, raced>>
      BY <1>7 DEF EW!ReadForUpdate, EW!ReadForLink, EW!Goto, EW!rows
    <2>3. taskLock # q
      BY <1>1, <1>2, TaskTypes DEF TaskTyped, EW!TypeOK
    <2> QED BY <1>2, <2>1, <2>2, <2>3, TaskMoving
  <1>8. ASSUME NEW q \in Writer, EW!WriteTask(q)
        PROVE  TaskInv'
    <2>1. /\ taskLock = None /\ task' \in EW!Status
          /\ at' = [at EXCEPT ![q] = "done"] /\ reading' = [reading EXCEPT ![q] = None]
          /\ UNCHANGED <<run, signal, taskLock, old, done, raced>>
      BY <1>1, <1>8 DEF EW!WriteTask, EW!Leave, EW!Goto, TaskTyped,
         TaskLocalsKnown
    <2> QED BY <1>2, <2>1, TaskMoving
  <1>9. ASSUME NEW n \in DOMAIN run.log, EW!GrowOld(n)
        PROVE  TaskInv'
    <2>1. /\ old' = old \cup {run.log[i] : i \in 1 .. n}
          /\ UNCHANGED <<task, run, signal, taskLock, at, reading, done, raced>>
      BY <1>9 DEF EW!GrowOld, EW!rows
    <2>2. run.log \in Seq(EW!Step) /\ n \in 1 .. Len(run.log)
      BY <1>1, TaskTypes
    <2>3. \A i \in 1 .. n : run.log[i] \in EW!Step
      BY <2>2
    <2>4. old' \subseteq Operator \cup {EW!Start}
      BY <1>1, <2>1, <2>3 DEF TaskTyped, EW!TypeOK, EW!Step
    <2>5. TaskTyped'
      BY <1>1, <2>1, <2>4 DEF TaskTyped, EW!TypeOK, TaskLocalsKnown
    <2> QED BY <1>1, <2>1, <2>5 DEF TaskInv, TaskLockHeld, RunAsRead,
               EW!StepsAreKept, EW!EndedRunTellsItsStatus
  <1>10. taskLock = IF taskLock = Monitor THEN None ELSE taskLock
    BY <1>1, <1>2 DEF TaskTyped, EW!TypeOK
  <1>11. ASSUME EW!BeginTick
         PROVE  TaskInv'
    <2>1. /\ at' = [at EXCEPT ![Monitor] = "scanning"]
          /\ reading' = [reading EXCEPT ![Monitor] = reading[Monitor]]
          /\ UNCHANGED <<task, run, signal, taskLock, old, done, raced>>
      BY <1>2, <1>11 DEF EW!BeginTick, EW!Goto, EW!rows
    <2> QED BY <1>2, <1>10, <2>1, TaskMoving
  <1>12. ASSUME EW!ScanRun
         PROVE  TaskInv'
    <2> DEFINE what == [run |-> run, signal |-> signal,
                        decision |-> EW!Decision(run.status, run.log)]
    <2>1. /\ at' = [at EXCEPT ![Monitor] = "monitoring"]
          /\ reading' = [reading EXCEPT ![Monitor] = what]
          /\ run.status \in EW!Active
          /\ UNCHANGED <<task, run, signal, taskLock, old, done, raced>>
      BY <1>12 DEF EW!ScanRun, EW!Goto, EW!rows
    <2>2. what \in [run : RunRow, signal : Told \cup {None}, decision : Told]
      BY <1>1, <2>1, DecisionType DEF TaskTyped, EW!TypeOK, Told
    <2> HIDE DEF what
    <2> QED BY <1>2, <1>10, <2>1, <2>2, TaskMoving
  <1>13. ASSUME EW!EndTick
         PROVE  TaskInv'
    <2>1. /\ at' = [at EXCEPT ![Monitor] = "idle"]
          /\ reading' = [reading EXCEPT ![Monitor] = None]
          /\ UNCHANGED <<task, run, signal, taskLock, old, done, raced>>
      BY <1>13 DEF EW!EndTick, EW!Leave, EW!Goto, EW!rows
    <2> QED BY <1>2, <1>10, <2>1, TaskMoving
  <1>14. ASSUME EW!MonitorRun
         PROVE  TaskInv'
    <2>1. /\ at[Monitor] = "monitoring"
          /\ at' = [at EXCEPT ![Monitor] = "idle"]
          /\ reading' = [reading EXCEPT ![Monitor] = None]
          /\ UNCHANGED <<task, taskLock, old, done>>
      BY <1>14 DEF EW!MonitorRun, EW!Leave, EW!Goto
    <2>2. CASE ~EW!StillActive(run.status)
      <3>1. UNCHANGED <<run, signal, raced>>
        BY <1>14, <2>2 DEF EW!MonitorRun
      <3> QED BY <1>2, <1>10, <2>1, <3>1, TaskMoving
    <2>3. CASE EW!StillActive(run.status)
      <3> DEFINE s == reading[Monitor]
                 log == IF EW!ShouldRecord THEN s.run.log ELSE run.log
      <3>1. s.run.told \in EW!Status /\ s.run.status \in EW!Status /\ s.run.log \in Seq(EW!Step)
            /\ s.decision \in Told /\ log \in Seq(EW!Step)
        BY <1>1, <2>1, TaskTypes DEF TaskTyped, TaskLocalsKnown, RunRow
      <3>2. /\ run' = [run EXCEPT !.told = s.run.status, !.log = log]
            /\ signal' = s.decision
            /\ raced' = (raced \/ taskLock # None \/ s.run.log # run.log)
        BY <1>14, <2>3 DEF EW!MonitorRun
      <3>3. /\ run' \in RunRow /\ run'.status = run.status
            /\ run'.told = s.run.status /\ run'.log = log
        BY <1>1, <3>1, <3>2, TaskTypes DEF TaskTyped, RunRow
      <3>4. raced' \in BOOLEAN
        BY <3>2
      <3>5. ~raced' => ~raced /\ taskLock = None /\ s.run.log = run.log
        BY <3>2
      <3>6. ~raced' => log = run.log
        BY <3>5
      <3> HIDE DEF log, s
      <3>7. /\ TaskLocalsKnown'
            /\ at' \in [EW!Request \cup {Monitor} ->
                 {"idle", "read", "locked", "done", "scanning", "monitoring"}]
            /\ reading' = [q \in EW!Request \cup {Monitor} |-> reading'[q]]
            /\ \A q \in EW!Request : at'[q] = at[q] /\ reading'[q] = reading[q]
        BY <1>1, <1>2, <2>1, TaskLocals, TaskTypes
      <3>8. EW!TypeOK'
        BY <1>1, <2>1, <3>1, <3>2, <3>3, <3>4, <3>7 DEF TaskTyped, EW!TypeOK,
           RunRow, Told
      <3>9. TaskTyped'
        BY <3>3, <3>7, <3>8 DEF TaskTyped
      <3>10. TaskLockHeld'
        BY <1>1, <2>1, <3>7, TaskTypes DEF TaskLockHeld
      <3>11. RunAsRead'
        <4> SUFFICES ASSUME NEW o \in Operator, at'[o] = "locked"
                     PROVE  /\ ~raced' => reading'[o].run.log = run'.log
                            /\ EW!RunTransition(run'.status, reading'[o].to)
          BY DEF RunAsRead
        <4>1. at[o] = "locked" /\ reading'[o] = reading[o] /\ o # None
          BY <1>1, <1>2, <3>7, TaskTypes
        <4>2. taskLock = o
          BY <1>1, <4>1 DEF TaskLockHeld
        <4>3. raced'
          BY <3>5, <4>1, <4>2
        <4>4. EW!RunTransition(run.status, reading[o].to)
          BY <1>1, <4>1 DEF RunAsRead
        <4> QED BY <3>3, <4>1, <4>3, <4>4
      <3>12. EW!StepsAreKept'
        BY <1>1, <2>1, <3>3, <3>5, <3>6 DEF EW!StepsAreKept
      <3>13. EW!EndedRunTellsItsStatus'
        BY <2>3, <3>3 DEF EW!EndedRunTellsItsStatus, EW!StillActive
      <3> QED BY <3>9, <3>10, <3>11, <3>12, <3>13 DEF TaskInv
    <2> QED BY <2>2, <2>3
  <1> QED BY <1>3, <1>4, <1>5, <1>6, <1>7, <1>8, <1>9, <1>11, <1>12, <1>13,
             <1>14 DEF EW!Next, EW!OperatorStep

LEMMA TaskStep ==
  ASSUME EW!DisjointAssumption, TaskInv, [EW!Next]_(EW!vars)
  PROVE  TaskInv'
  <1>1. CASE EW!Next
    BY <1>1, TaskNext
  <1>2. CASE UNCHANGED EW!vars
    BY <1>2 DEF EW!vars, EW!rows, TaskInv, TaskTyped, EW!TypeOK,
       TaskLocalsKnown, TaskLockHeld, RunAsRead, EW!StepsAreKept,
       EW!EndedRunTellsItsStatus
  <1> QED BY <1>1, <1>2
-----------------------------------------------------------------------------
(* Results                                                                   *)

THEOREM TaskInvariance ==
  ASSUME EW!DisjointAssumption
  PROVE  EW!Spec => []TaskInv
  <1>1. EW!Init => TaskInv
    BY TaskInit
  <1>2. TaskInv /\ [EW!Next]_(EW!vars) => TaskInv'
    BY TaskStep
  <1> QED BY <1>1, <1>2, PTL DEF EW!Spec

\* The steps operators committed are all in the run's lifecycle, in their order,
\* unless the monitor wrote the run while it was being changed.
THEOREM StepsStay ==
  ASSUME EW!DisjointAssumption
  PROVE  EW!Spec => []EW!StepsAreKept
  <1>1. TaskInv => EW!StepsAreKept
    BY DEF TaskInv
  <1> QED BY <1>1, TaskInvariance, PTL

\* The monitor, whatever it read, leaves the state of a run that ended alone.
THEOREM EndedIsTold ==
  ASSUME EW!DisjointAssumption
  PROVE  EW!Spec => []EW!EndedRunTellsItsStatus
  <1>1. TaskInv => EW!EndedRunTellsItsStatus
    BY DEF TaskInv
  <1> QED BY <1>1, TaskInvariance, PTL

\* A run that was completed or cancelled stays so, or is attached, although
\* operators read its task at the same time.
THEOREM EndedStays ==
  ASSUME EW!DisjointAssumption
  PROVE  EW!Spec => EW!EndedRunStays
  <1>1. ASSUME TaskInv, [EW!Next]_(EW!vars), run.status \in EW!Terminal
        PROVE  run'.status \in {run.status, "attached"}
    <2>1. TaskTyped /\ RunAsRead
      BY <1>1 DEF TaskInv
    <2>2. CASE UNCHANGED run
      BY <2>2
    <2>3. ASSUME NEW o \in Operator, EW!CommitTask(o)
          PROVE  run'.status \in {run.status, "attached"}
      <3>1. at[o] = "locked" /\ run'.status = reading[o].to
        BY <2>3 DEF EW!CommitTask
      <3>2. EW!RunTransition(run.status, reading[o].to)
        BY <2>1, <3>1 DEF RunAsRead
      <3> QED BY <1>1, <3>1, <3>2 DEF EW!RunTransition, EW!Transition
    <2>4. ASSUME EW!MonitorRun
          PROVE  run'.status \in {run.status, "attached"}
      <3>1. ~EW!StillActive(run.status)
        BY <1>1 DEF EW!StillActive, EW!Active, EW!Terminal
      <3> QED BY <2>4, <3>1 DEF EW!MonitorRun
    <2>5. EW!Next => \/ UNCHANGED run
                     \/ \E o \in Operator : EW!CommitTask(o)
                     \/ EW!MonitorRun
      BY DEF EW!Next, EW!OperatorStep, EW!ReadTask, EW!LockTask, EW!FailTask,
             EW!ReadForUpdate, EW!ReadForLink, EW!WriteTask, EW!GrowOld,
             EW!BeginTick, EW!ScanRun, EW!EndTick, EW!rows
    <2> QED BY <1>1, <2>2, <2>3, <2>4, <2>5 DEF EW!vars, EW!rows
  <1>2. TaskInv /\ [EW!Next]_(EW!vars) =>
          [run.status \in EW!Terminal => run'.status \in {run.status, "attached"}]_(EW!vars)
    BY <1>1
  <1> QED BY <1>2, TaskInvariance, PTL DEF EW!Spec, EW!EndedRunStays

\* Task, run and signal keep their types.
THEOREM TaskTypeCorrect ==
  ASSUME EW!DisjointAssumption
  PROVE  EW!Spec => []EW!TypeOK
  <1>1. TaskInv => EW!TypeOK
    BY DEF TaskInv, TaskTyped
  <1> QED BY <1>1, TaskInvariance, PTL
=============================================================================
