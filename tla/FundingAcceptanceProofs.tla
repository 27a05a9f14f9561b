---------------------- MODULE FundingAcceptanceProofs ----------------------
(***************************************************************************)
(* Proofs about FundingAcceptance, for every set of offers, approvals,     *)
(* keys, acceptances and rankings.                                         *)
(***************************************************************************)
EXTENDS FundingAcceptance, TLAPS

\* An acceptance that has begun knows what it was asked for.
RequestsKnown ==
  \A c \in Acceptance : pc[c] # "idle" => request[c] \in Requests

Typed == TypeOK /\ RequestsKnown

\* What an acceptance has locked by the time it reaches a label.
Holds(c) ==
  /\ pc[c] \in {"offer", "trade", "approval", "checked"} =>
       lock[request[c].offer] = c
  /\ pc[c] \in {"trade", "approval", "checked"} => lock[Trade] = c
  /\ pc[c] \in {"approval", "checked"} => lock[request[c].approval] = c

LocksHeld == \A c \in Acceptance : Holds(c)

\* An acceptance makes its reservation, and answers, in its last step.
MadeWhenDone ==
  \A c \in Acceptance :
    reservation[c] # "none" \/ answer[c] # None => pc[c] = "done"

\* What an acceptance has checked is still so when it reserves.
CheckedHolds ==
  \A c \in Acceptance :
    pc[c] = "checked" =>
      /\ Authorized(request[c])
      /\ ~Spent(request[c].approval)
      /\ ~Conflicts(c)

\* A consumption names a reservation made under that approval.
SpentOnReservation ==
  \A a \in Approval :
    Spent(a) => /\ consumption[a] \in Acceptance
                /\ reservation[consumption[a]] # "none"
                /\ request[consumption[a]].approval = a

\* A stored response, expired or not, is the consumption of its approval.
StoredIsSpent ==
  \A k \in Offer \X Key :
    idempotency[k] # None =>
      /\ idempotency[k] \in Responses
      /\ consumption[idempotency[k].approval] = idempotency[k].reservation

Made ==
  /\ MadeWhenDone /\ CheckedHolds /\ SpentOnReservation /\ StoredIsSpent
  /\ OneActiveReservation /\ SpentOnce /\ AnswersAgree

Inv == Typed /\ LocksHeld /\ Made
-----------------------------------------------------------------------------
(* Typing                                                                    *)

\* Init establishes the typing.
LEMMA TypedInit == Init => Typed
  BY DEF Init, Typed, TypeOK, RequestsKnown, Lockable, Tx, Times

\* Taking or releasing a lock keeps the type of the locks.
LEMMA LockTyped ==
  ASSUME lock \in [Lockable -> Tx \cup {None}], NEW t \in Tx,
         Release(t) \/ \E l \in Lockable : Acquire(t, l)
  PROVE  lock' \in [Lockable -> Tx \cup {None}]
  BY DEF Acquire, Release

\* Storing a response keeps the type of the responses.
LEMMA PutTyped ==
  ASSUME Typed, NEW c \in Acceptance, pc[c] # "idle", NEW d \in Acceptance,
         PutResponse(c, d)
  PROVE  idempotency' \in [Offer \X Key -> Responses \cup {None}]
  <1>1. request[c] \in Requests
    BY DEF Typed, RequestsKnown
  <1>2. RouteKey(c) \in Offer \X Key
    BY <1>1 DEF RouteKey, Requests
  <1>3. [approval |-> request[c].approval,
         allocation |-> allocation[request[c].offer],
         reservation |-> d] \in Responses
    BY <1>1 DEF Typed, TypeOK, Requests, Responses
  <1> QED
    BY <1>2, <1>3 DEF PutResponse, Typed, TypeOK

\* Offers, rankings, approvals and the passing of time keep the typing.
LEMMA TypedEnvironment ==
  ASSUME Typed,
         \/ \E o \in Offer : Submit(o) \/ LapseOffer(o)
         \/ \E q \in Ranking : ReadOffers(q) \/ StoreRanking(q)
         \/ \E a \in Approval : Bind(a) \/ Decide(a)
         \/ \E c \in Acceptance : LapseReservation(c)
         \/ \E k \in Offer \X Key : LapseResponse(k)
  PROVE  Typed'
  <1> USE DisjointAssumption, OfferOfAssumption DEF Typed
  <1>1. ASSUME NEW o \in Offer, Submit(o) PROVE Typed'
    BY <1>1 DEF TypeOK, RequestsKnown, Submit, locals
  <1>2. ASSUME NEW o \in Offer, LapseOffer(o) PROVE Typed'
    BY <1>2 DEF TypeOK, RequestsKnown, LapseOffer, locals, rows, Times
  <1>3. ASSUME NEW q \in Ranking, ReadOffers(q) PROVE Typed'
    BY <1>3 DEF TypeOK, RequestsKnown, ReadOffers, Goto, rows, Tx
  <1>4. ASSUME NEW q \in Ranking, StoreRanking(q) PROVE Typed'
    BY <1>4 DEF TypeOK, RequestsKnown, StoreRanking, Goto, locals, Tx
  <1>5. ASSUME NEW a \in Approval, Bind(a) PROVE Typed'
    BY <1>5 DEF TypeOK, RequestsKnown, Bind, locals
  <1>6. ASSUME NEW a \in Approval, Decide(a) PROVE Typed'
    BY <1>6 DEF TypeOK, RequestsKnown, Decide, locals
  <1>7. ASSUME NEW c \in Acceptance, LapseReservation(c) PROVE Typed'
    BY <1>7 DEF TypeOK, RequestsKnown, LapseReservation, locals, rows, Times
  <1>8. ASSUME NEW k \in Offer \X Key, LapseResponse(k) PROVE Typed'
    BY <1>8 DEF TypeOK, RequestsKnown, LapseResponse, locals, rows, Times
  <1> QED
    BY <1>1, <1>2, <1>3, <1>4, <1>5, <1>6, <1>7, <1>8

\* Every step of acceptOffer keeps the typing.
LEMMA TypedAcceptance ==
  ASSUME Typed, NEW c \in Acceptance, BeginAcceptance(c) \/ AcceptanceStep(c)
  PROVE  Typed'
  <1> USE DisjointAssumption DEF Typed, Tx
  <1>1. CASE BeginAcceptance(c)
    BY <1>1 DEF TypeOK, RequestsKnown, BeginAcceptance, Goto, rows
  <1>2. CASE LockOffer(c)
    <2>1. request[c].offer \in Lockable
      BY <1>2 DEF RequestsKnown, LockOffer, Requests, Lockable
    <2>2. lock' \in [Lockable -> Tx \cup {None}]
      BY <1>2, <2>1, LockTyped DEF TypeOK, LockOffer
    <2> QED
      BY <1>2, <2>2 DEF TypeOK, RequestsKnown, LockOffer, Goto, rows, locals
  <1>3. CASE LockTrade(c)
    <2>1. lock' \in [Lockable -> Tx \cup {None}]
      BY <1>3, LockTyped DEF TypeOK, LockTrade, Lockable
    <2> QED
      BY <1>3, <2>1 DEF TypeOK, RequestsKnown, LockTrade, Goto, rows, locals
  <1>4. CASE LockApproval(c)
    <2>1. request[c].approval \in Lockable
      BY <1>4 DEF RequestsKnown, LockApproval, Requests, Lockable
    <2>2. lock' \in [Lockable -> Tx \cup {None}]
      BY <1>4, <2>1, LockTyped DEF TypeOK, LockApproval
    <2> QED
      BY <1>4, <2>2 DEF TypeOK, RequestsKnown, LockApproval, Goto, rows, locals
  <1>5. CASE Replay(c)
    <2>1. Stored(c).reservation \in Acceptance
      <3>1. RouteKey(c) \in Offer \X Key
        BY <1>5 DEF RequestsKnown, Replay, Requests, RouteKey
      <3> QED
        BY <1>5, <3>1 DEF TypeOK, Replay, Stored, Responses
    <2> QED
      BY <1>5, <2>1, LockTyped DEF TypeOK, RequestsKnown, Replay, Answer, Goto, rows
  <1>6. CASE ReplayConsumption(c)
    <2>1. consumption[request[c].approval] \in Acceptance
      BY <1>6 DEF TypeOK, RequestsKnown, ReplayConsumption, Requests, Spent
    <2>2. idempotency' \in [Offer \X Key -> Responses \cup {None}]
      BY <1>6, <2>1, PutTyped DEF ReplayConsumption
    <2> QED
      BY <1>6, <2>1, <2>2, LockTyped
      DEF TypeOK, RequestsKnown, ReplayConsumption, Answer, Goto
  <1>7. CASE Check(c)
    BY <1>7 DEF TypeOK, RequestsKnown, Check, Goto, rows, locals
  <1>8. CASE Reserve(c)
    <2>1. request[c] \in Requests
      BY <1>8 DEF RequestsKnown, Reserve
    <2>2. idempotency' \in [Offer \X Key -> Responses \cup {None}]
      BY <1>8, PutTyped DEF Reserve
    <2>3. lock' \in [Lockable -> Tx \cup {None}]
      BY <1>8, LockTyped DEF TypeOK, Reserve, Answer
    <2> QED
      BY <1>8, <2>1, <2>2, <2>3 DEF TypeOK, RequestsKnown, Reserve, Answer, Goto, Requests
  <1>9. CASE Refuse(c)
    BY <1>9, LockTyped DEF TypeOK, RequestsKnown, Refuse, Goto, rows, locals
  <1> QED
    BY <1>1, <1>2, <1>3, <1>4, <1>5, <1>6, <1>7, <1>8, <1>9 DEF AcceptanceStep

\* A rollback keeps the typing.
LEMMA TypedRollback ==
  ASSUME Typed, NEW t \in Tx, Rollback(t)
  PROVE  Typed'
  BY LockTyped DEF Typed, TypeOK, RequestsKnown, Rollback, Goto, rows, locals, Tx

\* Every step keeps the typing.
LEMMA TypedNext ==
  ASSUME Typed, [Next]_vars
  PROVE  Typed'
  <1>1. CASE UNCHANGED vars
    BY <1>1 DEF vars, rows, locals, Typed, TypeOK, RequestsKnown
  <1>2. CASE Next
    BY <1>2, TypedEnvironment, TypedAcceptance, TypedRollback DEF Next
  <1> QED BY <1>1, <1>2

\* The tables and the readings of acceptOffer and requestOffers keep their
\* types; a stored response always names a reservation.
THEOREM TypeCorrect == Spec => []TypeOK
  <1>1. Typed => TypeOK
    BY DEF Typed
  <1> QED BY <1>1, TypedInit, TypedNext, PTL DEF Spec
-----------------------------------------------------------------------------
(* Locks                                                                     *)

\* A step of t leaves the locks of the others alone.
LEMMA LocksOfOthers ==
  ASSUME lock \in [Lockable -> Tx \cup {None}], NEW t \in Tx,
         \/ UNCHANGED lock
         \/ Release(t)
         \/ \E l \in Lockable : Acquire(t, l),
         NEW d \in Tx, d # t, NEW m \in Lockable, lock[m] = d
  PROVE  lock'[m] = d
  BY DisjointAssumption DEF Acquire, Release

\* Every step of an acceptance keeps what each acceptance has locked.
LEMMA LocksAcceptance ==
  ASSUME Typed, LocksHeld, NEW c \in Acceptance,
         BeginAcceptance(c) \/ AcceptanceStep(c)
  PROVE  LocksHeld'
  <1> USE DisjointAssumption DEF Typed
  <1>1. \A d \in Acceptance : pc[d] # "idle" =>
          /\ request[d].offer \in Lockable
          /\ request[d].approval \in Lockable
          /\ Trade \in Lockable
    BY DEF RequestsKnown, Requests, Lockable
  <1>2. ASSUME NEW d \in Acceptance, d # c
        PROVE  Holds(d)'
    <2>1. pc'[d] = pc[d] /\ request'[d] = request[d]
      BY <1>2 DEF TypeOK, Tx, BeginAcceptance, AcceptanceStep, LockOffer, LockTrade,
         LockApproval, Replay, ReplayConsumption, Check, Reserve, Refuse,
         Answer, Goto, locals
    <2>2. \/ UNCHANGED lock
          \/ Release(c)
          \/ \E l \in Lockable : Acquire(c, l)
      BY <1>1 DEF BeginAcceptance, AcceptanceStep, LockOffer, LockTrade,
         LockApproval, Replay, ReplayConsumption, Check, Reserve, Refuse, Answer, Lockable
    <2>3. ASSUME NEW m \in Lockable, lock[m] = d
          PROVE  lock'[m] = d
      BY <1>2, <2>2, <2>3, LocksOfOthers DEF TypeOK, Tx
    <2> QED
      BY <1>1, <2>1, <2>3 DEF LocksHeld, Holds
  <1>3. Holds(c)'
    <2>1. CASE BeginAcceptance(c) \/ Replay(c) \/ ReplayConsumption(c) \/ Reserve(c)
               \/ Refuse(c)
      <3>1. pc'[c] \in {"begun", "done", "refused"}
        BY <2>1 DEF TypeOK, BeginAcceptance, Replay, ReplayConsumption, Reserve,
           Refuse, Answer, Goto, Tx
      <3> QED BY <3>1 DEF Holds
    <2>2. CASE LockOffer(c)
      BY <1>1, <2>2 DEF LocksHeld, Holds, TypeOK, LockOffer, Acquire, Goto, Tx, locals
    <2>3. CASE LockTrade(c)
      BY <1>1, <2>3 DEF LocksHeld, Holds, TypeOK, LockTrade, Acquire, Goto, Tx, locals
    <2>4. CASE LockApproval(c)
      BY <1>1, <2>4 DEF LocksHeld, Holds, TypeOK, LockApproval, Acquire, Goto, Tx, locals
    <2>5. CASE Check(c)
      BY <2>5 DEF LocksHeld, Holds, TypeOK, Check, Goto, Tx, locals
    <2> QED
      BY <2>1, <2>2, <2>3, <2>4, <2>5 DEF AcceptanceStep
  <1> QED BY <1>2, <1>3 DEF LocksHeld

\* Offers, rankings, approvals and time take and release no lock.
LEMMA LocksEnvironment ==
  ASSUME Typed, LocksHeld,
         \/ \E o \in Offer : Submit(o) \/ LapseOffer(o)
         \/ \E q \in Ranking : ReadOffers(q) \/ StoreRanking(q)
         \/ \E a \in Approval : Bind(a) \/ Decide(a)
         \/ \E c \in Acceptance : LapseReservation(c)
         \/ \E k \in Offer \X Key : LapseResponse(k)
  PROVE  LocksHeld'
  <1> USE DisjointAssumption
  <1>1. UNCHANGED <<lock, request>>
    BY DEF Submit, LapseOffer, ReadOffers, StoreRanking, Bind, Decide,
       LapseReservation, LapseResponse, locals
  <1>2. \A c \in Acceptance : pc'[c] = pc[c]
    BY DEF Typed, TypeOK, Tx, Submit, LapseOffer, ReadOffers, StoreRanking, Bind,
       Decide, LapseReservation, LapseResponse, Goto
  <1> QED BY <1>1, <1>2 DEF LocksHeld, Holds

\* A rollback releases the locks of its own transaction.
LEMMA LocksRollback ==
  ASSUME Typed, LocksHeld, NEW t \in Tx, Rollback(t)
  PROVE  LocksHeld'
  <1> SUFFICES ASSUME NEW c \in Acceptance
               PROVE  Holds(c)'
    BY DEF LocksHeld
  <1>1. CASE c = t
    <2>1. pc'[c] = "failed"
      BY <1>1 DEF Typed, TypeOK, Rollback, Goto
    <2> QED BY <2>1 DEF Holds
  <1>2. CASE c # t
    <2>1. pc'[c] = pc[c] /\ request'[c] = request[c]
      BY <1>2 DEF Typed, TypeOK, Tx, Rollback, Goto, locals
    <2>2. ASSUME NEW m \in Lockable, lock[m] = c
          PROVE  lock'[m] = c
      BY <1>2, <2>2, LocksOfOthers DEF Typed, TypeOK, Tx, Rollback
    <2>3. pc[c] # "idle" => /\ request[c].offer \in Lockable
                            /\ request[c].approval \in Lockable
                            /\ Trade \in Lockable
      BY DEF Typed, RequestsKnown, Requests, Lockable
    <2> QED BY <2>1, <2>2, <2>3 DEF LocksHeld, Holds
  <1> QED BY <1>1, <1>2
-----------------------------------------------------------------------------
(* Reservations                                                              *)

\* A step that writes no consumption, reservation, response or answer, lets no
\* acceptance pass its checks and keeps checked approvals in force, keeps Made.
LEMMA MadeQuiet ==
  ASSUME Typed, Made,
         UNCHANGED <<consumption, reservation, idempotency, answer, request, clock>>,
         \A c \in Acceptance : /\ pc[c] = "done" => pc'[c] = "done"
                               /\ pc'[c] = "checked" => pc[c] = "checked"
                               /\ pc[c] = "checked" => Authorized(request[c])'
  PROVE  Made'
  <1> USE DEF Made
  <1>1. MadeWhenDone'
    BY DEF MadeWhenDone
  <1>2. CheckedHolds'
    BY DEF CheckedHolds, Spent, Conflicts, Elapsed
  <1>3. SpentOnReservation' /\ StoredIsSpent'
    BY DEF SpentOnReservation, StoredIsSpent, Spent
  <1>4. OneActiveReservation' /\ SpentOnce' /\ AnswersAgree'
    BY DEF OneActiveReservation, SpentOnce, AnswersAgree
  <1> QED BY <1>1, <1>2, <1>3, <1>4

\* Nobody but a checked acceptance can change what it has checked: its offer,
\* its trade and its approval are locked.
LEMMA MadeEnvironment ==
  ASSUME Inv,
         \/ \E o \in Offer : Submit(o) \/ LapseOffer(o)
         \/ \E q \in Ranking : ReadOffers(q) \/ StoreRanking(q)
         \/ \E a \in Approval : Bind(a) \/ Decide(a)
         \/ \E c \in Acceptance : LapseReservation(c)
         \/ \E k \in Offer \X Key : LapseResponse(k)
  PROVE  Made'
  <1> USE DisjointAssumption DEF Inv
  <1>1. UNCHANGED <<consumption, reservation, idempotency, answer, request, clock>>
    BY DEF Submit, LapseOffer, ReadOffers, StoreRanking, Bind, Decide,
       LapseReservation, LapseResponse, locals, rows
  <1>2. \A c \in Acceptance : pc'[c] = pc[c]
    BY DEF Typed, TypeOK, Tx, Submit, LapseOffer, ReadOffers, StoreRanking, Bind,
       Decide, LapseReservation, LapseResponse, Goto
  <1>3. ASSUME NEW c \in Acceptance, pc[c] = "checked"
        PROVE  Authorized(request[c])'
    <2>1. /\ request[c] \in Requests
          /\ Authorized(request[c])
          /\ lock[request[c].offer] = c
          /\ lock[request[c].approval] = c
      BY <1>3 DEF Typed, RequestsKnown, Made, CheckedHolds, LocksHeld, Holds
    <2>2. CASE \E q \in Ranking : StoreRanking(q)
      <3>1. allocation'[request[c].offer] = allocation[request[c].offer]
        BY <2>1, <2>2 DEF StoreRanking, Typed, TypeOK, Requests, Tx
      <3> QED BY <2>1, <2>2, <3>1 DEF StoreRanking, Authorized, locals
    <2>3. CASE \E a \in Approval : Bind(a) \/ Decide(a)
      <3>1. /\ approval'[request[c].approval] = approval[request[c].approval]
            /\ frozen'[request[c].approval] = frozen[request[c].approval]
        BY <2>1, <2>3 DEF Bind, Decide, Typed, TypeOK, Requests, Authorized, Tx
      <3> QED BY <2>1, <2>3, <3>1 DEF Bind, Decide, Authorized, locals
    <2>4. CASE \/ \E o \in Offer : Submit(o) \/ LapseOffer(o)
               \/ \E q \in Ranking : ReadOffers(q)
               \/ \E d \in Acceptance : LapseReservation(d)
               \/ \E k \in Offer \X Key : LapseResponse(k)
      BY <2>1, <2>4 DEF Submit, LapseOffer, ReadOffers, LapseReservation,
         LapseResponse, locals, rows, Authorized
    <2> QED BY <2>2, <2>3, <2>4
  <1> QED BY <1>1, <1>2, <1>3, MadeQuiet

\* A rollback leaves every row as it was.
LEMMA MadeRollback ==
  ASSUME Inv, NEW t \in Tx, Rollback(t)
  PROVE  Made'
  <1> USE DEF Inv
  <1>1. UNCHANGED <<consumption, reservation, idempotency, answer, request, clock,
                    allocation, approval, frozen>>
    BY DEF Rollback, rows, locals
  <1>2. \A c \in Acceptance : /\ pc[c] = "done" => pc'[c] = "done"
                              /\ pc'[c] = "checked" => pc[c] = "checked"
    BY DEF Rollback, Goto, Typed, TypeOK, Tx
  <1>3. \A c \in Acceptance : pc[c] = "checked" => Authorized(request[c])'
    BY <1>1 DEF Made, CheckedHolds, Authorized
  <1> QED BY <1>1, <1>2, <1>3, MadeQuiet

\* An acceptance that begins has no reservation, so nobody counts on its request.
LEMMA MadeBegin ==
  ASSUME Inv, NEW c \in Acceptance, BeginAcceptance(c)
  PROVE  Made'
  <1> USE DEF Inv
  <1>1. UNCHANGED <<consumption, reservation, idempotency, answer, allocation,
                    approval, frozen>>
    BY DEF BeginAcceptance, rows
  <1>2. /\ pc[c] = "idle" /\ pc'[c] = "begun"
        /\ \A d \in Acceptance : d # c => /\ pc'[d] = pc[d]
                                         /\ request'[d] = request[d]
                                         /\ clock'[d] = clock[d]
    BY DEF BeginAcceptance, Goto, Typed, TypeOK, Tx
  <1>3. reservation[c] = "none" /\ answer[c] = None
    BY <1>2 DEF Made, MadeWhenDone
  <1>4. MadeWhenDone'
    BY <1>1, <1>2, <1>3 DEF Made, MadeWhenDone
  <1>5. CheckedHolds'
    BY <1>1, <1>2, <1>3
    DEF Made, CheckedHolds, Spent, Conflicts, Elapsed, Authorized
  <1>6. SpentOnReservation'
    BY <1>1, <1>2, <1>3 DEF Made, SpentOnReservation, Spent
  <1>7. StoredIsSpent' /\ OneActiveReservation'
    BY <1>1 DEF Made, StoredIsSpent, OneActiveReservation
  <1>8. SpentOnce' /\ AnswersAgree'
    BY <1>1, <1>2, <1>3 DEF Made, SpentOnce, AnswersAgree
  <1> QED BY <1>4, <1>5, <1>6, <1>7, <1>8 DEF Made

\* Steps that only lock, check or refuse: Check is the one that has to
\* establish what CheckedHolds says.
LEMMA MadeWaiting ==
  ASSUME Inv, NEW c \in Acceptance,
         LockOffer(c) \/ LockTrade(c) \/ LockApproval(c) \/ Check(c) \/ Refuse(c)
  PROVE  Made'
  <1> USE DEF Inv
  <1>1. UNCHANGED <<consumption, reservation, idempotency, answer, request, clock,
                    allocation, approval, frozen>>
    BY DEF LockOffer, LockTrade, LockApproval, Check, Refuse, rows, locals
  <1>2. CASE Check(c)
    <2>1. /\ pc[c] = "approval" /\ pc'[c] = "checked"
          /\ \A d \in Acceptance : d # c => pc'[d] = pc[d]
      BY <1>2 DEF Check, Goto, Typed, TypeOK, Tx
    <2>2. Reservable(c)
      BY <1>2 DEF Check
    <2>3. CheckedHolds'
      BY <1>1, <2>1, <2>2 DEF Made, CheckedHolds, Reservable, Authorized, Spent,
         Conflicts, Elapsed
    <2>4. MadeWhenDone'
      BY <1>1, <2>1 DEF Made, MadeWhenDone
    <2>5. SpentOnReservation' /\ StoredIsSpent'
      BY <1>1 DEF Made, SpentOnReservation, StoredIsSpent, Spent
    <2>6. OneActiveReservation' /\ SpentOnce' /\ AnswersAgree'
      BY <1>1 DEF Made, OneActiveReservation, SpentOnce, AnswersAgree
    <2> QED BY <2>3, <2>4, <2>5, <2>6 DEF Made
  <1>3. CASE LockOffer(c) \/ LockTrade(c) \/ LockApproval(c) \/ Refuse(c)
    <2>1. \A d \in Acceptance : /\ pc[d] = "done" => pc'[d] = "done"
                                /\ pc'[d] = "checked" => pc[d] = "checked"
      BY <1>3 DEF LockOffer, LockTrade, LockApproval, Refuse, Goto, Typed, TypeOK, Tx
    <2>2. \A d \in Acceptance : pc[d] = "checked" => Authorized(request[d])'
      BY <1>1 DEF Made, CheckedHolds, Authorized
    <2> QED BY <1>1, <2>1, <2>2, MadeQuiet
  <1> QED BY <1>2, <1>3

\* What PutResponse stores is true of the consumption it leaves behind.
LEMMA PutSound ==
  ASSUME Typed, NEW c \in Acceptance, pc[c] # "idle", NEW d \in Acceptance,
         PutResponse(c, d), StoredIsSpent,
         consumption'[request[c].approval] = d,
         \A a \in Approval : Spent(a) => consumption'[a] = consumption[a]
  PROVE  StoredIsSpent'
  <1> DEFINE response == [approval |-> request[c].approval,
                          allocation |-> allocation[request[c].offer],
                          reservation |-> d]
  <1>1. response \in Responses
    BY DEF Typed, RequestsKnown, TypeOK, Requests, Responses
  <1>2. ASSUME NEW k \in Offer \X Key, idempotency'[k] # None
        PROVE  \/ idempotency'[k] = response
               \/ idempotency[k] # None /\ idempotency'[k] = idempotency[k]
    BY <1>2 DEF PutResponse, Typed, TypeOK
  <1>3. ASSUME NEW k \in Offer \X Key, idempotency[k] # None
        PROVE  /\ idempotency[k] \in Responses
               /\ consumption'[idempotency[k].approval] = idempotency[k].reservation
    <2>1. /\ idempotency[k] \in Responses
          /\ consumption[idempotency[k].approval] = idempotency[k].reservation
      BY <1>3 DEF StoredIsSpent
    <2>2. Spent(idempotency[k].approval)
      BY <2>1, DisjointAssumption DEF Responses, Spent, Tx
    <2> QED BY <2>1, <2>2 DEF Responses
  <1> QED BY <1>1, <1>2, <1>3 DEF StoredIsSpent

\* A replay, of the key's response or of the approval's consumption, answers
\* with the reservation of the approval and writes at most the response.
LEMMA MadeReplay ==
  ASSUME Inv, NEW c \in Acceptance, Replay(c) \/ ReplayConsumption(c)
  PROVE  Made'
  <1> USE DEF Inv
  <1>1. /\ request[c] \in Requests
        /\ pc[c] \in {"trade", "approval"}
    BY DEF Typed, RequestsKnown, Replay, ReplayConsumption
  <1>2. UNCHANGED <<consumption, reservation, request, clock, allocation,
                    approval, frozen>>
    BY DEF Replay, ReplayConsumption, rows
  <1>3. /\ pc'[c] = "done"
        /\ \A d \in Acceptance : d # c => /\ pc'[d] = pc[d]
                                         /\ answer'[d] = answer[d]
    BY DEF Replay, ReplayConsumption, Answer, Goto, Typed, TypeOK, Tx
  <1>4. /\ answer'[c] = consumption[request[c].approval]
        /\ Spent(request[c].approval)
        /\ StoredIsSpent'
    <2>1. CASE Replay(c)
      <3>1. RouteKey(c) \in Offer \X Key
        BY <1>1 DEF RouteKey, Requests
      <3>2. /\ Stored(c) = idempotency[RouteKey(c)]
            /\ idempotency[RouteKey(c)] # None
        BY <2>1 DEF Replay, Stored
      <3>3. /\ Stored(c) \in Responses
            /\ consumption[Stored(c).approval] = Stored(c).reservation
        BY <3>1, <3>2 DEF Made, StoredIsSpent
      <3>4. answer'[c] = Stored(c).reservation
        BY <2>1 DEF Replay, Answer, Typed, TypeOK
      <3>5. Stored(c).approval = request[c].approval
        BY <2>1 DEF Replay, SameRequest
      <3>6. StoredIsSpent'
        BY <2>1 DEF Replay, rows, Made, StoredIsSpent
      <3> QED
        BY <3>3, <3>4, <3>5, <3>6, DisjointAssumption DEF Responses, Spent, Tx
    <2>2. CASE ReplayConsumption(c)
      <3>1. /\ Spent(request[c].approval)
            /\ answer'[c] = consumption[request[c].approval]
            /\ PutResponse(c, consumption[request[c].approval])
        BY <2>2 DEF ReplayConsumption, Answer, Typed, TypeOK
      <3>2. consumption[request[c].approval] \in Acceptance
        BY <1>1, <3>1 DEF Made, SpentOnReservation, Requests
      <3>3. StoredIsSpent'
        BY <1>1, <1>2, <3>1, <3>2, PutSound DEF Made
      <3> QED BY <3>1, <3>3
    <2> QED BY <2>1, <2>2
  <1>5. MadeWhenDone'
    BY <1>2, <1>3 DEF Made, MadeWhenDone
  <1>6. CheckedHolds'
    BY <1>2, <1>3 DEF Made, CheckedHolds, Authorized, Spent, Conflicts, Elapsed
  <1>7. SpentOnReservation' /\ OneActiveReservation' /\ SpentOnce'
    BY <1>2 DEF Made, SpentOnReservation, OneActiveReservation, SpentOnce, Spent
  <1>8. AnswersAgree'
    <2>1. reservation[consumption[request[c].approval]] # "none"
      BY <1>1, <1>4 DEF Made, SpentOnReservation, Requests
    <2> QED BY <1>2, <1>3, <1>4, <2>1 DEF Made, AnswersAgree
  <1> QED BY <1>4, <1>5, <1>6, <1>7, <1>8 DEF Made

\* The commit: the trade's lock keeps every other acceptance from its checks,
\* so the checks of c still hold, and the approval is spent for the first time.
LEMMA MadeReserve ==
  ASSUME Inv, NEW c \in Acceptance, Reserve(c)
  PROVE  Made'
  <1> DEFINE a == request[c].approval
  <1> USE DisjointAssumption DEF Inv
  <1>1. /\ request[c] \in Requests
        /\ a \in Approval
        /\ pc[c] = "checked"
        /\ Authorized(request[c])
        /\ consumption[a] = None
        /\ ~Conflicts(c)
    BY DEF Typed, RequestsKnown, Requests, Reserve, Made, CheckedHolds, Spent
  <1>2. UNCHANGED <<request, clock, allocation, approval, frozen>>
    BY DEF Reserve
  <1>3. /\ reservation'[c] = "active"
        /\ \A d \in Acceptance : d # c =>
             /\ reservation'[d] # "active"
             /\ reservation'[d] # "none" <=> reservation[d] # "none"
    BY <1>1 DEF Reserve, Conflicts
  <1>4. /\ consumption'[a] = c
        /\ \A b \in Approval : b # a => consumption'[b] = consumption[b]
        /\ \A b \in Approval : Spent(b) => consumption'[b] = consumption[b]
    BY <1>1 DEF Reserve, Spent, Typed, TypeOK
  <1>5. /\ pc'[c] = "done" /\ answer'[c] = c
        /\ \A d \in Acceptance : d # c => /\ pc'[d] = pc[d]
                                         /\ answer'[d] = answer[d]
    BY DEF Reserve, Answer, Goto, Typed, TypeOK, Tx
  <1>6. MadeWhenDone'
    BY <1>3, <1>5 DEF Made, MadeWhenDone
  <1>7. CheckedHolds'
    <2>1. \A d \in Acceptance : d # c => pc[d] # "checked"
      BY <1>1 DEF LocksHeld, Holds
    <2> QED BY <1>5, <2>1 DEF CheckedHolds
  <1>8. SpentOnReservation'
    BY <1>1, <1>2, <1>3, <1>4 DEF Made, SpentOnReservation, Spent, Tx
  <1>9. StoredIsSpent'
    <2>1. PutResponse(c, c)
      BY DEF Reserve
    <2> QED BY <1>1, <1>4, <2>1, PutSound DEF Made
  <1>10. OneActiveReservation'
    BY <1>3 DEF OneActiveReservation
  <1>11. SpentOnce'
    <2>1. \A d \in Acceptance : reservation[d] # "none" => pc[d] # "idle"
      BY DEF Made, MadeWhenDone
    <2>2. ASSUME NEW d \in Acceptance, d # c, reservation[d] # "none"
          PROVE  consumption'[request[d].approval] = d
      <3>1. request[d].approval \in Approval
        BY <2>1, <2>2 DEF Typed, RequestsKnown, Requests
      <3>2. consumption[request[d].approval] = d
        BY <2>2 DEF Made, SpentOnce
      <3> QED BY <1>1, <1>4, <3>1, <3>2 DEF Tx
    <2> QED
      BY <1>1, <1>2, <1>3, <1>4, <2>2 DEF Made, SpentOnce, Authorized
  <1>12. AnswersAgree'
    <2>1. ASSUME NEW d \in Acceptance, d # c, answer[d] # None
          PROVE  /\ answer[d] \in Acceptance
                 /\ consumption'[request[d].approval] = answer[d]
                 /\ reservation[answer[d]] # "none"
      <3>1. pc[d] # "idle"
        BY <2>1 DEF Made, MadeWhenDone
      <3>2. request[d].approval \in Approval
        BY <3>1 DEF Typed, RequestsKnown, Requests
      <3>3. /\ answer[d] = consumption[request[d].approval]
            /\ reservation[answer[d]] # "none"
        BY <2>1 DEF Made, AnswersAgree
      <3>4. answer[d] \in Acceptance
        BY <2>1 DEF Typed, TypeOK
      <3> QED BY <1>4, <2>1, <3>2, <3>3, <3>4 DEF Spent
    <2> QED BY <1>2, <1>3, <1>4, <1>5, <2>1 DEF AnswersAgree
  <1> QED
    BY <1>6, <1>7, <1>8, <1>9, <1>10, <1>11, <1>12 DEF Made
-----------------------------------------------------------------------------
(* The invariant and what follows from it                                    *)

\* Init establishes the invariant.
LEMMA InvInit == Init => Inv
  <1> SUFFICES ASSUME Init PROVE Inv
    OBVIOUS
  <1>1. \A c \in Acceptance : pc[c] = "idle" /\ reservation[c] = "none"
                                          /\ answer[c] = None
    BY DEF Init, Tx
  <1>2. (\A a \in Approval : consumption[a] = None)
        /\ \A k \in Offer \X Key : idempotency[k] = None
    BY DEF Init
  <1>3. Typed
    BY TypedInit
  <1>4. LocksHeld
    BY <1>1 DEF LocksHeld, Holds
  <1>5. Made
    BY <1>1, <1>2 DEF Made, MadeWhenDone, CheckedHolds, SpentOnReservation, Spent,
       StoredIsSpent, OneActiveReservation, SpentOnce, AnswersAgree
  <1> QED BY <1>3, <1>4, <1>5 DEF Inv

\* Every step keeps the invariant.
LEMMA InvNext ==
  ASSUME Inv, [Next]_vars
  PROVE  Inv'
  <1>1. Typed'
    BY TypedNext DEF Inv
  <1>2. LocksHeld'
    <2>1. CASE UNCHANGED vars
      BY <2>1 DEF Inv, vars, rows, locals, LocksHeld, Holds
    <2>2. CASE Next
      BY <2>2, LocksEnvironment, LocksAcceptance, LocksRollback DEF Inv, Next
    <2> QED BY <2>1, <2>2
  <1>3. Made'
    <2>1. CASE UNCHANGED vars
      <3>1. UNCHANGED <<consumption, reservation, idempotency, answer, request,
                        clock, pc, allocation, approval, frozen>>
        BY <2>1 DEF vars, rows, locals
      <3>2. \A c \in Acceptance : pc[c] = "checked" => Authorized(request[c])'
        BY <3>1 DEF Inv, Made, CheckedHolds, Authorized
      <3> QED BY <3>1, <3>2, MadeQuiet DEF Inv
    <2>2. ASSUME NEW c \in Acceptance, BeginAcceptance(c) \/ AcceptanceStep(c)
          PROVE  Made'
      BY <2>2, MadeBegin, MadeWaiting, MadeReplay, MadeReserve DEF AcceptanceStep
    <2>3. CASE Next
      BY <2>2, <2>3, MadeEnvironment, MadeRollback DEF Next
    <2> QED BY <2>1, <2>3
  <1> QED BY <1>1, <1>2, <1>3 DEF Inv

\* The inductive invariant holds in every reachable state.
THEOREM Invariance == Spec => []Inv
  BY InvInit, InvNext, PTL DEF Spec

\* However many offers of a trade are accepted at once, with whatever clocks,
\* the trade never has two active reservations (finance.ts:333, 428).
THEOREM AtMostOneReservation == Spec => []OneActiveReservation
  <1>1. Inv => OneActiveReservation
    BY DEF Inv, Made
  <1> QED BY <1>1, Invariance, PTL

\* Every reservation has spent its own approval, of its own offer.
THEOREM ReservationsAreSpent == Spec => []SpentOnce
  <1>1. Inv => SpentOnce
    BY DEF Inv, Made
  <1> QED BY <1>1, Invariance, PTL

\* Replays agree with the reservation made, expired keys included.
THEOREM AnswersAreReservations == Spec => []AnswersAgree
  <1>1. Inv => AnswersAgree
    BY DEF Inv, Made
  <1> QED BY <1>1, Invariance, PTL

\* No decision or ranking slips between the checks and the reservation.
THEOREM ReservationsAreAuthorised == Spec => ReservedAsApproved
  <1>1. ASSUME Inv, [Next]_vars, NEW c \in Acceptance,
               reservation[c] = "none", reservation'[c] # "none"
        PROVE  /\ approval[request[c].approval] = "approved"
               /\ frozen[request[c].approval] = allocation[request[c].offer]
    <2>1. PICK d \in Acceptance : Reserve(d)
      BY <1>1 DEF Next, vars, rows, locals, Submit, LapseOffer, ReadOffers,
         StoreRanking, Bind, Decide, BeginAcceptance, LapseReservation,
         LapseResponse, Rollback, AcceptanceStep, LockOffer, LockTrade,
         LockApproval, Replay, ReplayConsumption, Check, Refuse
    <2>2. c = d
      BY <1>1, <2>1 DEF Reserve
    <2> QED
      BY <1>1, <2>1, <2>2 DEF Reserve, Inv, Made, CheckedHolds, Authorized
  <1>2. Inv /\ [Next]_vars =>
          [\A c \in Acceptance :
             reservation[c] = "none" /\ reservation'[c] # "none" =>
               /\ approval[request[c].approval] = "approved"
               /\ frozen[request[c].approval] = allocation[request[c].offer]]_vars
    BY <1>1
  <1> QED BY <1>2, Invariance, PTL DEF Spec, ReservedAsApproved
-----------------------------------------------------------------------------
(* The refinement: every step is a step of ReservationOnce or leaves it alone *)

\* No acceptance has a clock that is ahead: what it saw pass has passed.
ClocksBehind ==
  \A c \in Acceptance :
    /\ clock[c].offers \subseteq lapsed.offers
    /\ clock[c].reservations \subseteq lapsed.reservations

\* No clock has started initially.
LEMMA ClocksInit == Init => ClocksBehind
  BY DEF Init, ClocksBehind

\* Only the beginning of an acceptance reads the clock, and what it is asked.
LEMMA ClockWriter ==
  ASSUME Next
  PROVE  \/ request' = request /\ clock' = clock
         \/ \E c \in Acceptance : BeginAcceptance(c)
  BY DEF Next, locals, Submit, LapseOffer, ReadOffers, StoreRanking, Bind,
     Decide, LapseReservation, LapseResponse, Rollback, AcceptanceStep,
     LockOffer, LockTrade, Replay, LockApproval, ReplayConsumption, Check,
     Reserve, Refuse

\* A clock starts at what has lapsed, and nothing that has lapsed comes back.
LEMMA ClocksStep == Inv /\ ClocksBehind /\ [Next]_vars => ClocksBehind'
  <1> SUFFICES ASSUME Inv, ClocksBehind, [Next]_vars, NEW c \in Acceptance
               PROVE  /\ clock'[c].offers \subseteq lapsed'.offers
                      /\ clock'[c].reservations \subseteq lapsed'.reservations
    BY DEF ClocksBehind
  <1>1. lapsed \in Times /\ clock \in [Acceptance -> Times]
    BY DEF Inv, Typed, TypeOK
  <1>2. /\ lapsed.offers \subseteq lapsed'.offers
        /\ lapsed.reservations \subseteq lapsed'.reservations
    <2>1. \/ lapsed' = lapsed
          \/ \E o \in Offer : LapseOffer(o)
          \/ \E d \in Acceptance : LapseReservation(d)
          \/ \E k \in Offer \X Key : LapseResponse(k)
      BY DEF Next, vars, Submit, ReadOffers, StoreRanking, Bind, Decide,
         BeginAcceptance, AcceptanceStep, LockOffer, LockTrade, Replay,
         LockApproval, ReplayConsumption, Check, Reserve, Refuse, Rollback
    <2> QED BY <1>1, <2>1 DEF LapseOffer, LapseReservation, LapseResponse, Times
  <1>3. clock' = clock \/ \E d \in Acceptance : BeginAcceptance(d)
    BY ClockWriter DEF vars, locals
  <1>4. clock'[c] = clock[c] \/ clock'[c] = lapsed
    BY <1>1, <1>3 DEF BeginAcceptance
  <1> QED BY <1>2, <1>4 DEF ClocksBehind

\* Where only approvals and allocations change the step is a Regrant.
LEMMA Regranting ==
  ASSUME UNCHANGED <<request, pc, consumption, reservation, lapsed, answer>>
  PROVE  Once!Regrant
  BY DEF Once!Regrant, Granted, Asked, ActiveOnes, Lapsed

\* Where nothing that the mapping reads changes, but for the place of one that
\* is under way, the step is a stutter.
LEMMA Stuttering ==
  ASSUME UNCHANGED <<approval, frozen, allocation, request, consumption,
                     reservation, answer>>,
         lapsed'.offers = lapsed.offers,
         lapsed'.reservations = lapsed.reservations,
         \A c \in Acceptance : pc'[c] # "idle" <=> pc[c] # "idle"
  PROVE  UNCHANGED Once!vars
  BY DEF Once!vars, Granted, Asked, ActiveOnes, Lapsed

\* The initial states are initial states of ReservationOnce ...
LEMMA RefinesInit == Init => Once!Init
  BY DEF Init, Once!Init, Granted, Asked, ActiveOnes, Lapsed, Tx

\* ... a repeated acceptance repeats, ...
LEMMA RefinesRepeat ==
  ASSUME Inv, NEW c \in Acceptance, Replay(c) \/ ReplayConsumption(c)
  PROVE  Once!Repeat(c)
  <1> DEFINE a == request[c].approval
  <1>1. /\ request[c] \in Requests /\ answer[c] = None
        /\ pc[c] # "idle" /\ pc \in [Tx -> {"idle", "begun", "read", "offer", "trade", "approval",
                     "checked", "done", "refused", "failed"}]
        /\ answer \in [Acceptance -> Acceptance \cup {None}]
    BY DEF Replay, ReplayConsumption, Inv, Typed, TypeOK, RequestsKnown, Made,
       MadeWhenDone
  <1>2. consumption[a] # None /\ answer' = [answer EXCEPT ![c] = consumption[a]]
    <2>1. CASE Replay(c)
      <3>1. /\ Stored(c) = idempotency[RouteKey(c)] /\ Stored(c) # None
            /\ RouteKey(c) \in Offer \X Key
        BY <1>1, <2>1 DEF Replay, Stored, RouteKey, Requests
      <3>2. /\ Stored(c) \in Responses
            /\ consumption[Stored(c).approval] = Stored(c).reservation
        BY <3>1 DEF Inv, Made, StoredIsSpent
      <3>3. Stored(c).reservation # None
        BY <3>2, DisjointAssumption DEF Responses, Tx
      <3> QED BY <2>1, <3>2, <3>3 DEF Replay, SameRequest, Answer
    <2>2. CASE ReplayConsumption(c)
      BY <2>2 DEF ReplayConsumption, Spent, Answer
    <2> QED BY <2>1, <2>2
  <1>3. \A d \in Acceptance : pc'[d] # "idle" <=> pc[d] # "idle"
    BY <1>1 DEF Replay, ReplayConsumption, Answer, Goto, Tx
  <1>4. UNCHANGED <<approval, frozen, allocation, request, consumption,
                    reservation, lapsed>>
    BY DEF Replay, ReplayConsumption, rows
  <1>5. UNCHANGED <<Granted, Asked, ActiveOnes, Lapsed>>
    BY <1>3, <1>4 DEF Granted, Asked, ActiveOnes, Lapsed
  <1>6. c \in DOMAIN Asked /\ Asked[c].approval = a
    BY <1>1 DEF Asked
  <1> QED BY <1>1, <1>2, <1>4, <1>5, <1>6 DEF Once!Repeat, Once!Waits

\* ... one that reserves takes the trade from a reservation that is over, ...
LEMMA RefinesReserve ==
  ASSUME Inv, ClocksBehind, NEW c \in Acceptance, Reserve(c)
  PROVE  Once!Reserve(c)
  <1> DEFINE a == request[c].approval
  <1>1. /\ request[c] \in Requests /\ answer[c] = None
        /\ pc[c] = "checked"
        /\ pc \in [Tx -> {"idle", "begun", "read", "offer", "trade", "approval",
                     "checked", "done", "refused", "failed"}]
        /\ reservation \in [Acceptance -> {"none", "active", "expired"}]
    BY DEF Reserve, Inv, Typed, TypeOK, RequestsKnown, Made, MadeWhenDone
  <1>2. Authorized(request[c]) /\ ~Spent(a) /\ ~Conflicts(c)
    BY <1>1 DEF Inv, Made, CheckedHolds
  <1>3. a \in Granted /\ OfferOf[a] = request[c].offer /\ consumption[a] = None
    BY <1>1, <1>2 DEF Authorized, Spent, Granted, Requests
  <1>4. c \in DOMAIN Asked /\ Asked[c].approval = a
        /\ Asked[c].offer = request[c].offer
    BY <1>1 DEF Asked
  <1>5. ASSUME NEW d \in ActiveOnes PROVE Once!Over(d)
    <2>1. d \in Acceptance /\ reservation[d] = "active" /\ Elapsed(c, d)
      BY <1>2, <1>5 DEF ActiveOnes, Conflicts
    <2>2. pc[d] = "done"
      BY <2>1 DEF Inv, Made, MadeWhenDone
    <2>3. Asked[d].offer = request[d].offer
      BY <2>1, <2>2 DEF Asked
    <2> QED BY <2>1, <2>3 DEF Once!Over, Elapsed, ClocksBehind, Lapsed
  <1>6. ActiveOnes' = {c}
    BY <1>1, <1>2 DEF Reserve, ActiveOnes, Conflicts
  <1>7. \A d \in Acceptance : pc'[d] # "idle" <=> pc[d] # "idle"
    BY <1>1 DEF Reserve, Answer, Goto, Tx
  <1>8. UNCHANGED <<Granted, Asked, Lapsed>>
    BY <1>7 DEF Reserve, Granted, Asked, Lapsed
  <1> QED BY <1>1, <1>3, <1>4, <1>5, <1>6, <1>8
          DEF Reserve, Answer, Once!Reserve, Once!Waits

\* ... and every other step grants, asks, lets time pass or does nothing.
LEMMA RefinesStep == Inv /\ ClocksBehind /\ [Next]_vars => [Once!Next]_Once!vars
  <1> SUFFICES ASSUME Inv, ClocksBehind, [Next]_vars
               PROVE  [Once!Next]_Once!vars
    OBVIOUS
  <1>0. pc = [t \in Tx |-> pc[t]] /\ lapsed \in Times
    BY DEF Inv, Typed, TypeOK
  <1>1. CASE UNCHANGED vars
    BY <1>1, Stuttering DEF vars, rows, locals
  <1>2. ASSUME NEW o \in Offer, Submit(o) PROVE UNCHANGED Once!vars
    BY <1>2, Stuttering DEF Submit, locals
  <1>3. ASSUME NEW o \in Offer, LapseOffer(o) PROVE Once!Lapse
    <2>1. /\ lapsed'.offers = lapsed.offers \cup {o}
          /\ lapsed'.reservations = lapsed.reservations
      BY <1>0, <1>3 DEF LapseOffer, Times
    <2>2. Lapsed' = [Lapsed EXCEPT !.offers = @ \cup {o}]
      BY <2>1 DEF Lapsed
    <2>3. UNCHANGED <<Granted, Asked, consumption, ActiveOnes, answer>>
      BY <1>3 DEF LapseOffer, rows, locals, Granted, Asked, ActiveOnes
    <2> QED BY <2>2, <2>3 DEF Once!Lapse
  <1>4. ASSUME NEW q \in Ranking, ReadOffers(q) PROVE UNCHANGED Once!vars
    BY <1>0, <1>4, DisjointAssumption, Stuttering DEF ReadOffers, Goto, rows, Tx
  <1>5. ASSUME NEW q \in Ranking, StoreRanking(q) PROVE Once!Regrant
    <2>1. \A c \in Acceptance : pc'[c] = pc[c]
      BY <1>0, <1>5, DisjointAssumption DEF StoreRanking, Goto, Tx
    <2> QED BY <1>5, <2>1 DEF StoreRanking, locals, Once!Regrant, Granted, Asked,
               ActiveOnes, Lapsed
  <1>6. ASSUME NEW a \in Approval, Bind(a) \/ Decide(a) PROVE Once!Regrant
    BY <1>6, Regranting DEF Bind, Decide, locals
  <1>7. ASSUME NEW c \in Acceptance, BeginAcceptance(c) PROVE Once!Ask(c)
    <2>1. PICK r \in Requests : request' = [request EXCEPT ![c] = r]
      BY <1>7 DEF BeginAcceptance
    <2> DEFINE ask == [offer |-> r.offer, approval |-> r.approval]
    <2>2. ask \in [offer : Offer, approval : Approval]
      BY DEF Requests
    <2>3. /\ pc[c] = "idle" /\ pc' = [pc EXCEPT ![c] = "begun"]
          /\ request \in [Acceptance -> Requests \cup {None}]
      BY <1>7 DEF BeginAcceptance, Goto, Inv, Typed, TypeOK
    <2>4. c \notin DOMAIN Asked
      BY <2>3 DEF Asked
    <2>5. Asked' = [d \in DOMAIN Asked \cup {c} |-> IF d = c THEN ask ELSE Asked[d]]
      <3>1. {d \in Acceptance : pc'[d] # "idle"} = DOMAIN Asked \cup {c}
        BY <1>0, <2>3 DEF Asked, Tx
      <3>2. \A d \in DOMAIN Asked : d # c /\ d \in Acceptance /\ request'[d] = request[d]
        BY <2>1, <2>3 DEF Asked
      <3>3. request'[c] = r
        BY <2>1, <2>3
      <3> QED BY <3>1, <3>2, <3>3 DEF Asked
    <2>6. UNCHANGED <<Granted, ActiveOnes, Lapsed, consumption, answer>>
      BY <1>7 DEF BeginAcceptance, rows, Granted, ActiveOnes, Lapsed
    <2> QED BY <2>2, <2>4, <2>5, <2>6 DEF Once!Ask
  <1>8. ASSUME NEW c \in Acceptance, AcceptanceStep(c)
        PROVE  Once!Reserve(c) \/ Once!Repeat(c) \/ UNCHANGED Once!vars
    <2>1. CASE Reserve(c)
      BY <2>1, RefinesReserve
    <2>2. CASE Replay(c) \/ ReplayConsumption(c)
      BY <2>2, RefinesRepeat
    <2>3. CASE LockOffer(c) \/ LockTrade(c) \/ LockApproval(c) \/ Check(c) \/ Refuse(c)
      <3>1. \A d \in Acceptance : pc'[d] # "idle" <=> pc[d] # "idle"
        BY <1>0, <2>3 DEF LockOffer, LockTrade, LockApproval, Check, Refuse, Goto, Tx
      <3>2. UNCHANGED <<rows, lapsed, locals>>
        BY <2>3 DEF LockOffer, LockTrade, LockApproval, Check, Refuse
      <3> QED BY <3>1, <3>2, Stuttering DEF rows, locals
    <2> QED BY <1>8, <2>1, <2>2, <2>3 DEF AcceptanceStep
  <1>9. ASSUME NEW c \in Acceptance, LapseReservation(c) PROVE Once!Lapse
    <2>1. /\ lapsed'.reservations = lapsed.reservations \cup {c}
          /\ lapsed'.offers = lapsed.offers
      BY <1>0, <1>9 DEF LapseReservation, Times
    <2>2. Lapsed' = [Lapsed EXCEPT !.reservations = @ \cup {c}]
      <3>1. Lapsed' = [offers |-> lapsed.offers,
                       reservations |-> lapsed.reservations \cup {c}]
        BY <2>1, Zenon DEF Lapsed
      <3>2. Lapsed = [offers |-> lapsed.offers, reservations |-> lapsed.reservations]
        BY DEF Lapsed
      <3> QED BY <3>1, <3>2
    <2>3. UNCHANGED <<Granted, Asked, consumption, ActiveOnes, answer>>
      BY <1>9 DEF LapseReservation, rows, locals, Granted, Asked, ActiveOnes
    <2> QED BY <2>2, <2>3 DEF Once!Lapse
  <1>10. ASSUME NEW k \in Offer \X Key, LapseResponse(k)
         PROVE  UNCHANGED Once!vars
    BY <1>0, <1>10, Stuttering DEF LapseResponse, rows, locals, Times
  <1>11. ASSUME NEW t \in Tx, Rollback(t) PROVE UNCHANGED Once!vars
    <2>1. \A d \in Acceptance : pc'[d] # "idle" <=> pc[d] # "idle"
      BY <1>0, <1>11 DEF Rollback, Goto, Tx
    <2> QED BY <1>11, <2>1, Stuttering DEF Rollback, rows, locals
  <1> QED
    BY <1>1, <1>2, <1>3, <1>4, <1>5, <1>6, <1>7, <1>8, <1>9, <1>10, <1>11
    DEF Next, Once!Next

\* acceptOffer implements ReservationOnce: one reservation for an approval, of
\* its offer, while it is in force, and the trade is taken only from one whose
\* time has passed.
THEOREM Refinement == Spec => ReservesOnce
  BY ClocksInit, ClocksStep, RefinesInit, RefinesStep, Invariance, PTL
  DEF Spec, ReservesOnce, Once!Spec
=============================================================================
