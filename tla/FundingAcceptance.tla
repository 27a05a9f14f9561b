------------------------- MODULE FundingAcceptance -------------------------
(***************************************************************************)
(* The funding offers of one trade: financiers submit offers, rankings     *)
(* rewrite the allocation of each, approvals freeze an offer as it is, and *)
(* acceptances turn an approved offer into the trade's one reservation     *)
(* (apps/api/src/services/finance.ts, partners.ts).                        *)
(*                                                                         *)
(* acceptOffer locks the offer, then the trade, then its idempotency key,  *)
(* then the approval.  The key's name contains the offer, so whoever may   *)
(* lock it holds the offer already and its lock is not represented.        *)
(***************************************************************************)
EXTENDS FiniteSets

CONSTANTS
  Trade,
  Offer,       \* rows of finance_offers of the trade
  Approval,    \* approvals of the action accept_funding_offer
  Key,         \* values of the Idempotency-Key header
  Acceptance,  \* acceptOffer requests; each makes at most one reservation
  Ranking,     \* requestOffers requests
  OfferOf,     \* the offer an approval was requested for
  None

Lockable == {Trade} \cup Offer \cup Approval
Tx == Acceptance \cup Ranking

ASSUME OfferOfAssumption == OfferOf \in [Approval -> Offer]
ASSUME DisjointAssumption ==
  /\ Trade \notin Offer \cup Approval
  /\ Offer \cap Approval = {}
  /\ Acceptance \cap Ranking = {}
  /\ None \notin Tx \cup Approval

VARIABLES
  offered,      \* the offers that have been submitted
  allocation,   \* allocation_json: the offers an offer was ranked among
  approval,     \* status of an approval; "absent" until it is requested
  frozen,       \* protected_execution_binding: the allocation it is bound to
  consumption,  \* protected_execution_consumption: the reservation, by its maker
  reservation,  \* reservations.status, by the acceptance that made it
  idempotency,  \* the stored response of a key of an offer's route
  lapsed,       \* offers, reservations and responses past their expires_at
  lock, pc,
  seen,         \* the offers a ranking has read
  request,      \* what an acceptance asks for
  clock,        \* now() of an acceptance: what had lapsed when it began
  answer        \* the reservation an acceptance returned to its client

rows == <<offered, allocation, approval, frozen, consumption, reservation,
          idempotency>>
locals == <<seen, request, clock, answer>>
vars == <<rows, lapsed, lock, pc, locals>>

Requests == [offer : Offer, approval : Approval, key : Key]
Responses == [approval : Approval, allocation : SUBSET Offer,
              reservation : Acceptance]
Times == [offers : SUBSET Offer, reservations : SUBSET Acceptance,
          responses : SUBSET (Offer \X Key)]

Init ==
  /\ offered = {}
  /\ allocation = [o \in Offer |-> {}]
  /\ approval = [a \in Approval |-> "absent"]
  /\ frozen = [a \in Approval |-> {}]
  /\ consumption = [a \in Approval |-> None]
  /\ reservation = [c \in Acceptance |-> "none"]
  /\ idempotency = [k \in Offer \X Key |-> None]
  /\ lapsed = [offers |-> {}, reservations |-> {}, responses |-> {}]
  /\ lock = [l \in Lockable |-> None]
  /\ pc = [t \in Tx |-> "idle"]
  /\ seen = [q \in Ranking |-> {}]
  /\ request = [c \in Acceptance |-> None]
  /\ clock = [c \in Acceptance |-> lapsed]
  /\ answer = [c \in Acceptance |-> None]
-----------------------------------------------------------------------------
Goto(t, label) == pc' = [pc EXCEPT ![t] = label]

Acquire(t, l) ==
  /\ lock[l] = None
  /\ lock' = [lock EXCEPT ![l] = t]

Release(t) == lock' = [l \in Lockable |-> IF lock[l] = t THEN None ELSE lock[l]]
-----------------------------------------------------------------------------
(* partnerSubmitOffers, or the demo offers of requestOffers                  *)

Submit(o) ==
  /\ o \notin offered
  /\ offered' = offered \cup {o}
  /\ UNCHANGED <<allocation, approval, frozen, consumption, reservation,
                 idempotency, lapsed, lock, pc, locals>>
-----------------------------------------------------------------------------
(* requestOffers: the offers are read in one transaction and their ranking   *)
(* is written in another one, offer by offer and then to a table that refers *)
(* to the trade.  A score depends on the other offers that were read; with   *)
(* none there is nothing to rank.                                            *)

ReadOffers(q) ==
  /\ pc[q] = "idle"
  /\ offered # {}
  /\ seen' = [seen EXCEPT ![q] = offered]
  /\ Goto(q, "read")
  /\ UNCHANGED <<rows, lapsed, lock, request, clock, answer>>

StoreRanking(q) ==
  /\ pc[q] = "read"
  /\ \A l \in seen[q] \cup {Trade} : lock[l] = None
  /\ allocation' =
       [o \in Offer |-> IF o \in seen[q] THEN seen[q] ELSE allocation[o]]
  /\ Goto(q, "done")
  /\ UNCHANGED <<offered, approval, frozen, consumption, reservation,
                 idempotency, lapsed, lock, locals>>
-----------------------------------------------------------------------------
(* The approval: createProtectedExecutionBinding freezes the offer; the      *)
(* decision is that of module ProtectedPayment, and may be taken again.      *)

Bind(a) ==
  /\ approval[a] = "absent"
  /\ OfferOf[a] \in offered
  /\ approval' = [approval EXCEPT ![a] = "approval_required"]
  /\ frozen' = [frozen EXCEPT ![a] = allocation[OfferOf[a]]]
  /\ UNCHANGED <<offered, allocation, consumption, reservation, idempotency,
                 lapsed, lock, pc, locals>>

Decide(a) ==
  /\ approval[a] # "absent"
  /\ lock[a] = None
  /\ \E verdict \in {"approved", "rejected"} :
       approval' = [approval EXCEPT ![a] = verdict]
  /\ UNCHANGED <<offered, allocation, frozen, consumption, reservation,
                 idempotency, lapsed, lock, pc, locals>>
-----------------------------------------------------------------------------
(* acceptOffer                                                               *)

BeginAcceptance(c) ==
  /\ pc[c] = "idle"
  /\ \E r \in Requests :
       /\ r.offer \in offered
       /\ approval[r.approval] # "absent"
       /\ request' = [request EXCEPT ![c] = r]
  /\ clock' = [clock EXCEPT ![c] = lapsed]
  /\ Goto(c, "begun")
  /\ UNCHANGED <<rows, lapsed, lock, seen, answer>>

\* loadFundingOfferSnapshot with lock: true
LockOffer(c) ==
  /\ pc[c] = "begun"
  /\ Acquire(c, request[c].offer)
  /\ Goto(c, "offer")
  /\ UNCHANGED <<rows, lapsed, locals>>

\* Mutant: the rows of the trade and of its request are not locked.
LockNoTrade(c) ==
  /\ pc[c] = "offer"
  /\ Goto(c, "trade")
  /\ UNCHANGED <<rows, lapsed, lock, locals>>

\* lockFundingAcceptanceScope
LockTrade(c) ==
  /\ pc[c] = "offer"
  /\ Acquire(c, Trade)
  /\ Goto(c, "trade")
  /\ UNCHANGED <<rows, lapsed, locals>>

RouteKey(c) == <<request[c].offer, request[c].key>>

\* An expired response is not found.
Stored(c) ==
  IF RouteKey(c) \in clock[c].responses THEN None ELSE idempotency[RouteKey(c)]

\* Mutant: any request that reuses the key gets the stored response.
SameKey(c) == TRUE

\* The request hash covers the approval and the offer as it is now.
SameRequest(c) ==
  /\ Stored(c).approval = request[c].approval
  /\ Stored(c).allocation = allocation[request[c].offer]

\* ON CONFLICT DO NOTHING
PutResponse(c, d) ==
  LET response == [approval |-> request[c].approval,
                   allocation |-> allocation[request[c].offer],
                   reservation |-> d] IN
  idempotency' = IF idempotency[RouteKey(c)] = None
                   THEN [idempotency EXCEPT ![RouteKey(c)] = response]
                   ELSE idempotency

Answer(c, d) ==
  /\ answer' = [answer EXCEPT ![c] = d]
  /\ Goto(c, "done")
  /\ Release(c)

Replay(c) ==
  /\ pc[c] = "trade"
  /\ Stored(c) # None
  /\ SameRequest(c)
  /\ Answer(c, Stored(c).reservation)
  /\ UNCHANGED <<rows, lapsed, seen, request, clock>>

\* authorizeProtectedExecution locks the approval.
LockApproval(c) ==
  /\ pc[c] = "trade"
  /\ Stored(c) = None
  /\ Acquire(c, request[c].approval)
  /\ Goto(c, "approval")
  /\ UNCHANGED <<rows, lapsed, locals>>

\* Mutant: the frozen payload is not compared.
AuthorizedOnAnyTerms(r) ==
  /\ approval[r.approval] = "approved"
  /\ OfferOf[r.approval] = r.offer

\* The frozen payload must be the offer as it is now.
Authorized(r) ==
  /\ approval[r.approval] = "approved"
  /\ OfferOf[r.approval] = r.offer
  /\ frozen[r.approval] = allocation[r.offer]

Spent(a) == consumption[a] # None

ReplayConsumption(c) ==
  LET a == request[c].approval IN
  /\ pc[c] = "approval"
  /\ Authorized(request[c])
  /\ Spent(a)
  /\ PutResponse(c, consumption[a])
  /\ Answer(c, consumption[a])
  /\ UNCHANGED <<offered, allocation, approval, frozen, consumption,
                 reservation, lapsed, seen, request, clock>>

\* Mutant: the reservations of the trade expire whatever their time is.
ElapsedAnyway(c, d) == TRUE

\* A reservation expires with its offer or before; now() is when c began.
Elapsed(c, d) ==
  d \in clock[c].reservations \/ request[d].offer \in clock[c].offers

\* assertOfferFresh, by the clock of the process
Fresh(o) == o \notin lapsed.offers

\* findConflictingReservation
Conflicts(c) ==
  \E d \in Acceptance : reservation[d] = "active" /\ ~Elapsed(c, d)

Reservable(c) ==
  /\ Authorized(request[c])
  /\ ~Spent(request[c].approval)
  /\ Fresh(request[c].offer)
  /\ ~Conflicts(c)

Check(c) ==
  /\ pc[c] = "approval"
  /\ Reservable(c)
  /\ Goto(c, "checked")
  /\ UNCHANGED <<rows, lapsed, lock, locals>>

\* The elapsed reservations of the trade expire and the new one is inserted.
Reserve(c) ==
  /\ pc[c] = "checked"
  /\ reservation' = [d \in Acceptance |->
       IF d = c THEN "active"
       ELSE IF reservation[d] = "active" /\ Elapsed(c, d) THEN "expired"
       ELSE reservation[d]]
  /\ consumption' = [consumption EXCEPT ![request[c].approval] = c]
  /\ PutResponse(c, c)
  /\ Answer(c, c)
  /\ UNCHANGED <<offered, allocation, approval, frozen, lapsed, seen, request,
                 clock>>

\* idempotency_conflict, protected_action_not_approved, offer_expired,
\* conflicting_active_reservation
Refuse(c) ==
  /\ \/ pc[c] = "trade" /\ Stored(c) # None /\ ~SameRequest(c)
     \/ /\ pc[c] = "approval"
        /\ ~Reservable(c)
        /\ ~(Authorized(request[c]) /\ Spent(request[c].approval))
  /\ Goto(c, "refused")
  /\ Release(c)
  /\ UNCHANGED <<rows, lapsed, locals>>

\* Any other failure: the role, a missing row, a closed trade or request, a
\* deadlock, a lost process.
Rollback(t) ==
  /\ pc[t] \notin {"idle", "done", "refused", "failed"}
  /\ Goto(t, "failed")
  /\ Release(t)
  /\ UNCHANGED <<rows, lapsed, locals>>
-----------------------------------------------------------------------------
(* Time passes.                                                              *)

LapseOffer(o) ==
  /\ o \in offered \ lapsed.offers
  /\ lapsed' = [lapsed EXCEPT !.offers = @ \cup {o}]
  /\ UNCHANGED <<rows, lock, pc, locals>>

LapseReservation(c) ==
  /\ reservation[c] # "none"
  /\ c \notin lapsed.reservations
  /\ lapsed' = [lapsed EXCEPT !.reservations = @ \cup {c}]
  /\ UNCHANGED <<rows, lock, pc, locals>>

LapseResponse(k) ==
  /\ idempotency[k] # None
  /\ k \notin lapsed.responses
  /\ lapsed' = [lapsed EXCEPT !.responses = @ \cup {k}]
  /\ UNCHANGED <<rows, lock, pc, locals>>
-----------------------------------------------------------------------------
AcceptanceStep(c) ==
  \/ LockOffer(c) \/ LockTrade(c) \/ Replay(c) \/ LockApproval(c)
  \/ ReplayConsumption(c) \/ Check(c) \/ Reserve(c) \/ Refuse(c)

Next ==
  \/ \E o \in Offer : Submit(o) \/ LapseOffer(o)
  \/ \E q \in Ranking : ReadOffers(q) \/ StoreRanking(q)
  \/ \E a \in Approval : Bind(a) \/ Decide(a)
  \/ \E c \in Acceptance :
       BeginAcceptance(c) \/ AcceptanceStep(c) \/ LapseReservation(c)
  \/ \E k \in Offer \X Key : LapseResponse(k)
  \/ \E t \in Tx : Rollback(t)

Spec == Init /\ [][Next]_vars
-----------------------------------------------------------------------------
\* Rows and local readings have their types; in particular a stored response
\* always names a reservation (finance.ts:315-330).
TypeOK ==
  /\ offered \subseteq Offer
  /\ allocation \in [Offer -> SUBSET Offer]
  /\ approval \in [Approval ->
                     {"absent", "approval_required", "approved", "rejected"}]
  /\ frozen \in [Approval -> SUBSET Offer]
  /\ consumption \in [Approval -> Acceptance \cup {None}]
  /\ reservation \in [Acceptance -> {"none", "active", "expired"}]
  /\ idempotency \in [Offer \X Key -> Responses \cup {None}]
  /\ lapsed \in Times
  /\ lock \in [Lockable -> Tx \cup {None}]
  /\ pc \in [Tx -> {"idle", "begun", "read", "offer", "trade", "approval",
                     "checked", "done", "refused", "failed"}]
  /\ seen \in [Ranking -> SUBSET Offer]
  /\ request \in [Acceptance -> Requests \cup {None}]
  /\ clock \in [Acceptance -> Times]
  /\ answer \in [Acceptance -> Acceptance \cup {None}]

\* The trade has one active reservation at most, although its offers are
\* accepted at the same time under different locks (finance.ts:333, 428).
OneActiveReservation ==
  \A c, d \in Acceptance :
    reservation[c] = "active" /\ reservation[d] = "active" => c = d

\* An approval is spent on one reservation, which is of its offer, and every
\* reservation has spent its approval; this survives expiry (finance.ts:392).
SpentOnce ==
  \A c \in Acceptance :
    reservation[c] # "none" =>
      /\ consumption[request[c].approval] = c
      /\ OfferOf[request[c].approval] = request[c].offer

\* Every acceptance that was answered was answered with the one reservation
\* of its approval, also by a replay after expiry (finance.ts:306, 315).
AnswersAgree ==
  \A c \in Acceptance :
    answer[c] # None => /\ answer[c] = consumption[request[c].approval]
                        /\ reservation[answer[c]] # "none"

\* A reservation is made under an approval in force, of the offer as it is
\* ranked at that moment, whatever rankings run meanwhile (finance.ts:226).
ReservedAsApproved ==
  [][\A c \in Acceptance :
       reservation[c] = "none" /\ reservation'[c] # "none" =>
         /\ approval[request[c].approval] = "approved"
         /\ frozen[request[c].approval] = allocation[request[c].offer]]_vars

\* eu-pilot-runbook.md:82, "Accept an offer (idempotent)": a repetition of an
\* acceptance that made a reservation is not refused while its key lives.
AcceptIsIdempotent ==
  [][\A c, d \in Acceptance :
       /\ pc[c] # "refused" /\ pc'[c] = "refused"
       /\ RouteKey(c) \notin clock[c].responses
       /\ reservation[d] # "none"
       => request[c] # request[d]]_vars
-----------------------------------------------------------------------------
(* The refinement mapping: an approval is granted while an acceptance could  *)
(* be authorised with it.                                                    *)
Granted ==
  {a \in Approval :
     approval[a] = "approved" /\ frozen[a] = allocation[OfferOf[a]]}
Asked ==
  [c \in {d \in Acceptance : pc[d] # "idle"} |->
     [offer |-> request[c].offer, approval |-> request[c].approval]]
ActiveOnes == {c \in Acceptance : reservation[c] = "active"}
Lapsed == [offers |-> lapsed.offers, reservations |-> lapsed.reservations]

Once == INSTANCE ReservationOnce
          WITH granted <- Granted, asked <- Asked, spent <- consumption,
               active <- ActiveOnes, over <- Lapsed, told <- answer

\* Acceptances implement ReservationOnce; in particular a reservation is pushed
\* aside only when its time, or its offer's, has really passed, although the
\* clock that judges it stopped when the transaction began (finance.ts:460).
ReservesOnce == Once!Spec
=============================================================================
