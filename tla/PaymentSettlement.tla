------------------------- MODULE PaymentSettlement -------------------------
(***************************************************************************)
(* What happens to a payment after executePayment has recorded it: the     *)
(* provider's webhooks, which are lost, duplicated, reordered or early     *)
(* (apps/api/src/services/webhooks.ts), the bank reconciliation of the     *)
(* worker (apps/worker/src/jobs/bank_sync.ts) and the completion or refund *)
(* by a user all write payments.status.  A reader of an account's          *)
(* transactions (apps/api/src/services/banks.ts) stores and links them as  *)
(* the worker does, without a lock and without a look at the payments.     *)
(*                                                                         *)
(* A webhook is handled in one transaction that first claims its dedupe    *)
(* key by an INSERT: a second INSERT of the key waits for the first        *)
(* transaction to end.  The reconciliation fetches a statement before its  *)
(* transaction, so it applies what the bank said a while ago.              *)
(***************************************************************************)
EXTENDS Naturals

CONSTANTS
  Payment,
  Live,       \* payments executed through the provider
  ByUser,     \* payments a user may complete: the manual schemes; in dev mode all
  Reported,   \* the states of an order for which the provider sends a webhook
  Delivery,   \* HTTP deliveries of webhooks; a redelivery is another one
  Worker,     \* worker processes that run the bank sync loop
  Reader,     \* getTransactions requests
  None

States == {"authorizing", "authorized", "executing", "executed", "settled",
           "failed", "returned"}

ASSUME PaymentAssumption == Live \subseteq Payment /\ ByUser \subseteq Payment
ASSUME ReportedAssumption == Reported \subseteq States
ASSUME DisjointAssumption ==
  /\ Delivery \cap Worker = {}
  /\ Delivery \cap Reader = {}
  /\ Worker \cap Reader = {}

Open == {"created", "pending_sca", "authorized", "executing"}
Closed == {"executed", "failed", "returned", "refunded"}
Event == [payment : Payment, report : Reported]
Postings == {"none", "pending", "booked"}
TradeEvents == {"payment.completed", "payment.failed", "payment.executing",
                "payment.returned", "payment.refunded"}

ASSUME NoneAssumption == None \notin Worker \cup Event \cup TradeEvents

VARIABLES
  status,     \* payments.status; "absent" until executePayment commits
  processed,  \* webhook_events: the events whose dedupe key is stored
  applied,    \* how often an event was written to payment_attempts
  announced,  \* trade_events of a payment, by the status they announce
  owed,       \* announcements a user's request has yet to insert
  txn,        \* bank_transactions.status of the posting of a payment
  linked,     \* bank_transactions.payment_id is set
  provider,   \* the state of the order at the provider (external)
  sent,       \* webhook events the provider has sent, at least once (external)
  bank,       \* the posting of the payment at the bank (external)
  at,         \* where each delivery, worker and reader is
  event,      \* the event a delivery carries
  statement,  \* what a worker or a reader fetched from the bank
  jobLock     \* the worker whose session holds the advisory lock "bank-sync"

tables == <<status, processed, applied, announced, owed, txn, linked>>
outside == <<provider, sent, bank>>
vars == <<tables, outside, at, event, statement, jobLock>>

Init ==
  /\ status = [p \in Payment |-> "absent"]
  /\ processed = {}
  /\ applied = [e \in Event |-> 0]
  /\ announced = [p \in Payment |-> {}]
  /\ owed = {}
  /\ txn = [p \in Payment |-> "none"]
  /\ linked = {}
  /\ provider = [p \in Payment |-> "none"]
  /\ sent = {}
  /\ bank = [p \in Payment |-> "none"]
  /\ at = [x \in Delivery \cup Worker \cup Reader |-> "idle"]
  /\ event = [d \in Delivery |-> None]
  /\ statement = [w \in Worker \cup Reader |-> None]
  /\ jobLock = None

Recorded(p) == status[p] # "absent"
-----------------------------------------------------------------------------
(* The provider and the bank                                                *)

\* executePayment's call of the adapter, before its commit
PlaceOrder(p) ==
  /\ provider[p] = "none"
  /\ p \in Live
  /\ provider' = [provider EXCEPT ![p] = "ordered"]
  /\ UNCHANGED <<tables, sent, bank, at, event, statement, jobLock>>

\* How far an order in this state has come
Stage(s) ==
  CASE s = "none" -> 0         [] s = "ordered" -> 1     [] s = "authorizing" -> 2
    [] s = "authorized" -> 3   [] s = "executing" -> 4   [] s = "executed" -> 5
    [] s = "settled" -> 6      [] s = "failed" -> 7      [] s = "returned" -> 7

Follows(s, t) ==
  /\ s # "none"
  /\ Stage(s) < Stage(t)
  /\ t = "failed" => Stage(s) < 5

\* An order advances, maybe by several states, and the provider sends a webhook
\* that says so.
Advance(p) ==
  /\ \E s \in Reported :
       /\ Follows(provider[p], s)
       /\ provider' = [provider EXCEPT ![p] = s]
       /\ sent' = sent \cup {[payment |-> p, report |-> s]}
  /\ UNCHANGED <<tables, bank, at, event, statement, jobLock>>

\* A transfer that has been carried out appears in the bank's transactions,
\* as booked or first as pending; a manual payment is carried out elsewhere.
Post(p) ==
  /\ \/ provider[p] \in {"executed", "settled", "returned"}
     \/ p \notin Live /\ Recorded(p)
  /\ \E b \in {"pending", "booked"} :
       /\ <<bank[p], b>> \in {<<"none", "pending">>, <<"none", "booked">>,
                              <<"pending", "booked">>}
       /\ bank' = [bank EXCEPT ![p] = b]
  /\ UNCHANGED <<tables, provider, sent, at, event, statement, jobLock>>
-----------------------------------------------------------------------------
(* executePayment's commit; it may come late or, after a crash, never       *)

RecordPayment(p) ==
  /\ ~Recorded(p)
  /\ p \in Live => provider[p] # "none"
  /\ status' = [status EXCEPT ![p] =
                  IF p \in Live THEN "pending_sca" ELSE "created"]
  /\ announced' = [announced EXCEPT ![p] = @ \cup {"payment.executing"}]
  /\ UNCHANGED <<processed, applied, owed, txn, linked, outside,
                 at, event, statement, jobLock>>
-----------------------------------------------------------------------------
(* handlePaymentWebhook                                                     *)

\* normalizePaymentStatus
Normalized(report) == IF report = "settled" THEN "executed" ELSE report

\* The event inserted into trade_events for a status, None if there is none.
Announcement(s) ==
  CASE s = "executed" -> "payment.completed"
    [] s \in {"executing", "authorized"} -> "payment.executing"
    [] s = "failed" -> "payment.failed"
    [] s = "returned" -> "payment.returned"
    [] s = "refunded" -> "payment.refunded"
    [] OTHER -> None

\* The payment is looked up first; for an unknown one the webhook is
\* acknowledged and forgotten.
Receive(d) ==
  /\ at[d] = "idle"
  /\ \E e \in sent :
       /\ event' = [event EXCEPT ![d] = e]
       /\ at' = [at EXCEPT ![d] =
                   IF Recorded(e.payment) THEN "received" ELSE "done"]
  /\ UNCHANGED <<tables, outside, statement, jobLock>>

\* INSERT INTO webhook_events ... ON CONFLICT DO NOTHING
New(e) == e \notin processed

\* Another transaction has inserted the key and has not ended.
Claimed(e) == \E d \in Delivery : at[d] = "claimed" /\ event[d] = e

\* Mutant: the insert does not wait for a concurrent one.
ClaimAtOnce(d) ==
  /\ at[d] = "received"
  /\ at' = [at EXCEPT ![d] = IF New(event[d]) THEN "claimed" ELSE "done"]
  /\ UNCHANGED <<tables, outside, event, statement, jobLock>>

\* A duplicate is acknowledged without effect.
Claim(d) ==
  /\ at[d] = "received"
  /\ ~Claimed(event[d])
  /\ at' = [at EXCEPT ![d] = IF New(event[d]) THEN "claimed" ELSE "done"]
  /\ UNCHANGED <<tables, outside, event, statement, jobLock>>

\* canUpdateStatus
Updates(s) == s \in (Open \ {"created"}) \cup Closed

\* Mutant: the status is written, the attempt and the event are not.
ApplySilently(d) ==
  LET p == event[d].payment
      s == Normalized(event[d].report) IN
  /\ at[d] = "claimed"
  /\ processed' = processed \cup {event[d]}
  /\ status' = IF Updates(s) THEN [status EXCEPT ![p] = s] ELSE status
  /\ at' = [at EXCEPT ![d] = "done"]
  /\ UNCHANGED <<applied, announced, owed, txn, linked, outside, event,
                 statement, jobLock>>

\* UPDATE payments SET status: whatever the status is.
Apply(d) ==
  LET p == event[d].payment
      s == Normalized(event[d].report) IN
  /\ at[d] = "claimed"
  /\ processed' = processed \cup {event[d]}
  /\ status' = IF Updates(s) THEN [status EXCEPT ![p] = s] ELSE status
  /\ applied' = [applied EXCEPT ![event[d]] = IF Updates(s) THEN @ + 1 ELSE @]
  /\ announced' = [announced EXCEPT ![p] = @ \cup ({Announcement(s)} \ {None})]
  /\ at' = [at EXCEPT ![d] = "done"]
  /\ UNCHANGED <<owed, txn, linked, outside, event, statement, jobLock>>

\* The handler fails or its process dies: the transaction rolls back.
Abort(d) ==
  /\ at[d] \in {"received", "claimed"}
  /\ at' = [at EXCEPT ![d] = "done"]
  /\ UNCHANGED <<tables, outside, event, statement, jobLock>>
-----------------------------------------------------------------------------
(* runBankSyncLoop: a tick under the job lock                               *)

\* withJobLock: pg_try_advisory_lock; a worker that does not get it skips.
BeginTick(w) ==
  /\ at[w] = "idle"
  /\ jobLock = None
  /\ jobLock' = w
  /\ at' = [at EXCEPT ![w] = "ticking"]
  /\ UNCHANGED <<tables, outside, event, statement>>

FetchTransactions(w) ==
  /\ at[w] = "ticking"
  /\ statement' = [statement EXCEPT ![w] = bank]
  /\ at' = [at EXCEPT ![w] = "fetched"]
  /\ UNCHANGED <<tables, outside, event, jobLock>>

\* A failed request counts as a statement without transactions.
FetchNothing(w) ==
  /\ at[w] = "ticking"
  /\ statement' = [statement EXCEPT ![w] = [p \in Payment |-> "none"]]
  /\ at' = [at EXCEPT ![w] = "fetched"]
  /\ UNCHANGED <<tables, outside, event, jobLock>>

\* INSERT INTO bank_transactions ... ON CONFLICT DO NOTHING
Stored(w) ==
  [p \in Payment |-> IF txn[p] = "none" THEN statement[w][p] ELSE txn[p]]

\* UPDATE bank_transactions SET payment_id, by end-to-end id and amount
Linked(w) == {p \in Payment : Stored(w)[p] # "none" /\ Recorded(p)}

\* Mutant: the status the payment has by now is not looked at.
MatchesClosed(p, b) == b = "booked" /\ Recorded(p)

\* A booked transaction that is linked to a payment which is still open
Matches(p, b) == b = "booked" /\ status[p] \in Open

\* Mutant: the advisory lock survives the tick that took it.
KeepLock(w) == UNCHANGED jobLock

\* pg_advisory_unlock, or the end of the session
Unlock(w) == jobLock' = IF jobLock = w THEN None ELSE jobLock

EndTick(w) ==
  /\ at' = [at EXCEPT ![w] = "idle"]
  /\ statement' = [statement EXCEPT ![w] = None]
  /\ Unlock(w)

\* syncConsent's transaction: store, link, mark executed, announce
Reconcile(w) ==
  LET settled == {p \in Payment : Matches(p, Stored(w)[p])} IN
  /\ at[w] = "fetched"
  /\ txn' = Stored(w)
  /\ linked' = linked \cup Linked(w)
  /\ status' = [p \in Payment |-> IF p \in settled THEN "executed" ELSE status[p]]
  /\ announced' = [p \in Payment |->
       announced[p] \cup (IF p \in settled THEN {"payment.completed"} ELSE {})]
  /\ EndTick(w)
  /\ UNCHANGED <<processed, applied, owed, outside, event>>

\* The tick throws, or the worker dies and its session with it.
FailTick(w) ==
  /\ at[w] # "idle"
  /\ EndTick(w)
  /\ UNCHANGED <<tables, outside, event>>

\* The connection that holds the lock is lost while the tick runs on.
LoseLock(w) ==
  /\ jobLock = w
  /\ jobLock' = None
  /\ UNCHANGED <<tables, outside, at, event, statement>>
-----------------------------------------------------------------------------
(* getTransactions: a user looks at an account.                             *)

FetchForReader(q) ==
  /\ at[q] = "idle"
  /\ statement' = [statement EXCEPT ![q] = bank]
  /\ at' = [at EXCEPT ![q] = "fetched"]
  /\ UNCHANGED <<tables, outside, event, jobLock>>

StoreTransactions(q) ==
  /\ at[q] = "fetched"
  /\ txn' = Stored(q)
  /\ linked' = linked \cup Linked(q)
  /\ statement' = [statement EXCEPT ![q] = None]
  /\ at' = [at EXCEPT ![q] = "done"]
  /\ UNCHANGED <<status, processed, applied, announced, owed, outside, event,
                 jobLock>>
-----------------------------------------------------------------------------
(* completeManualPayment, mockScaComplete, POST /v1/payments/refund          *)

\* The status in one transaction, the trade event in a second one.
Complete(p) ==
  /\ p \in ByUser
  /\ Recorded(p)
  /\ \E s \in {"executed", "failed"} :
       /\ status' = [status EXCEPT ![p] = s]
       /\ owed' = owed \cup {[payment |-> p, type |-> Announcement(s)]}
  /\ UNCHANGED <<processed, applied, announced, txn, linked, outside, at, event,
                 statement, jobLock>>

Announce(o) ==
  /\ owed' = owed \ {o}
  /\ announced' = [announced EXCEPT ![o.payment] = @ \cup {o.type}]
  /\ UNCHANGED <<status, processed, applied, txn, linked, outside, at, event,
                 statement, jobLock>>

\* The process dies between the two transactions.
ForgetAnnouncement(o) ==
  /\ owed' = owed \ {o}
  /\ UNCHANGED <<status, processed, applied, announced, txn, linked, outside,
                 at, event, statement, jobLock>>

Refund(p) ==
  /\ Recorded(p)
  /\ status' = [status EXCEPT ![p] = "refunded"]
  /\ announced' = [announced EXCEPT ![p] = @ \cup {"payment.refunded"}]
  /\ UNCHANGED <<processed, applied, owed, txn, linked, outside, at, event,
                 statement, jobLock>>
-----------------------------------------------------------------------------
Handle(d) == Claim(d) \/ Apply(d)
Fetch(w) == FetchTransactions(w) \/ FetchNothing(w)

Next ==
  \/ \E p \in Payment :
       \/ PlaceOrder(p) \/ Advance(p) \/ Post(p) \/ RecordPayment(p)
       \/ Complete(p) \/ Refund(p)
  \/ \E d \in Delivery : Receive(d) \/ Handle(d) \/ Abort(d)
  \/ \E w \in Worker :
       BeginTick(w) \/ Fetch(w) \/ Reconcile(w) \/ FailTick(w) \/ LoseLock(w)
  \/ \E q \in Reader : FetchForReader(q) \/ StoreTransactions(q)
  \/ \E o \in owed : Announce(o) \/ ForgetAnnouncement(o)

Spec == Init /\ [][Next]_vars

\* Handlers and ticks run on; ticks recur for as long as the worker is
\* deployed; requests to the bank succeed again and again, and so do ticks that
\* have an up-to-date statement in hand.
Fairness ==
  /\ \A d \in Delivery : WF_vars(Handle(d))
  /\ \A w \in Worker : /\ WF_vars(BeginTick(w))
                       /\ WF_vars(Fetch(w))
                       /\ WF_vars(Reconcile(w) \/ FailTick(w))
  /\ SF_vars(\E w \in Worker : FetchTransactions(w))
  /\ SF_vars(\E w \in Worker : statement[w] = bank /\ Reconcile(w))

FairSpec == Spec /\ Fairness
-----------------------------------------------------------------------------
(* What this promises: the states of an open payment are one, and of the      *)
(* announcements those of its ends count.                                     *)

End == {"executed", "failed", "returned", "refunded"}

\* A status as far as it ends a payment
Stands(s) == IF s \in Open THEN "open" ELSE s

Meaning == [r \in Reported |->
  IF Updates(Normalized(r)) THEN Stands(Normalized(r)) ELSE "none"]

State == [p \in Payment |-> Stands(status[p])]
Booked == {p \in Payment : bank[p] = "booked"}
Due == [p \in Payment |->
  {s \in End : [payment |-> p, type |-> Announcement(s)] \in owed}]
Told == [p \in Payment |-> {s \in End : Announcement(s) \in announced[p]}]

Once == INSTANCE SettlementOnce WITH
  Report <- Reported, state <- State, reported <- sent, heard <- processed,
  effects <- applied, booked <- Booked, due <- Due, told <- Told

\* Whatever is lost, early, repeated or out of order: each report has its effect
\* once, an old statement ends only what is booked and open by now, and the log
\* tells of every end (webhooks.ts:50, bank_sync.ts:211).
SettlesOnEvidence == Once!Spec
-----------------------------------------------------------------------------
\* The rows, the outside world and the local readings have their types; in
\* particular payments.status only takes the values the API knows, whatever the
\* provider reports (webhooks.ts:59).
TypeOK ==
  /\ status \in [Payment -> {"absent"} \cup Open \cup Closed]
  /\ processed \subseteq Event
  /\ applied \in [Event -> Nat]
  /\ announced \in [Payment -> SUBSET TradeEvents]
  /\ owed \subseteq [payment : Payment,
                     type : {"payment.completed", "payment.failed"}]
  /\ txn \in [Payment -> Postings]
  /\ linked \subseteq Payment
  /\ provider \in [Payment -> {"none", "ordered"} \cup States]
  /\ sent \subseteq Event
  /\ bank \in [Payment -> Postings]
  /\ at \in [Delivery \cup Worker \cup Reader ->
               {"idle", "received", "claimed", "done", "ticking", "fetched"}]
  /\ event \in [Delivery -> Event \cup {None}]
  /\ statement \in [Worker \cup Reader -> [Payment -> Postings] \cup {None}]
  /\ jobLock \in Worker \cup {None}

\* However often and however concurrently an event is delivered, it is
\* applied once (webhooks.ts:50-57).
AppliedAtMostOnce == \A e \in Event : applied[e] <= 1

\* The dedupe key and the effect of an event are committed together: an event
\* whose redelivery would be ignored has been applied and announced.
ProcessedIsApplied ==
  \A e \in processed :
    LET s == Normalized(e.report) IN
    Updates(s) =>
      /\ applied[e] = 1
      /\ Announcement(s) \in announced[e.payment]

\* A payment is shown as executed only on evidence: the provider reported it,
\* the bank has booked it, or a user completed it.
ExecutedOnEvidence ==
  \A p \in Payment :
    status[p] = "executed" =>
      \/ \E e \in processed : e.payment = p /\ Normalized(e.report) = "executed"
      \/ bank[p] = "booked"
      \/ p \in ByUser

\* A status that ends a payment that no user completes is in the event log by
\* the time it can be seen.
EndIsAnnounced ==
  \A p \in Payment \ ByUser :
    status[p] \in Closed => Announcement(status[p]) \in announced[p]

\* The reconciliation, which works on an old statement and maybe without its
\* lock, only moves open payments to executed: it undoes no failure, return
\* or refund that came in meanwhile.
ReconcileOnlyCloses ==
  [][\A w \in Worker, p \in Payment :
       at[w] = "fetched" /\ at'[w] = "idle" /\ status'[p] # status[p] =>
         status[p] \in Open /\ status'[p] = "executed"]_vars

\* A payment whose transaction is stored as booked ends, and stays ended,
\* although a late webhook may take its status back to an open one, and although
\* a reader may have stored and linked the transaction before the worker.
BookedIsSettled ==
  \A p \in Payment :
    (txn[p] = "booked" /\ Recorded(p)) ~> [](status[p] \in Closed)

\* bank_sync.ts:211, "If a booked transaction matches a payment, mark it
\* executed (fallback if webhook was missed)."
MissedWebhookIsReconciled ==
  \A p \in Payment :
    (bank[p] = "booked" /\ Recorded(p)) ~> (status[p] \in Closed)
=============================================================================
