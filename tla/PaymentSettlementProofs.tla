---------------------- MODULE PaymentSettlementProofs ----------------------
(***************************************************************************)
(* Proofs about PaymentSettlement, for every set of payments, deliveries,  *)
(* workers and readers, and every set of states the provider reports; and, *)
(* in the second part, about BankConsent, whose tokens the statements are  *)
(* fetched with.                                                           *)
(***************************************************************************)
EXTENDS PaymentSettlement, TLAPS

\* A delivery that is being handled carries an event, and a worker or a reader
\* that has fetched holds a statement.
LocalsKnown ==
  /\ \A d \in Delivery : at[d] \in {"received", "claimed"} => event[d] \in Event
  /\ \A x \in Worker \cup Reader :
       at[x] = "fetched" => statement[x] \in [Payment -> Postings]

Typed == TypeOK /\ LocalsKnown

\* An event is claimed by one open transaction at a time, and by none once its
\* key is stored ...
ClaimsExclude ==
  /\ \A d \in Delivery : at[d] = "claimed" => New(event[d])
  /\ \A d1, d2 \in Delivery :
       at[d1] = "claimed" /\ at[d2] = "claimed" /\ event[d1] = event[d2] => d1 = d2

\* ... and has no effect before.
NewIsUnapplied == \A e \in Event : New(e) => applied[e] = 0

\* What the database or a fetched statement shows as booked, the bank has
\* booked: bookings are not taken back.
BookedAtBank ==
  /\ \A p \in Payment : txn[p] = "booked" => bank[p] = "booked"
  /\ \A x \in Worker \cup Reader, p \in Payment :
       at[x] = "fetched" /\ statement[x][p] = "booked" => bank[p] = "booked"

Inv ==
  /\ Typed
  /\ ClaimsExclude
  /\ NewIsUnapplied
  /\ AppliedAtMostOnce
  /\ ProcessedIsApplied
  /\ BookedAtBank
  /\ ExecutedOnEvidence
  /\ EndIsAnnounced
-----------------------------------------------------------------------------
(* Lemmas about the operators                                               *)

\* A provider's state becomes a status that the API knows; one that changes
\* the payment is announced, and so is every status that ends it.
LEMMA StatusFacts ==
  /\ \A s : Updates(s) => s \in Open \cup Closed
  /\ \A s : Announcement(s) \in TradeEvents \cup {None}
  /\ \A s \in Closed : Announcement(s) \in TradeEvents
  /\ \A r \in Reported :
       Updates(Normalized(r)) => Announcement(Normalized(r)) \in TradeEvents
  <1>1. \A s : Updates(s) => s \in Open \cup Closed
    BY DEF Updates
  <1>2. ASSUME NEW s
        PROVE  Announcement(s) \in TradeEvents \cup {None}
    BY DEF Announcement, TradeEvents
  <1>3. ASSUME NEW s \in {"executing", "authorized", "executed", "failed",
                         "returned", "refunded"}
        PROVE  Announcement(s) \in TradeEvents
    BY DEF Announcement, TradeEvents
  <1>4. ASSUME NEW r \in Reported, Updates(Normalized(r))
        PROVE  Normalized(r) \in {"executing", "authorized", "executed", "failed",
                                "returned"}
    <2>1. r \in States
      BY ReportedAssumption
    <2> QED BY <1>4, <2>1 DEF States, Normalized, Updates, Open, Closed
  <1> QED BY <1>1, <1>2, <1>3, <1>4 DEF Closed

\* What a statement brings never replaces a transaction that is stored.
LEMMA StoredFacts ==
  ASSUME NEW x \in Worker \cup Reader, statement[x] \in [Payment -> Postings],
         txn \in [Payment -> Postings]
  PROVE  /\ Stored(x) \in [Payment -> Postings]
         /\ \A p \in Payment : Stored(x)[p] \in {txn[p], statement[x][p]}
         /\ \A p \in Payment : txn[p] # "none" => Stored(x)[p] = txn[p]
         /\ Linked(x) \subseteq Payment
  BY DEF Stored, Linked
-----------------------------------------------------------------------------
(* Types                                                                    *)

LEMMA TypedInit == Init => Typed
  BY NoneAssumption DEF Init, Typed, TypeOK, LocalsKnown, Postings

\* The provider, the bank and the commit of a payment keep the typing.
LEMMA TypedOutside ==
  ASSUME Typed, NEW p \in Payment,
         PlaceOrder(p) \/ Advance(p) \/ Post(p) \/ RecordPayment(p)
  PROVE  Typed'
  <1> USE DEF Typed, LocalsKnown, TypeOK, tables
  <1>1. CASE PlaceOrder(p)
    BY <1>1 DEF PlaceOrder
  <1>2. CASE Advance(p)
    <2>1. PICK s \in Reported :
            /\ provider' = [provider EXCEPT ![p] = s]
            /\ sent' = sent \cup {[payment |-> p, report |-> s]}
      BY <1>2 DEF Advance
    <2>2. s \in States /\ [payment |-> p, report |-> s] \in Event
      BY ReportedAssumption DEF Event
    <2>3. provider' \in [Payment -> {"none", "ordered"} \cup States]
      BY <2>1, <2>2
    <2>4. sent' \subseteq Event
      BY <2>1, <2>2
    <2> QED BY <1>2, <2>3, <2>4 DEF Advance
  <1>3. CASE Post(p)
    BY <1>3 DEF Post, Postings
  <1>4. CASE RecordPayment(p)
    BY <1>4 DEF RecordPayment, outside, Open, TradeEvents
  <1> QED BY <1>1, <1>2, <1>3, <1>4

\* Handling a webhook keeps the typing.
LEMMA TypedHandler ==
  ASSUME Typed, NEW d \in Delivery, Receive(d) \/ Handle(d) \/ Abort(d)
  PROVE  Typed'
  <1> USE DisjointAssumption DEF Typed, LocalsKnown, TypeOK, tables, outside
  <1>1. CASE Receive(d)
    BY <1>1 DEF Receive
  <1>2. CASE Claim(d)
    BY <1>2 DEF Claim
  <1>3. CASE Apply(d)
    <2> DEFINE e == event[d]
               s == Normalized(e.report)
    <2>1. e \in Event /\ e.payment \in Payment /\ e.report \in Reported
      BY <1>3 DEF Apply, Event
    <2>2. status' \in [Payment -> {"absent"} \cup Open \cup Closed]
      <3>1. CASE Updates(s)
        BY <1>3, <2>1, <3>1, StatusFacts DEF Apply
      <3>2. CASE ~Updates(s)
        BY <1>3, <3>2 DEF Apply
      <3> QED BY <3>1, <3>2
    <2>3. applied' \in [Event -> Nat]
      <3>1. applied[e] \in Nat /\ applied[e] + 1 \in Nat
        BY <2>1
      <3>2. applied' = [applied EXCEPT ![e] = IF Updates(s) THEN @ + 1 ELSE @]
        BY <1>3 DEF Apply
      <3> HIDE DEF e, s
      <3> QED BY <3>1, <3>2
    <2>4. announced' \in [Payment -> SUBSET TradeEvents]
      <3>1. {Announcement(s)} \ {None} \subseteq TradeEvents
        BY StatusFacts
      <3>2. announced' = [announced EXCEPT ![e.payment] =
                            @ \cup ({Announcement(s)} \ {None})]
        BY <1>3 DEF Apply
      <3> HIDE DEF e, s
      <3> QED BY <2>1, <3>1, <3>2
    <2>5. processed' \subseteq Event
      BY <1>3, <2>1 DEF Apply
    <2> QED BY <1>3, <2>2, <2>3, <2>4, <2>5 DEF Apply
  <1>4. CASE Abort(d)
    BY <1>4 DEF Abort
  <1> QED BY <1>1, <1>2, <1>3, <1>4 DEF Handle

\* Ticks and readers keep the typing.
LEMMA TypedSync ==
  ASSUME Typed,
         \/ \E w \in Worker : \/ BeginTick(w) \/ Fetch(w) \/ Reconcile(w)
                              \/ FailTick(w) \/ LoseLock(w)
         \/ \E q \in Reader : FetchForReader(q) \/ StoreTransactions(q)
  PROVE  Typed'
  <1> USE DisjointAssumption DEF Typed, LocalsKnown, TypeOK, tables, outside
  <1>1. ASSUME NEW w \in Worker, BeginTick(w) \/ Fetch(w) \/ FailTick(w) \/ LoseLock(w)
        PROVE  Typed'
    BY <1>1 DEF BeginTick, Fetch, FetchTransactions, FetchNothing, FailTick,
       EndTick, Unlock, LoseLock, Postings
  <1>2. ASSUME NEW w \in Worker, Reconcile(w)
        PROVE  Typed'
    <2>1. Stored(w) \in [Payment -> Postings] /\ Linked(w) \subseteq Payment
      BY <1>2, StoredFacts DEF Reconcile
    <2>2. status' \in [Payment -> {"absent"} \cup Open \cup Closed]
      BY <1>2 DEF Reconcile, Closed
    <2>3. announced' \in [Payment -> SUBSET TradeEvents]
      BY <1>2 DEF Reconcile, TradeEvents
    <2>4. at' = [at EXCEPT ![w] = "idle"] /\ statement' = [statement EXCEPT ![w] = None]
      BY <1>2 DEF Reconcile, EndTick
    <2>5. jobLock' \in Worker \cup {None}
      BY <1>2 DEF Reconcile, EndTick, Unlock
    <2> QED BY <1>2, <2>1, <2>2, <2>3, <2>4, <2>5 DEF Reconcile
  <1>3. ASSUME NEW q \in Reader, FetchForReader(q)
        PROVE  Typed'
    BY <1>3 DEF FetchForReader
  <1>4. ASSUME NEW q \in Reader, StoreTransactions(q)
        PROVE  Typed'
    <2>1. Stored(q) \in [Payment -> Postings] /\ Linked(q) \subseteq Payment
      BY <1>4, StoredFacts DEF StoreTransactions
    <2> QED BY <1>4, <2>1 DEF StoreTransactions
  <1> QED BY <1>1, <1>2, <1>3, <1>4

\* What users do keeps the typing.
LEMMA TypedByUser ==
  ASSUME Typed,
         \/ \E p \in Payment : Complete(p) \/ Refund(p)
         \/ \E o \in owed : Announce(o) \/ ForgetAnnouncement(o)
  PROVE  Typed'
  <1> USE DEF Typed, LocalsKnown, TypeOK, outside
  <1>1. ASSUME NEW p \in Payment, Complete(p)
        PROVE  Typed'
    <2>1. PICK s \in {"executed", "failed"} :
            /\ status' = [status EXCEPT ![p] = s]
            /\ owed' = owed \cup {[payment |-> p, type |-> Announcement(s)]}
      BY <1>1 DEF Complete
    <2>2. s \in Closed /\ Announcement(s) \in {"payment.completed", "payment.failed"}
      BY DEF Closed, Announcement
    <2> QED BY <1>1, <2>1, <2>2 DEF Complete
  <1>2. ASSUME NEW p \in Payment, Refund(p)
        PROVE  Typed'
    BY <1>2 DEF Refund, Closed, TradeEvents
  <1>3. ASSUME NEW o \in owed, Announce(o) \/ ForgetAnnouncement(o)
        PROVE  Typed'
    BY <1>3 DEF Announce, ForgetAnnouncement, TradeEvents
  <1> QED BY <1>1, <1>2, <1>3

LEMMA TypedStep == Typed /\ [Next]_vars => Typed'
  <1>1. Typed /\ UNCHANGED vars => Typed'
    BY DEF Typed, TypeOK, LocalsKnown, vars, tables, outside
  <1> QED
    BY <1>1, TypedOutside, TypedHandler, TypedSync, TypedByUser DEF Next

\* The values that the provider reports and the statuses are never mistaken
\* for something else.
THEOREM TypeCorrect == Spec => []TypeOK
  <1>1. Typed => TypeOK
    BY DEF Typed
  <1> QED BY <1>1, TypedInit, TypedStep, PTL DEF Spec
-----------------------------------------------------------------------------
(* Who writes what                                                          *)

\* Keys and attempts are written where a webhook is applied.
LEMMA ProcessedWriter ==
  ASSUME [Next]_vars
  PROVE  \/ UNCHANGED <<processed, applied>>
         \/ \E d \in Delivery : Apply(d)
  BY DEF Next, Handle, Fetch, vars, tables, outside, PlaceOrder, Advance, Post,
     RecordPayment, Complete, Refund, Receive, Claim, Abort, BeginTick,
     FetchTransactions, FetchNothing, Reconcile, FailTick, LoseLock,
     FetchForReader, StoreTransactions, Announce, ForgetAnnouncement

\* What is announced stays announced.
LEMMA AnnouncedGrows ==
  ASSUME Typed, [Next]_vars, NEW p \in Payment
  PROVE  announced[p] \subseteq announced'[p]
  <1>1. CASE \E q \in Payment : RecordPayment(q) \/ Refund(q)
    BY <1>1 DEF RecordPayment, Refund, Typed, TypeOK
  <1>2. CASE \E d \in Delivery : Apply(d)
    BY <1>2 DEF Apply, Typed, TypeOK
  <1>3. CASE \E w \in Worker : Reconcile(w)
    BY <1>3 DEF Reconcile, Typed, TypeOK
  <1>4. CASE \E o \in owed : Announce(o)
    BY <1>4 DEF Announce, Typed, TypeOK
  <1>5. CASE UNCHANGED announced
    BY <1>5
  <1> QED
    BY <1>1, <1>2, <1>3, <1>4, <1>5 DEF Next, Handle, Fetch, vars, tables,
       outside, PlaceOrder, Advance, Post, Complete, Receive, Claim, Abort,
       BeginTick, FetchTransactions, FetchNothing, FailTick, LoseLock,
       FetchForReader, StoreTransactions, ForgetAnnouncement

\* A delivery is claimed in Claim only, and its event is set where it is
\* received.
LEMMA ClaimedBefore ==
  ASSUME Typed, [Next]_vars, NEW d \in Delivery, at'[d] = "claimed"
  PROVE  /\ event'[d] = event[d]
         /\ at[d] = "claimed" \/ (Claim(d) /\ New(event[d]))
  <1> USE DisjointAssumption DEF Typed, TypeOK
  <1>1. CASE \E e \in Delivery : Receive(e)
    BY <1>1 DEF Receive
  <1>2. CASE \E e \in Delivery : Claim(e)
    BY <1>2 DEF Claim
  <1>3. CASE \E e \in Delivery : Apply(e) \/ Abort(e)
    BY <1>3 DEF Apply, Abort
  <1>4. CASE \E w \in Worker : \/ BeginTick(w) \/ Fetch(w) \/ Reconcile(w)
                               \/ FailTick(w) \/ LoseLock(w)
    BY <1>4 DEF BeginTick, Fetch, FetchTransactions, FetchNothing, Reconcile,
       FailTick, EndTick, LoseLock
  <1>5. CASE \E q \in Reader : FetchForReader(q) \/ StoreTransactions(q)
    BY <1>5 DEF FetchForReader, StoreTransactions
  <1>6. CASE UNCHANGED <<at, event>>
    BY <1>6
  <1> QED
    BY <1>1, <1>2, <1>3, <1>4, <1>5, <1>6 DEF Next, Handle, vars, PlaceOrder,
       Advance, Post, RecordPayment, Complete, Refund, Announce, ForgetAnnouncement
-----------------------------------------------------------------------------
(* Webhooks are applied once                                                *)

\* A key is claimed by one open transaction, because an INSERT of a key waits
\* for the transaction that inserted it.
LEMMA ClaimsStep ==
  ASSUME Typed, ClaimsExclude, [Next]_vars
  PROVE  ClaimsExclude'
  <1>1. ASSUME NEW d \in Delivery, at'[d] = "claimed"
        PROVE  New(event[d])'
    <2>1. event'[d] = event[d] /\ New(event[d])
      BY <1>1, ClaimedBefore DEF ClaimsExclude
    <2>2. CASE \E e \in Delivery : Apply(e)
      <3>1. PICK e \in Delivery : Apply(e)
        BY <2>2
      <3>2. at[e] = "claimed" /\ at'[e] = "done" /\ processed' = processed \cup {event[e]}
        BY <3>1 DEF Apply, Typed, TypeOK
      <3>3. at[d] = "claimed"
        BY <1>1, <3>1 DEF Apply, Typed, TypeOK
      <3>4. event[d] # event[e]
        BY <1>1, <3>2, <3>3 DEF ClaimsExclude
      <3> QED BY <2>1, <3>2, <3>4 DEF New
    <2>3. CASE processed' = processed
      BY <2>1, <2>3 DEF New
    <2> QED BY <2>2, <2>3, ProcessedWriter
  <1>2. ASSUME NEW d1 \in Delivery, NEW d2 \in Delivery, at'[d1] = "claimed",
               at'[d2] = "claimed", event'[d1] = event'[d2], d1 # d2
        PROVE  FALSE
    <2>1. /\ event[d1] = event[d2]
          /\ at[d1] = "claimed" \/ Claim(d1)
          /\ at[d2] = "claimed" \/ Claim(d2)
      BY <1>2, ClaimedBefore
    <2>2. ASSUME NEW d \in Delivery, NEW e \in Delivery \ {d}, Claim(d),
                 at'[e] = "claimed", event[e] = event[d]
          PROVE  FALSE
      BY <2>2 DEF Claim, Claimed, Typed, TypeOK
    <2> QED BY <1>2, <2>1, <2>2 DEF ClaimsExclude
  <1> QED BY <1>1, <1>2 DEF ClaimsExclude

\* The key and the effect of an event are stored together.
LEMMA EffectStep ==
  ASSUME Typed, ClaimsExclude, NewIsUnapplied, AppliedAtMostOnce,
         ProcessedIsApplied, [Next]_vars
  PROVE  NewIsUnapplied' /\ AppliedAtMostOnce' /\ ProcessedIsApplied'
  <1>1. CASE UNCHANGED <<processed, applied>>
    <2>1. NewIsUnapplied' /\ AppliedAtMostOnce'
      BY <1>1 DEF NewIsUnapplied, AppliedAtMostOnce, New
    <2>2. ASSUME NEW e \in processed', Updates(Normalized(e.report))
          PROVE  /\ applied'[e] = 1
                 /\ Announcement(Normalized(e.report)) \in announced'[e.payment]
      <3>1. e \in processed /\ e.payment \in Payment
        BY <1>1, <2>2 DEF Typed, TypeOK, Event
      <3>2. /\ applied[e] = 1
            /\ Announcement(Normalized(e.report)) \in announced[e.payment]
        BY <2>2, <3>1 DEF ProcessedIsApplied
      <3> QED BY <1>1, <3>1, <3>2, AnnouncedGrows
    <2> QED BY <2>1, <2>2 DEF ProcessedIsApplied
  <1>2. ASSUME NEW d \in Delivery, Apply(d)
        PROVE  NewIsUnapplied' /\ AppliedAtMostOnce' /\ ProcessedIsApplied'
    <2> DEFINE e == event[d]
               s == Normalized(e.report)
    <2>1. e \in Event /\ e \notin processed /\ applied[e] = 0 /\ e.payment \in Payment
      BY <1>2 DEF Apply, Typed, LocalsKnown, ClaimsExclude, New, NewIsUnapplied, Event
    <2>2. processed' = processed \cup {e}
      BY <1>2 DEF Apply
    <2>3. applied' = [applied EXCEPT ![e] = IF Updates(s) THEN @ + 1 ELSE @]
      BY <1>2 DEF Apply
    <2>4. applied'[e] = IF Updates(s) THEN 1 ELSE 0
      <3> HIDE DEF e, s
      <3> QED BY <2>1, <2>3 DEF Typed, TypeOK
    <2>5. \A f \in Event : f # e => applied'[f] = applied[f]
      <3> HIDE DEF e, s
      <3> QED BY <2>3 DEF Typed, TypeOK
    <2>6. NewIsUnapplied' /\ AppliedAtMostOnce'
      <3> HIDE DEF e, s
      <3> QED BY <2>2, <2>4, <2>5 DEF NewIsUnapplied, New, AppliedAtMostOnce
    <2>7. ASSUME NEW f \in processed', Updates(Normalized(f.report))
          PROVE  /\ applied'[f] = 1
                 /\ Announcement(Normalized(f.report)) \in announced'[f.payment]
      <3>1. CASE f = e
        <4>1. Announcement(s) \in TradeEvents
          BY <2>1, <2>7, <3>1, StatusFacts DEF Event
        <4>2. Announcement(s) # None
          BY <4>1, NoneAssumption
        <4>3. announced' = [announced EXCEPT ![e.payment] =
                              @ \cup ({Announcement(s)} \ {None})]
          BY <1>2 DEF Apply
        <4>4. Announcement(s) \in announced'[e.payment]
          <5> HIDE DEF e, s
          <5> QED BY <2>1, <4>2, <4>3 DEF Typed, TypeOK
        <4> QED BY <2>4, <2>7, <3>1, <4>4
      <3>2. CASE f # e
        <4>1. f \in processed /\ f \in Event /\ f.payment \in Payment
          BY <2>2, <2>7, <3>2 DEF Typed, TypeOK, Event
        <4>2. /\ applied[f] = 1
              /\ Announcement(Normalized(f.report)) \in announced[f.payment]
          BY <2>7, <4>1 DEF ProcessedIsApplied
        <4> QED BY <2>5, <3>2, <4>1, <4>2, AnnouncedGrows
      <3> QED BY <3>1, <3>2
    <2> QED BY <2>6, <2>7 DEF ProcessedIsApplied
  <1> QED BY <1>1, <1>2, ProcessedWriter
-----------------------------------------------------------------------------
(* What the bank says                                                       *)

\* The bank does not take a booking back.
LEMMA BookingsStay ==
  ASSUME Typed, [Next]_vars, NEW p \in Payment, bank[p] = "booked"
  PROVE  bank'[p] = "booked"
  <1>1. CASE \E q \in Payment : Post(q)
    BY <1>1 DEF Post, Typed, TypeOK
  <1>2. CASE UNCHANGED bank
    BY <1>2
  <1> QED
    BY <1>1, <1>2 DEF Next, Handle, Fetch, vars, outside, PlaceOrder, Advance,
       RecordPayment, Complete, Refund, Receive, Claim, Apply, Abort, BeginTick,
       FetchTransactions, FetchNothing, Reconcile, FailTick, LoseLock,
       FetchForReader, StoreTransactions, Announce, ForgetAnnouncement

\* A transaction is stored as booked only from a statement that shows it so.
LEMMA TxnWriter ==
  ASSUME Typed, [Next]_vars
  PROVE  \/ txn' = txn
         \/ \E x \in Worker \cup Reader : at[x] = "fetched" /\ txn' = Stored(x)
  BY DEF Next, Handle, Fetch, vars, tables, outside, PlaceOrder, Advance, Post,
     RecordPayment, Complete, Refund, Receive, Claim, Apply, Abort, BeginTick,
     FetchTransactions, FetchNothing, Reconcile, FailTick, LoseLock,
     FetchForReader, StoreTransactions, Announce, ForgetAnnouncement

\* A statement is what the bank had, or nothing.
LEMMA StatementWriter ==
  ASSUME Typed, [Next]_vars, NEW x \in Worker \cup Reader, at'[x] = "fetched"
  PROVE  \/ at[x] = "fetched" /\ statement'[x] = statement[x]
         \/ statement'[x] = bank
         \/ statement'[x] = [p \in Payment |-> "none"]
  <1> USE DisjointAssumption DEF Typed, TypeOK
  <1>1. CASE \E d \in Delivery : Receive(d) \/ Handle(d) \/ Abort(d)
    BY <1>1 DEF Receive, Handle, Claim, Apply, Abort
  <1>2. CASE \E w \in Worker : BeginTick(w) \/ Reconcile(w) \/ FailTick(w)
    BY <1>2 DEF BeginTick, Reconcile, FailTick, EndTick
  <1>3. CASE \E w \in Worker : Fetch(w)
    BY <1>3 DEF Fetch, FetchTransactions, FetchNothing
  <1>4. CASE \E q \in Reader : FetchForReader(q) \/ StoreTransactions(q)
    BY <1>4 DEF FetchForReader, StoreTransactions
  <1>5. CASE UNCHANGED <<at, statement>>
    BY <1>5
  <1> QED
    BY <1>1, <1>2, <1>3, <1>4, <1>5 DEF Next, vars, LoseLock, PlaceOrder, Advance,
       Post, RecordPayment, Complete, Refund, Announce, ForgetAnnouncement

LEMMA BookedStep ==
  ASSUME Typed, BookedAtBank, [Next]_vars
  PROVE  BookedAtBank'
  <1>1. ASSUME NEW p \in Payment, txn'[p] = "booked"
        PROVE  bank'[p] = "booked"
    <2>1. CASE txn' = txn
      BY <1>1, <2>1, BookingsStay DEF BookedAtBank
    <2>2. ASSUME NEW x \in Worker \cup Reader, at[x] = "fetched", txn' = Stored(x)
          PROVE  bank[p] = "booked"
      <3>1. Stored(x)[p] \in {txn[p], statement[x][p]}
        BY <2>2, StoredFacts DEF Typed, TypeOK, LocalsKnown
      <3> QED BY <1>1, <2>2, <3>1 DEF BookedAtBank
    <2> QED BY <2>1, <2>2, TxnWriter, BookingsStay
  <1>2. ASSUME NEW x \in Worker \cup Reader, NEW p \in Payment,
               at'[x] = "fetched", statement'[x][p] = "booked"
        PROVE  bank'[p] = "booked"
    <2>1. bank[p] = "booked"
      BY <1>2, StatementWriter DEF BookedAtBank
    <2> QED BY <2>1, BookingsStay
  <1> QED BY <1>1, <1>2 DEF BookedAtBank
-----------------------------------------------------------------------------
(* Statuses                                                                 *)

\* A status is changed by the commit of the payment, a webhook, the
\* reconciliation of a booked posting, or a user.
LEMMA StatusWriter ==
  ASSUME Typed, [Next]_vars, NEW p \in Payment, status'[p] # status[p]
  PROVE  \/ RecordPayment(p)
         \/ \E d \in Delivery : /\ Apply(d)
                                /\ event[d].payment = p
                                /\ status'[p] = Normalized(event[d].report)
                                /\ Updates(status'[p])
         \/ \E w \in Worker : /\ Reconcile(w)
                              /\ Matches(p, Stored(w)[p])
                              /\ status'[p] = "executed"
         \/ Complete(p)
         \/ Refund(p)
  <1> USE DEF Typed, TypeOK
  <1>1. CASE \E q \in Payment : RecordPayment(q)
    BY <1>1 DEF RecordPayment
  <1>2. ASSUME NEW d \in Delivery, Apply(d)
        PROVE  /\ event[d].payment = p
               /\ status'[p] = Normalized(event[d].report)
               /\ Updates(status'[p])
    <2>1. event[d].payment \in Payment
      BY <1>2 DEF Apply, LocalsKnown, Event
    <2>2. status' = IF Updates(Normalized(event[d].report))
                    THEN [status EXCEPT ![event[d].payment] = Normalized(event[d].report)]
                    ELSE status
      BY <1>2 DEF Apply
    <2> QED BY <2>1, <2>2
  <1>3. ASSUME NEW w \in Worker, Reconcile(w)
        PROVE  Matches(p, Stored(w)[p]) /\ status'[p] = "executed"
    BY <1>3 DEF Reconcile
  <1>4. CASE \E q \in Payment : Complete(q) \/ Refund(q)
    BY <1>4 DEF Complete, Refund
  <1> QED
    BY <1>1, <1>2, <1>3, <1>4 DEF Next, Handle, Fetch, vars, tables, PlaceOrder,
       Advance, Post, Receive, Claim, Abort, BeginTick, FetchTransactions,
       FetchNothing, FailTick, LoseLock, FetchForReader, StoreTransactions,
       Announce, ForgetAnnouncement

\* A reconciliation has a booking at the bank to show.
LEMMA MatchedIsBooked ==
  ASSUME Typed, BookedAtBank, NEW w \in Worker, Reconcile(w), NEW p \in Payment,
         Matches(p, Stored(w)[p])
  PROVE  bank[p] = "booked"
  <1>1. Stored(w)[p] \in {txn[p], statement[w][p]}
    BY StoredFacts DEF Reconcile, Typed, TypeOK, LocalsKnown
  <1> QED BY <1>1 DEF BookedAtBank, Matches, Reconcile

LEMMA EvidenceStep ==
  ASSUME Typed, BookedAtBank, ExecutedOnEvidence, [Next]_vars
  PROVE  ExecutedOnEvidence'
  <1> SUFFICES ASSUME NEW p \in Payment, status'[p] = "executed", p \notin ByUser,
                      bank'[p] # "booked"
               PROVE  \E e \in processed' :
                        e.payment = p /\ Normalized(e.report) = "executed"
    BY DEF ExecutedOnEvidence
  <1>1. bank[p] # "booked"
    BY BookingsStay
  <1>2. processed \subseteq processed'
    BY ProcessedWriter DEF Apply
  <1>3. CASE status[p] = "executed"
    BY <1>1, <1>2, <1>3 DEF ExecutedOnEvidence
  <1>4. CASE status[p] # "executed"
    <2>1. CASE RecordPayment(p) \/ Refund(p)
      BY <2>1 DEF RecordPayment, Refund, Typed, TypeOK
    <2>2. ASSUME NEW d \in Delivery, Apply(d), event[d].payment = p,
                 status'[p] = Normalized(event[d].report)
          PROVE  event[d] \in processed' /\ Normalized(event[d].report) = "executed"
      BY <2>2 DEF Apply
    <2>3. CASE \E w \in Worker : Reconcile(w) /\ Matches(p, Stored(w)[p])
      BY <1>1, <2>3, MatchedIsBooked
    <2>4. ~Complete(p)
      BY DEF Complete
    <2> QED BY <1>4, <2>1, <2>2, <2>3, <2>4, StatusWriter
  <1> QED BY <1>3, <1>4

LEMMA AnnouncedStep ==
  ASSUME Typed, EndIsAnnounced, [Next]_vars
  PROVE  EndIsAnnounced'
  <1> SUFFICES ASSUME NEW p \in Payment, p \notin ByUser, status'[p] \in Closed
               PROVE  Announcement(status'[p]) \in announced'[p]
    BY DEF EndIsAnnounced
  <1>1. CASE status'[p] = status[p]
    BY <1>1, AnnouncedGrows DEF EndIsAnnounced
  <1>2. CASE RecordPayment(p)
    BY <1>2 DEF RecordPayment, Typed, TypeOK, Closed
  <1>3. ASSUME NEW d \in Delivery, Apply(d), event[d].payment = p,
               status'[p] = Normalized(event[d].report)
        PROVE  Announcement(status'[p]) \in announced'[p]
    <2>1. Announcement(status'[p]) # None
      BY StatusFacts, NoneAssumption
    <2>2. announced' = [announced EXCEPT ![p] = @ \cup ({Announcement(status'[p])} \ {None})]
      BY <1>3 DEF Apply
    <2> QED BY <2>1, <2>2 DEF Typed, TypeOK
  <1>4. ASSUME NEW w \in Worker, Reconcile(w), Matches(p, Stored(w)[p])
        PROVE  Announcement("executed") \in announced'[p]
    <2>1. "payment.completed" \in announced'[p]
      BY <1>4 DEF Reconcile
    <2> QED BY <2>1 DEF Announcement
  <1>5. CASE Refund(p)
    <2>1. status'[p] = "refunded" /\ "payment.refunded" \in announced'[p]
      BY <1>5 DEF Refund, Typed, TypeOK
    <2> QED BY <2>1 DEF Announcement
  <1>6. ~Complete(p)
    BY DEF Complete
  <1> QED BY <1>1, <1>2, <1>3, <1>4, <1>5, <1>6, StatusWriter
-----------------------------------------------------------------------------
(* Theorems                                                                 *)

LEMMA InvInit == Init => Inv
  <1> SUFFICES ASSUME Init PROVE Inv
    OBVIOUS
  <1>1. Typed
    BY TypedInit
  <1>2. ClaimsExclude /\ BookedAtBank
    BY DisjointAssumption DEF Init, ClaimsExclude, BookedAtBank
  <1>3. NewIsUnapplied /\ AppliedAtMostOnce /\ ProcessedIsApplied
    BY DEF Init, NewIsUnapplied, AppliedAtMostOnce, ProcessedIsApplied
  <1>4. ExecutedOnEvidence /\ EndIsAnnounced
    BY DEF Init, ExecutedOnEvidence, EndIsAnnounced, Closed
  <1> QED BY <1>1, <1>2, <1>3, <1>4 DEF Inv

LEMMA InvStep == Inv /\ [Next]_vars => Inv'
  BY TypedStep, ClaimsStep, EffectStep, BookedStep, EvidenceStep, AnnouncedStep
     DEF Inv

LEMMA Invariance == Spec => []Inv
  BY InvInit, InvStep, PTL DEF Spec

\* However often an event is delivered, and however many handlers work on it,
\* it is applied once.
THEOREM AppliedOnce == Spec => []AppliedAtMostOnce
  <1>1. Inv => AppliedAtMostOnce
    BY DEF Inv
  <1> QED BY <1>1, Invariance, PTL

\* A redelivery is ignored only when the event has had its effect.
THEOREM IgnoredIsApplied == Spec => []ProcessedIsApplied
  <1>1. Inv => ProcessedIsApplied
    BY DEF Inv
  <1> QED BY <1>1, Invariance, PTL

\* No payment is shown as executed without a report of the provider, a booking
\* at the bank or a user's word.
THEOREM ExecutedIsEvident == Spec => []ExecutedOnEvidence
  <1>1. Inv => ExecutedOnEvidence
    BY DEF Inv
  <1> QED BY <1>1, Invariance, PTL

\* The end of a payment and its announcement are seen together.
THEOREM EndAnnounced == Spec => []EndIsAnnounced
  <1>1. Inv => EndIsAnnounced
    BY DEF Inv
  <1> QED BY <1>1, Invariance, PTL

\* A worker only leaves its transaction by reconciling or failing.
LEMMA TickEnds ==
  ASSUME Typed, [Next]_vars, NEW w \in Worker, at[w] = "fetched", at'[w] = "idle"
  PROVE  Reconcile(w) \/ UNCHANGED status
  <1> USE DisjointAssumption DEF Typed, TypeOK
  <1>1. CASE \E d \in Delivery : Receive(d) \/ Handle(d) \/ Abort(d)
    BY <1>1 DEF Receive, Handle, Claim, Apply, Abort
  <1>2. ASSUME NEW v \in Worker, Reconcile(v)
        PROVE  Reconcile(w)
    BY <1>2 DEF Reconcile, EndTick
  <1>3. CASE \E p \in Payment : RecordPayment(p) \/ Complete(p) \/ Refund(p)
    BY <1>3 DEF RecordPayment, Complete, Refund
  <1>4. CASE UNCHANGED status
    BY <1>4
  <1> QED
    BY <1>1, <1>2, <1>3, <1>4 DEF Next, vars, tables, Fetch, BeginTick,
       FetchTransactions, FetchNothing, FailTick, LoseLock, PlaceOrder, Advance,
       Post, FetchForReader, StoreTransactions, Announce, ForgetAnnouncement

\* The reconciliation never moves a payment that has ended.
THEOREM ReconciliationOnlyCloses == Spec => ReconcileOnlyCloses
  <1>1. ASSUME Typed, [Next]_vars, NEW w \in Worker, NEW p \in Payment,
               at[w] = "fetched", at'[w] = "idle", status'[p] # status[p]
        PROVE  status[p] \in Open /\ status'[p] = "executed"
    <2>1. Reconcile(w)
      BY <1>1, TickEnds
    <2> QED BY <1>1, <2>1 DEF Reconcile, Matches
  <1>2. Inv /\ [Next]_vars =>
          [\A w \in Worker, p \in Payment :
             at[w] = "fetched" /\ at'[w] = "idle" /\ status'[p] # status[p] =>
               status[p] \in Open /\ status'[p] = "executed"]_vars
    BY <1>1 DEF Inv
  <1> QED BY <1>2, Invariance, PTL DEF Spec, ReconcileOnlyCloses
-----------------------------------------------------------------------------
(* The refinement of SettlementOnce                                         *)

\* A delivery in hand carries an event that was sent, of a payment that is
\* known.
ReceivedIsSent ==
  \A d \in Delivery : at[d] \in {"received", "claimed"} =>
    event[d] \in sent /\ status[event[d].payment] # "absent"

\* What was sent stays so, and a payment that is recorded stays recorded.
LEMMA SentGrows ==
  ASSUME Typed, [Next]_vars
  PROVE  /\ sent \subseteq sent'
         /\ \A p \in Payment : status[p] # "absent" => status'[p] # "absent"
  <1>1. sent \subseteq sent'
    BY DEF Next, Handle, Fetch, vars, tables, outside, PlaceOrder, Advance, Post,
       RecordPayment, Complete, Refund, Receive, Claim, Apply, Abort, BeginTick,
       FetchTransactions, FetchNothing, Reconcile, FailTick, LoseLock,
       FetchForReader, StoreTransactions, Announce, ForgetAnnouncement
  <1>2. ASSUME NEW p \in Payment, status'[p] # status[p]
        PROVE  status'[p] # "absent"
    <2> USE DEF Typed, TypeOK
    <2>1. CASE RecordPayment(p)
      BY <2>1 DEF RecordPayment
    <2>2. CASE \E d \in Delivery : Updates(status'[p])
      BY <2>2 DEF Updates, Open, Closed
    <2>3. CASE status'[p] = "executed"
      BY <2>3
    <2>4. CASE Complete(p) \/ Refund(p)
      BY <2>4 DEF Complete, Refund
    <2> QED BY <1>2, <2>1, <2>2, <2>3, <2>4, StatusWriter
  <1> QED BY <1>1, <1>2

\* A delivery is received with its event, or has it from before.
LEMMA ReceivedBefore ==
  ASSUME Typed, [Next]_vars, NEW d \in Delivery, at'[d] \in {"received", "claimed"}
  PROVE  \/ event'[d] = event[d] /\ at[d] \in {"received", "claimed"}
         \/ event'[d] \in sent /\ status[event'[d].payment] # "absent"
  <1> USE DisjointAssumption DEF Typed, TypeOK
  <1>1. CASE \E e \in Delivery : Receive(e)
    BY <1>1 DEF Receive, Recorded
  <1>2. CASE \E e \in Delivery : Claim(e)
    BY <1>2 DEF Claim
  <1>3. CASE \E e \in Delivery : Apply(e) \/ Abort(e)
    BY <1>3 DEF Apply, Abort
  <1>4. CASE \E w \in Worker : \/ BeginTick(w) \/ Fetch(w) \/ Reconcile(w)
                               \/ FailTick(w) \/ LoseLock(w)
    BY <1>4 DEF BeginTick, Fetch, FetchTransactions, FetchNothing, Reconcile,
       FailTick, EndTick, LoseLock
  <1>5. CASE \E q \in Reader : FetchForReader(q) \/ StoreTransactions(q)
    BY <1>5 DEF FetchForReader, StoreTransactions
  <1>6. CASE UNCHANGED <<at, event>>
    BY <1>6
  <1> QED
    BY <1>1, <1>2, <1>3, <1>4, <1>5, <1>6 DEF Next, Handle, vars, PlaceOrder,
       Advance, Post, RecordPayment, Complete, Refund, Announce, ForgetAnnouncement

\* Every step keeps that.
LEMMA ReceivedStep == Typed /\ ReceivedIsSent /\ [Next]_vars => ReceivedIsSent'
  <1> SUFFICES ASSUME Typed, ReceivedIsSent, [Next]_vars, NEW d \in Delivery,
                      at'[d] \in {"received", "claimed"}
               PROVE  event'[d] \in sent' /\ status'[event'[d].payment] # "absent"
    BY DEF ReceivedIsSent
  <1>1. event'[d] \in sent /\ status[event'[d].payment] # "absent"
    BY ReceivedBefore DEF ReceivedIsSent
  <1>2. event'[d].payment \in Payment
    BY <1>1 DEF Typed, TypeOK, Event
  <1> QED BY <1>1, <1>2, SentGrows

\* Each end has its announcement, which is not that of an open payment.
LEMMA EndFacts ==
  /\ End = Closed /\ End \cap {"absent", "open", "none"} = {}
  /\ \A s \in End : Announcement(s) \notin {"payment.executing", None}
  /\ \A s, r \in End : Announcement(s) = Announcement(r) => s = r
  /\ \A s : s \notin End => Announcement(s) \in {"payment.executing", None}
  /\ Open \cap (End \cup {"absent"}) = {}
  <1>1. "payment.executing" # None /\ "payment.completed" # None
        /\ "payment.failed" # None /\ "payment.returned" # None
        /\ "payment.refunded" # None
    BY NoneAssumption DEF TradeEvents
  <1> QED BY <1>1 DEF End, Closed, Open, Announcement

\* What a webhook says is heard.
LEMMA RefinesHear ==
  ASSUME Inv, ReceivedIsSent, NEW d \in Delivery, Apply(d)
  PROVE  Once!Hear(event[d])
  <1> DEFINE e == event[d]
             p == e.payment
             s == Normalized(e.report)
  <1>1. /\ e \in Event /\ p \in Payment /\ e.report \in Reported
        /\ e \in sent /\ e \notin processed /\ status[p] # "absent"
        /\ status \in [Payment -> {"absent"} \cup Open \cup Closed]
        /\ announced \in [Payment -> SUBSET TradeEvents]
    BY DEF Apply, Inv, Typed, TypeOK, LocalsKnown, Event, ReceivedIsSent,
       ClaimsExclude, New
  <1>2. State[p] # "absent"
    BY <1>1, EndFacts DEF State, Stands
  <1>3. Meaning[e.report] = IF Updates(s) THEN Stands(s) ELSE "none"
    BY <1>1 DEF Meaning
  <1>4. /\ processed' = processed \cup {e}
        /\ status' = IF Updates(s) THEN [status EXCEPT ![p] = s] ELSE status
        /\ applied' = [applied EXCEPT ![e] = IF Updates(s) THEN @ + 1 ELSE @]
        /\ announced' = [announced EXCEPT ![p] = @ \cup ({Announcement(s)} \ {None})]
        /\ UNCHANGED <<owed, sent, bank>>
    BY DEF Apply, outside
  <1>5. UNCHANGED <<Booked, Due>>
    BY <1>4 DEF Booked, Due
  <1>6. Once!End = End
    BY DEF Once!End, End
  <1>7. CASE Updates(s)
    <2>1. Stands(s) \in {"open"} \cup End /\ s \in Open \cup End
      BY <1>7, StatusFacts, EndFacts DEF Stands
    <2>2. State' = [State EXCEPT ![p] = Stands(s)]
      BY <1>1, <1>4, <1>7 DEF State
    <2>3. applied' = [applied EXCEPT ![e] = @ + 1]
      BY <1>4, <1>7
    <2>4. Told' = [Told EXCEPT ![p] = @ \cup ({Stands(s)} \cap End)]
      <3>1. \A r \in End : r = Stands(s) <=> Announcement(r) = Announcement(s)
        <4>1. CASE s \in End
          BY <4>1, EndFacts DEF Stands
        <4>2. CASE s \in Open
          BY <4>2, EndFacts DEF Stands
        <4> QED BY <2>1, <4>1, <4>2
      <3>2. \A r \in End : Announcement(r) \in announced'[p] <=>
              Announcement(r) \in announced[p] \/ Announcement(r) = Announcement(s)
        BY <1>1, <1>4, EndFacts
      <3>3. \A q \in Payment \ {p} : announced'[q] = announced[q]
        BY <1>1, <1>4
      <3>4. Told'[p] = Told[p] \cup ({Stands(s)} \cap End)
        BY <1>1, <3>1, <3>2 DEF Told
      <3>5. \A q \in Payment \ {p} : Told'[q] = Told[q]
        BY <3>3 DEF Told
      <3>6. Told = [q \in Payment |-> Told[q]] /\ Told' = [q \in Payment |-> Told'[q]]
        BY DEF Told
      <3> QED BY <1>1, <3>4, <3>5, <3>6
    <2> QED BY <1>1, <1>2, <1>3, <1>4, <1>5, <1>6, <1>7, <2>1, <2>2, <2>3, <2>4
            DEF Once!Hear, Once!Opened
  <1>8. CASE ~Updates(s)
    <2>1. s \notin End
      BY <1>8, EndFacts DEF Updates
    <2>2. applied' = applied
      BY <1>4, <1>8 DEF Inv, Typed, TypeOK
    <2>3. \A r \in End, q \in Payment : Announcement(r) \in announced'[q] <=>
                                          Announcement(r) \in announced[q]
      BY <1>1, <1>4, <2>1, EndFacts
    <2>4. State' = State /\ Told' = Told
      BY <1>4, <1>8, <2>3 DEF State, Told
    <2>5. Meaning[e.report] \notin {"open"} \cup End
      BY <1>3, <1>8, EndFacts
    <2> QED BY <1>1, <1>2, <1>4, <1>5, <1>6, <2>2, <2>4, <2>5
            DEF Once!Hear, Once!Opened
  <1> QED BY <1>7, <1>8

\* A reconciliation settles what is booked and open by now.
LEMMA RefinesSettle ==
  ASSUME Inv, NEW w \in Worker, Reconcile(w)
  PROVE  \E ps \in SUBSET Payment : Once!Settle(ps)
  <1> DEFINE ps == {p \in Payment : Matches(p, Stored(w)[p])}
  <1>1. /\ status \in [Payment -> {"absent"} \cup Open \cup Closed]
        /\ announced \in [Payment -> SUBSET TradeEvents]
    BY DEF Inv, Typed, TypeOK
  <1>2. \A p \in ps : p \in Booked /\ State[p] = "open"
    BY MatchedIsBooked DEF Inv, Booked, State, Stands, Matches
  <1>3. /\ status' = [p \in Payment |-> IF p \in ps THEN "executed" ELSE status[p]]
        /\ announced' = [p \in Payment |->
             announced[p] \cup (IF p \in ps THEN {"payment.completed"} ELSE {})]
        /\ UNCHANGED <<processed, applied, owed, sent, bank>>
    BY DEF Reconcile, outside
  <1>4. State' = [p \in Payment |-> IF p \in ps THEN "executed" ELSE State[p]]
    BY <1>3, EndFacts DEF State, Stands, End
  <1>5. \A s \in End : Announcement(s) = "payment.completed" <=> s = "executed"
    BY EndFacts DEF End, Announcement
  <1>6. Told' = [p \in Payment |->
                   IF p \in ps THEN Told[p] \cup {"executed"} ELSE Told[p]]
    <2>1. ASSUME NEW p \in Payment
          PROVE  Told'[p] = IF p \in ps THEN Told[p] \cup {"executed"} ELSE Told[p]
      <3>1. announced'[p] = announced[p] \cup
                              (IF p \in ps THEN {"payment.completed"} ELSE {})
        BY <1>3
      <3> HIDE DEF ps
      <3> QED BY <1>5, <3>1 DEF Told, End
    <2>2. Told' = [p \in Payment |-> Told'[p]]
      BY DEF Told
    <2> HIDE DEF ps
    <2> QED BY <2>1, <2>2
  <1>7. UNCHANGED <<Booked, Due>>
    BY <1>3 DEF Booked, Due
  <1> HIDE DEF ps
  <1>8. Once!Settle(ps)
    BY <1>2, <1>3, <1>4, <1>6, <1>7 DEF Once!Settle
  <1>9. ps \in SUBSET Payment
    BY DEF ps
  <1> QED BY <1>8, <1>9

\* Nothing has happened in the beginning.
LEMMA RefinesInit == Init => Once!Init
  BY EndFacts DEF Init, Once!Init, State, Stands, Booked, Due, Told, Once!Event,
     Event

\* A user's end is due to be announced, and is announced or forgotten.
LEMMA RefinesUser ==
  ASSUME Inv, NEW p \in Payment
  PROVE  /\ Complete(p) => \E s \in {"executed", "failed"} : Once!Complete(p, s)
         /\ Refund(p) => Once!Refund(p)
         /\ RecordPayment(p) => Once!Open(p)
  <1> USE EndFacts
  <1>1. /\ status \in [Payment -> {"absent"} \cup Open \cup Closed]
        /\ announced \in [Payment -> SUBSET TradeEvents]
        /\ State = [q \in Payment |-> State[q]]
        /\ Told = [q \in Payment |-> Told[q]]
        /\ Due = [q \in Payment |-> Due[q]]
    BY DEF Inv, Typed, TypeOK, State, Told, Due
  <1>2. Recorded(p) <=> Once!Opened(p)
    BY <1>1 DEF Recorded, Once!Opened, State, Stands
  <1>3. ASSUME NEW s \in End, status' = [status EXCEPT ![p] = s]
        PROVE  State' = [State EXCEPT ![p] = s]
    BY <1>1, <1>3 DEF State, Stands
  <1>4. ASSUME Complete(p)
        PROVE  \E s \in {"executed", "failed"} : Once!Complete(p, s)
    <2>1. PICK s \in {"executed", "failed"} :
            /\ status' = [status EXCEPT ![p] = s]
            /\ owed' = owed \cup {[payment |-> p, type |-> Announcement(s)]}
      BY <1>4 DEF Complete
    <2>2. s \in End
      BY DEF End
    <2>3. Due' = [Due EXCEPT ![p] = @ \cup {s}]
      <3>1. ASSUME NEW q \in Payment, NEW r \in End
            PROVE  [payment |-> q, type |-> Announcement(r)] \in owed' <=>
                     \/ [payment |-> q, type |-> Announcement(r)] \in owed
                     \/ q = p /\ r = s
        BY <2>1, <2>2
      <3>2. ASSUME NEW q \in Payment
            PROVE  Due'[q] = IF q = p THEN Due[q] \cup {s} ELSE Due[q]
        <4>1. /\ \A r : r \in Due[q] <=> /\ r \in End
                   /\ [payment |-> q, type |-> Announcement(r)] \in owed
              /\ \A r : r \in Due'[q] <=> /\ r \in End
                   /\ [payment |-> q, type |-> Announcement(r)] \in owed'
          BY DEF Due
        <4> QED BY <2>2, <3>1, <4>1
      <3>3. Due' = [q \in Payment |-> Due'[q]]
        BY DEF Due
      <3> QED BY <1>1, <3>2, <3>3
    <2>4. UNCHANGED <<sent, processed, applied, Booked, Told>>
      BY <1>4 DEF Complete, outside, Booked, Told
    <2>5. p \in ByUser /\ Once!Opened(p) /\ State' = [State EXCEPT ![p] = s]
      BY <1>2, <1>3, <1>4, <2>1, <2>2 DEF Complete
    <2> QED BY <2>3, <2>4, <2>5 DEF Once!Complete
  <1>5. ASSUME NEW s \in End, announced' =
                 [announced EXCEPT ![p] = @ \cup {Announcement(s)}]
        PROVE  Told' = [Told EXCEPT ![p] = @ \cup {s}]
    <2>1. \A q \in Payment, r \in End :
            Announcement(r) \in announced'[q] <=>
              Announcement(r) \in announced[q] \/ (q = p /\ r = s)
      BY <1>1, <1>5
    <2>2. \A q \in Payment : Told'[q] = IF q = p THEN Told[q] \cup {s} ELSE Told[q]
      BY <2>1 DEF Told
    <2>3. Told' = [q \in Payment |-> Told'[q]]
      BY DEF Told
    <2> QED BY <1>1, <2>2, <2>3
  <1>6. ASSUME Refund(p) PROVE Once!Refund(p)
    <2>1. "refunded" \in End /\ Announcement("refunded") = "payment.refunded"
      BY DEF End, Announcement
    <2>2. UNCHANGED <<sent, processed, applied, Booked, Due>>
      BY <1>6 DEF Refund, outside, Booked, Due
    <2> QED BY <1>2, <1>3, <1>5, <1>6, <2>1, <2>2 DEF Refund, Once!Refund
  <1>7. ASSUME RecordPayment(p) PROVE Once!Open(p)
    <2>1. State' = [State EXCEPT ![p] = "open"]
      BY <1>1, <1>7 DEF RecordPayment, State, Stands, Open
    <2>2. \A q \in Payment, r \in End :
            Announcement(r) \in announced'[q] <=> Announcement(r) \in announced[q]
      BY <1>1, <1>7 DEF RecordPayment
    <2>3. UNCHANGED <<sent, processed, applied, Booked, Due, Told>>
      BY <1>7, <2>2 DEF RecordPayment, outside, Booked, Due, Told
    <2> QED BY <1>2, <1>7, <2>1, <2>3 DEF RecordPayment, Once!Open
  <1> QED BY <1>4, <1>6, <1>7

\* An announcement that is due is made or forgotten.
LEMMA RefinesAnnounce ==
  ASSUME Inv, NEW o \in owed, Announce(o) \/ ForgetAnnouncement(o)
  PROVE  \E p \in Payment, s \in {"executed", "failed"} : Once!Announce(p, s)
  <1> USE EndFacts
  <1>1. /\ announced \in [Payment -> SUBSET TradeEvents]
        /\ Told = [q \in Payment |-> Told[q]]
        /\ Due = [q \in Payment |-> Due[q]]
        /\ o \in [payment : Payment, type : {"payment.completed", "payment.failed"}]
    BY DEF Inv, Typed, TypeOK, Told, Due
  <1> DEFINE p == o.payment
  <1>2. PICK s \in {"executed", "failed"} : o.type = Announcement(s)
    BY <1>1 DEF Announcement
  <1>3. p \in Payment /\ s \in End
    BY <1>1 DEF End
  <1>4. o = [payment |-> p, type |-> Announcement(s)]
    BY <1>1, <1>2
  <1> HIDE DEF p
  <1>5. owed' = owed \ {o}
    BY DEF Announce, ForgetAnnouncement
  <1>6. s \in Due[p] /\ Due' = [Due EXCEPT ![p] = @ \ {s}]
    <2>1. s \in Due[p]
      BY <1>3, <1>4 DEF Due
    <2>2. ASSUME NEW q \in Payment, NEW r \in End
          PROVE  [payment |-> q, type |-> Announcement(r)] \in owed' <=>
                   /\ [payment |-> q, type |-> Announcement(r)] \in owed
                   /\ ~(q = p /\ r = s)
      BY <1>3, <1>5, <1>4
    <2>3. ASSUME NEW q \in Payment
          PROVE  Due'[q] = IF q = p THEN Due[q] \ {s} ELSE Due[q]
      <3>1. /\ \A r : r \in Due[q] <=> /\ r \in End
                 /\ [payment |-> q, type |-> Announcement(r)] \in owed
            /\ \A r : r \in Due'[q] <=> /\ r \in End
                 /\ [payment |-> q, type |-> Announcement(r)] \in owed'
        BY DEF Due
      <3> QED BY <2>2, <3>1
    <2>4. Due' = [q \in Payment |-> Due'[q]]
      BY DEF Due
    <2> QED BY <1>1, <2>1, <2>3, <2>4
  <1>7. Told' \in {Told, [Told EXCEPT ![p] = @ \cup {s}]}
    <2>1. CASE ForgetAnnouncement(o)
      BY <2>1 DEF ForgetAnnouncement, Told
    <2>2. CASE Announce(o)
      <3>1. announced' = [announced EXCEPT ![p] = @ \cup {Announcement(s)}]
        BY <1>2, <2>2 DEF Announce, p
      <3>2. \A q \in Payment, r \in End :
              Announcement(r) \in announced'[q] <=>
                Announcement(r) \in announced[q] \/ (q = p /\ r = s)
        BY <1>1, <1>3, <3>1
      <3>3. ASSUME NEW q \in Payment
            PROVE  Told'[q] = IF q = p THEN Told[q] \cup {s} ELSE Told[q]
        <4>1. /\ \A r : r \in Told[q] <=> r \in End /\ Announcement(r) \in announced[q]
              /\ \A r : r \in Told'[q] <=> r \in End /\ Announcement(r) \in announced'[q]
          BY DEF Told
        <4> QED BY <1>3, <3>2, <4>1
      <3>4. Told' = [q \in Payment |-> Told'[q]]
        BY DEF Told
      <3> QED BY <1>1, <1>3, <3>3, <3>4
    <2> QED BY <2>1, <2>2
  <1>8. UNCHANGED <<State, sent, processed, applied, Booked>>
    BY DEF Announce, ForgetAnnouncement, outside, State, Booked
  <1>9. Once!Announce(p, s)
    BY <1>6, <1>7, <1>8 DEF Once!Announce
  <1> QED BY <1>2, <1>3, <1>9

\* The provider tells, the bank books, and every other step does nothing.
LEMMA RefinesOutside ==
  ASSUME Inv, NEW p \in Payment
  PROVE  /\ Advance(p) => \E e \in Once!Event : Once!Tell(e)
         /\ Post(p) => Once!Book(p) \/ UNCHANGED Once!vars
         /\ PlaceOrder(p) => UNCHANGED Once!vars
  <1>1. ASSUME Advance(p)
        PROVE  \E e \in Once!Event : Once!Tell(e)
    <2>1. PICK s \in Reported : sent' = sent \cup {[payment |-> p, report |-> s]}
      BY <1>1 DEF Advance
    <2>2. [payment |-> p, report |-> s] \in Once!Event
      BY DEF Once!Event
    <2>3. UNCHANGED <<State, processed, applied, Booked, Due, Told>>
      BY <1>1 DEF Advance, tables, State, Booked, Due, Told
    <2> QED BY <2>1, <2>2, <2>3 DEF Once!Tell
  <1>2. ASSUME Post(p)
        PROVE  Once!Book(p) \/ UNCHANGED Once!vars
    <2>1. PICK b \in {"pending", "booked"} :
            /\ bank' = [bank EXCEPT ![p] = b]
            /\ b = "pending" => bank[p] = "none"
      BY <1>2 DEF Post
    <2>2. bank \in [Payment -> Postings]
      BY DEF Inv, Typed, TypeOK
    <2>3. Booked' = IF b = "booked" THEN Booked \cup {p} ELSE Booked
      BY <2>1, <2>2 DEF Booked
    <2>4. UNCHANGED <<State, sent, processed, applied, Due, Told>>
      BY <1>2 DEF Post, tables, State, Due, Told
    <2> QED BY <2>3, <2>4 DEF Once!Book, Once!vars
  <1>3. ASSUME PlaceOrder(p)
        PROVE  UNCHANGED Once!vars
    BY <1>3 DEF PlaceOrder, tables, Once!vars, State, Booked, Due, Told
  <1> QED BY <1>1, <1>2, <1>3

\* Every step is one of SettlementOnce, or changes nothing of it.
LEMMA RefinesStep ==
  Inv /\ ReceivedIsSent /\ [Next]_vars => [Once!Next]_Once!vars
  <1> SUFFICES ASSUME Inv, ReceivedIsSent, [Next]_vars
               PROVE  [Once!Next]_Once!vars
    OBVIOUS
  <1>1. CASE UNCHANGED <<tables, sent, bank>>
    BY <1>1 DEF tables, Once!vars, State, Booked, Due, Told
  <1>2. ASSUME NEW p \in Payment,
               \/ PlaceOrder(p) \/ Advance(p) \/ Post(p) \/ RecordPayment(p)
               \/ Complete(p) \/ Refund(p)
        PROVE  [Once!Next]_Once!vars
    BY <1>2, RefinesUser, RefinesOutside DEF Once!Next
  <1>3. ASSUME NEW d \in Delivery, Apply(d)
        PROVE  Once!Next
    <2>1. event[d] \in Once!Event
      BY <1>3 DEF Apply, Inv, Typed, LocalsKnown, Event, Once!Event
    <2> QED BY <1>3, <2>1, RefinesHear DEF Once!Next
  <1>4. ASSUME NEW w \in Worker, Reconcile(w)
        PROVE  Once!Next
    BY <1>4, RefinesSettle DEF Once!Next
  <1>5. ASSUME NEW q \in Reader, StoreTransactions(q)
        PROVE  UNCHANGED Once!vars
    BY <1>5 DEF StoreTransactions, outside, Once!vars, State, Booked, Due, Told
  <1>6. ASSUME NEW o \in owed, Announce(o) \/ ForgetAnnouncement(o)
        PROVE  Once!Next
    BY <1>6, RefinesAnnounce DEF Once!Next
  <1> QED
    BY <1>1, <1>2, <1>3, <1>4, <1>5, <1>6 DEF Next, vars, outside, Handle, Fetch,
       Receive, Claim, Abort, BeginTick, FetchTransactions, FetchNothing,
       FailTick, LoseLock, FetchForReader

\* Deliveries, ticks, readers and users together implement SettlementOnce: each
\* report has its effect once, and a statement, however old, ends what is
\* booked and open.
THEOREM Refinement == Spec => SettlesOnEvidence
  <1>1. Init => ReceivedIsSent
    BY DEF Init, ReceivedIsSent
  <1>2. Inv => Typed
    BY DEF Inv
  <1> QED BY <1>1, <1>2, ReceivedStep, RefinesInit, RefinesStep, Invariance, PTL
          DEF Spec, SettlesOnEvidence, Once!Spec
-----------------------------------------------------------------------------
(* Second part: BankConsent, for every set of consents, accounts and         *)
(* requests.  Its names carry the prefix BC; its status is called consent    *)
(* here, and its at is called step.                                          *)

CONSTANTS Consent, Account, Request, MaxToken,
  Syncing   \* BankConsent's Worker: the one that holds the job lock

VARIABLES consent, stored, owner, current, aged, step, held, listed, lost

BC == INSTANCE BankConsent
        WITH Worker <- Syncing, status <- consent, at <- step

RequestLabels ==
  {"idle", "exchanged", "granted", "refreshing", "refreshed", "done"}
WorkerLabels == {"idle", "listing", "refreshing", "refreshed"}

\* A process that has read or been given a token knows it.
ConsentTyped ==
  /\ BC!TypeOK
  /\ listed \in [DOMAIN listed -> BC!Token]
  /\ \A r \in Request : step[r] \in RequestLabels
  /\ step[Syncing] \in WorkerLabels
  /\ \A p \in BC!Process :
       step[p] \in {"exchanged", "granted", "refreshing", "refreshed"} =>
         held[p] \in [consent : Consent, token : BC!Token \ {0}]

\* A process that has tokens from the provider it has not stored
Unstored(p) == step[p] \in {"exchanged", "refreshed"}

\* What is stored, and so what was read of it, is never ahead of the provider,
\* which gives a token up to MaxToken.
TokensBehind ==
  /\ \A c \in Consent : stored[c] <= current[c]
  /\ \A c \in aged : current[c] < MaxToken
  /\ \A c \in DOMAIN listed : listed[c] <= stored[c]
  /\ \A p \in BC!Process :
       step[p] = "refreshing" =>
         /\ held[p].token <= stored[held[p].consent]
         /\ held[p].token < MaxToken

\* Tokens not yet stored are the last ones, and one process has them: another
\* one could only have got them for those, which nobody could read.
UnstoredIsLast ==
  /\ \A p \in BC!Process :
       Unstored(p) =>
         /\ held[p].token = current[held[p].consent]
         /\ stored[held[p].consent] < current[held[p].consent]
  /\ \A p, q \in BC!Process :
       Unstored(p) /\ Unstored(q) /\ held[p].consent = held[q].consent => p = q

\* Who syncs the accounts of a consent has stored its tokens.
GrantedHasTokens ==
  \A p \in BC!Process : step[p] = "granted" => stored[held[p].consent] # 0

ConsentInv ==
  /\ ConsentTyped
  /\ TokensBehind
  /\ UnstoredIsLast
  /\ BC!LastTokenIsKept
  /\ GrantedHasTokens
  /\ BC!OwnerHasTokens
-----------------------------------------------------------------------------
LEMMA ConsentInit ==
  ASSUME BC!TokenAssumption, BC!DisjointAssumption, BC!Init
  PROVE  ConsentInv
  <1>1. ConsentTyped
    BY DEF BC!TokenAssumption, BC!Init, ConsentTyped, BC!TypeOK, BC!Process,
           BC!Token, BC!Status, BC!Nothing, RequestLabels, WorkerLabels
  <1>2. TokensBehind /\ UnstoredIsLast /\ BC!LastTokenIsKept /\ GrantedHasTokens /\ BC!OwnerHasTokens
    BY DEF BC!TokenAssumption, BC!Init, TokensBehind, UnstoredIsLast, Unstored,
           BC!LastTokenIsKept, GrantedHasTokens, BC!OwnerHasTokens, BC!Process,
           BC!Token
  <1> QED BY <1>1, <1>2 DEF ConsentInv

-----------------------------------------------------------------------------
LEMMA ConsentFacts ==
  ASSUME BC!TokenAssumption, BC!DisjointAssumption
  PROVE  /\ MaxToken \in Nat /\ MaxToken >= 1
         /\ BC!Token \subseteq Nat /\ 0 \in BC!Token
         /\ \A t : t \in BC!Token <=> t \in Nat /\ t <= MaxToken
         /\ Syncing \in BC!Process /\ Request \subseteq BC!Process
         /\ \A p \in BC!Process : p = Syncing \/ p \in Request
         /\ Syncing \notin Request
  BY DEF BC!TokenAssumption, BC!DisjointAssumption, BC!Token, BC!Process

LEMMA ConsentParts ==
  ASSUME BC!TokenAssumption, BC!DisjointAssumption, ConsentTyped
  PROVE  /\ consent \in [Consent -> BC!Status]
         /\ stored \in [Consent -> BC!Token] /\ current \in [Consent -> BC!Token]
         /\ owner \in [Account -> Consent \cup {None}]
         /\ aged \subseteq Consent /\ lost \subseteq Consent
         /\ DOMAIN step = BC!Process /\ DOMAIN held = BC!Process
         /\ DOMAIN listed \subseteq Consent
         /\ \A c \in DOMAIN listed : listed[c] \in BC!Token
         /\ \A c \in Consent : stored[c] \in Nat /\ current[c] \in Nat
         /\ \A p \in BC!Process :
              /\ held[p] \in [consent : Consent, token : BC!Token] \cup {BC!Nothing}
              /\ step[p] \in {"idle", "done", "exchanged", "granted", "refreshing",
                            "refreshed", "listing"}
              /\ step[p] \in {"exchanged", "granted", "refreshing", "refreshed"} =>
                   /\ held[p] = [consent |-> held[p].consent, token |-> held[p].token]
                   /\ held[p].consent \in Consent
                   /\ held[p].token \in Nat /\ held[p].token \in BC!Token
                   /\ held[p].token >= 1
  BY ConsentFacts DEF ConsentTyped, BC!TypeOK

\* What the steps have in common: a process moves on, and what it holds
Moves(p, label, what) ==
  /\ step' = [step EXCEPT ![p] = label]
  /\ held' = [held EXCEPT ![p] = what]

LEMMA MovesFacts ==
  ASSUME BC!TokenAssumption, BC!DisjointAssumption, ConsentTyped,
         NEW p \in BC!Process, NEW label, NEW what, Moves(p, label, what)
  PROVE  /\ step'[p] = label /\ held'[p] = what
         /\ \A q \in BC!Process \ {p} : step'[q] = step[q] /\ held'[q] = held[q]
         /\ DOMAIN step' = BC!Process /\ DOMAIN held' = BC!Process
  BY ConsentParts DEF Moves

\* The types after such a step
LEMMA ConsentTypedMoves ==
  ASSUME BC!TokenAssumption, BC!DisjointAssumption, ConsentTyped,
         NEW p \in BC!Process, NEW label, NEW what, Moves(p, label, what),
         p = Syncing => label \in WorkerLabels,
         p \in Request => label \in RequestLabels,
         \/ what = BC!Nothing
         \/ what \in [consent : Consent, token : BC!Token \ {0}],
         label \in {"exchanged", "granted", "refreshing", "refreshed"} =>
           what # BC!Nothing,
         consent' \in [Consent -> BC!Status],
         stored' \in [Consent -> BC!Token], current' \in [Consent -> BC!Token],
         owner' \in [Account -> Consent \cup {None}],
         aged' \subseteq Consent, lost' \subseteq Consent,
         listed' \in [DOMAIN listed' -> BC!Token], DOMAIN listed' \subseteq Consent
  PROVE  ConsentTyped'
  <1>1. /\ step'[p] = label /\ held'[p] = what
        /\ \A q \in BC!Process \ {p} : step'[q] = step[q] /\ held'[q] = held[q]
    BY MovesFacts
  <1>2. label \in RequestLabels \cup WorkerLabels
    BY ConsentFacts
  <1>3. step' \in [BC!Process -> {"idle", "done", "exchanged", "granted", "refreshing",
                             "refreshed", "listing"}]
    BY <1>2 DEF Moves, ConsentTyped, BC!TypeOK, RequestLabels, WorkerLabels
  <1>4. held' \in [BC!Process -> [consent : Consent, token : BC!Token] \cup {BC!Nothing}]
    BY DEF Moves, ConsentTyped, BC!TypeOK
  <1>5. BC!TypeOK'
    BY <1>3, <1>4 DEF BC!TypeOK
  <1>6. (\A r \in Request : step'[r] \in RequestLabels) /\ step'[Syncing] \in WorkerLabels
    BY <1>1, ConsentFacts DEF ConsentTyped
  <1>7. \A q \in BC!Process :
          step'[q] \in {"exchanged", "granted", "refreshing", "refreshed"} =>
            held'[q] \in [consent : Consent, token : BC!Token \ {0}]
    BY <1>1 DEF ConsentTyped
  <1> QED BY <1>5, <1>6, <1>7 DEF ConsentTyped
-----------------------------------------------------------------------------
(* The provider answers with the next tokens                                 *)

LEMMA Giving ==
  ASSUME BC!TokenAssumption, BC!DisjointAssumption, ConsentInv,
         NEW p \in BC!Process, NEW c \in Consent, NEW label \in {"exchanged", "refreshed"},
         p = Syncing => label \in WorkerLabels,
         step[p] \in {"idle", "refreshing"},
         stored[c] = current[c], current[c] < MaxToken,
         BC!Give(p, c), BC!Goto(p, label), UNCHANGED <<BC!rows, listed, lost>>
  PROVE  ConsentInv'
  <1> DEFINE new == [consent |-> c, token |-> current[c] + 1]
  <1>1. ConsentTyped /\ TokensBehind /\ UnstoredIsLast
    BY DEF ConsentInv
  <1>2. Moves(p, label, new)
    BY DEF BC!Give, BC!Goto, BC!Hold, Moves
  <1>3. /\ current[c] + 1 \in BC!Token /\ current[c] + 1 # 0
        /\ new \in [consent : Consent, token : BC!Token \ {0}]
        /\ new # BC!Nothing
        /\ new.consent = c /\ new.token = current[c] + 1
    BY <1>1, ConsentFacts, ConsentParts DEF BC!Nothing, BC!DisjointAssumption
  <1> HIDE DEF new
  <1>4. /\ step'[p] = label /\ held'[p] = new
        /\ \A q \in BC!Process \ {p} : step'[q] = step[q] /\ held'[q] = held[q]
    BY <1>1, <1>2, MovesFacts
  <1>5. /\ current' \in [Consent -> BC!Token] /\ current'[c] = current[c] + 1
        /\ \A d \in Consent \ {c} : current'[d] = current[d]
        /\ aged' = aged \ {c}
        /\ UNCHANGED <<consent, stored, owner, listed, lost>>
    BY <1>1, <1>3, ConsentParts DEF BC!Give, BC!rows
  <1>6. ConsentTyped'
    BY <1>1, <1>2, <1>3, <1>5, ConsentTypedMoves, ConsentParts, ConsentFacts
       DEF RequestLabels, ConsentTyped
  <1>7. TokensBehind'
    BY <1>1, <1>4, <1>5, ConsentParts, ConsentFacts DEF TokensBehind
  <1>8. \A q \in BC!Process : Unstored(q) => held[q].consent # c
    BY <1>1, ConsentParts DEF UnstoredIsLast, Unstored
  <1>9. UnstoredIsLast'
    BY <1>1, <1>3, <1>4, <1>5, <1>8, ConsentParts DEF UnstoredIsLast, Unstored
  <1>10. \A d \in Consent, q \in BC!Process \ {p} : BC!InHand(q, d) /\ d # c => BC!InHand(q, d)'
    BY <1>4, <1>5 DEF BC!InHand
  <1>11. BC!InHand(p, c)' /\ \A d \in Consent : ~BC!InHand(p, d)
    BY <1>3, <1>4, <1>5 DEF BC!InHand, new
  <1>12. BC!LastTokenIsKept'
    BY <1>5, <1>10, <1>11 DEF BC!LastTokenIsKept, ConsentInv
  <1>13. GrantedHasTokens' /\ BC!OwnerHasTokens'
    BY <1>4, <1>5 DEF ConsentInv, GrantedHasTokens, BC!OwnerHasTokens
  <1> QED BY <1>6, <1>7, <1>9, <1>12, <1>13 DEF ConsentInv

(* Tokens are stored                                                         *)

LEMMA Storing ==
  ASSUME BC!TokenAssumption, BC!DisjointAssumption, ConsentInv,
         NEW p \in BC!Process, Unstored(p),
         NEW label, NEW what, Moves(p, label, what),
         \/ /\ p \in Request /\ label = "granted" /\ what = held[p]
         \/ /\ p = Syncing /\ label = "listing" /\ what = BC!Nothing
         \/ /\ p \in Request /\ label = "done" /\ what = BC!Nothing,
         stored' = [stored EXCEPT ![held[p].consent] = held[p].token],
         consent' \in [Consent -> BC!Status],
         UNCHANGED <<owner, BC!provider, listed, lost>>
  PROVE  ConsentInv'
  <1> DEFINE c == held[p].consent
             t == held[p].token
  <1>1. ConsentTyped /\ TokensBehind /\ UnstoredIsLast
    BY DEF ConsentInv
  <1>2. /\ c \in Consent /\ t \in BC!Token /\ t >= 1
        /\ t = current[c] /\ stored[c] < t
        /\ held[p] \in [consent : Consent, token : BC!Token \ {0}]
    BY <1>1, ConsentParts DEF Unstored, UnstoredIsLast, ConsentTyped
  <1>3. /\ step'[p] = label /\ held'[p] = what
        /\ \A q \in BC!Process \ {p} : step'[q] = step[q] /\ held'[q] = held[q]
    BY <1>1, MovesFacts
  <1>4. /\ stored' \in [Consent -> BC!Token] /\ stored'[c] = t
        /\ \A d \in Consent \ {c} : stored'[d] = stored[d]
        /\ UNCHANGED <<owner, current, aged, listed, lost>>
    BY <1>1, <1>2, ConsentParts DEF BC!provider
  <1>5. p = Syncing => label = "listing"
    BY ConsentFacts
  <1>6. label \in {"granted", "listing", "done"} /\ (label = "granted" => what = held[p])
    OBVIOUS
  <1>7. ConsentTyped'
    <2>1. /\ p = Syncing => label \in WorkerLabels
          /\ p \in Request => label \in RequestLabels
      BY <1>5, ConsentFacts DEF WorkerLabels, RequestLabels
    <2>2. /\ \/ what = BC!Nothing
             \/ what \in [consent : Consent, token : BC!Token \ {0}]
          /\ label \in {"exchanged", "granted", "refreshing", "refreshed"} => what # BC!Nothing
      BY <1>2 DEF BC!Nothing, BC!DisjointAssumption
    <2>3. listed' \in [DOMAIN listed' -> BC!Token] /\ DOMAIN listed' \subseteq Consent
      BY <1>1, <1>4 DEF ConsentTyped, BC!TypeOK
    <2> QED BY <1>1, <1>4, <2>1, <2>2, <2>3, ConsentTypedMoves, ConsentParts
  <1> HIDE DEF c, t
  <1>8. \A d \in Consent : stored[d] <= stored'[d]
    BY <1>1, <1>2, <1>4, ConsentParts, ConsentFacts
  <1>9. TokensBehind'
    <2>1. \A d \in Consent : stored'[d] <= current'[d]
      BY <1>1, <1>2, <1>4, ConsentFacts, ConsentParts DEF TokensBehind
    <2>2. \A d \in aged' : current'[d] < MaxToken
      BY <1>1, <1>4 DEF TokensBehind
    <2>3. \A d \in DOMAIN listed' : listed'[d] <= stored'[d]
      BY <1>1, <1>4, <1>8, ConsentFacts, ConsentParts DEF TokensBehind
    <2>4. ASSUME NEW q \in BC!Process, step'[q] = "refreshing"
          PROVE  held'[q].token <= stored'[held'[q].consent] /\ held'[q].token < MaxToken
      <3>1. q # p
        BY <1>3, <1>6, <2>4
      <3>2. step[q] = "refreshing" /\ held'[q] = held[q] /\ held[q].consent \in Consent
            /\ held[q].token \in Nat
        BY <1>1, <1>3, <2>4, <3>1, ConsentParts
      <3>3. held[q].token <= stored[held[q].consent] /\ held[q].token < MaxToken
        BY <1>1, <3>2 DEF TokensBehind
      <3>4. stored[held[q].consent] \in Nat /\ stored'[held[q].consent] \in Nat
            /\ stored[held[q].consent] <= stored'[held[q].consent]
        BY <1>1, <1>4, <1>8, <3>2, ConsentParts, ConsentFacts
      <3> QED BY <3>2, <3>3, <3>4
    <2> QED BY <2>1, <2>2, <2>3, <2>4 DEF TokensBehind
  <1>10. \A q \in BC!Process \ {p} : Unstored(q) => held[q].consent # c
    BY <1>1 DEF UnstoredIsLast, c
  <1>11. UnstoredIsLast'
    BY <1>1, <1>3, <1>4, <1>6, <1>10, ConsentParts DEF UnstoredIsLast, Unstored
  <1>12. \A d \in Consent : BC!InHand(p, d) => d = c
    BY DEF BC!InHand, c
  <1>13. \A d \in Consent, q \in BC!Process \ {p} : BC!InHand(q, d) => BC!InHand(q, d)'
    BY <1>3, <1>4 DEF BC!InHand
  <1>14. BC!LastTokenIsKept'
    BY <1>2, <1>4, <1>12, <1>13 DEF BC!LastTokenIsKept, ConsentInv
  <1>15. \A d \in Consent : stored[d] # 0 => stored'[d] # 0
    BY <1>1, <1>2, <1>4, ConsentParts, ConsentFacts
  <1>16. GrantedHasTokens'
    <2> SUFFICES ASSUME NEW q \in BC!Process, step'[q] = "granted"
                 PROVE  stored'[held'[q].consent] # 0
      BY DEF GrantedHasTokens
    <2>1. CASE q = p
      BY <1>2, <1>3, <1>4, <1>6, <2>1 DEF c
    <2>2. CASE q # p
      BY <1>1, <1>3, <1>15, <2>2, ConsentParts DEF GrantedHasTokens, ConsentInv
    <2> QED BY <2>1, <2>2
  <1>17. BC!OwnerHasTokens'
    BY <1>1, <1>4, <1>15, ConsentParts DEF BC!OwnerHasTokens, ConsentInv,
       BC!DisjointAssumption
  <1> QED BY <1>7, <1>9, <1>11, <1>14, <1>16, <1>17 DEF ConsentInv

(* A process moves on without storing anything, to nothing or to what it has *)
(* read; what it got and drops is lost                                       *)

LEMMA ConsentMoving ==
  ASSUME BC!TokenAssumption, BC!DisjointAssumption, ConsentInv,
         NEW p \in BC!Process, NEW label, NEW what, Moves(p, label, what),
         label \in {"idle", "listing", "done", "refreshing"},
         p = Syncing => label \in WorkerLabels,
         p \in Request => label \in RequestLabels,
         label = "refreshing" =>
           /\ what \in [consent : Consent, token : BC!Token \ {0}]
           /\ what.token <= stored[what.consent] /\ what.token < MaxToken,
         label # "refreshing" => what = BC!Nothing,
         \A c \in Consent : BC!InHand(p, c) => c \in lost',
         lost \subseteq lost', lost' \subseteq Consent,
         owner' \in [Account -> Consent \cup {None}], BC!OwnerHasTokens',
         listed' \in [DOMAIN listed' -> BC!Token], DOMAIN listed' \subseteq Consent,
         \A c \in DOMAIN listed' : listed'[c] <= stored[c],
         UNCHANGED <<consent, stored, BC!provider>>
  PROVE  ConsentInv'
  <1>1. ConsentTyped /\ TokensBehind /\ UnstoredIsLast
    BY DEF ConsentInv
  <1>2. /\ step'[p] = label /\ held'[p] = what
        /\ \A q \in BC!Process \ {p} : step'[q] = step[q] /\ held'[q] = held[q]
    BY <1>1, MovesFacts
  <1>3. UNCHANGED <<consent, stored, current, aged>>
    BY DEF BC!provider
  <1>4. ConsentTyped'
    <2>1. what = BC!Nothing \/ what \in [consent : Consent, token : BC!Token \ {0}]
      OBVIOUS
    <2>2. label \in {"exchanged", "granted", "refreshing", "refreshed"} => what # BC!Nothing
      BY DEF BC!Nothing, BC!DisjointAssumption
    <2> QED BY <1>1, <1>3, <2>1, <2>2, ConsentTypedMoves, ConsentParts
  <1>5. TokensBehind'
    <2>1. ASSUME NEW q \in BC!Process, step'[q] = "refreshing"
          PROVE  held'[q].token <= stored[held'[q].consent] /\ held'[q].token < MaxToken
      BY <1>1, <1>2, <2>1 DEF TokensBehind
    <2> QED BY <1>1, <1>3, <2>1 DEF TokensBehind
  <1>6. \A q \in BC!Process : Unstored(q)' => q # p /\ Unstored(q) /\ held'[q] = held[q]
    BY <1>2 DEF Unstored
  <1>7. UnstoredIsLast'
    BY <1>1, <1>3, <1>6 DEF UnstoredIsLast
  <1>8. \A c \in Consent, q \in BC!Process \ {p} : BC!InHand(q, c) => BC!InHand(q, c)'
    BY <1>2, <1>3 DEF BC!InHand
  <1>9. BC!LastTokenIsKept'
    BY <1>3, <1>8 DEF BC!LastTokenIsKept, ConsentInv
  <1>10. GrantedHasTokens'
    BY <1>2, <1>3 DEF GrantedHasTokens, ConsentInv
  <1> QED BY <1>4, <1>5, <1>7, <1>9, <1>10 DEF ConsentInv

(* Who has nothing in hand loses nothing                                     *)
LEMMA NothingInHand ==
  ASSUME NEW p, ~Unstored(p)
  PROVE  \A c \in Consent : ~BC!InHand(p, c)
  BY DEF Unstored, BC!InHand
-----------------------------------------------------------------------------
(* The steps                                                                 *)

LEMMA ConsentNext ==
  ASSUME BC!TokenAssumption, BC!DisjointAssumption, ConsentInv, BC!Next
  PROVE  ConsentInv'
  <1>1. ConsentTyped /\ TokensBehind /\ UnstoredIsLast /\ BC!LastTokenIsKept /\ GrantedHasTokens
        /\ BC!OwnerHasTokens
    BY DEF ConsentInv
  <1>2. /\ consent \in [Consent -> BC!Status]
        /\ stored \in [Consent -> BC!Token] /\ current \in [Consent -> BC!Token]
        /\ owner \in [Account -> Consent \cup {None}]
        /\ aged \subseteq Consent /\ lost \subseteq Consent
        /\ listed \in [DOMAIN listed -> BC!Token] /\ DOMAIN listed \subseteq Consent
        /\ \A c \in DOMAIN listed : listed[c] <= stored[c]
    BY <1>1, ConsentParts DEF ConsentTyped, TokensBehind
  <1>3. ASSUME NEW c \in Consent, BC!Age(c)
        PROVE  ConsentInv'
    <2>1. /\ UNCHANGED <<consent, stored, owner, current, step, held, listed, lost>>
          /\ aged' = aged \cup {c} /\ current[c] <= MaxToken - 1
      BY <1>3, <1>2, ConsentFacts DEF BC!Age, BC!rows
    <2>2. ConsentTyped'
      BY <1>1, <2>1 DEF ConsentTyped, BC!TypeOK
    <2>3. current[c] < MaxToken
      BY <1>2, <2>1, ConsentFacts
    <2>4. TokensBehind'
      BY <1>1, <2>1, <2>3 DEF TokensBehind
    <2>5. UnstoredIsLast' /\ BC!LastTokenIsKept' /\ GrantedHasTokens' /\ BC!OwnerHasTokens'
      BY <1>1, <2>1 DEF UnstoredIsLast, Unstored, BC!LastTokenIsKept,
         BC!InHand, GrantedHasTokens, BC!OwnerHasTokens
    <2> QED BY <2>2, <2>4, <2>5 DEF ConsentInv
  <1>4. ASSUME NEW c \in Consent, BC!Revoke(c) \/ \E told \in BC!Status : BC!Notify(c, told)
        PROVE  ConsentInv'
    <2>1. /\ UNCHANGED <<stored, owner, current, aged, step, held, listed, lost>>
          /\ consent' \in [Consent -> BC!Status]
      BY <1>4, <1>2 DEF BC!Revoke, BC!Notify, BC!provider, BC!Status
    <2>2. ConsentTyped'
      BY <1>1, <2>1 DEF ConsentTyped, BC!TypeOK
    <2>3. TokensBehind' /\ UnstoredIsLast' /\ BC!LastTokenIsKept' /\ GrantedHasTokens' /\ BC!OwnerHasTokens'
      BY <1>1, <2>1 DEF TokensBehind, UnstoredIsLast, Unstored,
         BC!LastTokenIsKept, BC!InHand, GrantedHasTokens, BC!OwnerHasTokens
    <2> QED BY <2>2, <2>3 DEF ConsentInv
  <1>5. ASSUME NEW c \in Consent, BC!SyncConsent(c)
        PROVE  ConsentInv'
    <2>1. /\ step[Syncing] = "listing" /\ c \in DOMAIN listed
          /\ listed' = [d \in DOMAIN listed \ {c} |-> listed[d]]
          /\ UNCHANGED <<consent, stored, owner, lost, BC!provider>>
      BY <1>5 DEF BC!SyncConsent, BC!rows
    <2>2. /\ listed' \in [DOMAIN listed' -> BC!Token] /\ DOMAIN listed' \subseteq Consent
          /\ \A d \in DOMAIN listed' : listed'[d] <= stored[d]
      BY <1>2, <2>1
    <2>3. BC!OwnerHasTokens'
      BY <1>1, <2>1 DEF BC!OwnerHasTokens
    <2>4. \A d \in Consent : ~BC!InHand(Syncing, d)
      BY <2>1 DEF BC!InHand
    <2>5. CASE listed[c] # 0 /\ BC!NeedsRefresh(c, listed[c])
      <3> DEFINE what == [consent |-> c, token |-> listed[c]]
      <3>1. Moves(Syncing, "refreshing", what)
        BY <1>5, <2>5 DEF BC!SyncConsent, BC!Hold, BC!Goto, Moves
      <3>2. /\ listed[c] \in BC!Token \ {0} /\ listed[c] <= stored[c]
            /\ stored[c] <= current[c] /\ current[c] <= MaxToken
            /\ listed[c] \in Nat /\ stored[c] \in Nat /\ current[c] \in Nat
        BY <1>1, <1>2, <2>1, <2>5, ConsentFacts DEF TokensBehind
      <3>3. listed[c] < MaxToken
        BY <1>1, <2>5, <3>2, ConsentFacts DEF BC!NeedsRefresh, TokensBehind
      <3>4. what \in [consent : Consent, token : BC!Token \ {0}]
            /\ what.token = listed[c] /\ what.consent = c
        BY <3>2
      <3> HIDE DEF what
      <3> QED BY <1>2, <2>1, <2>2, <2>3, <2>4, <3>1, <3>2, <3>3, <3>4,
                 ConsentMoving, ConsentFacts DEF WorkerLabels
    <2>6. CASE ~(listed[c] # 0 /\ BC!NeedsRefresh(c, listed[c]))
      <3>1. UNCHANGED <<step, held>>
        BY <1>5, <2>6 DEF BC!SyncConsent
      <3>2. UNCHANGED <<current, aged>>
        BY <2>1 DEF BC!provider
      <3>3. ConsentTyped'
        BY <1>1, <2>1, <2>2, <3>1, <3>2 DEF ConsentTyped, BC!TypeOK
      <3>4. TokensBehind'
        BY <1>1, <2>1, <2>2, <3>1, <3>2 DEF TokensBehind
      <3>5. UnstoredIsLast' /\ BC!LastTokenIsKept' /\ GrantedHasTokens'
        BY <1>1, <2>1, <3>1, <3>2 DEF UnstoredIsLast, Unstored,
           BC!LastTokenIsKept, BC!InHand, GrantedHasTokens
      <3> QED BY <2>3, <3>3, <3>4, <3>5 DEF ConsentInv
    <2> QED BY <2>5, <2>6
  <1>6. ASSUME NEW r \in Request, NEW c \in Consent, BC!ExchangeCode(r, c)
        PROVE  ConsentInv'
    <2>1. stored[c] = current[c] /\ current[c] < MaxToken
      BY <1>1, <1>2, <1>6, ConsentFacts DEF BC!ExchangeCode, TokensBehind
    <2>2. /\ step[r] = "idle" /\ BC!Give(r, c) /\ BC!Goto(r, "exchanged")
          /\ UNCHANGED <<BC!rows, listed, lost>>
      BY <1>6 DEF BC!ExchangeCode
    <2> QED BY <2>1, <2>2, Giving, ConsentFacts
  <1>7. ASSUME NEW r \in Request, NEW a \in Account, BC!ReadToken(r, a)
        PROVE  ConsentInv'
    <2> DEFINE c == owner[a]
               what == [consent |-> c, token |-> stored[c]]
    <2>1. /\ step[r] = "idle" /\ c \in Consent
          /\ stored[c] # 0 /\ BC!NeedsRefresh(c, stored[c])
          /\ Moves(r, "refreshing", what)
          /\ UNCHANGED <<consent, stored, owner, BC!provider, listed, lost>>
      BY <1>2, <1>7 DEF BC!ReadToken, BC!Hold, BC!Goto, Moves, BC!rows
    <2>2. /\ stored[c] \in BC!Token \ {0} /\ stored[c] <= current[c]
          /\ current[c] <= MaxToken /\ stored[c] \in Nat /\ current[c] \in Nat
      BY <1>1, <1>2, <2>1, ConsentFacts DEF TokensBehind
    <2>3. stored[c] < MaxToken
      BY <1>1, <2>1, <2>2, ConsentFacts DEF BC!NeedsRefresh, TokensBehind
    <2>4. /\ what \in [consent : Consent, token : BC!Token \ {0}]
          /\ what.token = stored[c] /\ what.consent = c
      BY <2>1, <2>2
    <2>5. what.token <= stored[what.consent] /\ what.token < MaxToken
      BY <2>2, <2>3, <2>4
    <2> HIDE DEF what, c
    <2>6. BC!OwnerHasTokens'
      BY <1>1, <2>1 DEF BC!OwnerHasTokens
    <2>7. \A d \in Consent : ~BC!InHand(r, d)
      BY <2>1 DEF BC!InHand
    <2> QED BY <1>2, <2>1, <2>4, <2>5, <2>6, <2>7, ConsentMoving, ConsentFacts
               DEF RequestLabels
  <1>8. ASSUME NEW r \in Request, BC!GrantConsent(r)
        PROVE  ConsentInv'
    <2>1. Unstored(r) /\ r \in BC!Process
      BY <1>8, ConsentFacts DEF BC!GrantConsent, Unstored
    <2>2. Moves(r, "granted", held[r])
      BY <1>8, <1>1, <2>1 DEF BC!GrantConsent, BC!Goto, Moves, ConsentTyped,
         BC!TypeOK
    <2>3. /\ stored' = [stored EXCEPT ![held[r].consent] = held[r].token]
          /\ consent' \in [Consent -> BC!Status]
          /\ UNCHANGED <<owner, BC!provider, listed, lost>>
      BY <1>2, <1>8 DEF BC!GrantConsent, BC!Status
    <2> QED BY <2>1, <2>2, <2>3, Storing
  <1>9. ASSUME NEW r \in Request, BC!SyncAccounts(r)
        PROVE  ConsentInv'
    <2>1. /\ step[r] = "granted" /\ r # Syncing /\ r \in BC!Process
          /\ Moves(r, "done", BC!Nothing)
          /\ UNCHANGED <<consent, stored, BC!provider, listed, lost>>
      BY <1>9, ConsentFacts DEF BC!SyncAccounts, BC!Leave, BC!Goto, Moves
    <2>2. held[r].consent \in Consent /\ stored[held[r].consent] # 0
      BY <1>1, <2>1, ConsentParts DEF GrantedHasTokens
    <2>3. PICK found \in SUBSET Account :
            owner' = [a \in Account |->
                        IF a \in found THEN held[r].consent ELSE owner[a]]
      BY <1>9 DEF BC!SyncAccounts
    <2>4. owner' \in [Account -> Consent \cup {None}]
      BY <1>2, <2>2, <2>3
    <2>5. BC!OwnerHasTokens'
      BY <1>1, <2>1, <2>2, <2>3 DEF BC!OwnerHasTokens
    <2>6. \A d \in Consent : ~BC!InHand(r, d)
      BY <2>1 DEF BC!InHand
    <2> QED BY <1>2, <2>1, <2>4, <2>5, <2>6, ConsentMoving DEF RequestLabels
  <1>10. ASSUME NEW p \in BC!Process, BC!Refresh(p)
         PROVE  ConsentInv'
    <2> DEFINE c == held[p].consent
    <2>1. /\ step[p] = "refreshing" /\ UNCHANGED <<consent, stored, owner, listed, lost>>
          /\ c \in Consent
      BY <1>1, <1>10, ConsentParts DEF BC!Refresh, BC!rows
    <2>2. CASE held[p].token = current[c]
      <3>1. BC!Give(p, c) /\ BC!Goto(p, "refreshed") /\ UNCHANGED <<BC!rows, listed, lost>>
        BY <1>10, <2>2 DEF BC!Refresh
      <3>2. /\ stored[c] \in Nat /\ current[c] \in Nat /\ stored[c] <= current[c]
            /\ current[c] <= stored[c] /\ current[c] < MaxToken
        BY <1>1, <1>2, <2>1, <2>2, ConsentFacts, ConsentParts DEF TokensBehind
      <3>3. stored[c] = current[c]
        BY <3>2
      <3> QED BY <2>1, <3>1, <3>2, <3>3, Giving, ConsentFacts DEF WorkerLabels
    <2>3. CASE held[p].token # current[c]
      <3>1. BC!Leave(p) /\ UNCHANGED BC!provider
        BY <1>10, <2>3 DEF BC!Refresh
      <3>2. BC!OwnerHasTokens' /\ \A d \in Consent : ~BC!InHand(p, d)
        BY <1>1, <2>1 DEF BC!OwnerHasTokens, BC!InHand
      <3>3. PICK label \in {"listing", "done"} :
              /\ Moves(p, label, BC!Nothing)
              /\ p = Syncing => label = "listing"
              /\ p \in Request => label = "done"
        BY <3>1, ConsentFacts DEF BC!Leave, BC!Goto, Moves
      <3> QED BY <1>2, <2>1, <3>1, <3>2, <3>3, ConsentMoving DEF WorkerLabels,
                 RequestLabels
    <2> QED BY <2>2, <2>3
  <1>11. ASSUME NEW p \in BC!Process, BC!StoreTokens(p)
         PROVE  ConsentInv'
    <2>1. /\ Unstored(p) /\ BC!Leave(p)
          /\ stored' = [stored EXCEPT ![held[p].consent] = held[p].token]
          /\ UNCHANGED <<consent, owner, BC!provider, listed, lost>>
      BY <1>11 DEF BC!StoreTokens, Unstored
    <2>2. consent' \in [Consent -> BC!Status]
      BY <1>2, <2>1
    <2>3. CASE p = Syncing
      <3>1. Moves(p, "listing", BC!Nothing)
        BY <2>1, <2>3 DEF BC!Leave, BC!Goto, Moves
      <3> QED BY <2>1, <2>2, <2>3, <3>1, Storing
    <2>4. CASE p \in Request
      <3>1. Moves(p, "done", BC!Nothing)
        BY <2>1, <2>4, ConsentFacts DEF BC!Leave, BC!Goto, Moves
      <3> QED BY <2>1, <2>2, <2>4, <3>1, Storing
    <2> QED BY <2>3, <2>4, ConsentFacts
  <1>12. ASSUME NEW p \in BC!Process, BC!FailRefresh(p)
         PROVE  ConsentInv'
    <2>1. /\ step[p] = "refreshing" /\ BC!Leave(p)
          /\ UNCHANGED <<consent, stored, owner, BC!provider, listed, lost>>
      BY <1>12 DEF BC!FailRefresh, BC!rows
    <2>2. BC!OwnerHasTokens' /\ \A d \in Consent : ~BC!InHand(p, d)
      BY <1>1, <2>1 DEF BC!OwnerHasTokens, BC!InHand
    <2>3. PICK label \in {"listing", "done"} :
            /\ Moves(p, label, BC!Nothing)
            /\ p = Syncing => label = "listing"
            /\ p \in Request => label = "done"
      BY <2>1, ConsentFacts DEF BC!Leave, BC!Goto, Moves
    <2> QED BY <1>2, <2>1, <2>2, <2>3, ConsentMoving DEF WorkerLabels,
               RequestLabels
  <1>13. ASSUME NEW p \in BC!Process, BC!Crash(p)
         PROVE  ConsentInv'
    <2>1. /\ UNCHANGED <<consent, stored, owner, BC!provider>>
          /\ lost' = lost \cup {c \in Consent : BC!InHand(p, c)}
          /\ listed' = IF p = Syncing THEN [c \in {} |-> 0] ELSE listed
      BY <1>13 DEF BC!Crash, BC!rows
    <2>2. PICK label \in {"idle", "done"} :
            /\ Moves(p, label, BC!Nothing)
            /\ p = Syncing => label = "idle"
            /\ p \in Request => label = "done"
      BY <1>13, ConsentFacts DEF BC!Crash, Moves
    <2>3. /\ listed' \in [DOMAIN listed' -> BC!Token] /\ DOMAIN listed' \subseteq Consent
          /\ \A c \in DOMAIN listed' : listed'[c] <= stored[c]
      BY <1>2, <2>1
    <2>4. BC!OwnerHasTokens'
      BY <1>1, <2>1 DEF BC!OwnerHasTokens
    <2> QED BY <1>2, <2>1, <2>2, <2>3, <2>4, ConsentMoving DEF WorkerLabels,
               RequestLabels
  <1>14. ASSUME BC!BeginTick
         PROVE  ConsentInv'
    <2>1. /\ step[Syncing] = "idle" /\ step' = [step EXCEPT ![Syncing] = "listing"]
          /\ listed' = [c \in {d \in Consent : consent[d] = "granted"} |-> stored[c]]
          /\ UNCHANGED <<consent, stored, owner, current, aged, held, lost>>
      BY <1>14 DEF BC!BeginTick, BC!Goto, BC!rows, BC!provider
    <2>2. /\ listed' \in [DOMAIN listed' -> BC!Token] /\ DOMAIN listed' \subseteq Consent
          /\ \A c \in DOMAIN listed' : listed'[c] <= stored[c]
      BY <1>2, <2>1, ConsentFacts
    <2>3. /\ step'[Syncing] = "listing"
          /\ \A q \in BC!Process \ {Syncing} : step'[q] = step[q]
          /\ step' \in [BC!Process -> {"idle", "done", "exchanged", "granted", "refreshing",
                                  "refreshed", "listing"}]
      BY <1>1, <2>1, ConsentFacts DEF ConsentTyped, BC!TypeOK
    <2>4. ConsentTyped'
      BY <1>1, <2>1, <2>2, <2>3, ConsentFacts DEF ConsentTyped, BC!TypeOK,
         WorkerLabels
    <2>5. TokensBehind' /\ UnstoredIsLast' /\ GrantedHasTokens' /\ BC!OwnerHasTokens'
      BY <1>1, <2>1, <2>2, <2>3 DEF TokensBehind, UnstoredIsLast, Unstored,
         GrantedHasTokens, BC!OwnerHasTokens
    <2>6. \A d \in Consent, q \in BC!Process : BC!InHand(q, d) => BC!InHand(q, d)'
      BY <2>1, <2>3 DEF BC!InHand
    <2>7. BC!LastTokenIsKept'
      BY <1>1, <2>1, <2>6 DEF BC!LastTokenIsKept
    <2> QED BY <2>4, <2>5, <2>7 DEF ConsentInv
  <1>15. ASSUME BC!EndTick
         PROVE  ConsentInv'
    <2>1. /\ step[Syncing] = "listing" /\ step' = [step EXCEPT ![Syncing] = "idle"]
          /\ UNCHANGED <<consent, stored, owner, current, aged, held, listed, lost>>
      BY <1>15 DEF BC!EndTick, BC!Goto, BC!rows, BC!provider
    <2>2. /\ step'[Syncing] = "idle"
          /\ \A q \in BC!Process \ {Syncing} : step'[q] = step[q]
          /\ step' \in [BC!Process -> {"idle", "done", "exchanged", "granted", "refreshing",
                                  "refreshed", "listing"}]
      BY <1>1, <2>1, ConsentFacts DEF ConsentTyped, BC!TypeOK
    <2>3. ConsentTyped'
      BY <1>1, <2>1, <2>2, ConsentFacts DEF ConsentTyped, BC!TypeOK,
         WorkerLabels
    <2>4. TokensBehind' /\ UnstoredIsLast' /\ GrantedHasTokens' /\ BC!OwnerHasTokens'
      BY <1>1, <2>1, <2>2 DEF TokensBehind, UnstoredIsLast, Unstored,
         GrantedHasTokens, BC!OwnerHasTokens
    <2>5. \A d \in Consent, q \in BC!Process : BC!InHand(q, d) => BC!InHand(q, d)'
      BY <2>1, <2>2 DEF BC!InHand
    <2>6. BC!LastTokenIsKept'
      BY <1>1, <2>1, <2>5 DEF BC!LastTokenIsKept
    <2> QED BY <2>3, <2>4, <2>6 DEF ConsentInv
  <1> QED BY <1>3, <1>4, <1>5, <1>6, <1>7, <1>8, <1>9, <1>10, <1>11, <1>12,
             <1>13,
             <1>14, <1>15 DEF BC!Next

LEMMA ConsentStep ==
  ASSUME BC!TokenAssumption, BC!DisjointAssumption, ConsentInv, [BC!Next]_(BC!vars)
  PROVE  ConsentInv'
  <1>1. CASE BC!Next
    BY <1>1, ConsentNext
  <1>2. CASE UNCHANGED BC!vars
    BY <1>2 DEF BC!vars, BC!rows, BC!provider, ConsentInv, ConsentTyped,
       BC!TypeOK, TokensBehind, UnstoredIsLast, Unstored, BC!LastTokenIsKept,
       BC!InHand, GrantedHasTokens, BC!OwnerHasTokens
  <1> QED BY <1>1, <1>2
-----------------------------------------------------------------------------
(* Results                                                                   *)

THEOREM ConsentInvariance ==
  ASSUME BC!TokenAssumption, BC!DisjointAssumption
  PROVE  BC!Spec => []ConsentInv
  <1>1. BC!Init => ConsentInv
    BY ConsentInit
  <1>2. ConsentInv /\ [BC!Next]_(BC!vars) => ConsentInv'
    BY ConsentStep
  <1> QED BY <1>1, <1>2, PTL DEF BC!Spec

\* The refresh token the provider still accepts is stored, or with a process
\* that will store it, or was lost with one: no slow writer overwrites it.
THEOREM LastTokenStays ==
  ASSUME BC!TokenAssumption, BC!DisjointAssumption
  PROVE  BC!Spec => []BC!LastTokenIsKept
  <1>1. ConsentInv => BC!LastTokenIsKept
    BY DEF ConsentInv
  <1> QED BY <1>1, ConsentInvariance, PTL

\* An account is only ever owned by a consent that has tokens.
THEOREM OwnersCanRead ==
  ASSUME BC!TokenAssumption, BC!DisjointAssumption
  PROVE  BC!Spec => []BC!OwnerHasTokens
  <1>1. ConsentInv => BC!OwnerHasTokens
    BY DEF ConsentInv
  <1> QED BY <1>1, ConsentInvariance, PTL

\* Every row, token and list keeps its type: no process asks for more tokens than
\* the provider has to give.
THEOREM ConsentTypeCorrect ==
  ASSUME BC!TokenAssumption, BC!DisjointAssumption
  PROVE  BC!Spec => []BC!TypeOK
  <1>1. ConsentInv => BC!TypeOK
    BY DEF ConsentInv, ConsentTyped
  <1> QED BY <1>1, ConsentInvariance, PTL
=============================================================================
