------------------------- MODULE ProtectedPayment -------------------------
(***************************************************************************)
(* The protected execution of a payment: approvals of a payment intent are *)
(* requested, decided step by step, and consumed by the calls that execute *)
(* the intent (apps/api/src/services/payments.ts and alpha.ts).            *)
(*                                                                         *)
(* Every handler runs in one PostgreSQL transaction at READ COMMITTED.     *)
(* SELECT ... FOR UPDATE and UPDATE take the lock of the row and keep it   *)
(* to the end of the transaction; a plain SELECT sees what is committed.   *)
(* A transaction is a member of Tx with a program counter; what it writes  *)
(* becomes visible in one step, the commit, and is lost by a rollback.     *)
(* What the payment provider did is not undone by a rollback.              *)
(***************************************************************************)
EXTENDS Naturals, FiniteSets

CONSTANTS
  Approval,     \* rows of alpha_objects of type approval, action send_payment
  Intent,       \* rows of alpha_objects of type payment_intent
  Key,          \* values of the Idempotency-Key header
  Call,         \* executePayment requests, each sent once (a retry is another)
  Review,       \* decideApprovalAlpha requests
  Attachment,   \* attachAlphaObject requests
  TargetOf,     \* the intent an approval was requested for
  Live,         \* the approvals whose frozen policy names the live provider
  Steps,        \* the length of the approval chain
  None

Object == Approval \cup Intent
Lockable == Object \cup Key
Tx == Call \cup Review \cup Attachment

ASSUME TargetAssumption == TargetOf \in [Approval -> Intent]
ASSUME StepsAssumption == Steps \in Nat \ {0}
ASSUME LiveAssumption == Live \subseteq Approval
ASSUME DisjointAssumption ==
  /\ Approval \cap Intent = {}
  /\ Object \cap Key = {}
  /\ Call \cap Review = {}
  /\ (Call \cup Review) \cap Attachment = {}
  /\ None \notin Object \cup Key \cup Tx

Statuses == {"absent", "draft", "approval_required", "approved", "rejected",
             "in_progress", "attached"}
RunStatuses == {"none", "approval_required", "completed", "rejected"}
Ended == {"done", "failed"}

VARIABLES
  status,       \* alpha_objects.status
  step,         \* the position of an approval in its chain, Steps+1 at its end
  run,          \* status of the approval's workflow run; "none": not linked yet
  tasks,        \* execution tasks released by an approval
  consumption,  \* payload_json.protected_execution_consumption: the first caller
  execution,    \* payload_json.payment_execution of an intent: its approval
  payments,     \* the payments table; a payment id is derived from its approval
  idempotency,  \* idempotency_keys: the request a stored response answers
  expired,      \* the stored responses that are past expires_at
  orders,       \* the payment orders the provider has accepted (external)
  lock,         \* the transaction that holds a row or an advisory lock
  pc,           \* where each transaction is
  request,      \* what a call asks for
  stale,        \* a call: its key was past expires_at when it began (now())
  answer,       \* the payment a call returned to its client
  review,       \* what a review read before its first lock
  attachment    \* what an attachment read before its lock

rows == <<status, step, run, tasks, consumption, execution, payments,
          idempotency>>
locals == <<request, stale, answer, review, attachment>>
vars == <<rows, expired, orders, lock, pc, locals>>

Requests == [approval : Approval, intent : Intent, key : Key]
Reviews == [approval : Approval, verdict : {"approved", "rejected"},
            step : 1..Steps, linked : BOOLEAN]
Attachments == [object : Object, mode : {"attach", "link"}, seen : Statuses]

ASSUME NoneAssumption == None \notin Reviews

Init ==
  /\ status = [o \in Object |-> IF o \in Intent THEN "draft" ELSE "absent"]
  /\ step = [a \in Approval |-> 1]
  /\ run = [a \in Approval |-> "none"]
  /\ tasks = [a \in Approval |-> 0]
  /\ consumption = [a \in Approval |-> None]
  /\ execution = [i \in Intent |-> None]
  /\ payments = {}
  /\ idempotency = [k \in Key |-> None]
  /\ expired = {}
  /\ orders = {}
  /\ lock = [l \in Lockable |-> None]
  /\ pc = [t \in Tx |-> "idle"]
  /\ request = [c \in Call |-> None]
  /\ stale = [c \in Call |-> FALSE]
  /\ answer = [c \in Call |-> None]
  /\ review = [r \in Review |-> None]
  /\ attachment = [n \in Attachment |-> None]
-----------------------------------------------------------------------------
(* Locks and transaction control *)

Goto(t, label) == pc' = [pc EXCEPT ![t] = label]

Acquire(t, l) ==
  /\ lock[l] = None
  /\ lock' = [lock EXCEPT ![l] = t]

\* Mutant: the client goes back to the pool with its transaction still open.
ReleaseNothing(t) == UNCHANGED lock

\* COMMIT and ROLLBACK give back every lock of the transaction.
Release(t) == lock' = [l \in Lockable |-> IF lock[l] = t THEN None ELSE lock[l]]

\* validateLifecycleTransition, on the statuses these objects can have.
LifecycleAllows(from, to) ==
  \/ from = to /\ from # "attached"
  \/ to = "attached" /\ from \notin {"rejected", "attached"}
  \/ to \notin {"attached", "approval_required"}
       /\ from \notin {"completed", "rejected"}
-----------------------------------------------------------------------------
(* requestApprovalAlpha: the approval, then its workflow run, in two        *)
(* transactions; a crash in between leaves the approval without a run.      *)

CreateApproval(a) ==
  /\ status[a] = "absent"
  /\ status' = [status EXCEPT ![a] = "approval_required"]
  /\ UNCHANGED <<step, run, tasks, consumption, execution, payments,
                 idempotency, expired, orders, lock, pc, locals>>

LinkRun(a) ==
  /\ status[a] # "absent"
  /\ run[a] = "none"
  /\ lock[a] = None
  /\ run' = [run EXCEPT ![a] = "approval_required"]
  /\ UNCHANGED <<status, step, tasks, consumption, execution, payments,
                 idempotency, expired, orders, lock, pc, locals>>
-----------------------------------------------------------------------------
(* executePayment *)

BeginCall(c) ==
  /\ pc[c] = "idle"
  /\ \E q \in Requests :
       /\ status[q.approval] # "absent"
       /\ request' = [request EXCEPT ![c] = q]
       /\ stale' = [stale EXCEPT ![c] = q.key \in expired]
  /\ Goto(c, "begun")
  /\ UNCHANGED <<rows, expired, orders, lock, answer, review, attachment>>

LockIntent(c) ==
  /\ pc[c] = "begun"
  /\ Acquire(c, request[c].intent)
  /\ Goto(c, "intent")
  /\ UNCHANGED <<rows, expired, orders, locals>>

LockApproval(c) ==
  /\ pc[c] = "intent"
  /\ Acquire(c, request[c].approval)
  /\ Goto(c, "approval")
  /\ UNCHANGED <<rows, expired, orders, locals>>

LockKey(c) ==
  /\ pc[c] = "approval"
  /\ Acquire(c, request[c].key)
  /\ Goto(c, "key")
  /\ UNCHANGED <<rows, expired, orders, locals>>

\* getIdempotentResponseInTransaction: an expired row is not found.
Stored(c) == IF stale[c] THEN None ELSE idempotency[request[c].key]

\* Mutant: any request that reuses the key gets the stored response.
SameKey(c) == Stored(c) # None

\* The request hash covers the approval, the target and the payload.
SameRequest(c) ==
  /\ Stored(c) = request[c].approval
  /\ TargetOf[Stored(c)] = request[c].intent

\* putIdempotentResponseInTransaction: ON CONFLICT DO NOTHING.
PutResponse(k, a) ==
  idempotency' = IF idempotency[k] = None
                   THEN [idempotency EXCEPT ![k] = a]
                   ELSE idempotency

Answer(c, a) ==
  /\ answer' = [answer EXCEPT ![c] = a]
  /\ Goto(c, "done")
  /\ Release(c)

\* The stored response of the same request is returned before any other check.
Replay(c) ==
  /\ pc[c] = "key"
  /\ Stored(c) # None
  /\ SameRequest(c)
  /\ Answer(c, Stored(c))
  /\ UNCHANGED <<rows, expired, orders, request, stale, review, attachment>>

\* Mutants: the approval's status, or its binding to the target, is not checked.
AuthorizedByChain(q) ==
  /\ step[q.approval] = Steps + 1
  /\ TargetOf[q.approval] = q.intent
AuthorizedForAnyTarget(q) ==
  /\ status[q.approval] = "approved"
  /\ step[q.approval] = Steps + 1

\* authorizeProtectedExecution
Authorized(q) ==
  /\ status[q.approval] = "approved"
  /\ step[q.approval] = Steps + 1
  /\ TargetOf[q.approval] = q.intent

Consumed(q) ==
  /\ Authorized(q)
  /\ consumption[q.approval] # None
  /\ q.approval \in payments

\* The approval has been consumed: the payment it paid for is returned.
ReplayConsumption(c) ==
  LET q == request[c] IN
  /\ pc[c] = "key"
  /\ Stored(c) = None
  /\ Consumed(q)
  /\ PutResponse(q.key, q.approval)
  /\ Answer(c, q.approval)
  /\ UNCHANGED <<status, step, run, tasks, consumption, execution, payments,
                 expired, orders, request, stale, review, attachment>>

\* Mutant: no look at payload_json.payment_execution of the intent.
ExecutableAgain(q) ==
  /\ Authorized(q)
  /\ consumption[q.approval] = None
  /\ status[q.intent] = "approved"

Executable(q) ==
  /\ Authorized(q)
  /\ consumption[q.approval] = None
  /\ execution[q.intent] = None
  /\ status[q.intent] = "approved"

\* Every check has passed and consumeProtectedExecutionApproval has updated
\* the row this transaction holds; the adapter is about to be called.
Consume(c) ==
  /\ pc[c] = "key"
  /\ Stored(c) = None
  /\ Executable(request[c])
  /\ Goto(c, "provider")
  /\ UNCHANGED <<rows, expired, orders, lock, locals>>

\* adapter.prepareExecution: the live adapter posts an order to the provider,
\* which keeps one order per idempotency key, that is per approval.
CallProvider(c) ==
  /\ pc[c] = "provider"
  /\ orders' = orders \cup ({request[c].approval} \cap Live)
  /\ Goto(c, "commit")
  /\ UNCHANGED <<rows, expired, lock, locals>>

CommitPayment(c) ==
  LET q == request[c] IN
  /\ pc[c] = "commit"
  /\ consumption' = [consumption EXCEPT ![q.approval] = c]
  /\ payments' = payments \cup {q.approval}
  /\ execution' = [execution EXCEPT ![q.intent] = q.approval]
  /\ status' = [status EXCEPT ![q.intent] = "in_progress"]
  /\ PutResponse(q.key, q.approval)
  /\ Answer(c, q.approval)
  /\ UNCHANGED <<step, run, tasks, expired, orders, request, stale, review,
                 attachment>>

\* A stored response passes its expires_at; it is never written again.
ExpireKey(k) ==
  /\ idempotency[k] # None
  /\ k \notin expired
  /\ expired' = expired \cup {k}
  /\ UNCHANGED <<rows, orders, lock, pc, locals>>
-----------------------------------------------------------------------------
(* decideApprovalAlpha *)

\* Mutant: a review may name a step that is not waiting for a decision.
RequestedStep(a) == Steps

\* resolveCurrentApprovalStep: the one step that is approval_required
CurrentStep(a) == step[a]

\* The approval is read without a lock; every check uses this reading.
ReadApproval(r) ==
  /\ pc[r] = "idle"
  /\ \E a \in Approval, verdict \in {"approved", "rejected"} :
       /\ status[a] = "approval_required"
       /\ step[a] <= Steps
       /\ review' = [review EXCEPT ![r] =
            [approval |-> a, verdict |-> verdict, step |-> CurrentStep(a),
             linked |-> run[a] # "none"]]
  /\ Goto(r, "read")
  /\ UNCHANGED <<rows, expired, orders, lock, request, stale, answer,
                 attachment>>

\* UPDATE alpha_objects ... WHERE object_id=$4: no condition on the status.
LockReviewed(r) ==
  /\ pc[r] = "read"
  /\ Acquire(r, review[r].approval)
  /\ Goto(r, "approval")
  /\ UNCHANGED <<rows, expired, orders, locals>>

\* advanceApprovalChain, on the chain that was read
Completes(v) == v.verdict = "approved" /\ v.step = Steps
Terminal(v) == v.verdict = "rejected" \/ Completes(v)
NextStep(v) == IF v.verdict = "approved" THEN v.step + 1 ELSE v.step
NextStatus(v) ==
  IF Terminal(v) THEN v.verdict ELSE "approval_required"
NextRun(v) == IF Completes(v) THEN "completed" ELSE NextStatus(v)

\* assertLifecycleTransition of the target, on a status read without a lock
TargetAllows(v) ==
  Terminal(v) => LifecycleAllows(status[TargetOf[v.approval]], v.verdict)

\* A step of the chain that is not its last leaves the target alone.
PassTarget(r) ==
  /\ pc[r] = "approval"
  /\ ~Terminal(review[r])
  /\ Goto(r, "write")
  /\ UNCHANGED <<rows, expired, orders, lock, locals>>

ReadTarget(r) ==
  /\ pc[r] = "approval"
  /\ Terminal(review[r])
  /\ TargetAllows(review[r])
  /\ Goto(r, "target")
  /\ UNCHANGED <<rows, expired, orders, lock, locals>>

LockTarget(r) ==
  /\ pc[r] = "target"
  /\ Acquire(r, TargetOf[review[r].approval])
  /\ Goto(r, "write")
  /\ UNCHANGED <<rows, expired, orders, locals>>

\* Mutant: the step is appended whatever the status of the run.
AnyRun(v) == TRUE

\* appendWorkflowRunStep is called only for a run the first read saw.
RunAllows(v) == v.linked => LifecycleAllows(run[v.approval], NextRun(v))

CommitReview(r) ==
  LET v == review[r]
      a == v.approval IN
  /\ pc[r] = "write"
  /\ RunAllows(v)
  /\ status' = [o \in Object |->
       IF o = a THEN NextStatus(v)
       ELSE IF o = TargetOf[a] /\ Terminal(v) THEN v.verdict
       ELSE status[o]]
  /\ step' = [step EXCEPT ![a] = NextStep(v)]
  /\ run' = IF v.linked THEN [run EXCEPT ![a] = NextRun(v)] ELSE run
  /\ tasks' = [tasks EXCEPT ![a] = IF Completes(v) THEN @ + 1 ELSE @]
  /\ Goto(r, "done")
  /\ Release(r)
  /\ UNCHANGED <<consumption, execution, payments, idempotency, expired,
                 orders, locals>>
-----------------------------------------------------------------------------
(* attachAlphaObject, on an approval or an intent *)

ReadAttached(n) ==
  /\ pc[n] = "idle"
  /\ \E o \in Object, mode \in {"attach", "link"} :
       /\ status[o] # "absent"
       /\ mode = "attach" => LifecycleAllows(status[o], "attached")
       /\ attachment' = [attachment EXCEPT ![n] =
            [object |-> o, mode |-> mode, seen |-> status[o]]]
  /\ Goto(n, "read")
  /\ UNCHANGED <<rows, expired, orders, lock, request, stale, answer, review>>

LockAttached(n) ==
  /\ pc[n] = "read"
  /\ Acquire(n, attachment[n].object)
  /\ Goto(n, "write")
  /\ UNCHANGED <<rows, expired, orders, locals>>

\* A link writes back the status it read; an attach writes "attached".
CommitAttached(n) ==
  LET at == attachment[n] IN
  /\ pc[n] = "write"
  /\ status' = [status EXCEPT ![at.object] =
                  IF at.mode = "link" THEN at.seen ELSE "attached"]
  /\ Goto(n, "done")
  /\ Release(n)
  /\ UNCHANGED <<step, run, tasks, consumption, execution, payments,
                 idempotency, expired, orders, locals>>
-----------------------------------------------------------------------------
(* A transaction ends without effect: a check of the handler fails (role,   *)
(* trade, account, policy, payload, adapter and the ones above), the        *)
(* provider answers with an error or not at all, the database picks it as   *)
(* the victim of a deadlock, or the process that runs it dies.              *)

Active(t) == pc[t] \notin Ended \cup {"idle"}

Rollback(t) ==
  /\ Active(t)
  /\ Goto(t, "failed")
  /\ Release(t)
  /\ UNCHANGED <<rows, expired, orders, locals>>

Wants(t) ==
  CASE t \in Call /\ pc[t] = "begun"      -> request[t].intent
    [] t \in Call /\ pc[t] = "intent"     -> request[t].approval
    [] t \in Call /\ pc[t] = "approval"   -> request[t].key
    [] t \in Review /\ pc[t] = "read"     -> review[t].approval
    [] t \in Review /\ pc[t] = "target"   -> TargetOf[review[t].approval]
    [] t \in Attachment /\ pc[t] = "read" -> attachment[t].object
    [] OTHER                              -> None

WaitsFor(t, u) == Wants(t) # None /\ lock[Wants(t)] = u

\* t waits for a cycle of transactions that wait for each other.
InDeadlock(t) ==
  \E S \in SUBSET Tx : t \in S /\ \A u \in S : \E w \in S : WaitsFor(u, w)

\* The checks of the handlers that throw, given what the transaction has read.
Refused(t) ==
  \/ /\ t \in Call
     /\ pc[t] = "key"
     /\ IF Stored(t) # None
          THEN ~SameRequest(t)
          ELSE ~Executable(request[t]) /\ ~Consumed(request[t])
  \/ /\ t \in Review
     /\ pc[t] = "approval"
     /\ ~TargetAllows(review[t])
  \/ /\ t \in Review
     /\ pc[t] = "write"
     /\ ~RunAllows(review[t])
-----------------------------------------------------------------------------
CallStep(c) ==
  \/ LockIntent(c) \/ LockApproval(c) \/ LockKey(c)
  \/ Replay(c) \/ ReplayConsumption(c) \/ Consume(c)
  \/ CallProvider(c) \/ CommitPayment(c)
ReviewStep(r) ==
  \/ LockReviewed(r) \/ PassTarget(r) \/ ReadTarget(r) \/ LockTarget(r)
  \/ CommitReview(r)
AttachmentStep(n) == LockAttached(n) \/ CommitAttached(n)

Next ==
  \/ \E a \in Approval : CreateApproval(a) \/ LinkRun(a)
  \/ \E c \in Call : BeginCall(c) \/ CallStep(c)
  \/ \E k \in Key : ExpireKey(k)
  \/ \E r \in Review : ReadApproval(r) \/ ReviewStep(r)
  \/ \E n \in Attachment : ReadAttached(n) \/ AttachmentStep(n)
  \/ \E t \in Tx : Rollback(t)

Spec == Init /\ [][Next]_vars

\* Handlers run on once their request is in; locks are granted when free;
\* PostgreSQL aborts a member of a deadlock; the provider's answer, or the
\* failure of the request to it, comes in the end.
Fairness ==
  /\ \A c \in Call : WF_vars(CallStep(c))
  /\ \A r \in Review : WF_vars(ReviewStep(r))
  /\ \A n \in Attachment : WF_vars(AttachmentStep(n))
  /\ \A t \in Tx : WF_vars((Refused(t) \/ InDeadlock(t)) /\ Rollback(t))

FairSpec == Spec /\ Fairness
-----------------------------------------------------------------------------
\* Every column, lock and local reading has its type; in particular the chain
\* position never passes its end, however many reviews race (alpha.ts:6428).
TypeOK ==
  /\ status \in [Object -> Statuses]
  /\ step \in [Approval -> 1..(Steps + 1)]
  /\ run \in [Approval -> RunStatuses]
  /\ tasks \in [Approval -> Nat]
  /\ consumption \in [Approval -> Call \cup {None}]
  /\ execution \in [Intent -> Approval \cup {None}]
  /\ payments \subseteq Approval
  /\ idempotency \in [Key -> Approval \cup {None}]
  /\ expired \subseteq Key
  /\ orders \subseteq Approval
  /\ lock \in [Lockable -> Tx \cup {None}]
  /\ pc \in [Tx -> {"idle", "begun", "read", "intent", "approval", "key",
                     "target", "provider", "commit", "write"} \cup Ended]
  /\ request \in [Call -> Requests \cup {None}]
  /\ stale \in [Call -> BOOLEAN]
  /\ answer \in [Call -> Approval \cup {None}]
  /\ review \in [Review -> Reviews \cup {None}]
  /\ attachment \in [Attachment -> Attachments \cup {None}]

\* At most one payment is recorded for a payment intent, whatever approvals,
\* keys and retries lead to it (payments.ts:203-209, the intent's row lock).
OnePaymentPerIntent ==
  \A a, b \in payments : TargetOf[a] = TargetOf[b] => a = b

\* The payments table, the consumption on the approval and the execution on
\* the intent tell the same story after every commit (payments.ts:250-366).
PaymentAgreement ==
  \A a \in Approval :
    /\ a \in payments <=> consumption[a] # None
    /\ a \in payments <=> execution[TargetOf[a]] = a

\* The provider is asked only on behalf of an approval that is approved to
\* the end of its chain and unspent, for an intent that has no payment.
OrderAuthorised ==
  [][\A a \in orders' \ orders :
       /\ status[a] = "approved"
       /\ step[a] = Steps + 1
       /\ consumption[a] = None
       /\ execution[TargetOf[a]] = None]_vars

\* A consumption is never overwritten, nor is the execution of an intent
\* (protected-execution-consumption.ts:34, payments.ts:204).
ConsumptionIsFinal ==
  [][/\ \A a \in Approval :
          consumption[a] # None => consumption'[a] = consumption[a]
     /\ \A i \in Intent :
          execution[i] # None => execution'[i] = execution[i]]_vars

\* A call that was answered was answered with the payment of its own approval,
\* that payment is recorded, and it is the execution of the intent it named.
AnswersArePayments ==
  \A c \in Call :
    answer[c] # None =>
      /\ answer[c] = request[c].approval
      /\ answer[c] \in payments
      /\ execution[request[c].intent] = answer[c]

ReviewedSteps(a) ==
  {s \in 1..Steps : \E r \in Review : /\ pc[r] = "done"
                                      /\ review[r].approval = a
                                      /\ review[r].step = s
                                      /\ review[r].verdict = "approved"}

\* Every step of the chain of a paid approval was approved by a review that
\* committed, although reviews overwrite each other's chain (alpha.ts:1564).
PaidWasReviewed == \A a \in payments : ReviewedSteps(a) = 1..Steps

\* An approval whose workflow run is rejected has no payment, provided every
\* review of it saw the run: the run's lifecycle is what stops a review that
\* read the approval before the rejection (alpha.ts:3037).
RejectedIsNeverPaid ==
  \A a \in payments :
    run[a] = "rejected" =>
      \E r \in Review : review[r] # None /\ review[r].approval = a
                          /\ ~review[r].linked

\* Every call that has begun ends, in spite of the deadlock of the two lock
\* orders: intent then approval here, approval then intent in a review.
EveryCallEnds == \A c \in Call : pc[c] = "begun" ~> pc[c] \in Ended

\* alpha.ts:1525: an approval that has been decided is not decided again, so
\* it releases one execution task.
DecidedOnce == \A a \in Approval : tasks[a] <= 1

\* protected-actions.yaml:30, "non-duplication": the provider is given one
\* order for an intent.
OneOrderPerIntent ==
  \A a, b \in orders : TargetOf[a] = TargetOf[b] => a = b

\* object-lifecycle.test.ts:13: objects are attached only from non-terminal
\* states, so a rejected approval stays rejected when it is attached.
RejectedIsNotAttached ==
  [][\A a \in Approval :
       status[a] = "rejected" => status'[a] # "attached"]_vars

-----------------------------------------------------------------------------
(* The inductive invariant: what a transaction has read, the locks it has    *)
(* taken so far, and what its checks established stay true until it ends.    *)

CallLabels == {"idle", "begun", "intent", "approval", "key", "provider",
               "commit"} \cup Ended
ReviewLabels == {"idle", "read", "approval", "target", "write"} \cup Ended
AttachmentLabels == {"idle", "read", "write"} \cup Ended

LocalsKnown ==
  /\ \A c \in Call : /\ pc[c] \in CallLabels
                     /\ pc[c] # "idle" => request[c] \in Requests
  /\ \A r \in Review : /\ pc[r] \in ReviewLabels
                       /\ pc[r] # "idle" => review[r] \in Reviews
  /\ \A n \in Attachment : /\ pc[n] \in AttachmentLabels
                           /\ pc[n] # "idle" => attachment[n] \in Attachments

\* Two-phase locking: the rows a transaction reads to decide are its own.
CallHolds(c) ==
  /\ pc[c] \in {"intent", "approval", "key", "provider", "commit"} =>
       lock[request[c].intent] = c
  /\ pc[c] \in {"approval", "key", "provider", "commit"} =>
       lock[request[c].approval] = c

ReviewHolds(r) ==
  /\ pc[r] \in {"approval", "target", "write"} =>
       lock[review[r].approval] = r
  /\ pc[r] = "target" => Terminal(review[r])
  /\ pc[r] = "write" /\ Terminal(review[r]) =>
       lock[TargetOf[review[r].approval]] = r

LocksHeld ==
  /\ \A c \in Call : CallHolds(c)
  /\ \A r \in Review : ReviewHolds(r)
  /\ \A n \in Attachment : pc[n] = "write" => lock[attachment[n].object] = n

\* From the last check to the commit nothing the check saw can change.
StillExecutable ==
  \A c \in Call :
    /\ pc[c] \in {"provider", "commit"} => Executable(request[c])
    /\ pc[c] = "commit" => {request[c].approval} \cap Live \subseteq orders

Inv == TypeOK /\ LocalsKnown /\ LocksHeld /\ StillExecutable /\ PaymentAgreement
-----------------------------------------------------------------------------
\* The refinement mapping: an approval is granted when a call could be
\* authorised with it, and an intent is paid by the approval it records.
Granted == {a \in Approval : status[a] = "approved" /\ step[a] = Steps + 1}
Once == INSTANCE PaymentOnce
          WITH granted <- Granted, ordered <- orders, paidBy <- execution
PaysOnce == Once!Spec
=============================================================================
