---------------------- MODULE ProtectedPaymentProofs ----------------------
(***************************************************************************)
(* Proofs about ProtectedPayment, for every set of approvals, intents,     *)
(* keys and requests, and every length of the approval chain.              *)
(***************************************************************************)
EXTENDS ProtectedPayment, TLAPS

Typed == TypeOK /\ LocalsKnown

\* Init establishes the typing.
LEMMA TypedInit == Init => Typed
  <1> SUFFICES ASSUME Init PROVE Typed
    OBVIOUS
  <1>1. TypeOK
    BY StepsAssumption DEF Init, TypeOK, Statuses, RunStatuses, Lockable, Tx, Ended, Object
  <1>2. LocalsKnown
    BY DEF Init, LocalsKnown, CallLabels, ReviewLabels, AttachmentLabels, Tx
  <1> QED BY <1>1, <1>2 DEF Typed

\* Requesting an approval, linking its run and expiring a key keep the typing.
LEMMA TypedEnvironment ==
  ASSUME Typed,
         \/ \E a \in Approval : CreateApproval(a) \/ LinkRun(a)
         \/ \E k \in Key : ExpireKey(k)
  PROVE  Typed'
  <1>1. ASSUME NEW a \in Approval, CreateApproval(a) \/ LinkRun(a)
        PROVE  Typed'
    BY <1>1 DEF Typed, TypeOK, LocalsKnown, CreateApproval, LinkRun, locals,
       Statuses, RunStatuses, Object
  <1>2. ASSUME NEW k \in Key, ExpireKey(k)
        PROVE  Typed'
    BY <1>2 DEF Typed, TypeOK, LocalsKnown, ExpireKey, locals, rows
  <1> QED BY <1>1, <1>2

\* Taking a lock touches nothing but the lock and the program counter.
LEMMA AcquireTyped ==
  ASSUME NEW t \in Tx, NEW l \in Lockable, Acquire(t, l),
         lock \in [Lockable -> Tx \cup {None}]
  PROVE  lock' \in [Lockable -> Tx \cup {None}]
  BY DEF Acquire

\* Every step of executePayment keeps the typing.
LEMMA TypedCall ==
  ASSUME Typed, NEW c \in Call, BeginCall(c) \/ CallStep(c)
  PROVE  Typed'
  <1> USE DisjointAssumption DEF Typed
  <1>1. CASE BeginCall(c)
    BY <1>1 DEF TypeOK, LocalsKnown, BeginCall, Goto, rows, Tx, CallLabels, Ended
  <1>2. CASE LockIntent(c)
    <2>1. request[c].intent \in Lockable
      BY <1>2, TargetAssumption DEF LocalsKnown, LockIntent, Requests, Lockable, Object
    <2>2. lock' \in [Lockable -> Tx \cup {None}]
      BY <1>2, <2>1, AcquireTyped DEF TypeOK, LockIntent, Tx
    <2> QED
      BY <1>2, <2>2 DEF TypeOK, LocalsKnown, LockIntent, Goto, rows, locals,
         Tx, CallLabels, Ended
  <1>3. CASE LockApproval(c)
    <2>1. request[c].approval \in Lockable
      BY <1>3, TargetAssumption DEF LocalsKnown, LockApproval, Requests, Lockable, Object
    <2>2. lock' \in [Lockable -> Tx \cup {None}]
      BY <1>3, <2>1, AcquireTyped DEF TypeOK, LockApproval, Tx
    <2> QED
      BY <1>3, <2>2 DEF TypeOK, LocalsKnown, LockApproval, Goto, rows, locals,
         Tx, CallLabels, Ended
  <1>4. CASE LockKey(c)
    <2>1. request[c].key \in Lockable
      BY <1>4, TargetAssumption DEF LocalsKnown, LockKey, Requests, Lockable, Object
    <2>2. lock' \in [Lockable -> Tx \cup {None}]
      BY <1>4, <2>1, AcquireTyped DEF TypeOK, LockKey, Tx
    <2> QED
      BY <1>4, <2>2 DEF TypeOK, LocalsKnown, LockKey, Goto, rows, locals,
         Tx, CallLabels, Ended
  <1>5. CASE Replay(c)
    BY <1>5 DEF TypeOK, LocalsKnown, Replay, SameRequest, Answer, Release, Goto,
       rows, Tx, CallLabels, Ended, Requests
  <1>6. CASE ReplayConsumption(c)
    BY <1>6 DEF TypeOK, LocalsKnown, ReplayConsumption, Answer, PutResponse,
       Release, Goto, Tx, CallLabels, Ended, Requests
  <1>7. CASE Consume(c)
    BY <1>7 DEF TypeOK, LocalsKnown, Consume, Goto, rows, locals, Tx,
       CallLabels, Ended
  <1>8. CASE CallProvider(c)
    BY <1>8 DEF TypeOK, LocalsKnown, CallProvider, Goto, rows, locals, Tx,
       CallLabels, Ended, Requests
  <1>9. CASE CommitPayment(c)
    <2>1. request[c] \in Requests
      BY <1>9 DEF LocalsKnown, CommitPayment
    <2> QED
      BY <1>9, <2>1 DEF TypeOK, LocalsKnown, CommitPayment, Answer, PutResponse,
         Release, Goto, Tx, CallLabels, Ended, Requests, Statuses, Object
  <1> QED
    BY <1>1, <1>2, <1>3, <1>4, <1>5, <1>6, <1>7, <1>8, <1>9 DEF CallStep

\* Every step of decideApprovalAlpha keeps the typing.
LEMMA TypedReview ==
  ASSUME Typed, NEW r \in Review, ReadApproval(r) \/ ReviewStep(r)
  PROVE  Typed'
  <1> USE DisjointAssumption DEF Typed
  <1>1. CASE ReadApproval(r)
    BY <1>1, StepsAssumption DEF TypeOK, LocalsKnown, ReadApproval, CurrentStep, Goto, rows, Tx,
       ReviewLabels, Ended, Reviews
  <1>2. CASE LockReviewed(r)
    <2>1. review[r].approval \in Lockable
      BY <1>2, TargetAssumption DEF LocalsKnown, LockReviewed, Reviews, Lockable, Object
    <2>2. lock' \in [Lockable -> Tx \cup {None}]
      BY <1>2, <2>1, AcquireTyped DEF TypeOK, LockReviewed, Tx
    <2> QED
      BY <1>2, <2>2 DEF TypeOK, LocalsKnown, LockReviewed, Goto, rows, locals,
         Tx, ReviewLabels, Ended
  <1>3. CASE PassTarget(r)
    BY <1>3 DEF TypeOK, LocalsKnown, PassTarget, Goto, rows, locals, Tx,
       ReviewLabels, Ended
  <1>4. CASE ReadTarget(r)
    BY <1>4 DEF TypeOK, LocalsKnown, ReadTarget, Goto, rows, locals, Tx,
       ReviewLabels, Ended
  <1>5. CASE LockTarget(r)
    <2>1. TargetOf[review[r].approval] \in Lockable
      BY <1>5, TargetAssumption DEF LocalsKnown, LockTarget, Reviews, Lockable, Object
    <2>2. lock' \in [Lockable -> Tx \cup {None}]
      BY <1>5, <2>1, AcquireTyped DEF TypeOK, LockTarget, Tx
    <2> QED
      BY <1>5, <2>2 DEF TypeOK, LocalsKnown, LockTarget, Goto, rows, locals,
         Tx, ReviewLabels, Ended
  <1>6. CASE CommitReview(r)
    <2>1. review[r] \in Reviews
      BY <1>6 DEF LocalsKnown, CommitReview
    <2>2. /\ NextStatus(review[r]) \in Statuses
          /\ review[r].verdict \in Statuses
          /\ NextRun(review[r]) \in RunStatuses
          /\ NextStep(review[r]) \in 1..(Steps + 1)
      BY <2>1, StepsAssumption DEF Reviews, NextStatus, NextRun, NextStep, Completes,
         Terminal, Statuses, RunStatuses
    <2>3. status' \in [Object -> Statuses]
      BY <1>6, <2>2 DEF TypeOK, CommitReview
    <2>4. step' \in [Approval -> 1..(Steps + 1)]
      BY <1>6, <2>2 DEF TypeOK, CommitReview
    <2>5. run' \in [Approval -> RunStatuses]
      BY <1>6, <2>2 DEF TypeOK, CommitReview
    <2>6. tasks' \in [Approval -> Nat]
      BY <1>6, <2>1 DEF TypeOK, CommitReview, Reviews
    <2>7. lock' \in [Lockable -> Tx \cup {None}]
      BY <1>6 DEF TypeOK, CommitReview, Release
    <2> QED
      BY <1>6, <2>3, <2>4, <2>5, <2>6, <2>7 DEF TypeOK, LocalsKnown,
         CommitReview, Goto, locals, Tx, ReviewLabels, Ended
  <1> QED
    BY <1>1, <1>2, <1>3, <1>4, <1>5, <1>6 DEF ReviewStep

\* Every step of attachAlphaObject keeps the typing.
LEMMA TypedAttachment ==
  ASSUME Typed, NEW n \in Attachment, ReadAttached(n) \/ AttachmentStep(n)
  PROVE  Typed'
  <1> USE DisjointAssumption DEF Typed
  <1>1. CASE ReadAttached(n)
    BY <1>1 DEF TypeOK, LocalsKnown, ReadAttached, Goto, rows, Tx,
       AttachmentLabels, Ended, Attachments
  <1>2. CASE LockAttached(n)
    <2>1. attachment[n].object \in Lockable
      BY <1>2, TargetAssumption DEF LocalsKnown, LockAttached, Attachments, Lockable, Object
    <2>2. lock' \in [Lockable -> Tx \cup {None}]
      BY <1>2, <2>1, AcquireTyped DEF TypeOK, LockAttached, Tx
    <2> QED
      BY <1>2, <2>2 DEF TypeOK, LocalsKnown, LockAttached, Goto, rows, locals,
         Tx, AttachmentLabels, Ended
  <1>3. CASE CommitAttached(n)
    <2>1. attachment[n] \in Attachments
      BY <1>3 DEF LocalsKnown, CommitAttached
    <2> QED
      BY <1>3, <2>1 DEF TypeOK, LocalsKnown, CommitAttached, Release, Goto,
         locals, Tx, AttachmentLabels, Ended, Attachments, Statuses
  <1> QED
    BY <1>1, <1>2, <1>3 DEF AttachmentStep

\* A rollback keeps the typing.
LEMMA TypedRollback ==
  ASSUME Typed, NEW t \in Tx, Rollback(t)
  PROVE  Typed'
  BY DEF Typed, TypeOK, LocalsKnown, Rollback, Active, Release, Goto, rows,
     locals, Tx, CallLabels, ReviewLabels, AttachmentLabels, Ended

\* So every step does.
LEMMA TypedStep == Typed /\ [Next]_vars => Typed'
  <1> SUFFICES ASSUME Typed, [Next]_vars PROVE Typed'
    OBVIOUS
  <1>1. CASE UNCHANGED vars
    BY <1>1 DEF Typed, TypeOK, LocalsKnown, vars, rows, locals
  <1>2. CASE Next
    BY <1>2, TypedEnvironment, TypedCall, TypedReview, TypedAttachment,
       TypedRollback DEF Next
  <1> QED BY <1>1, <1>2

\* Every variable has its type, and a transaction that has begun knows what it
\* was asked and what it has read.
\* The strengthened type invariant holds: rows, locks and program counters have
\* their types, and a transaction that has begun knows what it works on.
THEOREM Typing == Spec => []Typed
  BY TypedInit, TypedStep, PTL DEF Spec

\* Every column, lock and local reading of the handlers keeps its type.
THEOREM TypeCorrect == Spec => []TypeOK
  <1>1. Typed => TypeOK
    BY DEF Typed
  <1> QED BY <1>1, Typing, PTL

-----------------------------------------------------------------------------
(* Two-phase locking: LocksHeld is inductive.                                *)

\* A lock is not lost through another transaction's step.
LEMMA LockStays ==
  ASSUME Typed, NEW t \in Tx, NEW u \in Tx \ {t}, NEW l \in Lockable,
         lock[l] = u,
         \/ lock' = lock
         \/ Release(t)
         \/ \E m \in Lockable : Acquire(t, m)
  PROVE  lock'[l] = u
  BY DisjointAssumption DEF Typed, TypeOK, Release, Acquire

\* What a step of t does to the program counter, locks and locals of others.
StepOf(t) ==
  /\ \A u \in Tx \ {t} : pc'[u] = pc[u]
  /\ \A c \in Call \ {t} : request'[c] = request[c]
  /\ \A r \in Review \ {t} : review'[r] = review[r]
  /\ \A n \in Attachment \ {t} : attachment'[n] = attachment[n]
  /\ \/ lock' = lock
     \/ Release(t)
     \/ \E m \in Lockable : Acquire(t, m)

OthersHold(t) ==
  /\ \A c \in Call \ {t} : CallHolds(c)
  /\ \A r \in Review \ {t} : ReviewHolds(r)
  /\ \A n \in Attachment \ {t} :
       pc[n] = "write" => lock[attachment[n].object] = n

\* A step of one transaction leaves the locks of the others alone.
LEMMA OthersStillHold ==
  ASSUME Typed, LocksHeld, NEW t \in Tx, StepOf(t)
  PROVE  OthersHold(t)'
  <1>1. ASSUME NEW c \in Call \ {t} PROVE CallHolds(c)'
    <2>1. /\ c \in Tx \ {t}
          /\ pc'[c] = pc[c]
          /\ request'[c] = request[c]
      BY <1>1 DEF StepOf, Tx
    <2>2. pc[c] # "idle" => /\ request[c].intent \in Lockable
                           /\ request[c].approval \in Lockable
      BY <1>1 DEF Typed, LocalsKnown, Requests, Lockable, Object
    <2>3. CallHolds(c)
      BY <1>1 DEF LocksHeld
    <2> QED
      BY <2>1, <2>2, <2>3, LockStays DEF CallHolds, StepOf
  <1>2. ASSUME NEW r \in Review \ {t} PROVE ReviewHolds(r)'
    <2>1. /\ r \in Tx \ {t}
          /\ pc'[r] = pc[r]
          /\ review'[r] = review[r]
      BY <1>2 DEF StepOf, Tx
    <2>2. pc[r] # "idle" => /\ review[r].approval \in Lockable
                           /\ TargetOf[review[r].approval] \in Lockable
      BY <1>2, TargetAssumption DEF Typed, LocalsKnown, Reviews, Lockable, Object
    <2>3. ReviewHolds(r)
      BY <1>2 DEF LocksHeld
    <2>4. Terminal(review[r])' <=> Terminal(review[r])
      BY <2>1 DEF Terminal, Completes
    <2> QED
      BY <2>1, <2>2, <2>3, <2>4, LockStays DEF ReviewHolds, StepOf
  <1>3. ASSUME NEW n \in Attachment \ {t}
        PROVE  (pc[n] = "write" => lock[attachment[n].object] = n)'
    <2>1. /\ n \in Tx \ {t}
          /\ pc'[n] = pc[n]
          /\ attachment'[n] = attachment[n]
      BY <1>3 DEF StepOf, Tx
    <2>2. pc[n] # "idle" => attachment[n].object \in Lockable
      BY <1>3 DEF Typed, LocalsKnown, Attachments, Lockable
    <2>3. pc[n] = "write" => lock[attachment[n].object] = n
      BY <1>3 DEF LocksHeld
    <2> QED
      BY <2>1, <2>2, <2>3, LockStays DEF StepOf
  <1> QED BY <1>1, <1>2, <1>3 DEF OthersHold

\* A call holds the rows its program counter says it has locked.
LEMMA LocksCall ==
  ASSUME Typed, LocksHeld, NEW c \in Call, BeginCall(c) \/ CallStep(c)
  PROVE  StepOf(c) /\ LocksHeld'
  <1>1. pc[c] # "idle" => /\ request[c].intent \in Lockable
                         /\ request[c].approval \in Lockable
                         /\ request[c].key \in Lockable
    BY DEF Typed, LocalsKnown, Requests, Lockable, Object
  <1>2. c \in Tx /\ c \notin Review /\ c \notin Attachment
    BY DisjointAssumption DEF Tx
  <1>3. CASE BeginCall(c)
    <2>1. StepOf(c)
      BY <1>2, <1>3 DEF Typed, TypeOK, BeginCall, Goto, StepOf
    <2>2. CallHolds(c)'
      BY <1>2, <1>3 DEF Typed, TypeOK, BeginCall, Goto, CallHolds
    <2> QED
      BY <1>2, <2>1, <2>2, OthersStillHold DEF OthersHold, LocksHeld
  <1>4. CASE LockIntent(c) \/ LockApproval(c) \/ LockKey(c)
    <2>1. StepOf(c)
      BY <1>1, <1>2, <1>4 DEF Typed, TypeOK, LockIntent, LockApproval, LockKey,
         Goto, locals, StepOf
    <2>2. CallHolds(c)'
      BY <1>1, <1>2, <1>4 DEF Typed, TypeOK, LockIntent, LockApproval, LockKey,
         Acquire, Goto, locals, LocksHeld, CallHolds
    <2> QED
      BY <1>2, <2>1, <2>2, OthersStillHold DEF OthersHold, LocksHeld
  <1>5. CASE Consume(c) \/ CallProvider(c)
    <2>1. StepOf(c)
      BY <1>2, <1>5 DEF Typed, TypeOK, Consume, CallProvider, Goto, locals, StepOf
    <2>2. CallHolds(c)'
      BY <1>2, <1>5 DEF Typed, TypeOK, Consume, CallProvider, Goto, locals,
         LocksHeld, CallHolds
    <2> QED
      BY <1>2, <2>1, <2>2, OthersStillHold DEF OthersHold, LocksHeld
  <1>6. CASE Replay(c) \/ ReplayConsumption(c) \/ CommitPayment(c)
    <2>1. StepOf(c)
      BY <1>2, <1>6 DEF Typed, TypeOK, Replay, ReplayConsumption, CommitPayment,
         Answer, Goto, StepOf
    <2>2. CallHolds(c)'
      BY <1>2, <1>6 DEF Typed, TypeOK, Replay, ReplayConsumption, CommitPayment,
         Answer, Goto, CallHolds
    <2> QED
      BY <1>2, <2>1, <2>2, OthersStillHold DEF OthersHold, LocksHeld
  <1> QED
    BY <1>3, <1>4, <1>5, <1>6 DEF CallStep

\* So does a review.
LEMMA LocksReview ==
  ASSUME Typed, LocksHeld, NEW r \in Review, ReadApproval(r) \/ ReviewStep(r)
  PROVE  StepOf(r) /\ LocksHeld'
  <1>1. pc[r] # "idle" => /\ review[r].approval \in Lockable
                         /\ TargetOf[review[r].approval] \in Lockable
    BY TargetAssumption DEF Typed, LocalsKnown, Reviews, Lockable, Object
  <1>2. r \in Tx /\ r \notin Call /\ r \notin Attachment
    BY DisjointAssumption DEF Tx
  <1>3. CASE ReadApproval(r)
    <2>1. StepOf(r)
      BY <1>2, <1>3 DEF Typed, TypeOK, ReadApproval, CurrentStep, Goto, StepOf
    <2>2. ReviewHolds(r)'
      BY <1>2, <1>3 DEF Typed, TypeOK, ReadApproval, CurrentStep, Goto, ReviewHolds
    <2> QED
      BY <1>2, <2>1, <2>2, OthersStillHold DEF OthersHold, LocksHeld
  <1>4. CASE LockReviewed(r) \/ LockTarget(r)
    <2>1. StepOf(r)
      BY <1>1, <1>2, <1>4 DEF Typed, TypeOK, LockReviewed, LockTarget, Goto,
         locals, StepOf
    <2>2. ReviewHolds(r)'
      BY <1>1, <1>2, <1>4 DEF Typed, TypeOK, LockReviewed, LockTarget, Acquire,
         Goto, locals, LocksHeld, ReviewHolds
    <2> QED
      BY <1>2, <2>1, <2>2, OthersStillHold DEF OthersHold, LocksHeld
  <1>5. CASE PassTarget(r) \/ ReadTarget(r)
    <2>1. StepOf(r)
      BY <1>2, <1>5 DEF Typed, TypeOK, PassTarget, ReadTarget, Goto, locals, StepOf
    <2>2. ReviewHolds(r)'
      <3>1. review' = review /\ lock' = lock
        BY <1>5 DEF PassTarget, ReadTarget, locals
      <3>2. Terminal(review[r])' <=> Terminal(review[r])
        BY <3>1 DEF Terminal, Completes
      <3> QED
        BY <1>2, <1>5, <3>1, <3>2 DEF Typed, TypeOK, PassTarget, ReadTarget, Goto,
           LocksHeld, ReviewHolds
    <2> QED
      BY <1>2, <2>1, <2>2, OthersStillHold DEF OthersHold, LocksHeld
  <1>6. CASE CommitReview(r)
    <2>1. StepOf(r)
      BY <1>2, <1>6 DEF Typed, TypeOK, CommitReview, Goto, locals, StepOf
    <2>2. ReviewHolds(r)'
      BY <1>2, <1>6 DEF Typed, TypeOK, CommitReview, Goto, ReviewHolds
    <2> QED
      BY <1>2, <2>1, <2>2, OthersStillHold DEF OthersHold, LocksHeld
  <1> QED
    BY <1>3, <1>4, <1>5, <1>6 DEF ReviewStep

\* So does an attachment.
LEMMA LocksAttachment ==
  ASSUME Typed, LocksHeld, NEW n \in Attachment,
         ReadAttached(n) \/ AttachmentStep(n)
  PROVE  StepOf(n) /\ LocksHeld'
  <1>1. pc[n] # "idle" => attachment[n].object \in Lockable
    BY DEF Typed, LocalsKnown, Attachments, Lockable
  <1>2. n \in Tx /\ n \notin Call /\ n \notin Review
    BY DisjointAssumption DEF Tx
  <1>3. StepOf(n)
    BY <1>1, <1>2 DEF Typed, TypeOK, ReadAttached, AttachmentStep, LockAttached,
       CommitAttached, Goto, locals, StepOf
  <1>4. (pc[n] = "write" => lock[attachment[n].object] = n)'
    BY <1>1, <1>2 DEF Typed, TypeOK, ReadAttached, AttachmentStep, LockAttached,
       CommitAttached, Acquire, Goto, locals
  <1> QED
    BY <1>2, <1>3, <1>4, OthersStillHold DEF OthersHold, LocksHeld

\* A rollback gives back the locks of its own transaction only.
LEMMA LocksRollback ==
  ASSUME Typed, LocksHeld, NEW t \in Tx, Rollback(t)
  PROVE  StepOf(t) /\ LocksHeld'
  <1>1. StepOf(t)
    BY DEF Typed, TypeOK, Rollback, Goto, locals, StepOf
  <1>2. pc'[t] = "failed"
    BY DEF Typed, TypeOK, Rollback, Goto
  <1> QED
    BY <1>1, <1>2, OthersStillHold DEF OthersHold, LocksHeld, CallHolds, ReviewHolds

-----------------------------------------------------------------------------
(* What a call has checked cannot change before it commits, because every    *)
(* row it checked is one it has locked.                                      *)

SameRows(q) ==
  /\ status'[q.approval] = status[q.approval]
  /\ status'[q.intent] = status[q.intent]
  /\ step'[q.approval] = step[q.approval]
  /\ consumption'[q.approval] = consumption[q.approval]
  /\ execution'[q.intent] = execution[q.intent]

\* A new approval, a linked run or an expired key does not disturb a checked call.
LEMMA EnvironmentSpares ==
  ASSUME Typed, NEW c \in Call, pc[c] # "idle", Executable(request[c]),
         \/ \E a \in Approval : CreateApproval(a) \/ LinkRun(a)
         \/ \E k \in Key : ExpireKey(k)
  PROVE  SameRows(request[c])
  <1>1. request[c].approval \in Object /\ request[c].intent \in Object
    BY DEF Typed, LocalsKnown, Requests, Object
  <1>2. /\ status[request[c].approval] = "approved"
        /\ status[request[c].intent] = "approved"
    BY DEF Executable, Authorized
  <1> QED
    BY <1>1, <1>2 DEF Typed, TypeOK, CreateApproval, LinkRun, ExpireKey, rows,
       SameRows

\* Another call cannot write the rows a call has locked.
LEMMA CallSpares ==
  ASSUME Typed, LocksHeld, NEW c \in Call, NEW d \in Call \ {c},
         pc[c] \in {"provider", "commit"}, BeginCall(d) \/ CallStep(d)
  PROVE  SameRows(request[c])
  <1>1. CASE CommitPayment(d)
    <2>1. pc[d] = "commit"
      BY <1>1 DEF CommitPayment
    <2>2. /\ lock[request[c].approval] = c
          /\ lock[request[c].intent] = c
          /\ lock[request[d].approval] = d
          /\ lock[request[d].intent] = d
      BY <2>1 DEF LocksHeld, CallHolds
    <2>3. /\ request[c].approval # request[d].approval
          /\ request[c].approval # request[d].intent
          /\ request[c].intent # request[d].intent
      BY <2>2
    <2>4. /\ request[c] \in Requests
          /\ request[d] \in Requests
      BY <2>1 DEF Typed, LocalsKnown
    <2> QED
      BY <1>1, <2>3, <2>4 DEF CommitPayment, Typed, TypeOK, SameRows, Requests,
         Object
  <1>2. CASE ~CommitPayment(d)
    BY <1>2 DEF CallStep, BeginCall, LockIntent, LockApproval, LockKey, Replay,
       ReplayConsumption, Consume, CallProvider, rows, SameRows
  <1> QED BY <1>1, <1>2

\* Neither can a review ...
LEMMA ReviewSpares ==
  ASSUME Typed, LocksHeld, NEW c \in Call, NEW r \in Review,
         pc[c] \in {"provider", "commit"}, ReadApproval(r) \/ ReviewStep(r)
  PROVE  SameRows(request[c])
  <1>1. CASE CommitReview(r)
    <2>1. pc[r] = "write"
      BY <1>1 DEF CommitReview
    <2>2. /\ lock[request[c].approval] = c
          /\ lock[request[c].intent] = c
          /\ lock[review[r].approval] = r
          /\ Terminal(review[r]) => lock[TargetOf[review[r].approval]] = r
      BY <2>1 DEF LocksHeld, CallHolds, ReviewHolds
    <2>3. c # r
      BY DisjointAssumption
    <2>4. request[c] \in Requests /\ review[r] \in Reviews
      BY <2>1 DEF Typed, LocalsKnown
    <2>5. /\ status'[request[c].approval] = status[request[c].approval]
          /\ status'[request[c].intent] = status[request[c].intent]
      BY <1>1, <2>2, <2>3, <2>4 DEF CommitReview, Requests, Object
    <2>6. step'[request[c].approval] = step[request[c].approval]
      BY <1>1, <2>2, <2>3, <2>4 DEF CommitReview, Typed, TypeOK, Requests
    <2> QED
      BY <1>1, <2>5, <2>6 DEF CommitReview, SameRows
  <1>2. CASE ~CommitReview(r)
    BY <1>2 DEF ReviewStep, ReadApproval, CurrentStep, LockReviewed, PassTarget, ReadTarget,
       LockTarget, rows, SameRows
  <1> QED BY <1>1, <1>2

\* ... nor an attachment.
LEMMA AttachmentSpares ==
  ASSUME Typed, LocksHeld, NEW c \in Call, NEW n \in Attachment,
         pc[c] \in {"provider", "commit"}, ReadAttached(n) \/ AttachmentStep(n)
  PROVE  SameRows(request[c])
  <1>1. CASE CommitAttached(n)
    <2>1. pc[n] = "write"
      BY <1>1 DEF CommitAttached
    <2>2. /\ lock[request[c].approval] = c
          /\ lock[request[c].intent] = c
          /\ lock[attachment[n].object] = n
      BY <2>1 DEF LocksHeld, CallHolds
    <2>3. c # n
      BY DisjointAssumption
    <2>4. request[c] \in Requests
      BY DEF Typed, LocalsKnown
    <2> QED
      BY <1>1, <2>2, <2>3, <2>4 DEF CommitAttached, Typed, TypeOK, SameRows,
         Requests, Object
  <1>2. CASE ~CommitAttached(n)
    BY <1>2 DEF AttachmentStep, ReadAttached, LockAttached, rows, SameRows
  <1> QED BY <1>1, <1>2

\* SameRows and unchanged orders keep what StillExecutable says of a call.
LEMMA SparedCall ==
  ASSUME NEW c \in Call, Executable(request[c]), SameRows(request[c]),
         request'[c] = request[c]
  PROVE  Executable(request[c])'
  BY DEF Executable, Authorized, SameRows

\* What a call has checked stays true until it commits (payments.ts:204-366).
LEMMA ExecutableStep ==
  ASSUME Typed, LocksHeld, StillExecutable, Next
  PROVE  StillExecutable'
  <1>1. orders \subseteq orders'
    BY DEF Next, CreateApproval, LinkRun, BeginCall, CallStep, LockIntent,
       LockApproval, LockKey, Replay, ReplayConsumption, Consume, CallProvider,
       CommitPayment, ExpireKey, ReadApproval, CurrentStep, ReviewStep, LockReviewed,
       PassTarget, ReadTarget, LockTarget, CommitReview, ReadAttached,
       AttachmentStep, LockAttached, CommitAttached, Rollback
  <1> DEFINE Kept(c) ==
        /\ pc[c] \in {"provider", "commit"} => Executable(request[c])
        /\ pc[c] = "commit" => {request[c].approval} \cap Live \subseteq orders
  <1>2. ASSUME NEW c \in Call, NEW t \in Tx \ {c}, StepOf(t),
               pc[c] \in {"provider", "commit"} => SameRows(request[c])
        PROVE  Kept(c)'
    <2>1. pc'[c] = pc[c] /\ request'[c] = request[c]
      BY <1>2 DEF StepOf, Tx
    <2>2. Kept(c)
      BY DEF StillExecutable
    <2> QED
      BY <1>1, <1>2, <2>1, <2>2, SparedCall
  <1>3. ASSUME NEW c \in Call, BeginCall(c) \/ CallStep(c)
        PROVE  Kept(c)'
    <2>1. c \in Tx /\ pc \in [Tx -> {"idle", "begun", "read", "intent",
            "approval", "key", "target", "provider", "commit", "write"}
            \cup Ended]
      BY DEF Typed, TypeOK, Tx
    <2>2. CASE Consume(c)
      <3>1. pc'[c] = "provider" /\ request' = request
        BY <2>1, <2>2 DEF Consume, Goto, locals
      <3>2. Executable(request[c]) /\ UNCHANGED rows
        BY <2>2 DEF Consume
      <3> QED
        BY <3>1, <3>2 DEF Executable, Authorized, rows
    <2>3. CASE CallProvider(c)
      <3>1. pc[c] = "provider" /\ request' = request /\ UNCHANGED rows
        BY <2>3 DEF CallProvider, locals
      <3>2. Executable(request[c])'
        BY <3>1 DEF StillExecutable, Executable, Authorized, rows
      <3>3. {request[c].approval} \cap Live \subseteq orders'
        BY <2>3 DEF CallProvider
      <3> QED
        BY <3>1, <3>2, <3>3
    <2>4. CASE ~Consume(c) /\ ~CallProvider(c)
      <3>1. pc'[c] \notin {"provider", "commit"}
        BY <1>3, <2>1, <2>4 DEF CallStep, BeginCall, LockIntent, LockApproval,
           LockKey, Replay, ReplayConsumption, CommitPayment, Answer, Goto
      <3> QED BY <3>1
    <2> QED BY <2>2, <2>3, <2>4
  <1>4. CASE \/ \E a \in Approval : CreateApproval(a) \/ LinkRun(a)
             \/ \E k \in Key : ExpireKey(k)
    <2>1. pc' = pc /\ request' = request
      BY <1>4 DEF CreateApproval, LinkRun, ExpireKey, locals
    <2>2. ASSUME NEW c \in Call, pc[c] \in {"provider", "commit"}
          PROVE  Executable(request[c])'
      <3>1. Executable(request[c])
        BY <2>2 DEF StillExecutable
      <3>2. SameRows(request[c])
        BY <1>4, <2>2, <3>1, EnvironmentSpares
      <3> QED BY <2>1, <3>1, <3>2, SparedCall
    <2> QED
      BY <1>1, <2>1, <2>2 DEF StillExecutable
  <1>5. CASE \E d \in Call : BeginCall(d) \/ CallStep(d)
    <2>1. PICK d \in Call : BeginCall(d) \/ CallStep(d)
      BY <1>5
    <2>2. \A c \in Call : Kept(c)'
      BY <2>1, <1>2, <1>3, LocksCall, CallSpares DEF Tx
    <2> QED BY <2>2 DEF StillExecutable
  <1>6. CASE \E r \in Review : ReadApproval(r) \/ ReviewStep(r)
    <2>1. PICK r \in Review : ReadApproval(r) \/ ReviewStep(r)
      BY <1>6
    <2>2. r \in Tx /\ r \notin Call
      BY DisjointAssumption DEF Tx
    <2>3. \A c \in Call : Kept(c)'
      BY <2>1, <2>2, <1>2, LocksReview, ReviewSpares
    <2> QED BY <2>3 DEF StillExecutable
  <1>7. CASE \E n \in Attachment : ReadAttached(n) \/ AttachmentStep(n)
    <2>1. PICK n \in Attachment : ReadAttached(n) \/ AttachmentStep(n)
      BY <1>7
    <2>2. n \in Tx /\ n \notin Call
      BY DisjointAssumption DEF Tx
    <2>3. \A c \in Call : Kept(c)'
      BY <2>1, <2>2, <1>2, LocksAttachment, AttachmentSpares
    <2> QED BY <2>3 DEF StillExecutable
  <1>8. CASE \E t \in Tx : Rollback(t)
    <2>1. PICK t \in Tx : Rollback(t)
      BY <1>8
    <2>2. StepOf(t)
      BY <2>1, LocksRollback
    <2>3. \A c \in Call : SameRows(request[c])
      BY <2>1 DEF Rollback, rows, SameRows
    <2>4. pc'[t] = "failed"
      BY <2>1 DEF Rollback, Goto, Typed, TypeOK
    <2>5. \A c \in Call : Kept(c)'
      BY <1>2, <2>2, <2>3, <2>4
    <2> QED BY <2>5 DEF StillExecutable
  <1> QED
    BY <1>4, <1>5, <1>6, <1>7, <1>8 DEF Next

-----------------------------------------------------------------------------
(* The invariant, and what follows from it.                                  *)

\* Only the commit of a payment writes these.
Ledger == <<consumption, execution, payments>>

\* Only the commit of a call writes consumption, execution and payments.
LEMMA LedgerWriter ==
  ASSUME Next
  PROVE  UNCHANGED Ledger \/ \E c \in Call : CommitPayment(c)
  BY DEF Next, CreateApproval, LinkRun, BeginCall, CallStep, LockIntent,
     LockApproval, LockKey, Replay, ReplayConsumption, Consume, CallProvider,
     ExpireKey, ReadApproval, CurrentStep, ReviewStep, LockReviewed, PassTarget, ReadTarget,
     LockTarget, CommitReview, ReadAttached, AttachmentStep, LockAttached,
     CommitAttached, Rollback, rows, Ledger

\* What a commit of a payment finds, and what it leaves.
LEMMA CommitFacts ==
  ASSUME Inv, NEW c \in Call, CommitPayment(c)
  PROVE  LET a == request[c].approval
             i == request[c].intent
         IN  /\ a \in Approval /\ i \in Intent /\ TargetOf[a] = i
             /\ consumption[a] = None /\ execution[i] = None
             /\ status[a] = "approved" /\ step[a] = Steps + 1
             /\ {a} \cap Live \subseteq orders
             /\ consumption' = [consumption EXCEPT ![a] = c]
             /\ execution' = [execution EXCEPT ![i] = a]
             /\ payments' = payments \cup {a}
  BY DEF Inv, LocalsKnown, Requests, StillExecutable, Executable, Authorized,
     CommitPayment

\* The three records of a payment stay in agreement.
LEMMA AgreementStep ==
  ASSUME Inv, Next
  PROVE  PaymentAgreement'
  <1>1. CASE UNCHANGED Ledger
    BY <1>1 DEF Inv, PaymentAgreement, Ledger
  <1>2. ASSUME NEW c \in Call, CommitPayment(c)
        PROVE  PaymentAgreement'
    <2> DEFINE a == request[c].approval
               i == request[c].intent
    <2>1. /\ a \in Approval /\ i \in Intent /\ TargetOf[a] = i
          /\ execution[i] = None
          /\ consumption' = [consumption EXCEPT ![a] = c]
          /\ execution' = [execution EXCEPT ![i] = a]
          /\ payments' = payments \cup {a}
      BY <1>2, CommitFacts
    <2>2. ASSUME NEW b \in Approval
          PROVE  /\ b \in payments' <=> consumption'[b] # None
                 /\ b \in payments' <=> execution'[TargetOf[b]] = b
      <3>1. c # None /\ b # None
        BY DisjointAssumption DEF Tx, Object
      <3>2. TargetOf[b] \in Intent
        BY TargetAssumption
      <3>3. /\ b \in payments <=> consumption[b] # None
            /\ b \in payments <=> execution[TargetOf[b]] = b
        BY DEF Inv, PaymentAgreement
      <3>4. CASE b = a
        BY <2>1, <3>1, <3>4 DEF Inv, TypeOK
      <3>5. CASE b # a
        BY <2>1, <3>1, <3>2, <3>3, <3>5 DEF Inv, TypeOK
      <3> QED BY <3>4, <3>5
    <2> QED BY <2>2 DEF PaymentAgreement
  <1> QED BY <1>1, <1>2, LedgerWriter

\* Init establishes the inductive invariant ...
LEMMA InvInit == Init => Inv
  <1> SUFFICES ASSUME Init PROVE Inv
    OBVIOUS
  <1>1. TypeOK /\ LocalsKnown
    BY TypedInit DEF Typed
  <1>2. LocksHeld
    BY DEF Init, LocksHeld, CallHolds, ReviewHolds, Tx
  <1>3. StillExecutable
    BY DEF Init, StillExecutable, Tx
  <1>4. PaymentAgreement
    BY DisjointAssumption, TargetAssumption DEF Init, PaymentAgreement, Object
  <1> QED BY <1>1, <1>2, <1>3, <1>4 DEF Inv

\* ... and every step keeps it.
LEMMA InvStep == Inv /\ [Next]_vars => Inv'
  <1> SUFFICES ASSUME Inv, [Next]_vars PROVE Inv'
    OBVIOUS
  <1>1. Typed
    BY DEF Inv, Typed
  <1>2. TypeOK' /\ LocalsKnown'
    BY <1>1, TypedStep DEF Typed
  <1>3. CASE UNCHANGED vars
    BY <1>2, <1>3 DEF Inv, LocksHeld, CallHolds, ReviewHolds, Terminal, Completes,
       StillExecutable, Executable, Authorized, PaymentAgreement, vars, rows,
       locals
  <1>4. CASE Next
    <2>1. LocksHeld'
      <3>1. CASE \/ \E a \in Approval : CreateApproval(a) \/ LinkRun(a)
                 \/ \E k \in Key : ExpireKey(k)
        BY <3>1 DEF Inv, LocksHeld, CallHolds, ReviewHolds, Terminal, Completes,
           CreateApproval, LinkRun, ExpireKey, locals
      <3> QED
        BY <1>1, <1>4, <3>1, LocksCall, LocksReview, LocksAttachment,
           LocksRollback DEF Inv, Next
    <2>2. StillExecutable'
      BY <1>1, <1>4, ExecutableStep DEF Inv
    <2>3. PaymentAgreement'
      BY <1>4, AgreementStep
    <2> QED
      BY <1>2, <2>1, <2>2, <2>3 DEF Inv
  <1> QED BY <1>3, <1>4

\* The inductive invariant: typing, two-phase locking, checks that stay true
\* until the commit, and the agreement of the payment records.
THEOREM Invariance == Spec => []Inv
  BY InvInit, InvStep, PTL DEF Spec

\* The payments table, the consumption on the approval and the execution on the
\* intent agree after every commit, for any number of concurrent requests.
THEOREM Agreement == Spec => []PaymentAgreement
  <1>1. Inv => PaymentAgreement
    BY DEF Inv
  <1> QED BY <1>1, Invariance, PTL

\* An intent has at most one payment: two of its approvals cannot both be the
\* execution the intent records.
THEOREM AtMostOnePayment == Spec => []OnePaymentPerIntent
  <1>1. Inv => OnePaymentPerIntent
    BY DEF Inv, TypeOK, PaymentAgreement, OnePaymentPerIntent
  <1> QED BY <1>1, Invariance, PTL

\* The provider is asked only on behalf of a fully approved, unspent approval
\* of an unpaid intent.
THEOREM OrdersAreAuthorised == Spec => OrderAuthorised
  <1> DEFINE Authorises ==
        \A a \in orders' \ orders :
          /\ status[a] = "approved"
          /\ step[a] = Steps + 1
          /\ consumption[a] = None
          /\ execution[TargetOf[a]] = None
  <1>1. ASSUME Inv, [Next]_vars
        PROVE  [Authorises]_vars
    <2>1. orders' = orders \/ \E c \in Call : CallProvider(c)
      BY <1>1 DEF Next, CreateApproval, LinkRun, BeginCall, CallStep, LockIntent,
         LockApproval, LockKey, Replay, ReplayConsumption, Consume,
         CommitPayment, ExpireKey, ReadApproval, CurrentStep, ReviewStep, LockReviewed,
         PassTarget, ReadTarget, LockTarget, CommitReview, ReadAttached,
         AttachmentStep, LockAttached, CommitAttached, Rollback, vars
    <2>2. ASSUME NEW c \in Call, CallProvider(c)
          PROVE  Authorises
      <3>1. Executable(request[c])
        BY <1>1, <2>2 DEF Inv, StillExecutable, CallProvider
      <3>2. \A a \in orders' \ orders : a = request[c].approval
        BY <2>2 DEF CallProvider
      <3> QED
        BY <3>1, <3>2 DEF Executable, Authorized
    <2> QED BY <2>1, <2>2
  <1> QED
    BY <1>1, Invariance, PTL DEF Spec, OrderAuthorised

\* The first consumption of an approval and the first execution of an intent
\* are never overwritten.
THEOREM FirstWriterWins == Spec => ConsumptionIsFinal
  <1> DEFINE Final ==
        /\ \A a \in Approval :
             consumption[a] # None => consumption'[a] = consumption[a]
        /\ \A i \in Intent :
             execution[i] # None => execution'[i] = execution[i]
  <1>1. ASSUME Inv, [Next]_vars
        PROVE  [Final]_vars
    <2>1. CASE UNCHANGED Ledger
      BY <2>1 DEF Ledger
    <2>2. ASSUME NEW c \in Call, CommitPayment(c)
          PROVE  Final
      BY <1>1, <2>2, CommitFacts DEF Inv, TypeOK
    <2> QED BY <1>1, <2>1, <2>2, LedgerWriter
  <1> QED
    BY <1>1, Invariance, PTL DEF Spec, ConsumptionIsFinal

-----------------------------------------------------------------------------
(* Answers: a stored response names a recorded payment, so a replayed one    *)
(* does too, and a recorded payment stays the execution of its intent.       *)

Answered(c) ==
  answer[c] # None =>
    /\ pc[c] \in Ended
    /\ answer[c] = request[c].approval
    /\ answer[c] \in payments
    /\ TargetOf[answer[c]] = request[c].intent

AnswerInv ==
  /\ \A k \in Key : idempotency[k] # None => idempotency[k] \in payments
  /\ \A c \in Call : Answered(c)

\* No call is answered initially.
LEMMA AnswerInit == Init => AnswerInv
  BY DEF Init, AnswerInv, Answered

\* Which steps write a stored response or an answer.
LEMMA AnswerWriter ==
  ASSUME Next
  PROVE  \/ UNCHANGED <<idempotency, answer>>
         \/ \E c \in Call : Replay(c) \/ ReplayConsumption(c) \/ CommitPayment(c)
  BY DEF Next, CreateApproval, LinkRun, BeginCall, CallStep, LockIntent,
     LockApproval, LockKey, Consume, CallProvider, ExpireKey, ReadApproval, CurrentStep,
     ReviewStep, LockReviewed, PassTarget, ReadTarget, LockTarget, CommitReview,
     ReadAttached, AttachmentStep, LockAttached, CommitAttached, Rollback, rows,
     locals

\* A call that has ended stays as it is.
LEMMA EndedStays ==
  ASSUME Inv, Next, NEW t \in Tx, pc[t] \in Ended
  PROVE  /\ pc'[t] = pc[t]
         /\ t \in Call => request'[t] = request[t]
         /\ t \in Review => review'[t] = review[t]
  <1> USE DisjointAssumption DEF Inv, TypeOK, Ended, Tx
  <1>1. CASE \/ \E a \in Approval : CreateApproval(a) \/ LinkRun(a)
             \/ \E k \in Key : ExpireKey(k)
    BY <1>1 DEF CreateApproval, LinkRun, ExpireKey, locals
  <1>2. ASSUME NEW c \in Call, BeginCall(c) \/ CallStep(c)
        PROVE  /\ pc'[t] = pc[t]
               /\ t \in Call => request'[t] = request[t]
               /\ t \in Review => review'[t] = review[t]
    <2>1. pc[c] \notin Ended
      BY <1>2 DEF BeginCall, CallStep, LockIntent, LockApproval, LockKey, Replay,
         ReplayConsumption, Consume, CallProvider, CommitPayment
    <2>2. StepOf(c)
      BY <1>2, LocksCall DEF Typed
    <2>3. review' = review
      BY <1>2 DEF BeginCall, CallStep, LockIntent, LockApproval, LockKey, Replay,
         ReplayConsumption, Consume, CallProvider, CommitPayment, locals
    <2> QED BY <2>1, <2>2, <2>3 DEF StepOf
  <1>3. ASSUME NEW r \in Review, ReadApproval(r) \/ ReviewStep(r)
        PROVE  /\ pc'[t] = pc[t]
               /\ t \in Call => request'[t] = request[t]
               /\ t \in Review => review'[t] = review[t]
    <2>1. pc[r] \notin Ended
      BY <1>3 DEF ReadApproval, CurrentStep, ReviewStep, LockReviewed, PassTarget, ReadTarget,
         LockTarget, CommitReview
    <2>2. StepOf(r)
      BY <1>3, LocksReview DEF Typed
    <2> QED BY <2>1, <2>2 DEF StepOf
  <1>4. ASSUME NEW n \in Attachment, ReadAttached(n) \/ AttachmentStep(n)
        PROVE  /\ pc'[t] = pc[t]
               /\ t \in Call => request'[t] = request[t]
               /\ t \in Review => review'[t] = review[t]
    <2>1. pc[n] \notin Ended
      BY <1>4 DEF ReadAttached, AttachmentStep, LockAttached, CommitAttached
    <2>2. StepOf(n)
      BY <1>4, LocksAttachment DEF Typed
    <2> QED BY <2>1, <2>2 DEF StepOf
  <1>5. ASSUME NEW u \in Tx, Rollback(u)
        PROVE  /\ pc'[t] = pc[t]
               /\ t \in Call => request'[t] = request[t]
               /\ t \in Review => review'[t] = review[t]
    BY <1>5 DEF Rollback, Active, Goto, locals
  <1> QED
    BY <1>1, <1>2, <1>3, <1>4, <1>5 DEF Next

\* A call is only answered with the payment of its own approval.
LEMMA AnswerStep == Inv /\ AnswerInv /\ [Next]_vars => AnswerInv'
  <1> SUFFICES ASSUME Inv, AnswerInv, [Next]_vars PROVE AnswerInv'
    OBVIOUS
  <1>1. CASE UNCHANGED vars
    BY <1>1 DEF AnswerInv, Answered, vars, rows, locals
  <1>2. CASE Next
    <2>1. payments \subseteq payments'
      BY <1>2, LedgerWriter, CommitFacts DEF Ledger
    <2>2. ASSUME NEW c \in Call, answer[c] # None, answer'[c] = answer[c]
          PROVE  Answered(c)'
      BY <1>2, <2>1, <2>2, EndedStays DEF AnswerInv, Answered, Tx
    <2>3. CASE UNCHANGED <<idempotency, answer>>
      BY <2>1, <2>2, <2>3 DEF AnswerInv, Answered
    <2>4. ASSUME NEW c \in Call,
                 Replay(c) \/ ReplayConsumption(c) \/ CommitPayment(c)
          PROVE  AnswerInv'
      <3> DEFINE a == request[c].approval
                 k == request[c].key
      <3>1. /\ request[c] \in Requests /\ request' = request
            /\ a \in Approval /\ k \in Key
        BY <2>4 DEF Inv, LocalsKnown, Requests, Replay, ReplayConsumption,
           CommitPayment
      <3>2. /\ answer' = [answer EXCEPT ![c] = a]
            /\ TargetOf[a] = request[c].intent
            /\ a \in payments'
        <4>1. CASE Replay(c)
          BY <4>1, <3>1, <2>1 DEF Replay, SameRequest, Stored, Answer, AnswerInv
        <4>2. CASE ReplayConsumption(c)
          BY <4>2, <2>1 DEF ReplayConsumption, Consumed, Authorized, Answer
        <4>3. CASE CommitPayment(c)
          BY <4>3, CommitFacts DEF CommitPayment, Answer
        <4> QED BY <2>4, <4>1, <4>2, <4>3
      <3>3. pc'[c] = "done"
        BY <2>4 DEF Replay, ReplayConsumption, CommitPayment, Answer, Goto, Inv,
           TypeOK, Tx
      <3>4. \A l \in Key : idempotency'[l] \in {idempotency[l], a}
        BY <2>4, <3>1 DEF Replay, ReplayConsumption, CommitPayment, PutResponse,
           rows, Inv, TypeOK
      <3>5. \A l \in Key : idempotency'[l] # None => idempotency'[l] \in payments'
        BY <2>1, <3>2, <3>4 DEF AnswerInv
      <3>6. Answered(c)'
        BY <3>1, <3>2, <3>3 DEF Answered, Ended, Inv, TypeOK
      <3>7. ASSUME NEW d \in Call \ {c}
            PROVE  Answered(d)'
        <4>1. answer'[d] = answer[d]
          BY <3>2 DEF Inv, TypeOK
        <4> QED BY <4>1, <2>2 DEF Answered
      <3> QED BY <3>5, <3>6, <3>7 DEF AnswerInv
    <2> QED BY <1>2, <2>3, <2>4, AnswerWriter
  <1> QED BY <1>1, <1>2

\* A call that was answered was answered with the recorded payment of its own
\* approval, which is the execution of the intent the call named, whether the
\* answer was fresh, replayed from a key or replayed from the consumption.
THEOREM AnswersSound == Spec => []AnswersArePayments
  <1>1. Inv /\ AnswerInv => AnswersArePayments
    BY DEF Inv, TypeOK, PaymentAgreement, AnswerInv, Answered, AnswersArePayments
  <1> QED
    BY <1>1, AnswerInit, AnswerStep, Invariance, PTL DEF Spec

-----------------------------------------------------------------------------
(* The approval chain: however reviews overwrite each other, the position    *)
(* they write is backed by a committed approving review of every step before *)

ChainInv ==
  \A a \in Approval :
    /\ 1..(step[a] - 1) \subseteq ReviewedSteps(a)
    /\ \A r \in Review :
         pc[r] # "idle" /\ review[r].approval = a =>
           1..(review[r].step - 1) \subseteq ReviewedSteps(a)
    /\ a \in payments => 1..Steps \subseteq ReviewedSteps(a)

\* No step of a chain is passed initially.
LEMMA ChainInit == Init => ChainInv
  BY DEF Init, ChainInv, Tx

\* Committed reviews do not go away.
LEMMA ReviewedStays ==
  ASSUME Inv, Next, NEW a \in Approval
  PROVE  ReviewedSteps(a) \subseteq ReviewedSteps(a)'
  <1>1. \A r \in Review : pc[r] = "done" => /\ pc'[r] = "done"
                                            /\ review'[r] = review[r]
    BY EndedStays DEF Tx, Ended
  <1> QED BY <1>1 DEF ReviewedSteps

\* Only the commit of a review moves a chain, and only for its approval.
LEMMA StepWriter ==
  ASSUME Next
  PROVE  step' = step \/ \E r \in Review : CommitReview(r)
  BY DEF Next, CreateApproval, LinkRun, BeginCall, CallStep, LockIntent,
     LockApproval, LockKey, Replay, ReplayConsumption, Consume, CallProvider,
     CommitPayment, ExpireKey, ReadApproval, CurrentStep, ReviewStep, LockReviewed,
     PassTarget, ReadTarget, LockTarget, ReadAttached, AttachmentStep,
     LockAttached, CommitAttached, Rollback, rows

\* A review's reading is set when it reads, and never again.
LEMMA ReadingWriter ==
  ASSUME Inv, Next, NEW r \in Review
  PROVE  \/ ReadApproval(r)
         \/ review'[r] = review[r] /\ (pc'[r] # "idle" <=> pc[r] # "idle")
  <1> USE DisjointAssumption DEF Inv, TypeOK, Tx
  <1>1. CASE \/ \E a \in Approval : CreateApproval(a) \/ LinkRun(a)
             \/ \E k \in Key : ExpireKey(k)
    BY <1>1 DEF CreateApproval, LinkRun, ExpireKey, locals
  <1>2. ASSUME NEW t \in Tx, t # r, StepOf(t)
        PROVE  review'[r] = review[r] /\ (pc'[r] # "idle" <=> pc[r] # "idle")
    BY <1>2 DEF StepOf
  <1>3. CASE ReviewStep(r) \/ Rollback(r)
    BY <1>3 DEF ReviewStep, LockReviewed, PassTarget, ReadTarget, LockTarget,
       CommitReview, Rollback, Active, Goto, locals
  <1>4. CASE \E c \in Call : BeginCall(c) \/ CallStep(c)
    BY <1>2, <1>4, LocksCall DEF Typed
  <1>5. CASE \E n \in Attachment : ReadAttached(n) \/ AttachmentStep(n)
    BY <1>2, <1>5, LocksAttachment DEF Typed
  <1>6. CASE \E u \in Review \ {r} : ReadApproval(u) \/ ReviewStep(u)
    BY <1>2, <1>6, LocksReview DEF Typed
  <1>7. CASE \E t \in Tx \ {r} : Rollback(t)
    BY <1>2, <1>7, LocksRollback DEF Typed
  <1> QED
    BY <1>1, <1>3, <1>4, <1>5, <1>6, <1>7 DEF Next

\* A chain only passes steps that a committed review approved.
LEMMA ChainStep == Inv /\ ChainInv /\ [Next]_vars => ChainInv'
  <1> SUFFICES ASSUME Inv, ChainInv, [Next]_vars PROVE ChainInv'
    OBVIOUS
  <1>1. CASE UNCHANGED vars
    BY <1>1 DEF ChainInv, ReviewedSteps, vars, rows, locals
  <1>2. CASE Next
    <2> SUFFICES ASSUME NEW a \in Approval
                 PROVE  /\ 1..(step'[a] - 1) \subseteq ReviewedSteps(a)'
                        /\ \A r \in Review :
                             pc'[r] # "idle" /\ review'[r].approval = a =>
                               1..(review'[r].step - 1) \subseteq ReviewedSteps(a)'
                        /\ a \in payments' => 1..Steps \subseteq ReviewedSteps(a)'
      BY DEF ChainInv
    <2>1. /\ ReviewedSteps(a) \subseteq ReviewedSteps(a)'
          /\ 1..(step[a] - 1) \subseteq ReviewedSteps(a)
      BY <1>2, ReviewedStays DEF ChainInv
    <2>2. ASSUME NEW r \in Review, CommitReview(r)
          PROVE  1..(step'[a] - 1) \subseteq ReviewedSteps(a)'
      <3> DEFINE v == review[r]
      <3>1. /\ pc[r] = "write" /\ v \in Reviews /\ v.step \in 1..Steps
        BY <2>2 DEF CommitReview, Inv, LocalsKnown, Reviews
      <3>2. /\ review'[r] = v /\ pc'[r] = "done"
            /\ step' = [step EXCEPT ![v.approval] = NextStep(v)]
        BY <2>2 DEF CommitReview, Goto, locals, Inv, TypeOK, Tx
      <3>3. CASE v.approval # a
        BY <2>1, <3>2, <3>3 DEF Inv, TypeOK
      <3>4. CASE v.approval = a
        <4>1. 1..(v.step - 1) \subseteq ReviewedSteps(a)'
          BY <2>1, <3>1, <3>4 DEF ChainInv
        <4>2. step'[a] = NextStep(v)
          BY <3>2, <3>4 DEF Inv, TypeOK
        <4>3. CASE v.verdict = "approved"
          <5>1. v.step \in ReviewedSteps(a)'
            BY <3>1, <3>2, <3>4, <4>3 DEF ReviewedSteps
          <5>2. \A s \in 1..v.step : s = v.step \/ s \in 1..(v.step - 1)
            BY <3>1, StepsAssumption
          <5>3. step'[a] - 1 = v.step
            BY <3>1, <4>2, <4>3, StepsAssumption DEF NextStep
          <5> QED BY <4>1, <5>1, <5>2, <5>3
        <4>4. CASE v.verdict # "approved"
          BY <4>1, <4>2, <4>4 DEF NextStep
        <4> QED BY <4>3, <4>4
      <3> QED BY <3>3, <3>4
    <2>3. 1..(step'[a] - 1) \subseteq ReviewedSteps(a)'
      <3>1. CASE step' = step
        BY <2>1, <3>1
      <3> QED BY <1>2, <2>2, <3>1, StepWriter
    <2>4. ASSUME NEW r \in Review, pc'[r] # "idle", review'[r].approval = a
          PROVE  1..(review'[r].step - 1) \subseteq ReviewedSteps(a)'
      <3>1. CASE ReadApproval(r)
        <4>1. review'[r].step = step[a]
          BY <2>4, <3>1 DEF ReadApproval, CurrentStep, Inv, TypeOK
        <4> QED BY <2>1, <4>1
      <3>2. CASE review'[r] = review[r] /\ pc[r] # "idle"
        BY <2>1, <2>4, <3>2 DEF ChainInv
      <3> QED BY <1>2, <2>4, <3>1, <3>2, ReadingWriter
    <2>5. ASSUME a \in payments'
          PROVE  1..Steps \subseteq ReviewedSteps(a)'
      <3>1. CASE a \in payments
        BY <2>1, <3>1 DEF ChainInv
      <3>2. CASE a \notin payments
        <4>1. PICK c \in Call : CommitPayment(c)
          BY <1>2, <2>5, <3>2, LedgerWriter DEF Ledger
        <4>2. step[a] = Steps + 1
          BY <2>5, <3>2, <4>1, CommitFacts
        <4> QED BY <2>1, <4>2, StepsAssumption
      <3> QED BY <3>1, <3>2
    <2> QED BY <2>3, <2>4, <2>5
  <1> QED BY <1>1, <1>2

\* No payment without a committed approving review of every step of the chain.
THEOREM PaidAfterFullReview == Spec => []PaidWasReviewed
  <1>1. Inv /\ ChainInv => PaidWasReviewed
    BY DEF Inv, TypeOK, ChainInv, ReviewedSteps, PaidWasReviewed
  <1> QED
    BY <1>1, ChainInit, ChainStep, Invariance, PTL DEF Spec

-----------------------------------------------------------------------------
(* A rejection that every review saw the run of: the run's lifecycle keeps a  *)
(* rejected chain short of its end, and a completed one completed.            *)

\* Every review that has read the approval saw its workflow run.
AllLinked(a) ==
  \A r \in Review : review[r] # None /\ review[r].approval = a
                      => review[r].linked

\* Where all reviews go through the run, the end of the chain, and so every
\* payment, goes with a completed run, which no later review can change.
RunInv ==
  /\ \A r \in Review : pc[r] = "idle" => review[r] = None
  /\ \A a \in Approval :
       AllLinked(a) =>
         /\ step[a] = Steps + 1 => run[a] = "completed"
         /\ a \in payments => run[a] = "completed"

\* No review has read and no chain is at its end initially.
LEMMA RunInit == Init => RunInv
  BY StepsAssumption DEF Init, RunInv, Tx

\* Only the request of an approval and the commit of a review write a run.
LEMMA RunWriter ==
  ASSUME Next
  PROVE  \/ run' = run
         \/ \E a \in Approval : LinkRun(a)
         \/ \E r \in Review : CommitReview(r)
  BY DEF Next, CreateApproval, BeginCall, CallStep, LockIntent,
     LockApproval, LockKey, Replay, ReplayConsumption, Consume, CallProvider,
     CommitPayment, ExpireKey, ReadApproval, CurrentStep, ReviewStep, LockReviewed,
     PassTarget, ReadTarget, LockTarget, ReadAttached, AttachmentStep,
     LockAttached, CommitAttached, Rollback, rows

\* A reading that did not see the run is never taken back.
LEMMA LinkedBefore ==
  ASSUME Inv, RunInv, Next, NEW a \in Approval, AllLinked(a)'
  PROVE  AllLinked(a)
  <1> SUFFICES ASSUME NEW r \in Review, review[r] # None, review[r].approval = a
               PROVE  review[r].linked
    BY DEF AllLinked
  <1>1. review'[r] = review[r]
    BY ReadingWriter DEF RunInv, ReadApproval
  <1> QED BY <1>1 DEF AllLinked

\* A review that saw the run completes the run when it completes the chain, and
\* leaves a completed run as it is (alpha.ts:3037).
LEMMA LinkedCommit ==
  ASSUME Inv, NEW r \in Review, CommitReview(r), review[r].linked
  PROVE  LET a == review[r].approval
         IN  /\ a \in Approval
             /\ step'[a] = Steps + 1 => run'[a] = "completed"
             /\ run[a] = "completed" => run'[a] = "completed"
             /\ \A b \in Approval \ {a} : step'[b] = step[b] /\ run'[b] = run[b]
  <1> DEFINE v == review[r]
             a == v.approval
  <1>1. v \in Reviews /\ a \in Approval /\ v.step \in 1..Steps
    BY DEF CommitReview, Inv, LocalsKnown, Reviews
  <1>2. /\ step'[a] = NextStep(v)
        /\ run'[a] = NextRun(v)
        /\ \A b \in Approval \ {a} : step'[b] = step[b] /\ run'[b] = run[b]
    BY <1>1 DEF CommitReview, Inv, TypeOK
  <1>3. NextStep(v) = Steps + 1 => NextRun(v) = "completed"
    BY <1>1, StepsAssumption DEF NextStep, NextRun, Completes, Reviews
  <1>4. run[a] = "completed" => NextRun(v) = "completed"
    <2>1. LifecycleAllows(run[a], NextRun(v))
      BY DEF CommitReview, RunAllows
    <2>2. NextRun(v) # "attached"
      BY <1>1 DEF NextRun, NextStatus, Reviews
    <2> QED BY <2>1, <2>2 DEF LifecycleAllows
  <1> QED BY <1>1, <1>2, <1>3, <1>4

\* Every step keeps RunInv.
LEMMA RunStep == Inv /\ RunInv /\ [Next]_vars => RunInv'
  <1> SUFFICES ASSUME Inv, RunInv, [Next]_vars PROVE RunInv'
    OBVIOUS
  <1>1. CASE UNCHANGED vars
    BY <1>1 DEF RunInv, AllLinked, vars, rows, locals
  <1>2. CASE Next
    <2>1. ASSUME NEW r \in Review, pc'[r] = "idle"
          PROVE  review'[r] = None
      <3>1. ~ReadApproval(r)
        BY <2>1 DEF ReadApproval, Goto, Inv, TypeOK, Tx
      <3> QED BY <1>2, <2>1, <3>1, ReadingWriter DEF RunInv
    <2>2. ASSUME NEW a \in Approval, AllLinked(a)'
          PROVE  /\ step'[a] = Steps + 1 => run'[a] = "completed"
                 /\ a \in payments' => run'[a] = "completed"
      <3>1. /\ step[a] = Steps + 1 => run[a] = "completed"
            /\ a \in payments => run[a] = "completed"
        BY <1>2, <2>2, LinkedBefore DEF RunInv
      <3>2. CASE \E r \in Review : CommitReview(r)
        <4>1. PICK r \in Review : CommitReview(r)
          BY <3>2
        <4>2. review[r].approval \in Approval /\ review[r] # None
          <5>1. review[r] \in Reviews
            BY <4>1 DEF CommitReview, Inv, LocalsKnown
          <5> QED BY <5>1, NoneAssumption DEF Reviews
        <4>3. payments' = payments
          BY <4>1 DEF CommitReview
        <4>4. CASE review[r].approval = a
          BY <1>2, <2>2, <3>1, <4>1, <4>2, <4>3, <4>4, LinkedBefore, LinkedCommit
             DEF AllLinked
        <4>5. CASE review[r].approval # a
          BY <3>1, <4>1, <4>2, <4>3, <4>5 DEF CommitReview, Inv, TypeOK
        <4> QED BY <4>4, <4>5
      <3>3. CASE ~\E r \in Review : CommitReview(r)
        <4>1. step' = step
          BY <1>2, <3>3, StepWriter
        <4>2. run'[a] = run[a] \/ run[a] = "none"
          BY <1>2, <3>3, RunWriter DEF LinkRun, Inv, TypeOK
        <4>3. a \in payments' => a \in payments \/ step[a] = Steps + 1
          BY <1>2, LedgerWriter, CommitFacts DEF Ledger
        <4> QED BY <3>1, <4>1, <4>2, <4>3
      <3> QED BY <3>2, <3>3
    <2> QED BY <2>1, <2>2 DEF RunInv
  <1> QED BY <1>1, <1>2

\* An approval whose run is rejected has no payment, whatever order its reviews,
\* the calls and the attachments commit in, unless a review missed the run.
THEOREM RejectionStands == Spec => []RejectedIsNeverPaid
  <1>1. Inv /\ RunInv => RejectedIsNeverPaid
    BY DEF Inv, TypeOK, RunInv, AllLinked, RejectedIsNeverPaid
  <1> QED
    BY <1>1, RunInit, RunStep, Invariance, PTL DEF Spec

-----------------------------------------------------------------------------
(* The refinement: every step is a step of PaymentOnce or leaves it alone.   *)

\* A step that changes at most one row of alpha_objects grants or withdraws
\* at most one approval.
LEMMA GrantOrWithdraw ==
  ASSUME NEW a \in Approval, UNCHANGED <<orders, execution>>,
         \A b \in Approval \ {a} : status'[b] = status[b] /\ step'[b] = step[b]
  PROVE  [Once!Next]_Once!vars
  <1>1. \A b \in Approval \ {a} : b \in Granted' <=> b \in Granted
    BY DEF Granted
  <1>2. Granted \subseteq Approval /\ Granted' \subseteq Approval
    BY DEF Granted
  <1>3. CASE a \in Granted'
    BY <1>1, <1>2, <1>3 DEF Once!Next, Once!Grant
  <1>4. CASE a \notin Granted'
    BY <1>1, <1>2, <1>4 DEF Once!Next, Once!Withdraw
  <1> QED BY <1>3, <1>4

\* The initial states of the protocol are initial states of PaymentOnce ...
LEMMA RefinesInit == Init => Once!Init
  BY DEF Init, Once!Init, Granted, Object

\* ... and its steps are steps or stutters of PaymentOnce.
LEMMA RefinesStep == Inv /\ [Next]_vars => [Once!Next]_Once!vars
  <1> SUFFICES ASSUME Inv, [Next]_vars PROVE [Once!Next]_Once!vars
    OBVIOUS
  <1>1. CASE UNCHANGED <<status, step, orders, execution>>
    BY <1>1 DEF Once!vars, Granted
  <1>2. ASSUME NEW a \in Approval, CreateApproval(a)
        PROVE  [Once!Next]_Once!vars
    <2>1. \A b \in Approval \ {a} : status'[b] = status[b] /\ step'[b] = step[b]
      BY <1>2 DEF CreateApproval, Inv, TypeOK, Object
    <2> QED BY <1>2, <2>1, GrantOrWithdraw DEF CreateApproval
  <1>3. ASSUME NEW r \in Review, CommitReview(r)
        PROVE  [Once!Next]_Once!vars
    <2>1. review[r].approval \in Approval /\ TargetOf[review[r].approval] \in Intent
      BY <1>3, TargetAssumption DEF CommitReview, Inv, LocalsKnown, Reviews
    <2>2. \A b \in Approval \ {review[r].approval} :
            status'[b] = status[b] /\ step'[b] = step[b]
      BY <1>3, <2>1, DisjointAssumption DEF CommitReview, Inv, TypeOK, Object
    <2> QED BY <1>3, <2>1, <2>2, GrantOrWithdraw DEF CommitReview
  <1>4. ASSUME NEW n \in Attachment, CommitAttached(n)
        PROVE  [Once!Next]_Once!vars
    <2> DEFINE o == attachment[n].object
    <2>1. /\ o \in Object /\ UNCHANGED <<step, orders, execution>>
          /\ \A b \in Approval \ {o} : status'[b] = status[b]
      BY <1>4 DEF CommitAttached, Inv, TypeOK, LocalsKnown, Attachments, Object
    <2>2. CASE o \in Approval
      BY <2>1, <2>2, GrantOrWithdraw
    <2>3. CASE o \notin Approval
      BY <2>1, <2>3 DEF Once!vars, Granted
    <2> QED BY <2>2, <2>3
  <1>5. ASSUME NEW c \in Call, CallProvider(c)
        PROVE  [Once!Next]_Once!vars
    <2> DEFINE a == request[c].approval
    <2>1. /\ UNCHANGED <<status, step, execution>>
          /\ orders' = orders \cup ({a} \cap Live)
          /\ Executable(request[c])
          /\ a \in Approval
      BY <1>5 DEF CallProvider, rows, Inv, StillExecutable, LocalsKnown, Requests
    <2>2. Granted' = Granted
      BY <2>1 DEF Granted
    <2>3. CASE a \notin Live
      <3>1. orders' = orders
        BY <2>1, <2>3
      <3> QED BY <2>1, <2>2, <3>1 DEF Once!vars
    <2>4. CASE a \in Live
      <3>1. Once!Order(a)
        BY <2>1, <2>2, <2>4 DEF Once!Order, Once!Unpaid, Executable, Authorized,
           Granted
      <3> QED BY <2>1, <3>1 DEF Once!Next
    <2> QED BY <2>3, <2>4
  <1>6. ASSUME NEW c \in Call, CommitPayment(c)
        PROVE  [Once!Next]_Once!vars
    <2> DEFINE a == request[c].approval
               i == request[c].intent
    <2>1. /\ a \in Approval /\ i \in Intent /\ TargetOf[a] = i
          /\ execution[i] = None
          /\ status[a] = "approved" /\ step[a] = Steps + 1
          /\ {a} \cap Live \subseteq orders
          /\ execution' = [execution EXCEPT ![i] = a]
      BY <1>6, CommitFacts
    <2>2. /\ UNCHANGED <<step, orders>>
          /\ \A b \in Approval : status'[b] = status[b]
      BY <1>6, <2>1, DisjointAssumption DEF CommitPayment, Inv, TypeOK, Object
    <2>3. Granted' = Granted
      BY <2>2 DEF Granted
    <2>4. Once!Pay(a)
      BY <2>1, <2>2, <2>3 DEF Once!Pay, Once!Unpaid, Granted
    <2> QED BY <2>1, <2>4 DEF Once!Next
  <1>7. \/ UNCHANGED <<status, step, orders, execution>>
        \/ \E a \in Approval : CreateApproval(a)
        \/ \E r \in Review : CommitReview(r)
        \/ \E n \in Attachment : CommitAttached(n)
        \/ \E c \in Call : CallProvider(c) \/ CommitPayment(c)
    BY DEF Next, LinkRun, BeginCall, CallStep, LockIntent, LockApproval, LockKey,
       Replay, ReplayConsumption, Consume, ExpireKey, ReadApproval, CurrentStep, ReviewStep,
       LockReviewed, PassTarget, ReadTarget, LockTarget, ReadAttached,
       AttachmentStep, LockAttached, Rollback, rows, vars
  <1> QED BY <1>1, <1>2, <1>3, <1>4, <1>5, <1>6, <1>7

\* The detailed protocol implements PaymentOnce: an intent is paid once, by one
\* granted approval, and the provider is asked only for such an approval.
THEOREM Refinement == Spec => PaysOnce
  BY RefinesInit, RefinesStep, Invariance, PTL DEF Spec, PaysOnce, Once!Spec
=============================================================================
