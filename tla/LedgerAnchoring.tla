--------------------------- MODULE LedgerAnchoring ---------------------------
(***************************************************************************)
(* Proof bundles and their anchoring: a request builds the bundle of a     *)
(* trade from its evidence, stores the archive, records it and queues its  *)
(* root (apps/api/src/services/ledger.ts); the worker submits queued roots *)
(* to the chain and polls the receipts (apps/worker/src/jobs/anchor.ts)    *)
(* under the job lock (apps/worker/src/runtime/job-lock.ts).               *)
(*                                                                         *)
(* A root stands for the evidence it hashes: the trade and the version of  *)
(* its evidence.  Each action is one transaction, one call of the object   *)
(* store or one call of the chain's provider.                              *)
(***************************************************************************)
EXTENDS Naturals, Sequences, FiniteSets

CONSTANTS
  Trade,
  Request,      \* requests to the ledger routes
  Worker,       \* worker processes
  ScanLimit,    \* the batches of one tick
  MaxVersion,   \* bounds the versions of a trade's evidence
  MaxMishaps,   \* bounds failed ticks and requests, and lost locks
  None

ASSUME LimitsAssumption ==
  /\ ScanLimit \in Nat \ {0}
  /\ MaxVersion \in Nat
  /\ MaxMishaps \in Nat
ASSUME NoneAssumption == None \notin Trade \cup Request \cup Worker \cup Nat
ASSUME DisjointAssumption == Request \cap Worker = {}

VARIABLES
  archive,    \* object store: the root of bundles/<trade>.zip
  bundles,    \* proof_bundles of a trade, oldest first, with their artifacts
  batch,      \* anchor_batches: the row trade-<trade>
  queue,      \* the trades with a batch, in the order of created_at
  chain,      \* the transactions sent to the registry, by hash
  jobLock,    \* the worker whose session holds "ledger-anchor"
  at,         \* where a request or a worker is
  request,    \* what a request works on and answers
  tick,       \* the rows a worker read, and what the chain told it
  overlapped, \* history: the trades two builds of which overlapped
  mishaps     \* history: failed ticks and requests, unrecorded submissions,
              \* lost locks

ledger == <<archive, bundles>>
anchors == <<batch, queue>>
api == <<request, overlapped>>
vars == <<ledger, anchors, chain, jobLock, at, api, tick, mishaps>>

Root == Trade \X (0 .. MaxVersion)
Outcome == {"mempool", "succeeded", "reverted"}
BatchRow == [root : Root, status : {"pending", "anchored", "failed"},
             tx : Nat \cup {None}]
ASSUME RowAssumption == None \notin BatchRow
AnchorInfo == [status : {"off", "pending", "anchored", "failed"},
               tx : Nat \cup {None}]
Off == [status |-> "off", tx |-> None]

Init ==
  /\ archive = [t \in Trade |-> None]
  /\ bundles = [t \in Trade |-> <<>>]
  /\ batch = [t \in Trade |-> None]
  /\ queue = <<>>
  /\ chain = <<>>
  /\ jobLock = None
  /\ at = [p \in Request \cup Worker |-> "idle"]
  /\ request = [r \in Request |-> None]
  /\ tick = [w \in Worker |-> [rows |-> <<>>, sent |-> None]]
  /\ overlapped = {}
  /\ mishaps = [failed |-> 0, unrecorded |-> 0, lost |-> 0, ended |-> 0]
-----------------------------------------------------------------------------
Goto(p, label) == at' = [at EXCEPT ![p] = label]

Latest(t) == bundles[t][Len(bundles[t])]

MishapsLeft == mishaps.failed + mishaps.lost + mishaps.ended < MaxMishaps
-----------------------------------------------------------------------------
(* getOrBuildBundle                                                          *)

Building(r) == at[r] \in {"missing", "gathered", "stored"}

\* What a request has at hand: its root, and the anchor and artifacts it tells
Working(t, root) ==
  [trade |-> t, root |-> root, anchor |-> Off, of |-> {}]

\* The newest bundle of the trade is the answer.
FindBundle(r, t) ==
  /\ at[r] = "idle"
  /\ bundles[t] # <<>>
  /\ request' = [request EXCEPT ![r] = Working(t, Latest(t))]
  /\ Goto(r, "known")
  /\ UNCHANGED <<ledger, anchors, chain, jobLock, tick, overlapped,
                 mishaps>>

\* There is none: this request will build it, whoever else does so already.
MissBundle(r, t) ==
  /\ at[r] = "idle"
  /\ bundles[t] = <<>>
  /\ request' = [request EXCEPT ![r] = Working(t, None)]
  /\ Goto(r, "missing")
  /\ overlapped' = IF \E q \in Request \ {r} :
                        Building(q) /\ request[q].trade = t
                   THEN overlapped \cup {t} ELSE overlapped
  /\ UNCHANGED <<ledger, anchors, chain, jobLock, tick, mishaps>>

\* gatherArtifacts: reports, offers, payments and decisions as they are by now
GatherArtifacts(r) ==
  /\ at[r] = "missing"
  /\ \E version \in 0 .. MaxVersion :
       request' = [request EXCEPT ![r].root = <<request[r].trade, version>>]
  /\ Goto(r, "gathered")
  /\ UNCHANGED <<ledger, anchors, chain, jobLock, tick, overlapped,
                 mishaps>>

\* storage.putObject writes over an archive that is there; a store that refuses
\* to is a request that fails.
StoreArchive(r) ==
  /\ at[r] = "gathered"
  /\ archive' = [archive EXCEPT ![request[r].trade] = request[r].root]
  /\ Goto(r, "stored")
  /\ UNCHANGED <<bundles, anchors, chain, jobLock, api, tick,
                 mishaps>>

\* INSERT INTO anchor_batches ... ON CONFLICT (batch_id) DO NOTHING
Queued(t, root) ==
  IF batch[t] = None
  THEN /\ batch' = [batch EXCEPT ![t] =
            [root |-> root, status |-> "pending", tx |-> None]]
       /\ queue' = Append(queue, t)
  ELSE UNCHANGED anchors

\* Mutant: the root is computed again when the bundle is recorded.
RootByNow(r) == <<request[r].trade, MaxVersion>>

\* The root of the archive this request built
RootOf(r) == request[r].root

\* The bundle, its artifacts and its batch are recorded in one transaction.
RecordBundle(r) ==
  /\ at[r] = "stored"
  /\ LET t == request[r].trade IN
       /\ bundles' = [bundles EXCEPT ![t] = Append(@, RootOf(r))]
       /\ Queued(t, RootOf(r))
  /\ Goto(r, "known")
  /\ UNCHANGED <<archive, chain, jobLock, api, tick, mishaps>>

\* getAnchor looks the batch up by its root.
AnchorOf(root) ==
  LET queued == {t \in Trade : batch[t] # None /\ batch[t].root = root}
      row == batch[CHOOSE t \in queued : TRUE]
  IN IF queued = {} THEN Off ELSE [status |-> row.status, tx |-> row.tx]

\* listProofArtifacts tells the artifacts of every bundle of the trade.
AnswerBundle(r) ==
  /\ at[r] = "known"
  /\ request' = [request EXCEPT
       ![r].anchor = AnchorOf(request[r].root),
       ![r].of = {bundles[request[r].trade][i] :
                    i \in DOMAIN bundles[request[r].trade]}]
  /\ Goto(r, "done")
  /\ UNCHANGED <<ledger, anchors, chain, jobLock, tick, overlapped,
                 mishaps>>
-----------------------------------------------------------------------------
(* verifyStoredBundle and exportLedger: the newest record, then the archive  *)

ReadRecord(r, t) ==
  /\ at[r] = "idle"
  /\ bundles[t] # <<>>
  /\ request' = [request EXCEPT ![r] = Working(t, Latest(t))]
  /\ Goto(r, "reading")
  /\ UNCHANGED <<ledger, anchors, chain, jobLock, tick, overlapped,
                 mishaps>>

\* The root of the archive is compared with the root of the record.
ReadArchive(r) ==
  /\ at[r] = "reading"
  /\ request' = [request EXCEPT ![r].of = {archive[request[r].trade]}]
  /\ Goto(r, "done")
  /\ UNCHANGED <<ledger, anchors, chain, jobLock, tick, overlapped,
                 mishaps>>

\* A request fails, or its process dies, between two of its steps.
FailRequest(r) ==
  /\ at[r] \notin {"idle", "done"}
  /\ MishapsLeft
  /\ mishaps' = [mishaps EXCEPT !.ended = @ + 1]
  /\ Goto(r, "idle")
  /\ request' = [request EXCEPT ![r] = None]
  /\ UNCHANGED <<ledger, anchors, chain, jobLock, tick, overlapped>>
-----------------------------------------------------------------------------
(* runAnchorLoop: a tick under the job lock                                  *)

\* pg_try_advisory_lock: a worker that does not get it skips the tick.
BeginTick(w) ==
  /\ at[w] = "idle"
  /\ jobLock = None
  /\ jobLock' = w
  /\ Goto(w, "scanning")
  /\ UNCHANGED <<ledger, anchors, chain, api, tick, mishaps>>

\* Mutant: a batch that has its hash is not looked at again.
Unsent(t) == batch[t].status = "pending" /\ batch[t].tx = None

Pending(t) == batch[t].status = "pending"

\* SELECT ... WHERE status IN ('pending') ORDER BY created_at LIMIT 10: the
\* positions of the oldest pending batches, in their order
Oldest(found) ==
  /\ \A i \in DOMAIN found : Pending(queue[found[i]])
  /\ \A i, j \in DOMAIN found : i < j => found[i] < found[j]
  /\ \A k \in DOMAIN queue : Pending(queue[k]) =>
       \/ \E i \in DOMAIN found : found[i] = k
       \/ /\ Cardinality(DOMAIN found) = ScanLimit
          /\ \A i \in DOMAIN found : found[i] < k

RowOf(t) == [trade |-> t, root |-> batch[t].root, tx |-> batch[t].tx]

Scan(w) ==
  /\ at[w] = "scanning"
  /\ \E n \in 0 .. ScanLimit : \E found \in [1 .. n -> DOMAIN queue] :
       /\ Oldest(found)
       /\ tick' = [tick EXCEPT ![w].rows =
            [i \in 1 .. n |-> RowOf(queue[found[i]])]]
  /\ Goto(w, "working")
  /\ UNCHANGED <<ledger, anchors, chain, jobLock, api, mishaps>>

Row(w) == Head(tick[w].rows)

HasRow(w) == at[w] = "working" /\ tick[w].rows # <<>>

NextRow(w) ==
  /\ tick' = [tick EXCEPT ![w] = [rows |-> Tail(@.rows), sent |-> None]]
  /\ Goto(w, "working")

\* submitAnchor: the call of the registry, which the chain may mine or revert
Submit(w) ==
  /\ HasRow(w)
  /\ Row(w).tx = None
  /\ chain' = Append(chain, [root |-> Row(w).root, outcome |-> "mempool"])
  /\ tick' = [tick EXCEPT ![w].sent = Len(chain) + 1]
  /\ Goto(w, "sent")
  /\ UNCHANGED <<ledger, anchors, jobLock, api, mishaps>>

\* Mutant: the hash is announced but not written to the batch.
RecordNothing(w) ==
  /\ at[w] = "sent"
  /\ NextRow(w)
  /\ UNCHANGED <<ledger, anchors, chain, jobLock, api, mishaps>>

\* ... and the transaction that records its hash, whatever the row is by now
RecordHash(w) ==
  /\ at[w] = "sent"
  /\ batch' = [batch EXCEPT ![Row(w).trade] =
       [@ EXCEPT !.tx = tick[w].sent, !.status = "pending"]]
  /\ NextRow(w)
  /\ UNCHANGED <<ledger, queue, chain, jobLock, api, mishaps>>

\* pollReceipt: no receipt yet
AwaitReceipt(w) ==
  /\ HasRow(w)
  /\ Row(w).tx # None
  /\ chain[Row(w).tx].outcome = "mempool"
  /\ NextRow(w)
  /\ UNCHANGED <<ledger, anchors, chain, jobLock, api, mishaps>>

ReadReceipt(w) ==
  /\ HasRow(w)
  /\ Row(w).tx # None
  /\ chain[Row(w).tx].outcome # "mempool"
  /\ Goto(w, "receipt")
  /\ UNCHANGED <<ledger, anchors, chain, jobLock, api, tick, mishaps>>

\* Mutant: a receipt is taken for a success.
AlwaysAnchored(outcome) == "anchored"

\* receipt.status !== 1 is a failure.
StatusOf(outcome) == IF outcome = "succeeded" THEN "anchored" ELSE "failed"

\* ... and the transaction that settles the batch
SettleBatch(w) ==
  /\ at[w] = "receipt"
  /\ batch' = [batch EXCEPT ![Row(w).trade].status =
       StatusOf(chain[Row(w).tx].outcome)]
  /\ NextRow(w)
  /\ UNCHANGED <<ledger, queue, chain, jobLock, api, mishaps>>

\* pg_advisory_unlock, or the end of the session
LeaveTick(w) ==
  /\ jobLock' = IF jobLock = w THEN None ELSE jobLock
  /\ tick' = [tick EXCEPT ![w] = [rows |-> <<>>, sent |-> None]]
  /\ Goto(w, "idle")

EndTick(w) ==
  /\ at[w] = "working"
  /\ tick[w].rows = <<>>
  /\ LeaveTick(w)
  /\ UNCHANGED <<ledger, anchors, chain, api, mishaps>>

\* A call or a transaction throws, or the process dies: the tick is over.
FailTick(w) ==
  /\ at[w] # "idle"
  /\ MishapsLeft
  /\ mishaps' = [mishaps EXCEPT !.failed = @ + 1,
       !.unrecorded = IF at[w] = "sent" THEN @ + 1 ELSE @]
  /\ LeaveTick(w)
  /\ UNCHANGED <<ledger, anchors, chain, api>>

\* The connection that holds the lock is lost while the tick runs on.
LoseLock(w) ==
  /\ jobLock = w
  /\ MishapsLeft
  /\ jobLock' = None
  /\ mishaps' = [mishaps EXCEPT !.lost = @ + 1]
  /\ UNCHANGED <<ledger, anchors, chain, at, api, tick>>

\* The chain mines a transaction.
Mine(n, outcome) ==
  /\ chain[n].outcome = "mempool"
  /\ chain' = [chain EXCEPT ![n].outcome = outcome]
  /\ UNCHANGED <<ledger, anchors, jobLock, at, api, tick, mishaps>>
-----------------------------------------------------------------------------
RequestStep(r) ==
  \/ \E t \in Trade : FindBundle(r, t) \/ MissBundle(r, t) \/ ReadRecord(r, t)
  \/ GatherArtifacts(r)
  \/ StoreArchive(r)
  \/ RecordBundle(r)
  \/ AnswerBundle(r)
  \/ ReadArchive(r)
  \/ FailRequest(r)

\* What a running worker does, in the order of its code
WorkerStep(w) ==
  \/ BeginTick(w) \/ Scan(w)
  \/ Submit(w) \/ RecordHash(w)
  \/ AwaitReceipt(w) \/ ReadReceipt(w) \/ SettleBatch(w)
  \/ EndTick(w)

MineStep(n) == \E outcome \in {"succeeded", "reverted"} : Mine(n, outcome)

Mining == \E n \in DOMAIN chain : MineStep(n)

Next ==
  \/ \E r \in Request : RequestStep(r)
  \/ \E w \in Worker : WorkerStep(w) \/ FailTick(w) \/ LoseLock(w)
  \/ Mining

Spec == Init /\ [][Next]_vars

\* Some worker's loop runs on as long as one can, and the chain mines what it
\* was sent.
Fairness ==
  /\ WF_vars(\E w \in Worker : WorkerStep(w))
  /\ WF_vars(Mining)

FairSpec == Spec /\ Fairness
-----------------------------------------------------------------------------
TypeOK ==
  /\ archive \in [Trade -> Root \cup {None}]
  /\ bundles \in [Trade -> Seq(Root)]
  /\ batch \in [Trade -> BatchRow \cup {None}]
  /\ queue \in Seq(Trade)
  /\ chain \in Seq([root : Root, outcome : Outcome])
  /\ jobLock \in Worker \cup {None}
  /\ at \in [Request \cup Worker ->
       {"idle", "missing", "gathered", "stored", "known", "reading",
        "done", "scanning", "working", "sent", "receipt"}]
  /\ request \in [Request -> {None} \cup
       [trade : Trade, root : Root \cup {None},
        anchor : AnchorInfo, of : SUBSET (Root \cup {None})]]
  /\ tick \in [Worker ->
       [rows : Seq([trade : Trade, root : Root, tx : Nat \cup {None}]),
        sent : Nat \cup {None}]]
  /\ overlapped \subseteq Trade
  /\ mishaps \in [failed : Nat, unrecorded : Nat, lost : Nat, ended : Nat]

(* The root is on the chain, and while no worker lost its lock it is there    *)
(* by the very transaction that is told.                                      *)
OnChain(root, tx) ==
  /\ \E n \in DOMAIN chain :
       chain[n] = [root |-> root, outcome |-> "succeeded"]
  /\ mishaps.lost = 0 => chain[tx] = [root |-> root, outcome |-> "succeeded"]

\* A batch that is 'anchored', and an answer that says so (getAnchor), tell of
\* a root the chain has mined.  Ticks die, workers lose the lock and run on,
\* and bundles are built twice with different roots.
AnchoredIsOnChain ==
  /\ \A t \in Trade :
       batch[t] # None /\ batch[t].status = "anchored"
         => OnChain(batch[t].root, batch[t].tx)
  /\ \A r \in Request :
       request[r] # None /\ request[r].anchor.status = "anchored"
         => OnChain(request[r].root, request[r].anchor.tx)

Submissions(t) == {n \in DOMAIN chain : chain[n].root[1] = t}

\* A trade's root is sent to the registry once, and once more at most for each
\* tick that died with the hash unrecorded and each lock that was lost.
SentOnceButForMishaps ==
  \A t \in Trade :
    Cardinality(Submissions(t)) <= 1 + mishaps.unrecorded + mishaps.lost

\* As long as no two builds of a trade overlap, the archive, the newest record,
\* the batch and what the requests answer are about one root, though requests
\* die between any two steps and the evidence moves on meanwhile.
BuildsAgree ==
  \A t \in Trade \ overlapped :
    /\ Len(bundles[t]) <= 1
    /\ bundles[t] # <<>> =>
         archive[t] = Latest(t) /\ batch[t].root = Latest(t)
    /\ \A r \in Request :
         at[r] = "done" /\ request[r].trade = t
           => request[r].of = {request[r].root}

\* The batch that is settled stays so while no worker lost its lock.
SettledIsFinal ==
  [][mishaps.lost = 0 =>
       \A t \in Trade :
         batch[t] # None /\ batch[t].status # "pending"
           => batch'[t] = batch[t]]_vars

\* Every batch is settled in the end: ticks that throw, locks that are lost and
\* batches ahead of it only delay it, as long as the mishaps end.
EveryBatchSettles ==
  \A t \in Trade :
    batch[t] # None
      ~> batch[t] # None /\ batch[t].status \in {"anchored", "failed"}

\* ADR-003: jobs are "idempotent where repeated ... and safe after restart".
SentOnce == \A t \in Trade : Cardinality(Submissions(t)) <= 1
=============================================================================
