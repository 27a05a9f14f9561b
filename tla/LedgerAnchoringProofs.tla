------------------------ MODULE LedgerAnchoringProofs ------------------------
(***************************************************************************)
(* Proofs about LedgerAnchoring, for every set of trades, requests and     *)
(* workers, any number of batches in a tick, any evidence and any number   *)
(* of mishaps.                                                             *)
(***************************************************************************)
EXTENDS LedgerAnchoring, FiniteSetTheorems, SequenceTheorems, TLAPS

(* The inductive invariant.                                                  *)

RequestLabels ==
  {"idle", "missing", "gathered", "stored", "known", "reading", "done"}
WorkerLabels == {"idle", "scanning", "working", "sent", "receipt"}
RequestRow == [trade : Trade, root : Root \cup {None},
               anchor : AnchorInfo, of : SUBSET (Root \cup {None})]
RowRecord == [trade : Trade, root : Root, tx : Nat \cup {None}]

\* Requests and workers are where their code can be, and have at hand what
\* they need there.
RequestPlaced(r) ==
  /\ at[r] \in RequestLabels
  /\ at[r] = "idle" => request[r] = None
  /\ at[r] # "idle" => request[r] \in RequestRow
  /\ at[r] \notin {"idle", "missing"} => request[r].root \in Root
  /\ at[r] \in {"gathered", "stored"} => request[r].root[1] = request[r].trade
  /\ at[r] \notin {"idle", "done"} => request[r].anchor = Off

WorkerPlaced(w) ==
  /\ at[w] \in WorkerLabels
  /\ at[w] \in {"idle", "scanning"} => tick[w].rows = <<>>
  /\ at[w] \in {"sent", "receipt"} => tick[w].rows # <<>>

Typed ==
  /\ TypeOK
  /\ \A r \in Request : RequestPlaced(r)
  /\ \A w \in Worker : WorkerPlaced(w)

\* A hash that is told, if any, is that of a transaction with the root.
Sent(root, tx) ==
  tx # None => tx \in DOMAIN chain /\ chain[tx].root = root

\* A batch exists once its trade has a bundle, and is in the queue once.
BatchesKnown ==
  /\ \A t \in Trade :
       /\ batch[t] # None <=> bundles[t] # <<>>
       /\ batch[t] # None =>
            batch[t].root[1] = t /\ Sent(batch[t].root, batch[t].tx)
  /\ \A i, j \in DOMAIN queue : i # j => queue[i] # queue[j]
  /\ \A i \in DOMAIN queue : batch[queue[i]] # None

\* What a worker has read of a batch is true of its root for good.
RowKnown(row) ==
  /\ batch[row.trade] # None
  /\ row.root = batch[row.trade].root
  /\ Sent(row.root, row.tx)

RowsKnown(w) ==
  /\ \A i \in DOMAIN tick[w].rows : RowKnown(tick[w].rows[i])
  /\ \A i, j \in DOMAIN tick[w].rows :
       i # j => tick[w].rows[i].trade # tick[w].rows[j].trade
  /\ at[w] = "sent" => /\ Row(w).tx = None
                       /\ tick[w].sent # None
                       /\ Sent(Row(w).root, tick[w].sent)
  /\ at[w] = "receipt" => /\ Row(w).tx # None
                          /\ chain[Row(w).tx].outcome # "mempool"

\* As long as no lock was lost the worker in a tick holds it, and its rows are
\* still what it read.
RowCurrent(row) ==
  row.tx = batch[row.trade].tx /\ batch[row.trade].status = "pending"

Exclusive ==
  mishaps.lost = 0 =>
    \A w \in Worker :
      /\ at[w] # "idle" => jobLock = w
      /\ \A i \in DOMAIN tick[w].rows : RowCurrent(tick[w].rows[i])

\* What is told to be anchored is, and the hash that is told is one of the
\* chain's as long as no lock was lost.
TxOnChain(root, tx) ==
  /\ OnChain(root, tx)
  /\ mishaps.lost = 0 => tx \in DOMAIN chain

Anchored ==
  /\ \A t \in Trade :
       batch[t] # None /\ batch[t].status = "anchored"
         => TxOnChain(batch[t].root, batch[t].tx)
  /\ \A r \in Request :
       at[r] = "done" /\ request[r].anchor.status = "anchored"
         => TxOnChain(request[r].root, request[r].anchor.tx)

\* The workers in a tick; those that will submit a root of the trade; and the
\* one that has submitted it and not yet recorded the hash.
Active == {w \in Worker : at[w] # "idle"}
Ticket(w, t) ==
  \E i \in DOMAIN tick[w].rows :
    /\ tick[w].rows[i].trade = t
    /\ tick[w].rows[i].tx = None
    /\ at[w] = "sent" => i # 1
Tickets(t) == {w \in Worker : Ticket(w, t)}
Sending(t) == {w \in Worker : at[w] = "sent" /\ Row(w).trade = t}
Hashed(t) == batch[t] # None /\ batch[t].tx # None

\* Before a hash is recorded every submission is under way or was lost with a
\* tick; from then on those still to come are counted with those made.
Counted(t) ==
  /\ Hashed(t) =>
       Cardinality(Submissions(t)) + Cardinality(Tickets(t))
         <= 1 + mishaps.unrecorded + mishaps.lost
  /\ ~Hashed(t) =>
       Cardinality(Submissions(t))
         <= mishaps.unrecorded + Cardinality(Sending(t))

\* A worker in a tick that does not hold the lock has lost one.
Strays ==
  /\ IsFiniteSet(Active)
  /\ Cardinality(Active \ {jobLock}) <= mishaps.lost

\* Where builds do not overlap there is one builder, and nothing is recorded
\* before it is done.
On(r, t) == at[r] # "idle" /\ request[r].trade = t

BuiltOnce(t) ==
  /\ Len(bundles[t]) <= 1
  /\ bundles[t] # <<>> => archive[t] = Latest(t) /\ batch[t].root = Latest(t)
  /\ \A q, r \in Request :
       Building(q) /\ Building(r) /\ On(q, t) /\ On(r, t) => q = r
  /\ \A r \in Request :
       On(r, t) =>
         /\ Building(r) => bundles[t] = <<>>
         /\ at[r] = "stored" => archive[t] = request[r].root
         /\ at[r] \in {"known", "reading"} =>
              bundles[t] # <<>> /\ request[r].root = Latest(t)
         /\ at[r] = "done" => request[r].of = {request[r].root}

Inv ==
  /\ Typed
  /\ BatchesKnown
  /\ \A w \in Worker : RowsKnown(w)
  /\ Exclusive
  /\ Anchored
  /\ Strays
  /\ \A t \in Trade : Counted(t)
  /\ \A t \in Trade \ overlapped : BuiltOnce(t)
-----------------------------------------------------------------------------
(* Typing                                                                    *)

TickRow == [rows : Seq(RowRecord), sent : Nat \cup {None}]

\* A worker's first row, and what is left without it.
LEMMA RowFacts ==
  ASSUME Typed, NEW w \in Worker, tick[w].rows # <<>>
  PROVE  /\ tick[w].rows \in Seq(RowRecord)
         /\ 1 \in DOMAIN tick[w].rows
         /\ Row(w) = tick[w].rows[1]
         /\ Row(w) \in RowRecord
         /\ Tail(tick[w].rows) \in Seq(RowRecord)
         /\ \A i \in DOMAIN Tail(tick[w].rows) :
              /\ i + 1 \in DOMAIN tick[w].rows
              /\ i + 1 # 1
              /\ Tail(tick[w].rows)[i] = tick[w].rows[i + 1]
  <1>1. tick[w].rows \in Seq(RowRecord)
    BY DEF Typed, TypeOK, RowRecord
  <1> QED BY <1>1 DEF Row

\* Going on to the next row drops the first one.
LEMMA NextRowFacts ==
  ASSUME Typed, NEW w \in Worker, tick[w].rows # <<>>, NextRow(w)
  PROVE  /\ tick' \in [Worker -> TickRow]
         /\ tick'[w].rows = Tail(tick[w].rows)
         /\ \A u \in Worker \ {w} : tick'[u] = tick[u] /\ at'[u] = at[u]
         /\ at'[w] = "working"
         /\ \A r \in Request : at'[r] = at[r]
  <1> DEFINE left == [rows |-> Tail(tick[w].rows), sent |-> None]
  <1>1. left \in TickRow /\ left.rows = Tail(tick[w].rows)
    BY RowFacts DEF TickRow
  <1>2. tick' = [tick EXCEPT ![w] = left] /\ at' = [at EXCEPT ![w] = "working"]
    BY DEF NextRow, Goto
  <1> HIDE DEF left
  <1> QED BY <1>1, <1>2, DisjointAssumption DEF Typed, TypeOK, TickRow, RowRecord

\* Leaving a tick forgets its rows.
LEMMA LeaveFacts ==
  ASSUME Typed, NEW w \in Worker, LeaveTick(w)
  PROVE  /\ tick' \in [Worker -> TickRow]
         /\ tick'[w].rows = <<>>
         /\ \A u \in Worker \ {w} : tick'[u] = tick[u] /\ at'[u] = at[u]
         /\ at'[w] = "idle"
         /\ \A r \in Request : at'[r] = at[r]
         /\ jobLock' = IF jobLock = w THEN None ELSE jobLock
  <1> DEFINE left == [rows |-> <<>>, sent |-> None]
  <1>1. left \in TickRow /\ left.rows = <<>>
    BY DEF TickRow
  <1>2. /\ tick' = [tick EXCEPT ![w] = left] /\ at' = [at EXCEPT ![w] = "idle"]
        /\ jobLock' = IF jobLock = w THEN None ELSE jobLock
    BY DEF LeaveTick, Goto
  <1> HIDE DEF left
  <1> QED BY <1>1, <1>2, DisjointAssumption DEF Typed, TypeOK, TickRow, RowRecord

\* The newest bundle is one of the bundles.
LEMMA LatestFacts ==
  ASSUME Typed, NEW t \in Trade, bundles[t] # <<>>
  PROVE  Latest(t) \in Root
  <1>1. bundles[t] \in Seq(Root)
    BY DEF Typed, TypeOK
  <1> QED BY <1>1 DEF Latest

\* getAnchor tells of nothing, or of a batch with the root.
LEMMA AnchorFacts ==
  ASSUME Typed, NEW root
  PROVE  \/ AnchorOf(root) = Off
         \/ \E t \in Trade : /\ batch[t] # None
                             /\ batch[t].root = root
                             /\ batch[t] \in BatchRow
                             /\ AnchorOf(root) = [status |-> batch[t].status,
                                                  tx |-> batch[t].tx]
  <1> DEFINE queued == {t \in Trade : batch[t] # None /\ batch[t].root = root}
             one == CHOOSE t \in queued : TRUE
  <1>1. CASE queued = {}
    BY <1>1 DEF AnchorOf
  <1>2. CASE queued # {}
    <2>1. one \in queued
      BY <1>2
    <2>2. AnchorOf(root) = [status |-> batch[one].status, tx |-> batch[one].tx]
      BY <1>2 DEF AnchorOf
    <2>3. batch[one] \in BatchRow
      BY <2>1 DEF Typed, TypeOK
    <2> HIDE DEF one
    <2> QED BY <2>1, <2>2, <2>3
  <1> QED BY <1>1, <1>2

LEMMA AnchorType == Typed => \A root : AnchorOf(root) \in AnchorInfo
  <1> SUFFICES ASSUME Typed, NEW root PROVE AnchorOf(root) \in AnchorInfo
    OBVIOUS
  <1>1. Off \in AnchorInfo
    BY DEF Off, AnchorInfo
  <1>2. \A t \in Trade : batch[t] \in BatchRow =>
          [status |-> batch[t].status, tx |-> batch[t].tx] \in AnchorInfo
    BY DEF BatchRow, AnchorInfo
  <1> QED BY <1>1, <1>2, AnchorFacts

Labels == {"idle", "missing", "gathered", "stored", "known", "reading", "done",
           "scanning", "working", "sent", "receipt"}

\* A request that moves to a label with what it has at hand leaves everyone
\* else where they are.
LEMMA RequestMoves ==
  ASSUME Typed, NEW r \in Request, NEW label \in RequestLabels, Goto(r, label),
         NEW x \in RequestRow \cup {None}, request' = [request EXCEPT ![r] = x]
  PROVE  /\ at' \in [Request \cup Worker -> Labels]
         /\ request' \in [Request -> RequestRow \cup {None}]
         /\ at'[r] = label /\ request'[r] = x
         /\ \A q \in Request \ {r} : at'[q] = at[q] /\ request'[q] = request[q]
         /\ \A w \in Worker : at'[w] = at[w]
  BY DisjointAssumption DEF Typed, TypeOK, Goto, Labels, RequestLabels, RequestRow

\* The others stay placed.
LEMMA OthersPlaced ==
  ASSUME Typed, NEW r \in Request, tick' = tick,
         \A q \in Request \ {r} : at'[q] = at[q] /\ request'[q] = request[q],
         \A w \in Worker : at'[w] = at[w]
  PROVE  /\ \A q \in Request \ {r} : RequestPlaced(q)'
         /\ \A w \in Worker : WorkerPlaced(w)'
  BY DEF Typed, RequestPlaced, WorkerPlaced

\* Every step of a request keeps the typing.
LEMMA TypedRequest ==
  ASSUME Typed, NEW r \in Request, RequestStep(r)
  PROVE  Typed'
  <1>1. RequestPlaced(r)
    BY DEF Typed
  <1>2. ASSUME NEW t \in Trade, FindBundle(r, t) \/ ReadRecord(r, t)
        PROVE  Typed'
    <2> DEFINE x == Working(t, Latest(t))
    <2>1. /\ x \in RequestRow /\ x.anchor = Off /\ x.root \in Root
      BY <1>2, LatestFacts DEF FindBundle, ReadRecord, Working, RequestRow, Off,
         AnchorInfo
    <2>2. \E label \in {"known", "reading"} :
            Goto(r, label) /\ request' = [request EXCEPT ![r] = x]
      BY <1>2 DEF FindBundle, ReadRecord
    <2>3. UNCHANGED <<ledger, anchors, chain, jobLock, tick, overlapped, mishaps>>
      BY <1>2 DEF FindBundle, ReadRecord
    <2> HIDE DEF x
    <2>4. PICK label \in {"known", "reading"} :
            Goto(r, label) /\ request' = [request EXCEPT ![r] = x]
      BY <2>2
    <2>5. /\ at' \in [Request \cup Worker -> Labels]
          /\ request' \in [Request -> RequestRow \cup {None}]
          /\ at'[r] = label /\ request'[r] = x
          /\ \A q \in Request \ {r} : RequestPlaced(q)'
          /\ \A w \in Worker : WorkerPlaced(w)'
      BY <2>1, <2>3, <2>4, RequestMoves, OthersPlaced DEF RequestLabels
    <2>6. RequestPlaced(r)'
      BY <2>1, <2>5 DEF RequestPlaced, RequestLabels
    <2> QED
      BY <2>3, <2>5, <2>6 DEF Typed, TypeOK, ledger, anchors, Labels, RequestRow
  <1>3. ASSUME NEW t \in Trade, MissBundle(r, t)
        PROVE  Typed'
    <2> DEFINE x == Working(t, None)
    <2>1. /\ x \in RequestRow /\ x.anchor = Off
      BY DEF Working, RequestRow, Off, AnchorInfo
    <2>2. Goto(r, "missing") /\ request' = [request EXCEPT ![r] = x]
      BY <1>3 DEF MissBundle
    <2>3. /\ UNCHANGED <<ledger, anchors, chain, jobLock, tick, mishaps>>
          /\ overlapped' \subseteq Trade
      BY <1>3 DEF MissBundle, Typed, TypeOK
    <2> HIDE DEF x
    <2>5. /\ at' \in [Request \cup Worker -> Labels]
          /\ request' \in [Request -> RequestRow \cup {None}]
          /\ at'[r] = "missing" /\ request'[r] = x
          /\ \A q \in Request \ {r} : RequestPlaced(q)'
          /\ \A w \in Worker : WorkerPlaced(w)'
      BY <2>1, <2>2, <2>3, RequestMoves, OthersPlaced DEF RequestLabels
    <2>6. RequestPlaced(r)'
      BY <2>1, <2>5 DEF RequestPlaced, RequestLabels
    <2> QED
      BY <2>3, <2>5, <2>6 DEF Typed, TypeOK, ledger, anchors, Labels, RequestRow
  <1>4. CASE GatherArtifacts(r)
    <2>1. request[r] \in RequestRow /\ request[r].anchor = Off
      BY <1>1, <1>4 DEF GatherArtifacts, RequestPlaced
    <2>2. PICK version \in 0 .. MaxVersion :
            request' = [request EXCEPT ![r].root = <<request[r].trade, version>>]
      BY <1>4 DEF GatherArtifacts
    <2> DEFINE x == [request[r] EXCEPT !.root = <<request[r].trade, version>>]
    <2>3. /\ x \in RequestRow /\ x.anchor = Off /\ x.root \in Root
          /\ x.root[1] = x.trade
      BY <2>1 DEF RequestRow, Root
    <2>4. Goto(r, "gathered") /\ request' = [request EXCEPT ![r] = x]
      BY <1>4, <2>2 DEF GatherArtifacts
    <2>5. UNCHANGED <<ledger, anchors, chain, jobLock, tick, overlapped, mishaps>>
      BY <1>4 DEF GatherArtifacts
    <2> HIDE DEF x
    <2>6. /\ at' \in [Request \cup Worker -> Labels]
          /\ request' \in [Request -> RequestRow \cup {None}]
          /\ at'[r] = "gathered" /\ request'[r] = x
          /\ \A q \in Request \ {r} : RequestPlaced(q)'
          /\ \A w \in Worker : WorkerPlaced(w)'
      BY <2>3, <2>4, <2>5, RequestMoves, OthersPlaced DEF RequestLabels
    <2>7. RequestPlaced(r)'
      BY <2>3, <2>6 DEF RequestPlaced, RequestLabels
    <2> QED
      BY <2>5, <2>6, <2>7 DEF Typed, TypeOK, ledger, anchors, Labels, RequestRow
  <1>5. CASE AnswerBundle(r)
    <2> DEFINE of == {bundles[request[r].trade][i] :
                        i \in DOMAIN bundles[request[r].trade]}
               anchor == AnchorOf(request[r].root)
               x == [request[r] EXCEPT !.anchor = anchor, !.of = of]
    <2>1. /\ request[r] \in RequestRow /\ request[r].root \in Root
          /\ request[r].trade \in Trade
      BY <1>1, <1>5 DEF AnswerBundle, RequestPlaced, RequestRow
    <2>2. anchor \in AnchorInfo
      BY <2>1, AnchorType
    <2>3. of \subseteq Root
      <3>1. bundles[request[r].trade] \in Seq(Root)
        BY <2>1 DEF Typed, TypeOK
      <3> QED BY <3>1
    <2>4. request' = [request EXCEPT ![r] = x]
      BY <1>5 DEF AnswerBundle
    <2> HIDE DEF of, anchor
    <2>5. x \in RequestRow /\ x.root \in Root
      BY <2>1, <2>2, <2>3 DEF RequestRow
    <2>6. Goto(r, "done")
      BY <1>5 DEF AnswerBundle
    <2>7. UNCHANGED <<ledger, anchors, chain, jobLock, tick, overlapped, mishaps>>
      BY <1>5 DEF AnswerBundle
    <2> HIDE DEF x
    <2>8. /\ at' \in [Request \cup Worker -> Labels]
          /\ request' \in [Request -> RequestRow \cup {None}]
          /\ at'[r] = "done" /\ request'[r] = x
          /\ \A q \in Request \ {r} : RequestPlaced(q)'
          /\ \A w \in Worker : WorkerPlaced(w)'
      BY <2>4, <2>5, <2>6, <2>7, RequestMoves, OthersPlaced DEF RequestLabels
    <2>9. RequestPlaced(r)'
      BY <2>5, <2>8 DEF RequestPlaced, RequestLabels
    <2> QED
      BY <2>7, <2>8, <2>9 DEF Typed, TypeOK, ledger, anchors, Labels, RequestRow
  <1>6. CASE ReadArchive(r)
    <2> DEFINE x == [request[r] EXCEPT !.of = {archive[request[r].trade]}]
    <2>1. request[r] \in RequestRow /\ request[r].root \in Root
      BY <1>1, <1>6 DEF ReadArchive, RequestPlaced
    <2>2. x \in RequestRow /\ x.root \in Root
      BY <2>1 DEF RequestRow, Typed, TypeOK
    <2>3. Goto(r, "done") /\ request' = [request EXCEPT ![r] = x]
      BY <1>6 DEF ReadArchive
    <2>4. UNCHANGED <<ledger, anchors, chain, jobLock, tick, overlapped, mishaps>>
      BY <1>6 DEF ReadArchive
    <2> HIDE DEF x
    <2>5. /\ at' \in [Request \cup Worker -> Labels]
          /\ request' \in [Request -> RequestRow \cup {None}]
          /\ at'[r] = "done" /\ request'[r] = x
          /\ \A q \in Request \ {r} : RequestPlaced(q)'
          /\ \A w \in Worker : WorkerPlaced(w)'
      BY <2>2, <2>3, <2>4, RequestMoves, OthersPlaced DEF RequestLabels
    <2>6. RequestPlaced(r)'
      BY <2>2, <2>5 DEF RequestPlaced, RequestLabels
    <2> QED
      BY <2>4, <2>5, <2>6 DEF Typed, TypeOK, ledger, anchors, Labels, RequestRow
  <1>7. CASE FailRequest(r)
    <2>1. Goto(r, "idle") /\ request' = [request EXCEPT ![r] = None]
      BY <1>7 DEF FailRequest
    <2>2. /\ UNCHANGED <<ledger, anchors, chain, jobLock, tick, overlapped>>
          /\ mishaps' \in [failed : Nat, unrecorded : Nat, lost : Nat, ended : Nat]
      <3>1. mishaps \in [failed : Nat, unrecorded : Nat, lost : Nat, ended : Nat]
        BY DEF Typed, TypeOK
      <3>2. mishaps' = [mishaps EXCEPT !.ended = @ + 1]
        BY <1>7 DEF FailRequest
      <3>3. mishaps' \in [failed : Nat, unrecorded : Nat, lost : Nat, ended : Nat]
        BY <3>1, <3>2
      <3> QED BY <1>7, <3>3 DEF FailRequest
    <2>3. /\ at' \in [Request \cup Worker -> Labels]
          /\ request' \in [Request -> RequestRow \cup {None}]
          /\ at'[r] = "idle" /\ request'[r] = None
          /\ \A q \in Request \ {r} : RequestPlaced(q)'
          /\ \A w \in Worker : WorkerPlaced(w)'
      BY <2>1, <2>2, RequestMoves, OthersPlaced DEF RequestLabels
    <2>4. RequestPlaced(r)'
      BY <2>3 DEF RequestPlaced, RequestLabels
    <2> QED
      BY <2>2, <2>3, <2>4 DEF Typed, TypeOK, ledger, anchors, Labels, RequestRow
  <1>8. CASE StoreArchive(r)
    <2>1. /\ request[r] \in RequestRow /\ request[r].root \in Root
          /\ request[r].anchor = Off /\ request[r].root[1] = request[r].trade
      BY <1>1, <1>8 DEF StoreArchive, RequestPlaced
    <2>2. Goto(r, "stored") /\ request' = [request EXCEPT ![r] = request[r]]
      BY <1>8 DEF StoreArchive, api, Typed, TypeOK
    <2>3. /\ UNCHANGED <<bundles, anchors, chain, jobLock, tick, overlapped, mishaps>>
          /\ archive' \in [Trade -> Root \cup {None}]
      BY <1>8, <2>1 DEF StoreArchive, api, Typed, TypeOK
    <2>4. /\ at' \in [Request \cup Worker -> Labels]
          /\ request' \in [Request -> RequestRow \cup {None}]
          /\ at'[r] = "stored" /\ request'[r] = request[r]
          /\ \A q \in Request \ {r} : RequestPlaced(q)'
          /\ \A w \in Worker : WorkerPlaced(w)'
      BY <2>1, <2>2, <2>3, RequestMoves, OthersPlaced DEF RequestLabels
    <2>5. RequestPlaced(r)'
      BY <2>1, <2>4 DEF RequestPlaced, RequestLabels
    <2> QED
      BY <2>3, <2>4, <2>5 DEF Typed, TypeOK, anchors, Labels, RequestRow
  <1>9. CASE RecordBundle(r)
    <2> DEFINE t == request[r].trade
               root == request[r].root
               row == [root |-> root, status |-> "pending", tx |-> None]
    <2>1. /\ request[r] \in RequestRow /\ root \in Root /\ t \in Trade
          /\ request[r].anchor = Off
      BY <1>1, <1>9 DEF RecordBundle, RequestPlaced, RequestRow
    <2>2. Goto(r, "known") /\ request' = [request EXCEPT ![r] = request[r]]
      BY <1>9 DEF RecordBundle, api, Typed, TypeOK
    <2>3. UNCHANGED <<archive, chain, jobLock, tick, overlapped, mishaps>>
      BY <1>9 DEF RecordBundle, api
    <2>4. bundles' \in [Trade -> Seq(Root)]
      BY <1>9, <2>1 DEF RecordBundle, RootOf, Typed, TypeOK
    <2>5. batch' \in [Trade -> BatchRow \cup {None}] /\ queue' \in Seq(Trade)
      <3>1. row \in BatchRow
        BY <2>1 DEF BatchRow
      <3>2. \/ batch' = [batch EXCEPT ![t] = row] /\ queue' = Append(queue, t)
            \/ UNCHANGED anchors
        BY <1>9 DEF RecordBundle, Queued, RootOf
      <3>3. batch \in [Trade -> BatchRow \cup {None}] /\ queue \in Seq(Trade)
        BY DEF Typed, TypeOK
      <3>4. Append(queue, t) \in Seq(Trade)
        BY <2>1, <3>3
      <3> HIDE DEF row, t
      <3> QED BY <3>1, <3>2, <3>3, <3>4 DEF anchors
    <2>6. /\ at' \in [Request \cup Worker -> Labels]
          /\ request' \in [Request -> RequestRow \cup {None}]
          /\ at'[r] = "known" /\ request'[r] = request[r]
          /\ \A q \in Request \ {r} : RequestPlaced(q)'
          /\ \A w \in Worker : WorkerPlaced(w)'
      BY <2>1, <2>2, <2>3, RequestMoves, OthersPlaced DEF RequestLabels
    <2>7. RequestPlaced(r)'
      BY <2>1, <2>6 DEF RequestPlaced, RequestLabels
    <2> QED
      BY <2>3, <2>4, <2>5, <2>6, <2>7 DEF Typed, TypeOK, Labels, RequestRow
  <1> QED
    BY <1>2, <1>3, <1>4, <1>5, <1>6, <1>7, <1>8, <1>9 DEF RequestStep

\* A worker that moves to a label leaves everyone else where they are.
LEMMA WorkerMoves ==
  ASSUME Typed, NEW w \in Worker, NEW label \in WorkerLabels, Goto(w, label)
  PROVE  /\ at' \in [Request \cup Worker -> Labels]
         /\ at'[w] = label
         /\ \A u \in Worker \ {w} : at'[u] = at[u]
         /\ \A r \in Request : at'[r] = at[r]
  BY DisjointAssumption DEF Typed, TypeOK, Goto, Labels, WorkerLabels

\* Who does not move stays placed.
LEMMA StillPlaced ==
  ASSUME Typed, NEW w \in Worker, request' = request,
         \A u \in Worker \ {w} : tick'[u] = tick[u] /\ at'[u] = at[u],
         \A r \in Request : at'[r] = at[r]
  PROVE  /\ \A r \in Request : RequestPlaced(r)'
         /\ \A u \in Worker \ {w} : WorkerPlaced(u)'
  BY DEF Typed, RequestPlaced, WorkerPlaced

\* The rows of a scan are those of the batches it found.
LEMMA ScanFacts ==
  ASSUME Typed, BatchesKnown, NEW w \in Worker, Scan(w)
  PROVE  \E n \in Nat : \E found \in [1 .. n -> DOMAIN queue] :
           /\ tick' \in [Worker -> TickRow]
           /\ tick'[w].rows = [i \in 1 .. n |-> RowOf(queue[found[i]])]
           /\ \A i \in 1 .. n : RowOf(queue[found[i]]) \in RowRecord
           /\ \A i \in 1 .. n : Pending(queue[found[i]])
           /\ \A i, j \in 1 .. n : i # j => found[i] # found[j]
           /\ \A u \in Worker \ {w} : tick'[u] = tick[u]
  <1>0. PICK n \in 0 .. ScanLimit :
          \E found \in [1 .. n -> DOMAIN queue] :
            /\ Oldest(found)
            /\ tick' = [tick EXCEPT ![w].rows =
                 [i \in 1 .. n |-> RowOf(queue[found[i]])]]
    BY DEF Scan
  <1>1. PICK found \in [1 .. n -> DOMAIN queue] :
          /\ Oldest(found)
          /\ tick' = [tick EXCEPT ![w].rows =
               [i \in 1 .. n |-> RowOf(queue[found[i]])]]
    BY <1>0
  <1> DEFINE rows == [i \in 1 .. n |-> RowOf(queue[found[i]])]
             x == [tick[w] EXCEPT !.rows = rows]
  <1>2. n \in Nat /\ queue \in Seq(Trade) /\ DOMAIN queue \subseteq Nat
    BY LimitsAssumption DEF Typed, TypeOK
  <1>3. \A i \in 1 .. n : RowOf(queue[found[i]]) \in RowRecord
    <2>1. \A k \in DOMAIN queue : queue[k] \in Trade /\ batch[queue[k]] \in BatchRow
      BY <1>2 DEF BatchesKnown, Typed, TypeOK
    <2>2. \A t \in Trade : batch[t] \in BatchRow => RowOf(t) \in RowRecord
      BY DEF RowOf, BatchRow, RowRecord
    <2> QED BY <1>1, <2>1, <2>2
  <1>4. rows \in Seq(RowRecord)
    BY <1>2, <1>3
  <1>5. tick[w] \in TickRow /\ tick \in [Worker -> TickRow]
    BY DEF Typed, TypeOK, TickRow, RowRecord
  <1>6. tick' = [tick EXCEPT ![w] = x]
    BY <1>1
  <1>7. x \in TickRow /\ x.rows = rows
    <2> HIDE DEF rows
    <2> QED BY <1>4, <1>5 DEF TickRow
  <1>8. tick' \in [Worker -> TickRow] /\ tick'[w].rows = rows
    <2> HIDE DEF x
    <2> QED BY <1>5, <1>6, <1>7
  <1>9. \A i \in 1 .. n : Pending(queue[found[i]])
    BY <1>1 DEF Oldest
  <1>10. \A i, j \in 1 .. n : i # j => found[i] # found[j]
    <2> SUFFICES ASSUME NEW i \in 1 .. n, NEW j \in 1 .. n, i # j
                 PROVE  found[i] # found[j]
      OBVIOUS
    <2>1. i < j \/ j < i
      BY <1>2
    <2>2. found[i] \in Nat /\ found[j] \in Nat
      BY <1>1, <1>2
    <2>3. found[i] < found[j] \/ found[j] < found[i]
      BY <1>1, <2>1 DEF Oldest
    <2> QED BY <2>2, <2>3
  <1>11. \A u \in Worker \ {w} : tick'[u] = tick[u]
    BY <1>5, <1>6
  <1> QED BY <1>2, <1>3, <1>8, <1>9, <1>10, <1>11

\* Every step of a worker keeps the typing.
LEMMA TypedWorker ==
  ASSUME Typed, BatchesKnown, \A v \in Worker : RowsKnown(v),
         NEW w \in Worker, WorkerStep(w)
  PROVE  Typed'
  <1>1. WorkerPlaced(w)
    BY DEF Typed
  <1>2. CASE BeginTick(w)
    <2>1. Goto(w, "scanning") /\ UNCHANGED <<ledger, anchors, chain, api, tick, mishaps>>
      BY <1>2 DEF BeginTick
    <2>2. jobLock' \in Worker
      BY <1>2 DEF BeginTick
    <2>3. /\ at' \in [Request \cup Worker -> Labels] /\ at'[w] = "scanning"
          /\ \A r \in Request : RequestPlaced(r)'
          /\ \A u \in Worker \ {w} : WorkerPlaced(u)'
      BY <2>1, WorkerMoves, StillPlaced DEF WorkerLabels, api
    <2>4. WorkerPlaced(w)'
      BY <1>1, <1>2, <2>1, <2>3 DEF WorkerPlaced, BeginTick, WorkerLabels
    <2> QED
      BY <2>1, <2>2, <2>3, <2>4 DEF Typed, TypeOK, ledger, anchors, api, Labels
  <1>3. CASE Scan(w)
    <2>1. Goto(w, "working") /\ UNCHANGED <<ledger, anchors, chain, jobLock, api, mishaps>>
      BY <1>3 DEF Scan
    <2>2. /\ tick' \in [Worker -> TickRow]
          /\ \A u \in Worker \ {w} : tick'[u] = tick[u]
      BY <1>3, ScanFacts
    <2>3. /\ at' \in [Request \cup Worker -> Labels] /\ at'[w] = "working"
          /\ \A r \in Request : RequestPlaced(r)'
          /\ \A u \in Worker \ {w} : WorkerPlaced(u)'
      BY <2>1, <2>2, WorkerMoves, StillPlaced DEF WorkerLabels, api
    <2>4. WorkerPlaced(w)'
      BY <2>3 DEF WorkerPlaced, WorkerLabels
    <2> QED
      BY <2>1, <2>2, <2>3, <2>4 DEF Typed, TypeOK, ledger, anchors, api, Labels,
         TickRow, RowRecord
  <1>4. CASE Submit(w)
    <2> DEFINE x == [tick[w] EXCEPT !.sent = Len(chain) + 1]
               new == [root |-> Row(w).root, outcome |-> "mempool"]
    <2>1. /\ Goto(w, "sent") /\ UNCHANGED <<ledger, anchors, jobLock, api, mishaps>>
          /\ tick[w].rows # <<>>
      BY <1>4 DEF Submit, HasRow
    <2>2. tick \in [Worker -> TickRow] /\ tick[w] \in TickRow
      BY DEF Typed, TypeOK, TickRow, RowRecord
    <2>3. x \in TickRow /\ x.rows = tick[w].rows
      <3>1. Len(chain) + 1 \in Nat
        BY DEF Typed, TypeOK
      <3> QED BY <2>2, <3>1 DEF TickRow
    <2>4. tick' = [tick EXCEPT ![w] = x]
      BY <1>4 DEF Submit
    <2>5. chain' \in Seq([root : Root, outcome : Outcome])
      <3>1. new \in [root : Root, outcome : Outcome]
        BY <2>1, RowFacts DEF RowRecord, Outcome
      <3>2. chain \in Seq([root : Root, outcome : Outcome]) /\ chain' = Append(chain, new)
        BY <1>4 DEF Submit, Typed, TypeOK
      <3> HIDE DEF new
      <3> QED BY <3>1, <3>2
    <2> HIDE DEF x
    <2>6. /\ tick' \in [Worker -> TickRow] /\ tick'[w].rows # <<>>
          /\ \A u \in Worker \ {w} : tick'[u] = tick[u]
      BY <2>1, <2>2, <2>3, <2>4
    <2>7. /\ at' \in [Request \cup Worker -> Labels] /\ at'[w] = "sent"
          /\ \A r \in Request : RequestPlaced(r)'
          /\ \A u \in Worker \ {w} : WorkerPlaced(u)'
      BY <2>1, <2>6, WorkerMoves, StillPlaced DEF WorkerLabels, api
    <2>8. WorkerPlaced(w)'
      BY <2>6, <2>7 DEF WorkerPlaced, WorkerLabels
    <2> QED
      BY <2>1, <2>5, <2>6, <2>7, <2>8 DEF Typed, TypeOK, ledger, anchors, api,
         Labels, TickRow, RowRecord
  <1>5. CASE RecordHash(w) \/ AwaitReceipt(w) \/ SettleBatch(w)
    <2>1. /\ NextRow(w) /\ UNCHANGED <<ledger, queue, chain, jobLock, api, mishaps>>
          /\ tick[w].rows # <<>>
      BY <1>1, <1>5 DEF RecordHash, AwaitReceipt, SettleBatch, HasRow,
         WorkerPlaced, anchors
    <2>2. batch' \in [Trade -> BatchRow \cup {None}]
      <3>1. /\ Row(w).trade \in Trade /\ batch[Row(w).trade] \in BatchRow
        <4>1. Row(w) \in RowRecord /\ RowKnown(Row(w))
          BY <2>1, RowFacts DEF RowsKnown
        <4> QED BY <4>1 DEF RowKnown, RowRecord, Typed, TypeOK
      <3>2. CASE AwaitReceipt(w)
        BY <3>2 DEF AwaitReceipt, anchors, Typed, TypeOK
      <3>3. CASE RecordHash(w)
        <4> DEFINE b == batch[Row(w).trade]
                   y == [b EXCEPT !.tx = tick[w].sent, !.status = "pending"]
        <4>1. tick[w].sent \in Nat \cup {None}
          BY DEF Typed, TypeOK
        <4>2. y \in BatchRow
          BY <3>1, <4>1 DEF BatchRow
        <4>3. batch' = [batch EXCEPT ![Row(w).trade] = y]
          BY <3>3 DEF RecordHash
        <4> HIDE DEF y
        <4> QED BY <4>2, <4>3 DEF Typed, TypeOK
      <3>4. CASE SettleBatch(w)
        <4> DEFINE b == batch[Row(w).trade]
                   s == StatusOf(chain[Row(w).tx].outcome)
                   y == [b EXCEPT !.status = s]
        <4>1. s \in {"pending", "anchored", "failed"}
          BY DEF StatusOf
        <4>2. batch' = [batch EXCEPT ![Row(w).trade] = y]
          BY <3>4 DEF SettleBatch
        <4> HIDE DEF s
        <4>3. y \in BatchRow
          BY <3>1, <4>1 DEF BatchRow
        <4> HIDE DEF y
        <4> QED BY <4>2, <4>3 DEF Typed, TypeOK
      <3> QED BY <1>5, <3>2, <3>3, <3>4
    <2>3. /\ at' \in [Request \cup Worker -> Labels] /\ at'[w] = "working"
          /\ tick' \in [Worker -> TickRow]
          /\ \A r \in Request : RequestPlaced(r)'
          /\ \A u \in Worker \ {w} : WorkerPlaced(u)'
      BY <2>1, NextRowFacts, WorkerMoves, StillPlaced DEF NextRow, WorkerLabels, api
    <2>4. WorkerPlaced(w)'
      BY <2>3 DEF WorkerPlaced, WorkerLabels
    <2> QED
      BY <2>1, <2>2, <2>3, <2>4 DEF Typed, TypeOK, ledger, api, Labels, TickRow,
         RowRecord
  <1>6. CASE ReadReceipt(w)
    <2>1. /\ Goto(w, "receipt") /\ tick[w].rows # <<>>
          /\ UNCHANGED <<ledger, anchors, chain, jobLock, api, tick, mishaps>>
      BY <1>6 DEF ReadReceipt, HasRow
    <2>2. /\ at' \in [Request \cup Worker -> Labels] /\ at'[w] = "receipt"
          /\ \A r \in Request : RequestPlaced(r)'
          /\ \A u \in Worker \ {w} : WorkerPlaced(u)'
      BY <2>1, WorkerMoves, StillPlaced DEF WorkerLabels, api
    <2>3. WorkerPlaced(w)'
      BY <2>1, <2>2 DEF WorkerPlaced, WorkerLabels
    <2> QED
      BY <2>1, <2>2, <2>3 DEF Typed, TypeOK, ledger, anchors, api, Labels
  <1>7. CASE EndTick(w)
    <2>1. /\ LeaveTick(w) /\ UNCHANGED <<ledger, anchors, chain, api, mishaps>>
      BY <1>7 DEF EndTick
    <2>2. /\ at' \in [Request \cup Worker -> Labels] /\ at'[w] = "idle"
          /\ tick' \in [Worker -> TickRow] /\ tick'[w].rows = <<>>
          /\ jobLock' \in Worker \cup {None}
          /\ \A r \in Request : RequestPlaced(r)'
          /\ \A u \in Worker \ {w} : WorkerPlaced(u)'
      BY <2>1, LeaveFacts, WorkerMoves, StillPlaced DEF LeaveTick, WorkerLabels,
         api, Typed, TypeOK
    <2>3. WorkerPlaced(w)'
      BY <2>2 DEF WorkerPlaced, WorkerLabels
    <2> QED
      BY <2>1, <2>2, <2>3 DEF Typed, TypeOK, ledger, anchors, api, Labels,
         TickRow, RowRecord
  <1> QED
    BY <1>2, <1>3, <1>4, <1>5, <1>6, <1>7 DEF WorkerStep

\* So do a failed tick, a lost lock and the chain.
LEMMA TypedMishaps ==
  ASSUME Typed, \/ \E w \in Worker : FailTick(w) \/ LoseLock(w)
                \/ Mining
  PROVE  Typed'
  <1>1. mishaps \in [failed : Nat, unrecorded : Nat, lost : Nat, ended : Nat]
    BY DEF Typed, TypeOK
  <1>2. ASSUME NEW w \in Worker, FailTick(w)
        PROVE  Typed'
    <2>1. /\ LeaveTick(w) /\ UNCHANGED <<ledger, anchors, chain, api>>
      BY <1>2 DEF FailTick
    <2>2. mishaps' \in [failed : Nat, unrecorded : Nat, lost : Nat, ended : Nat]
      <3> DEFINE f == mishaps.failed + 1
                 u == IF at[w] = "sent" THEN mishaps.unrecorded + 1
                                        ELSE mishaps.unrecorded
      <3>1. f \in Nat /\ u \in Nat
        BY <1>1
      <3>2. mishaps' = [mishaps EXCEPT !.failed = f, !.unrecorded = u]
        BY <1>2 DEF FailTick
      <3> HIDE DEF f, u
      <3> QED BY <1>1, <3>1, <3>2
    <2>3. /\ at' \in [Request \cup Worker -> Labels] /\ at'[w] = "idle"
          /\ tick' \in [Worker -> TickRow] /\ tick'[w].rows = <<>>
          /\ jobLock' \in Worker \cup {None}
          /\ \A r \in Request : RequestPlaced(r)'
          /\ \A u \in Worker \ {w} : WorkerPlaced(u)'
      BY <2>1, LeaveFacts, WorkerMoves, StillPlaced DEF LeaveTick, WorkerLabels,
         api, Typed, TypeOK
    <2>4. WorkerPlaced(w)'
      BY <2>3 DEF WorkerPlaced, WorkerLabels
    <2> QED
      BY <2>1, <2>2, <2>3, <2>4 DEF Typed, TypeOK, ledger, anchors, api, Labels,
         TickRow, RowRecord
  <1>3. ASSUME NEW w \in Worker, LoseLock(w)
        PROVE  Typed'
    <2>1. mishaps' \in [failed : Nat, unrecorded : Nat, lost : Nat, ended : Nat]
      BY <1>1, <1>3 DEF LoseLock
    <2> QED
      BY <1>3, <2>1 DEF LoseLock, Typed, TypeOK, RequestPlaced, WorkerPlaced,
         ledger, anchors, api
  <1>4. ASSUME NEW n \in DOMAIN chain, NEW outcome \in {"succeeded", "reverted"},
               Mine(n, outcome)
        PROVE  Typed'
    <2> DEFINE x == [chain[n] EXCEPT !.outcome = outcome]
    <2>1. chain \in Seq([root : Root, outcome : Outcome])
      BY DEF Typed, TypeOK
    <2>2. x \in [root : Root, outcome : Outcome]
      <3>1. chain[n] \in [root : Root, outcome : Outcome]
        <4>1. n \in DOMAIN chain
          OBVIOUS
        <4>2. n \in 1 .. Len(chain)
          BY <2>1, <4>1
        <4> QED BY <2>1, <4>2, ElementOfSeq
      <3>2. outcome \in Outcome
        BY DEF Outcome
      <3> QED BY <3>1, <3>2
    <2>3. chain' = [chain EXCEPT ![n] = x]
      BY <1>4 DEF Mine
    <2> HIDE DEF x
    <2>4. chain' \in Seq([root : Root, outcome : Outcome])
      BY <2>1, <2>2, <2>3
    <2> QED
      BY <1>4, <2>4 DEF Mine, Typed, TypeOK, RequestPlaced, WorkerPlaced,
         ledger, anchors, api
  <1> QED BY <1>2, <1>3, <1>4 DEF Mining, MineStep
-----------------------------------------------------------------------------
(* What is sent stays on the chain, and a batch keeps its root.              *)

Known ==
  /\ Typed
  /\ BatchesKnown
  /\ \A w \in Worker : RowsKnown(w)

\* Transactions are never lost, nor is a receipt taken back.
ChainGrows ==
  \A n \in DOMAIN chain :
    /\ n \in DOMAIN chain'
    /\ chain'[n].root = chain[n].root
    /\ chain[n].outcome # "mempool" => chain'[n] = chain[n]

\* What a submission adds to the chain.
LEMMA SubmitFacts ==
  ASSUME Typed, NEW w \in Worker, Submit(w)
  PROVE  /\ Len(chain) + 1 \in DOMAIN chain'
         /\ chain'[Len(chain) + 1].root = Row(w).root
         /\ DOMAIN chain' = DOMAIN chain \cup {Len(chain) + 1}
         /\ Len(chain) + 1 \notin DOMAIN chain
         /\ \A n \in DOMAIN chain : chain'[n] = chain[n]
         /\ tick'[w].rows = tick[w].rows
         /\ tick'[w].sent = Len(chain) + 1
         /\ \A u \in Worker \ {w} : tick'[u] = tick[u]
         /\ Len(chain) + 1 # None
  <1> DEFINE new == [root |-> Row(w).root, outcome |-> "mempool"]
             x == [tick[w] EXCEPT !.sent = Len(chain) + 1]
  <1>1. /\ chain \in Seq([root : Root, outcome : Outcome])
        /\ tick \in [Worker -> TickRow]
    BY DEF Typed, TypeOK, TickRow, RowRecord
  <1>2. /\ chain' = Append(chain, new) /\ new.root = Row(w).root
        /\ tick' = [tick EXCEPT ![w] = x]
    BY DEF Submit
  <1>3. x.rows = tick[w].rows /\ x.sent = Len(chain) + 1
    BY <1>1 DEF TickRow
  <1>4. Len(chain) + 1 # None
    BY <1>1, NoneAssumption
  <1> HIDE DEF new, x
  <1>5. /\ Len(chain') = Len(chain) + 1
        /\ chain'[Len(chain) + 1] = new
        /\ \A n \in 1 .. Len(chain) : chain'[n] = chain[n]
        /\ DOMAIN chain' = 1 .. (Len(chain) + 1)
        /\ DOMAIN chain = 1 .. Len(chain)
        /\ Len(chain) \in Nat
    BY <1>1, <1>2
  <1> QED BY <1>1, <1>2, <1>3, <1>4, <1>5

\* What mining changes.
LEMMA MineFacts ==
  ASSUME Typed, NEW n, n \in DOMAIN chain, NEW outcome, Mine(n, outcome)
  PROVE  /\ chain[n].outcome = "mempool"
         /\ DOMAIN chain' = DOMAIN chain
         /\ chain'[n].root = chain[n].root
         /\ \A m \in DOMAIN chain \ {n} : chain'[m] = chain[m]
  <1> DEFINE x == [chain[n] EXCEPT !.outcome = outcome]
  <1>1. chain \in Seq([root : Root, outcome : Outcome]) /\ n \in 1 .. Len(chain)
    BY DEF Typed, TypeOK
  <1>2. chain[n] \in [root : Root, outcome : Outcome]
    BY <1>1, ElementOfSeq
  <1>3. x.root = chain[n].root
    BY <1>2
  <1>4. chain' = [chain EXCEPT ![n] = x] /\ chain[n].outcome = "mempool"
    BY DEF Mine
  <1> HIDE DEF x
  <1> QED BY <1>1, <1>3, <1>4

\* Only a submission and mining write the chain, and both only add to it.
LEMMA ChainStep ==
  ASSUME Typed, Next
  PROVE  ChainGrows
  <1>1. CASE chain' = chain
    BY <1>1 DEF ChainGrows
  <1>2. ASSUME NEW w \in Worker, Submit(w)
        PROVE  ChainGrows
    BY <1>2, SubmitFacts DEF ChainGrows
  <1>3. CASE Mining
    <2>1. PICK n \in DOMAIN chain : MineStep(n)
      BY <1>3 DEF Mining
    <2>2. PICK outcome \in {"succeeded", "reverted"} : Mine(n, outcome)
      BY <2>1 DEF MineStep
    <2>3. n \in DOMAIN chain
      BY <2>1
    <2> QED BY <2>2, <2>3, MineFacts DEF ChainGrows
  <1>4. chain' = chain \/ Mining \/ \E w \in Worker : Submit(w)
    BY DEF Next, RequestStep, FindBundle, MissBundle, ReadRecord,
       GatherArtifacts, StoreArchive, RecordBundle, AnswerBundle, ReadArchive,
       FailRequest, WorkerStep, BeginTick, Scan, RecordHash, AwaitReceipt,
       ReadReceipt, SettleBatch, EndTick, FailTick, LoseLock
  <1> QED BY <1>1, <1>2, <1>3, <1>4

\* So what was true of a hash stays true.
LEMMA SentStays ==
  ASSUME ChainGrows, NEW root, NEW tx, Sent(root, tx)
  PROVE  Sent(root, tx)'
  BY DEF ChainGrows, Sent

\* What recording a bundle does to its batch and the queue.
LEMMA RecordFacts ==
  ASSUME Typed, NEW r \in Request, RecordBundle(r)
  PROVE  LET t == request[r].trade
             root == request[r].root
         IN  /\ t \in Trade /\ root \in Root /\ root[1] = t
             /\ bundles' = [bundles EXCEPT ![t] = Append(bundles[t], root)]
             /\ bundles'[t] # <<>>
             /\ \A u \in Trade : u # t \/ batch[u] # None => batch'[u] = batch[u]
             /\ batch[t] = None => /\ batch'[t] # None
                                   /\ batch'[t].root = root
                                   /\ batch'[t].tx = None
                                   /\ batch'[t].status = "pending"
             /\ queue' = IF batch[t] = None THEN Append(queue, t) ELSE queue
  <1> DEFINE t == request[r].trade
             root == request[r].root
             row == [root |-> root, status |-> "pending", tx |-> None]
  <1>1. t \in Trade /\ root \in Root /\ root[1] = t
    BY DEF Typed, RequestPlaced, RequestRow, RecordBundle
  <1>2. bundles' = [bundles EXCEPT ![t] = Append(bundles[t], root)]
    BY DEF RecordBundle, RootOf
  <1>3. bundles'[t] # <<>>
    <2>1. bundles \in [Trade -> Seq(Root)] /\ bundles[t] \in Seq(Root)
      BY <1>1 DEF Typed, TypeOK
    <2>2. Append(bundles[t], root) # <<>>
      BY <1>1, <2>1, AppendProperties
    <2> HIDE DEF t, root
    <2> QED BY <1>1, <1>2, <2>1, <2>2
  <1>4. row \in BatchRow /\ row.root = root /\ row.tx = None /\ row.status = "pending"
    BY <1>1 DEF BatchRow
  <1>5. IF batch[t] = None
        THEN batch' = [batch EXCEPT ![t] = row] /\ queue' = Append(queue, t)
        ELSE batch' = batch /\ queue' = queue
    BY DEF RecordBundle, Queued, RootOf, anchors
  <1>6. row # None
    BY <1>4, RowAssumption
  <1>7. batch \in [Trade -> BatchRow \cup {None}]
    BY DEF Typed, TypeOK
  <1> HIDE DEF row
  <1>8. \A u \in Trade : u # t \/ batch[u] # None => batch'[u] = batch[u]
    BY <1>1, <1>5, <1>7
  <1>9. batch[t] = None => batch'[t] = row
    BY <1>1, <1>5, <1>7
  <1> HIDE DEF t, root
  <1>10. queue' = IF batch[t] = None THEN Append(queue, t) ELSE queue
    BY <1>5
  <1> QED BY <1>1, <1>2, <1>3, <1>4, <1>6, <1>8, <1>9, <1>10 DEF t, root

\* What recording a hash, and settling, do to the batch.
LEMMA HashFacts ==
  ASSUME Known, NEW w \in Worker, RecordHash(w)
  PROVE  LET t == Row(w).trade
         IN  /\ t \in Trade /\ tick[w].rows # <<>>
             /\ batch[t] # None /\ batch'[t] # None
             /\ batch'[t].root = batch[t].root
             /\ batch'[t].tx = tick[w].sent
             /\ batch'[t].status = "pending"
             /\ \A u \in Trade \ {t} : batch'[u] = batch[u]
  <1> DEFINE t == Row(w).trade
             b == batch[t]
             y == [b EXCEPT !.tx = tick[w].sent, !.status = "pending"]
  <1>1. tick[w].rows # <<>>
    BY DEF Known, Typed, WorkerPlaced, RecordHash
  <1>2. t \in Trade /\ b # None
    BY <1>1, RowFacts DEF Known, RowsKnown, RowKnown, RowRecord
  <1>3. b \in BatchRow /\ tick[w].sent \in Nat \cup {None}
    BY <1>2 DEF Known, Typed, TypeOK
  <1>4. /\ y \in BatchRow /\ y.root = b.root /\ y.tx = tick[w].sent
        /\ y.status = "pending"
    BY <1>3 DEF BatchRow
  <1>5. batch' = [batch EXCEPT ![t] = y]
    BY DEF RecordHash
  <1>6. batch \in [Trade -> BatchRow \cup {None}] /\ y # None
    BY <1>4, RowAssumption DEF Known, Typed, TypeOK
  <1> HIDE DEF y
  <1> QED BY <1>1, <1>2, <1>4, <1>5, <1>6

LEMMA SettleFacts ==
  ASSUME Known, NEW w \in Worker, SettleBatch(w)
  PROVE  LET t == Row(w).trade
         IN  /\ t \in Trade /\ tick[w].rows # <<>>
             /\ batch[t] # None /\ batch'[t] # None
             /\ batch'[t].root = batch[t].root
             /\ batch'[t].tx = batch[t].tx
             /\ batch'[t].status = StatusOf(chain[Row(w).tx].outcome)
             /\ \A u \in Trade \ {t} : batch'[u] = batch[u]
  <1> DEFINE t == Row(w).trade
             b == batch[t]
             s == StatusOf(chain[Row(w).tx].outcome)
             y == [b EXCEPT !.status = s]
  <1>1. tick[w].rows # <<>>
    BY DEF Known, Typed, WorkerPlaced, SettleBatch
  <1>2. t \in Trade /\ b # None
    BY <1>1, RowFacts DEF Known, RowsKnown, RowKnown, RowRecord
  <1>3. b \in BatchRow /\ s \in {"pending", "anchored", "failed"}
    BY <1>2 DEF Known, Typed, TypeOK, StatusOf
  <1>4. batch' = [batch EXCEPT ![t] = y]
    BY DEF SettleBatch
  <1>5. /\ y \in BatchRow /\ y.root = b.root /\ y.tx = b.tx
        /\ y.status = s
    <2> HIDE DEF s
    <2> QED BY <1>3 DEF BatchRow
  <1>6. batch \in [Trade -> BatchRow \cup {None}] /\ y # None
    BY <1>5, RowAssumption DEF Known, Typed, TypeOK
  <1> HIDE DEF y
  <1> QED BY <1>1, <1>2, <1>4, <1>5, <1>6

\* Nobody else writes batches, bundles or the queue.
LEMMA BatchWriter ==
  ASSUME Next
  PROVE  \/ UNCHANGED <<bundles, batch, queue>>
         \/ \E r \in Request : RecordBundle(r)
         \/ UNCHANGED <<bundles, queue>>
            /\ \E w \in Worker : RecordHash(w) \/ SettleBatch(w)
  BY DEF Next, RequestStep, FindBundle, MissBundle, ReadRecord,
     GatherArtifacts, StoreArchive, AnswerBundle, ReadArchive,
     FailRequest, WorkerStep, BeginTick, Scan, Submit, RecordHash, AwaitReceipt,
     ReadReceipt, SettleBatch, EndTick, FailTick, LoseLock, Mining, MineStep,
     Mine, ledger, anchors

\* A batch that is there stays, with its root.
LEMMA BatchStays ==
  ASSUME Known, Next, NEW t \in Trade, batch[t] # None
  PROVE  /\ batch'[t] # None
         /\ batch'[t].root = batch[t].root
  <1>1. CASE UNCHANGED <<bundles, batch, queue>>
    BY <1>1
  <1>2. ASSUME NEW r \in Request, RecordBundle(r)
        PROVE  batch'[t] # None /\ batch'[t].root = batch[t].root
    <2>1. batch'[t] = batch[t]
      BY <1>2, RecordFacts DEF Known
    <2> QED BY <2>1
  <1>3. ASSUME NEW w \in Worker, RecordHash(w) \/ SettleBatch(w)
        PROVE  batch'[t] # None /\ batch'[t].root = batch[t].root
    BY <1>3, HashFacts, SettleFacts
  <1> QED BY <1>1, <1>2, <1>3, BatchWriter

\* A step of the system is typed.
LEMMA TypedStep ==
  ASSUME Known, Next
  PROVE  Typed'
  BY TypedRequest, TypedWorker, TypedMishaps DEF Known, Next

\* A worker's rows and place are its own.
LEMMA WorkerWriter ==
  ASSUME Known, Next, NEW u \in Worker
  PROVE  \/ tick'[u] = tick[u] /\ at'[u] = at[u]
         \/ WorkerStep(u)
         \/ FailTick(u)
  <1> USE DisjointAssumption DEF Known
  <1>1. ASSUME NEW r \in Request, RequestStep(r)
        PROVE  tick'[u] = tick[u] /\ at'[u] = at[u]
    <2>1. \E label \in RequestLabels : Goto(r, label)
      BY <1>1 DEF RequestStep, FindBundle, MissBundle, ReadRecord,
         GatherArtifacts, StoreArchive, RecordBundle, AnswerBundle, ReadArchive,
         FailRequest, RequestLabels
    <2>2. tick' = tick
      BY <1>1 DEF RequestStep, FindBundle, MissBundle, ReadRecord,
         GatherArtifacts, StoreArchive, RecordBundle, AnswerBundle, ReadArchive,
         FailRequest
    <2> QED BY <2>1, <2>2 DEF Goto, Typed, TypeOK
  <1>2. ASSUME NEW w \in Worker \ {u}, WorkerStep(w) \/ FailTick(w)
        PROVE  tick'[u] = tick[u] /\ at'[u] = at[u]
    <2>1. \E label \in WorkerLabels : Goto(w, label)
      BY <1>2 DEF WorkerStep, BeginTick, Scan, Submit, RecordHash, AwaitReceipt,
         ReadReceipt, SettleBatch, EndTick, FailTick, NextRow, LeaveTick,
         WorkerLabels
    <2>2. tick'[u] = tick[u]
      BY <1>2 DEF WorkerStep, BeginTick, Scan, Submit, RecordHash, AwaitReceipt,
         ReadReceipt, SettleBatch, EndTick, FailTick, NextRow, LeaveTick,
         Typed, TypeOK
    <2> QED BY <2>1, <2>2 DEF Goto, Typed, TypeOK
  <1>3. CASE Mining \/ \E w \in Worker : LoseLock(w)
    BY <1>3 DEF Mining, MineStep, Mine, LoseLock
  <1> QED BY <1>1, <1>2, <1>3 DEF Next

\* What is known of a row, of the next state.
RowKnownNext(row) ==
  /\ batch'[row.trade] # None
  /\ row.root = batch'[row.trade].root
  /\ row.tx # None => row.tx \in DOMAIN chain' /\ chain'[row.tx].root = row.root

\* What a worker has read stays true whoever takes a step.
LEMMA RowStays ==
  ASSUME Known, Next, NEW row \in RowRecord, RowKnown(row)
  PROVE  RowKnownNext(row)
  <1>1. /\ batch'[row.trade] # None
        /\ row.root = batch'[row.trade].root
    BY BatchStays DEF RowKnown, RowRecord
  <1>2. ChainGrows
    BY ChainStep DEF Known
  <1> QED BY <1>1, <1>2 DEF RowKnown, RowKnownNext, ChainGrows, Sent

LEMMA OwnRowsStay ==
  ASSUME Known, Next, NEW u \in Worker
  PROVE  \A i \in DOMAIN tick[u].rows : RowKnownNext(tick[u].rows[i])
  <1> SUFFICES ASSUME NEW i, i \in DOMAIN tick[u].rows
               PROVE  RowKnownNext(tick[u].rows[i])
    OBVIOUS
  <1>1. tick[u].rows \in Seq(RowRecord)
    BY DEF Known, Typed, TypeOK, RowRecord
  <1>2. tick[u].rows[i] \in RowRecord
    BY <1>1, ElementOfSeq
  <1>3. RowKnown(tick[u].rows[i])
    BY DEF Known, RowsKnown
  <1> QED BY <1>2, <1>3, RowStays

\* Rows that were read, and moved on to, are known.
LEMMA RowsStep ==
  ASSUME Known, Next, NEW u \in Worker
  PROVE  RowsKnown(u)'
  <1>1. RowsKnown(u) /\ Typed
    BY DEF Known
  <1>2. ChainGrows
    BY ChainStep DEF Known
  <1>3. \A i \in DOMAIN tick[u].rows : RowKnownNext(tick[u].rows[i])
    BY OwnRowsStay
  <1>4. at[u] \in {"sent", "receipt"} => /\ 1 \in DOMAIN tick[u].rows
                                        /\ Row(u) = tick[u].rows[1]
    BY RowFacts DEF Known, Typed, WorkerPlaced
  <1>5. CASE tick'[u] = tick[u] /\ at'[u] = at[u]
    <2>1. Row(u)' = Row(u)
      BY <1>5 DEF Row
    <2>2. (at[u] = "sent" => /\ Row(u).tx = None
                             /\ tick[u].sent # None
                             /\ Sent(Row(u).root, tick[u].sent))'
      BY <1>1, <1>2, <1>5, <2>1 DEF RowsKnown, Sent, ChainGrows
    <2>3. (at[u] = "receipt" => /\ Row(u).tx # None
                                /\ chain[Row(u).tx].outcome # "mempool")'
      <3>1. at[u] = "receipt" => Row(u).tx \in DOMAIN chain
        BY <1>1, <1>4 DEF RowsKnown, RowKnown, Sent
      <3> QED BY <1>1, <1>2, <1>5, <2>1, <3>1 DEF RowsKnown, ChainGrows
    <2> QED
      BY <1>1, <1>3, <1>5, <2>2, <2>3 DEF RowsKnown, RowKnown, RowKnownNext, Sent
  <1>6. CASE RecordHash(u) \/ AwaitReceipt(u) \/ SettleBatch(u)
    <2>1. NextRow(u) /\ tick[u].rows # <<>>
      BY <1>1, <1>6 DEF RecordHash, AwaitReceipt, SettleBatch, HasRow, Typed,
         WorkerPlaced
    <2>2. /\ tick'[u].rows = Tail(tick[u].rows) /\ at'[u] = "working"
      BY <1>1, <2>1, NextRowFacts
    <2>3. \A i \in DOMAIN Tail(tick[u].rows) :
            /\ i + 1 \in DOMAIN tick[u].rows /\ i \in Nat
            /\ Tail(tick[u].rows)[i] = tick[u].rows[i + 1]
      <3>1. tick[u].rows \in Seq(RowRecord)
        BY <1>1, <2>1, RowFacts
      <3> QED BY <2>1, <3>1, RowFacts
    <2>4. \A i \in DOMAIN tick'[u].rows : RowKnownNext(tick'[u].rows[i])
      BY <1>3, <2>2, <2>3
    <2>5. \A i, j \in DOMAIN tick'[u].rows :
            i # j => tick'[u].rows[i].trade # tick'[u].rows[j].trade
      <3> SUFFICES ASSUME NEW i, i \in DOMAIN tick'[u].rows,
                          NEW j, j \in DOMAIN tick'[u].rows, i # j
                   PROVE  tick'[u].rows[i].trade # tick'[u].rows[j].trade
        OBVIOUS
      <3>1. i + 1 # j + 1
        BY <2>2, <2>3
      <3> QED BY <1>1, <2>2, <2>3, <3>1 DEF RowsKnown
    <2> QED BY <2>2, <2>4, <2>5 DEF RowsKnown, RowKnown, RowKnownNext, Sent
  <1>7. CASE BeginTick(u) \/ EndTick(u) \/ FailTick(u)
    <2>1. tick'[u].rows = <<>> /\ at'[u] \in {"scanning", "idle"}
      <3>1. CASE BeginTick(u)
        BY <1>1, <3>1, WorkerMoves DEF BeginTick, Typed, WorkerPlaced, WorkerLabels
      <3>2. CASE EndTick(u) \/ FailTick(u)
        BY <1>1, <3>2, LeaveFacts DEF EndTick, FailTick
      <3> QED BY <1>7, <3>1, <3>2
    <2> QED BY <2>1 DEF RowsKnown
  <1>8. CASE Scan(u)
    <2>1. PICK n \in Nat : \E found \in [1 .. n -> DOMAIN queue] :
           /\ tick'[u].rows = [i \in 1 .. n |-> RowOf(queue[found[i]])]
           /\ \A i, j \in 1 .. n : i # j => found[i] # found[j]
      BY <1>8, ScanFacts DEF Known
    <2>2. PICK found \in [1 .. n -> DOMAIN queue] :
           /\ tick'[u].rows = [i \in 1 .. n |-> RowOf(queue[found[i]])]
           /\ \A i, j \in 1 .. n : i # j => found[i] # found[j]
      BY <2>1
    <2>3. /\ at'[u] = "working" /\ batch' = batch /\ chain' = chain
      BY <1>1, <1>8, WorkerMoves DEF Scan, WorkerLabels, anchors
    <2>4. \A k \in DOMAIN queue :
            LET t == queue[k]
            IN  /\ t \in Trade /\ batch[t] # None /\ RowKnownNext(RowOf(t))
      <3>1. \A k \in DOMAIN queue : queue[k] \in Trade
        BY <1>1 DEF Typed, TypeOK
      <3>2. \A t \in Trade : batch[t] # None => RowKnownNext(RowOf(t))
        BY <2>3 DEF RowOf, RowKnownNext, Known, BatchesKnown, Sent
      <3> QED BY <3>1, <3>2 DEF Known, BatchesKnown
    <2>5. \A i \in 1 .. n : /\ found[i] \in DOMAIN queue
                            /\ tick'[u].rows[i] = RowOf(queue[found[i]])
      BY <2>2
    <2>6. \A i \in 1 .. n : RowKnownNext(tick'[u].rows[i])
      BY <2>4, <2>5
    <2>7. \A i, j \in 1 .. n :
            i # j => tick'[u].rows[i].trade # tick'[u].rows[j].trade
      <3>1. \A t : RowOf(t).trade = t
        BY DEF RowOf
      <3>2. \A k, l \in DOMAIN queue : k # l => queue[k] # queue[l]
        BY DEF Known, BatchesKnown
      <3> QED BY <2>2, <2>5, <3>1, <3>2
    <2>8. DOMAIN tick'[u].rows = 1 .. n
      BY <2>2
    <2> QED BY <2>3, <2>6, <2>7, <2>8 DEF RowsKnown, RowKnown, RowKnownNext, Sent
  <1>9. CASE Submit(u)
    <2>1. /\ tick'[u].rows = tick[u].rows /\ tick'[u].sent = Len(chain) + 1
          /\ Len(chain) + 1 # None
          /\ Len(chain) + 1 \in DOMAIN chain'
          /\ chain'[Len(chain) + 1].root = Row(u).root
      BY <1>1, <1>9, SubmitFacts
    <2>2. at'[u] = "sent" /\ Row(u).tx = None
      BY <1>1, <1>9, WorkerMoves DEF Submit, WorkerLabels
    <2>3. Row(u)' = Row(u)
      BY <2>1 DEF Row
    <2>4. (at[u] = "sent" => /\ Row(u).tx = None
                             /\ tick[u].sent # None
                             /\ Sent(Row(u).root, tick[u].sent))'
      BY <2>1, <2>2, <2>3 DEF Sent
    <2> QED
      BY <1>1, <1>3, <2>1, <2>2, <2>4 DEF RowsKnown, RowKnown, RowKnownNext, Sent
  <1>10. CASE ReadReceipt(u)
    <2>1. tick' = tick /\ chain' = chain /\ at'[u] = "receipt"
      BY <1>1, <1>10, WorkerMoves DEF ReadReceipt, WorkerLabels
    <2>2. Row(u)' = Row(u)
      BY <2>1 DEF Row
    <2>3. (at[u] = "receipt" => /\ Row(u).tx # None
                                /\ chain[Row(u).tx].outcome # "mempool")'
      BY <1>10, <2>1, <2>2 DEF ReadReceipt
    <2> QED
      BY <1>1, <1>3, <2>1, <2>3 DEF RowsKnown, RowKnown, RowKnownNext, Sent
  <1> QED
    BY <1>5, <1>6, <1>7, <1>8, <1>9, <1>10, WorkerWriter DEF WorkerStep

\* Batches stay known.
LEMMA BatchesStep ==
  ASSUME Known, Next
  PROVE  BatchesKnown'
  <1>1. ChainGrows
    BY ChainStep DEF Known
  <1>2. CASE UNCHANGED <<bundles, batch, queue>>
    BY <1>1, <1>2 DEF Known, BatchesKnown, Sent, ChainGrows
  <1>3. ASSUME NEW w \in Worker, RecordHash(w) \/ SettleBatch(w),
               UNCHANGED <<bundles, queue>>
        PROVE  BatchesKnown'
    <2> DEFINE t == Row(w).trade
    <2>1. /\ t \in Trade /\ batch[t] # None /\ batch'[t] # None
          /\ batch'[t].root = batch[t].root
          /\ \A u \in Trade \ {t} : batch'[u] = batch[u]
          /\ batch'[t].tx = batch[t].tx \/ (RecordHash(w) /\ batch'[t].tx = tick[w].sent)
      BY <1>3, HashFacts, SettleFacts
    <2>2. RecordHash(w) => tick[w].sent # None /\ Sent(batch[t].root, tick[w].sent)
      <3>1. tick[w].rows # <<>> => RowKnown(Row(w))
        BY RowFacts DEF Known, RowsKnown
      <3>2. at[w] = "sent" => tick[w].rows # <<>>
        BY DEF Known, Typed, WorkerPlaced
      <3> QED BY <3>1, <3>2 DEF RecordHash, Known, RowsKnown, RowKnown
    <2> HIDE DEF t
    <2>3. \A u \in Trade :
            /\ batch'[u] # None <=> bundles'[u] # <<>>
            /\ batch'[u] # None =>
                 /\ batch'[u].root[1] = u
                 /\ batch'[u].tx # None =>
                      /\ batch'[u].tx \in DOMAIN chain'
                      /\ chain'[batch'[u].tx].root = batch'[u].root
      BY <1>1, <1>3, <2>1, <2>2 DEF Known, BatchesKnown, Sent, ChainGrows
    <2>4. t \in Trade /\ \A i \in DOMAIN queue : queue[i] \in Trade
      BY <2>1 DEF Known, Typed, TypeOK
    <2>5. \A i \in DOMAIN queue : batch'[queue[i]] # None
      BY <2>1, <2>4 DEF Known, BatchesKnown
    <2> QED BY <1>3, <2>3, <2>5 DEF Known, BatchesKnown, Sent
  <1>4. ASSUME NEW r \in Request, RecordBundle(r)
        PROVE  BatchesKnown'
    <2> DEFINE t == request[r].trade
               root == request[r].root
    <2>1. /\ t \in Trade /\ root \in Root /\ root[1] = t
          /\ bundles' = [bundles EXCEPT ![t] = Append(bundles[t], root)]
          /\ bundles'[t] # <<>>
          /\ \A u \in Trade : u # t \/ batch[u] # None => batch'[u] = batch[u]
          /\ batch[t] = None => /\ batch'[t] # None
                                /\ batch'[t].root = root
                                /\ batch'[t].tx = None
          /\ queue' = IF batch[t] = None THEN Append(queue, t) ELSE queue
      BY <1>4, RecordFacts DEF Known
    <2> HIDE DEF t, root
    <2>2. \A u \in Trade \ {t} : bundles'[u] = bundles[u] /\ batch'[u] = batch[u]
      BY <2>1 DEF Known, Typed, TypeOK
    <2>3. ASSUME NEW u \in Trade
          PROVE  /\ batch'[u] # None <=> bundles'[u] # <<>>
                 /\ batch'[u] # None =>
                      /\ batch'[u].root[1] = u
                      /\ batch'[u].tx # None =>
                           /\ batch'[u].tx \in DOMAIN chain'
                           /\ chain'[batch'[u].tx].root = batch'[u].root
      <3>1. /\ batch[u] # None <=> bundles[u] # <<>>
            /\ batch[u] # None =>
                 batch[u].root[1] = u /\ Sent(batch[u].root, batch[u].tx)
        BY DEF Known, BatchesKnown
      <3>2. CASE batch'[u] = batch[u] /\ (u = t => batch[u] # None)
        BY <1>1, <2>1, <2>2, <3>1, <3>2 DEF Sent, ChainGrows
      <3>3. CASE u = t /\ batch[u] = None
        BY <2>1, <3>3
      <3> QED BY <2>1, <2>2, <3>2, <3>3
    <2>4. queue \in Seq(Trade)
      BY DEF Known, Typed, TypeOK
    <2>5. CASE batch[t] = None
      <3>1. /\ DOMAIN queue' = 1 .. (Len(queue) + 1) /\ Len(queue) \in Nat
            /\ DOMAIN queue = 1 .. Len(queue)
            /\ queue'[Len(queue) + 1] = t
            /\ \A i \in 1 .. Len(queue) : queue'[i] = queue[i] /\ queue[i] \in Trade
        BY <2>1, <2>4, <2>5, AppendProperties
      <3>2. \A i \in 1 .. Len(queue) : queue[i] # t /\ batch'[queue[i]] # None
        BY <2>1, <2>5, <3>1 DEF Known, BatchesKnown
      <3>3. \A i \in DOMAIN queue' : i \in 1 .. Len(queue) \/ i = Len(queue) + 1
        BY <3>1
      <3>4. \A i, j \in DOMAIN queue' : i # j => queue'[i] # queue'[j]
        BY <3>1, <3>2, <3>3 DEF Known, BatchesKnown
      <3>5. \A i \in DOMAIN queue' : batch'[queue'[i]] # None
        BY <2>1, <2>5, <3>1, <3>2, <3>3
      <3> QED BY <2>3, <3>4, <3>5 DEF BatchesKnown, Sent
    <2>6. CASE batch[t] # None
      <3>1. queue' = queue /\ \A i \in DOMAIN queue : queue[i] \in Trade
        BY <2>1, <2>4, <2>6
      <3>2. \A u \in Trade : batch'[u] = batch[u]
        BY <2>1, <2>6
      <3> QED BY <2>3, <3>1, <3>2 DEF Known, BatchesKnown, Sent
    <2> QED BY <2>5, <2>6
  <1> QED BY <1>2, <1>3, <1>4, BatchWriter

\* So everything that is known stays known.
LEMMA KnownStep == Known /\ [Next]_vars => Known'
  <1> SUFFICES ASSUME Known, [Next]_vars PROVE Known'
    OBVIOUS
  <1>1. CASE Next
    BY <1>1, TypedStep, BatchesStep, RowsStep DEF Known
  <1>2. CASE UNCHANGED vars
    <2> USE <1>2 DEF vars, ledger, anchors, api
    <2>1. Typed'
      BY DEF Known, Typed, TypeOK, RequestPlaced, WorkerPlaced
    <2>2. BatchesKnown'
      BY DEF Known, BatchesKnown, Sent
    <2>3. ASSUME NEW w \in Worker PROVE RowsKnown(w)'
      <3>1. RowsKnown(w)
        BY DEF Known
      <3> QED BY <3>1 DEF RowsKnown, RowKnown, Row, Sent
    <2> QED BY <2>1, <2>2, <2>3 DEF Known
  <1> QED BY <1>1, <1>2

\* Nothing is recorded, queued or sent initially.
LEMMA KnownInit == Init => Known
  <1> SUFFICES ASSUME Init PROVE Known
    OBVIOUS
  <1>1. TypeOK
    BY DEF Init, TypeOK
  <1>2. \A r \in Request : RequestPlaced(r)
    BY DEF Init, RequestPlaced, RequestLabels
  <1>3. \A w \in Worker : WorkerPlaced(w) /\ RowsKnown(w)
    BY DEF Init, WorkerPlaced, WorkerLabels, RowsKnown
  <1>4. BatchesKnown
    BY DEF Init, BatchesKnown
  <1> QED BY <1>1, <1>2, <1>3, <1>4 DEF Known, Typed
-----------------------------------------------------------------------------
(* One worker at a time, as long as no lock was lost                         *)

\* The counts of mishaps only grow.
LEMMA MishapsGrow ==
  ASSUME Typed, Next
  PROVE  /\ mishaps.lost \in Nat /\ mishaps'.lost \in Nat
         /\ mishaps.unrecorded \in Nat /\ mishaps'.unrecorded \in Nat
         /\ mishaps'.lost = mishaps.lost
            \/ /\ mishaps'.lost = mishaps.lost + 1
               /\ \E w \in Worker : LoseLock(w)
         /\ \A w \in Worker : LoseLock(w) => mishaps'.lost = mishaps.lost + 1
         /\ \A w \in Worker : FailTick(w) /\ at[w] = "sent"
              => mishaps'.unrecorded = mishaps.unrecorded + 1
         /\ mishaps'.unrecorded = mishaps.unrecorded
            \/ /\ mishaps'.unrecorded = mishaps.unrecorded + 1
               /\ \E w \in Worker : FailTick(w) /\ at[w] = "sent"
  <1>1. mishaps \in [failed : Nat, unrecorded : Nat, lost : Nat, ended : Nat]
    BY DEF Typed, TypeOK
  <1>3. ASSUME NEW r \in Request, FailRequest(r)
        PROVE  mishaps'.lost = mishaps.lost /\ mishaps'.unrecorded = mishaps.unrecorded
    BY <1>1, <1>3 DEF FailRequest
  <1>4. ASSUME NEW w \in Worker, FailTick(w)
        PROVE  /\ mishaps'.lost = mishaps.lost
               /\ mishaps'.unrecorded = IF at[w] = "sent"
                    THEN mishaps.unrecorded + 1 ELSE mishaps.unrecorded
    <2> DEFINE f == mishaps.failed + 1
               u == IF at[w] = "sent" THEN mishaps.unrecorded + 1
                                      ELSE mishaps.unrecorded
    <2>1. mishaps' = [mishaps EXCEPT !.failed = f, !.unrecorded = u]
      BY <1>4 DEF FailTick
    <2> HIDE DEF f, u
    <2>2. mishaps'.lost = mishaps.lost /\ mishaps'.unrecorded = u
      BY <1>1, <2>1
    <2> QED BY <2>2 DEF u
  <1>5. ASSUME NEW w \in Worker, LoseLock(w)
        PROVE  /\ mishaps'.lost = mishaps.lost + 1
               /\ mishaps'.unrecorded = mishaps.unrecorded
    BY <1>1, <1>5 DEF LoseLock
  <1>6. \/ mishaps' = mishaps
        \/ \E r \in Request : FailRequest(r)
        \/ \E w \in Worker : FailTick(w) \/ LoseLock(w)
    BY DEF Next, RequestStep, FindBundle, MissBundle, ReadRecord,
       GatherArtifacts, StoreArchive, RecordBundle, AnswerBundle, ReadArchive,
       WorkerStep, BeginTick, Scan, Submit, RecordHash, AwaitReceipt,
       ReadReceipt, SettleBatch, EndTick, Mining, MineStep, Mine, api
  <1>7. mishaps.lost \in Nat /\ mishaps.unrecorded \in Nat
    BY <1>1
  <1>8. \/ mishaps'.lost = mishaps.lost
        \/ /\ mishaps'.lost = mishaps.lost + 1
           /\ \E w \in Worker : LoseLock(w)
    BY <1>3, <1>4, <1>5, <1>6
  <1>9. \/ mishaps'.unrecorded = mishaps.unrecorded
        \/ /\ mishaps'.unrecorded = mishaps.unrecorded + 1
           /\ \E w \in Worker : FailTick(w) /\ at[w] = "sent"
    BY <1>3, <1>4, <1>5, <1>6
  <1>10. mishaps'.lost \in Nat /\ mishaps'.unrecorded \in Nat
    BY <1>7, <1>8, <1>9
  <1>11. \A w \in Worker : LoseLock(w) => mishaps'.lost = mishaps.lost + 1
    BY <1>5
  <1>12. \A w \in Worker : FailTick(w) /\ at[w] = "sent"
           => mishaps'.unrecorded = mishaps.unrecorded + 1
    BY <1>4
  <1> QED BY <1>7, <1>8, <1>9, <1>10, <1>11, <1>12

\* Only beginning and leaving a tick, and losing it, write the job lock.
LEMMA LockWriter ==
  ASSUME Next
  PROVE  \/ jobLock' = jobLock
         \/ \E w \in Worker : \/ BeginTick(w)
                              \/ EndTick(w)
                              \/ FailTick(w)
                              \/ LoseLock(w)
  BY DEF Next, RequestStep, FindBundle, MissBundle, ReadRecord,
     GatherArtifacts, StoreArchive, RecordBundle, AnswerBundle, ReadArchive,
     FailRequest, WorkerStep, Scan, Submit, RecordHash, AwaitReceipt,
     ReadReceipt, SettleBatch, Mining, MineStep, Mine

\* A row that was read, of the next state
CurrentNext(row) ==
  row.tx = batch'[row.trade].tx /\ batch'[row.trade].status = "pending"

\* While the lock is kept, nobody but its holder writes the batches it reads.
LEMMA ExclusiveStep ==
  ASSUME Known, Exclusive, Next
  PROVE  Exclusive'
  <1> SUFFICES ASSUME mishaps'.lost = 0, NEW u \in Worker
               PROVE  /\ at'[u] # "idle" => jobLock' = u
                      /\ \A i \in DOMAIN tick'[u].rows :
                           CurrentNext(tick'[u].rows[i])
    BY DEF Exclusive, RowCurrent, CurrentNext
  <1>1. /\ mishaps.lost = 0
        /\ ~\E w \in Worker : LoseLock(w)
        /\ Typed
    BY MishapsGrow DEF Known
  <1>2. /\ \A w \in Worker : at[w] # "idle" => jobLock = w
        /\ \A i \in DOMAIN tick[u].rows : RowCurrent(tick[u].rows[i])
    BY <1>1 DEF Exclusive
  <1>3. tick[u].rows \in Seq(RowRecord)
    BY <1>1 DEF Typed, TypeOK, RowRecord
  <1>4. at[u] = "idle" => tick[u].rows = <<>>
    BY <1>1 DEF Typed, WorkerPlaced
  <1>5. at'[u] # "idle" => jobLock' = u
    <2>1. CASE BeginTick(u)
      BY <2>1 DEF BeginTick
    <2>2. CASE EndTick(u) \/ FailTick(u)
      BY <1>1, <2>2, LeaveFacts DEF EndTick, FailTick
    <2>3. CASE \E w \in Worker \ {u} : BeginTick(w)
      <3>1. PICK w \in Worker \ {u} : BeginTick(w)
        BY <2>3
      <3>2. at[u] = "idle"
        BY <1>2, <3>1, NoneAssumption DEF BeginTick
      <3>3. at'[u] = at[u]
        BY <1>1, <3>1, WorkerMoves DEF BeginTick, WorkerLabels
      <3> QED BY <3>2, <3>3
    <2>4. CASE \E w \in Worker \ {u} : EndTick(w) \/ FailTick(w)
      <3>1. PICK w \in Worker \ {u} : EndTick(w) \/ FailTick(w)
        BY <2>4
      <3>2. at[w] # "idle"
        BY <3>1 DEF EndTick, FailTick
      <3>3. at'[u] = at[u]
        BY <1>1, <3>1, LeaveFacts DEF EndTick, FailTick
      <3> QED BY <1>2, <3>2, <3>3
    <2>5. CASE jobLock' = jobLock
      <3>1. at'[u] # "idle" => at[u] # "idle" \/ BeginTick(u)
        BY WorkerWriter DEF WorkerStep, Scan, Submit, RecordHash, AwaitReceipt,
           ReadReceipt, SettleBatch, EndTick, FailTick, LeaveTick, Goto, Known,
           HasRow, NextRow
      <3> QED BY <1>2, <2>1, <2>5, <3>1
    <2> QED BY <1>1, <2>1, <2>2, <2>3, <2>4, <2>5, LockWriter
  <1>6. ASSUME NEW row \in RowRecord, RowKnown(row), RowCurrent(row),
               \A w \in Worker : RecordHash(w) \/ SettleBatch(w)
                                   => Row(w).trade # row.trade
        PROVE  CurrentNext(row)
    <2>1. CASE UNCHANGED <<bundles, batch, queue>>
      BY <1>6, <2>1 DEF RowCurrent, CurrentNext
    <2>2. ASSUME NEW r \in Request, RecordBundle(r)
          PROVE  batch'[row.trade] = batch[row.trade]
      BY <1>1, <1>6, <2>2, RecordFacts DEF RowKnown, RowRecord
    <2>3. ASSUME NEW w \in Worker, RecordHash(w) \/ SettleBatch(w)
          PROVE  batch'[row.trade] = batch[row.trade]
      BY <1>6, <2>3, HashFacts, SettleFacts DEF RowRecord
    <2> QED BY <1>6, <2>1, <2>2, <2>3, BatchWriter DEF RowCurrent, CurrentNext
  <1>7. \A i \in DOMAIN tick[u].rows :
          /\ tick[u].rows[i] \in RowRecord
          /\ RowKnown(tick[u].rows[i])
          /\ RowCurrent(tick[u].rows[i])
    BY <1>2, <1>3, ElementOfSeq DEF Known, RowsKnown
  <1>8. CASE RecordHash(u) \/ AwaitReceipt(u) \/ SettleBatch(u)
    <2>1. NextRow(u) /\ tick[u].rows # <<>> /\ at[u] # "idle"
      BY <1>1, <1>8 DEF RecordHash, AwaitReceipt, SettleBatch, HasRow, Typed,
         WorkerPlaced
    <2>2. /\ tick'[u].rows = Tail(tick[u].rows)
          /\ Row(u) = tick[u].rows[1] /\ 1 \in DOMAIN tick[u].rows
          /\ \A i \in DOMAIN Tail(tick[u].rows) :
               /\ i + 1 \in DOMAIN tick[u].rows /\ i + 1 # 1
               /\ Tail(tick[u].rows)[i] = tick[u].rows[i + 1]
      BY <1>1, <2>1, NextRowFacts, RowFacts
    <2>3. \A w \in Worker : RecordHash(w) \/ SettleBatch(w) => w = u
      <3>1. \A w \in Worker : RecordHash(w) \/ SettleBatch(w) => at[w] # "idle"
        BY DEF RecordHash, SettleBatch
      <3> QED BY <1>2, <2>1, <3>1
    <2>4. ASSUME NEW i, i \in DOMAIN tick'[u].rows
          PROVE  CurrentNext(tick'[u].rows[i])
      <3> DEFINE row == tick[u].rows[i + 1]
      <3>1. /\ i + 1 \in DOMAIN tick[u].rows /\ i + 1 # 1
            /\ tick'[u].rows[i] = row
        BY <2>2, <2>4
      <3>2. row.trade # Row(u).trade
        BY <2>2, <3>1 DEF Known, RowsKnown
      <3>3. row \in RowRecord /\ RowKnown(row) /\ RowCurrent(row)
        BY <1>7, <3>1
      <3> HIDE DEF row
      <3> QED BY <1>6, <2>3, <3>1, <3>2, <3>3
    <2> QED BY <1>5, <2>4
  <1>9. CASE Scan(u)
    <2>1. PICK n \in Nat : \E found \in [1 .. n -> DOMAIN queue] :
           /\ tick'[u].rows = [i \in 1 .. n |-> RowOf(queue[found[i]])]
           /\ \A i \in 1 .. n : Pending(queue[found[i]])
      BY <1>9, ScanFacts DEF Known
    <2>2. PICK found \in [1 .. n -> DOMAIN queue] :
           /\ tick'[u].rows = [i \in 1 .. n |-> RowOf(queue[found[i]])]
           /\ \A i \in 1 .. n : Pending(queue[found[i]])
      BY <2>1
    <2>3. batch' = batch
      BY <1>9 DEF Scan, anchors
    <2>4. \A t : Pending(t) => CurrentNext(RowOf(t))
      BY <2>3 DEF Pending, CurrentNext, RowOf
    <2> QED BY <1>5, <2>2, <2>4
  <1>10. CASE BeginTick(u) \/ EndTick(u) \/ FailTick(u)
    <2>1. tick'[u].rows = <<>>
      <3>1. CASE BeginTick(u)
        BY <1>4, <3>1 DEF BeginTick
      <3>2. CASE EndTick(u) \/ FailTick(u)
        BY <1>1, <3>2, LeaveFacts DEF EndTick, FailTick
      <3> QED BY <1>10, <3>1, <3>2
    <2> QED BY <1>5, <2>1
  <1>11. CASE /\ tick'[u].rows = tick[u].rows
              /\ ~RecordHash(u) /\ ~SettleBatch(u)
    <2>1. ASSUME NEW i, i \in DOMAIN tick[u].rows
          PROVE  \A w \in Worker : ~RecordHash(w) /\ ~SettleBatch(w)
      <3>1. at[u] # "idle"
        BY <1>4, <2>1
      <3>2. \A w \in Worker : RecordHash(w) \/ SettleBatch(w) => at[w] # "idle"
        BY DEF RecordHash, SettleBatch
      <3>3. \A w \in Worker : RecordHash(w) \/ SettleBatch(w) => w = u
        BY <1>2, <3>1, <3>2
      <3> QED BY <1>11, <3>3
    <2>2. ASSUME NEW i, i \in DOMAIN tick[u].rows
          PROVE  CurrentNext(tick[u].rows[i])
      <3> DEFINE row == tick[u].rows[i]
      <3>1. row \in RowRecord /\ RowKnown(row) /\ RowCurrent(row)
        BY <1>7, <2>2
      <3> HIDE DEF row
      <3>2. CurrentNext(row)
        BY <1>6, <2>1, <2>2, <3>1
      <3> QED BY <3>2 DEF row
    <2> QED BY <1>5, <1>11, <2>2
  <1>12. Submit(u) \/ ReadReceipt(u) => tick'[u].rows = tick[u].rows
    BY <1>1, SubmitFacts DEF ReadReceipt
  <1>13. Submit(u) \/ ReadReceipt(u) => ~RecordHash(u) /\ ~SettleBatch(u)
    BY DEF Submit, ReadReceipt, RecordHash, SettleBatch, HasRow
  <1> QED
    BY <1>8, <1>9, <1>10, <1>11, <1>12, <1>13, WorkerWriter DEF WorkerStep
-----------------------------------------------------------------------------
(* What is told to be anchored                                               *)

\* TxOnChain, of the next state
OnChainNext(root, tx) ==
  /\ \E n \in DOMAIN chain' :
       chain'[n] = [root |-> root, outcome |-> "succeeded"]
  /\ mishaps'.lost = 0 =>
       /\ tx \in DOMAIN chain'
       /\ chain'[tx] = [root |-> root, outcome |-> "succeeded"]

\* What has been mined stays.
LEMMA OnChainStays ==
  ASSUME Known, Next, NEW root, NEW tx, TxOnChain(root, tx)
  PROVE  OnChainNext(root, tx)
  <1> DEFINE mined == [root |-> root, outcome |-> "succeeded"]
  <1>1. mined.outcome # "mempool"
    OBVIOUS
  <1>2. ChainGrows
    BY ChainStep DEF Known
  <1>3. mishaps'.lost = 0 => mishaps.lost = 0
    BY MishapsGrow DEF Known
  <1>4. /\ \E n \in DOMAIN chain : chain[n] = mined
        /\ mishaps.lost = 0 => tx \in DOMAIN chain /\ chain[tx] = mined
    BY DEF TxOnChain, OnChain
  <1> HIDE DEF mined
  <1>5. \A n \in DOMAIN chain :
          chain[n] = mined => n \in DOMAIN chain' /\ chain'[n] = mined
    BY <1>1, <1>2 DEF ChainGrows
  <1>6. /\ \E n \in DOMAIN chain' : chain'[n] = mined
        /\ mishaps'.lost = 0 => tx \in DOMAIN chain' /\ chain'[tx] = mined
    BY <1>3, <1>4, <1>5
  <1> QED BY <1>6 DEF OnChainNext, mined

\* Nobody but the answering request writes what it answers.
LEMMA AnswerWriter ==
  ASSUME Known, Next, NEW r \in Request
  PROVE  \/ request'[r] = request[r] /\ at'[r] = at[r]
         \/ RequestStep(r)
  <1> USE DisjointAssumption DEF Known
  <1>1. ASSUME NEW q \in Request \ {r}, RequestStep(q)
        PROVE  request'[r] = request[r] /\ at'[r] = at[r]
    <2>1. \E label \in RequestLabels : Goto(q, label)
      BY <1>1 DEF RequestStep, FindBundle, MissBundle, ReadRecord,
         GatherArtifacts, StoreArchive, RecordBundle, AnswerBundle, ReadArchive,
         FailRequest, RequestLabels
    <2>2. request'[r] = request[r]
      BY <1>1 DEF RequestStep, FindBundle, MissBundle, ReadRecord,
         GatherArtifacts, StoreArchive, RecordBundle, AnswerBundle, ReadArchive,
         FailRequest, api, Typed, TypeOK
    <2> QED BY <2>1, <2>2 DEF Goto, Typed, TypeOK
  <1>2. ASSUME NEW w \in Worker, WorkerStep(w) \/ FailTick(w) \/ LoseLock(w)
        PROVE  request'[r] = request[r] /\ at'[r] = at[r]
    <2>1. at' = at \/ \E label \in WorkerLabels : Goto(w, label)
      BY <1>2 DEF WorkerStep, BeginTick, Scan, Submit, RecordHash, AwaitReceipt,
         ReadReceipt, SettleBatch, EndTick, FailTick, LoseLock, NextRow,
         LeaveTick, WorkerLabels
    <2>2. request' = request
      BY <1>2 DEF WorkerStep, BeginTick, Scan, Submit, RecordHash, AwaitReceipt,
         ReadReceipt, SettleBatch, EndTick, FailTick, LoseLock, api
    <2> QED BY <2>1, <2>2 DEF Goto, Typed, TypeOK
  <1>3. CASE Mining
    BY <1>3 DEF Mining, MineStep, Mine, api
  <1> QED BY <1>1, <1>2, <1>3 DEF Next

\* The receipt of a worker that settles is about the root of the batch.
LEMMA SettledIsMined ==
  ASSUME Known, Exclusive, NEW w \in Worker, SettleBatch(w),
         StatusOf(chain[Row(w).tx].outcome) = "anchored"
  PROVE  TxOnChain(batch[Row(w).trade].root, batch[Row(w).trade].tx)
  <1> DEFINE row == Row(w)
  <1>1. /\ row = tick[w].rows[1] /\ 1 \in DOMAIN tick[w].rows /\ at[w] = "receipt"
    BY RowFacts DEF SettleBatch, Known, Typed, WorkerPlaced
  <1>2. /\ RowKnown(row) /\ row.tx # None
        /\ mishaps.lost = 0 => RowCurrent(row)
    BY <1>1 DEF Known, RowsKnown, Exclusive
  <1>3. row.tx \in DOMAIN chain /\ chain[row.tx].root = batch[row.trade].root
    BY <1>2 DEF RowKnown, Sent
  <1>4. chain[row.tx] \in [root : Root, outcome : Outcome]
    <2>1. chain \in Seq([root : Root, outcome : Outcome])
      BY DEF Known, Typed, TypeOK
    <2>2. row.tx \in 1 .. Len(chain)
      BY <1>3, <2>1
    <2> HIDE DEF row
    <2> QED BY <2>1, <2>2, ElementOfSeq
  <1>5. chain[row.tx].outcome = "succeeded"
    BY DEF StatusOf
  <1> HIDE DEF row
  <1>6. chain[row.tx] = [root |-> batch[row.trade].root, outcome |-> "succeeded"]
    BY <1>3, <1>4, <1>5
  <1>7. TxOnChain(batch[row.trade].root, batch[row.trade].tx)
    BY <1>2, <1>3, <1>6 DEF TxOnChain, OnChain, RowCurrent
  <1> QED BY <1>7 DEF row

\* A batch becomes anchored by a receipt of its root, and an answer tells what
\* the batch says.
LEMMA AnchoredStep ==
  ASSUME Known, Exclusive, Anchored, Next
  PROVE  Anchored'
  <1>1. ASSUME NEW t \in Trade, batch'[t] # None, batch'[t].status = "anchored"
        PROVE  OnChainNext(batch'[t].root, batch'[t].tx)
    <2>1. CASE batch'[t] = batch[t]
      <3>1. TxOnChain(batch[t].root, batch[t].tx)
        BY <1>1, <2>1 DEF Anchored
      <3> QED BY <2>1, <3>1, OnChainStays
    <2>2. ASSUME NEW r \in Request, RecordBundle(r)
          PROVE  batch'[t] = batch[t]
      BY <1>1, <2>2, RecordFacts DEF Known
    <2>3. ASSUME NEW w \in Worker, SettleBatch(w), t = Row(w).trade
          PROVE  OnChainNext(batch'[t].root, batch'[t].tx)
      <3>1. /\ batch'[t].root = batch[t].root
            /\ batch'[t].tx = batch[t].tx
            /\ StatusOf(chain[Row(w).tx].outcome) = "anchored"
        BY <1>1, <2>3, SettleFacts
      <3>2. TxOnChain(batch[t].root, batch[t].tx)
        BY <2>3, <3>1, SettledIsMined
      <3> QED BY <3>1, <3>2, OnChainStays
    <2>4. ASSUME NEW w \in Worker, RecordHash(w)
          PROVE  t # Row(w).trade
      BY <1>1, <2>4, HashFacts
    <2>5. ASSUME NEW w \in Worker, RecordHash(w) \/ SettleBatch(w),
                 t # Row(w).trade
          PROVE  batch'[t] = batch[t]
      BY <2>5, HashFacts, SettleFacts
    <2> QED BY <2>1, <2>2, <2>3, <2>4, <2>5, BatchWriter
  <1>2. ASSUME NEW r \in Request, at'[r] = "done",
               request'[r].anchor.status = "anchored"
        PROVE  OnChainNext(request'[r].root, request'[r].anchor.tx)
    <2>1. CASE request'[r] = request[r] /\ at[r] = "done"
      <3>1. TxOnChain(request[r].root, request[r].anchor.tx)
        BY <1>2, <2>1 DEF Anchored
      <3> QED BY <2>1, <3>1, OnChainStays
    <2>2. at[r] # "done" => Off = request[r].anchor \/ at[r] = "idle"
      BY DEF Known, Typed, RequestPlaced
    <2>3. CASE AnswerBundle(r)
      <3> DEFINE root == request[r].root
                 anchor == AnchorOf(root)
                 of == {bundles[request[r].trade][i] :
                          i \in DOMAIN bundles[request[r].trade]}
      <3>1. request' = [request EXCEPT ![r] =
                [request[r] EXCEPT !.anchor = anchor, !.of = of]]
        BY <2>3 DEF AnswerBundle
      <3>2. request[r] \in RequestRow /\ request \in [Request -> RequestRow \cup {None}]
        BY <2>3 DEF AnswerBundle, Known, Typed, TypeOK, RequestPlaced, RequestRow
      <3> HIDE DEF anchor, of
      <3>3. request'[r].anchor = anchor /\ request'[r].root = root
        BY <3>1, <3>2 DEF RequestRow
      <3>4. PICK t \in Trade : /\ batch[t] # None /\ batch[t].root = root
                               /\ anchor = [status |-> batch[t].status,
                                            tx |-> batch[t].tx]
        <4>1. anchor # Off
          BY <1>2, <3>3 DEF Off
        <4> QED BY <4>1, AnchorFacts DEF anchor, Known
      <3>5. batch[t].status = "anchored" /\ anchor.tx = batch[t].tx
        BY <1>2, <3>3, <3>4
      <3>6. TxOnChain(batch[t].root, batch[t].tx)
        BY <3>4, <3>5 DEF Anchored
      <3> QED BY <3>3, <3>4, <3>5, <3>6, OnChainStays
    <2>4. CASE ReadArchive(r)
      <3>1. request'[r].anchor = request[r].anchor /\ at[r] = "reading"
        <4>1. request[r] \in RequestRow /\ request \in [Request -> RequestRow \cup {None}]
          BY <2>4 DEF ReadArchive, Known, Typed, TypeOK, RequestPlaced, RequestRow
        <4> QED BY <2>4, <4>1 DEF ReadArchive, RequestRow
      <3>2. request'[r].anchor = Off
        BY <2>2, <3>1
      <3> QED BY <1>2, <3>2 DEF Off
    <2>5. CASE RequestStep(r) /\ ~AnswerBundle(r) /\ ~ReadArchive(r)
      <3>1. \E label \in RequestLabels \ {"done"} : Goto(r, label)
        BY <2>5 DEF RequestStep, FindBundle, MissBundle, ReadRecord,
           GatherArtifacts, StoreArchive, RecordBundle, FailRequest, RequestLabels
      <3>2. at'[r] # "done"
        BY <3>1 DEF Goto, Known, Typed, TypeOK
      <3> QED BY <1>2, <3>2
    <2> QED BY <1>2, <2>1, <2>3, <2>4, <2>5, AnswerWriter
  <1> QED BY <1>1, <1>2 DEF Anchored, TxOnChain, OnChain, OnChainNext
-----------------------------------------------------------------------------
(* Counting submissions                                                      *)

\* Another stray needs another lost lock.
LEMMA StraysStep ==
  ASSUME Known, Strays, Next
  PROVE  Strays'
  <1>1. Typed /\ None \notin Worker
    BY NoneAssumption DEF Known
  <1>2. \A u \in Worker : at'[u] = at[u] \/ (at[u] # "idle" \/ BeginTick(u))
    BY WorkerWriter DEF WorkerStep, Scan, Submit, RecordHash, AwaitReceipt,
       ReadReceipt, SettleBatch, EndTick, FailTick, HasRow
  <1>3. \A v, u \in Worker : BeginTick(v) /\ BeginTick(u) => v = u
    BY DEF BeginTick
  <1>4. IsFiniteSet(Active')
    <2>1. CASE \E w \in Worker : BeginTick(w)
      <3>1. PICK w \in Worker : BeginTick(w)
        BY <2>1
      <3>2. Active' \subseteq Active \cup {w}
        BY <1>2, <1>3, <3>1 DEF Active
      <3> QED BY <3>2, FS_AddElement, FS_Subset DEF Strays
    <2>2. CASE ~\E w \in Worker : BeginTick(w)
      <3>1. Active' \subseteq Active
        BY <1>2, <2>2 DEF Active
      <3> QED BY <3>1, FS_Subset DEF Strays
    <2> QED BY <2>1, <2>2
  <1>5. /\ IsFiniteSet(Active \ {jobLock})
        /\ Cardinality(Active \ {jobLock}) <= mishaps.lost
        /\ Cardinality(Active \ {jobLock}) \in Nat
    BY FS_RemoveElement, FS_CardinalityType, FS_Subset DEF Strays
  <1>6. /\ mishaps.lost \in Nat /\ mishaps'.lost \in Nat
        /\ mishaps.lost <= mishaps'.lost
        /\ \A w \in Worker : LoseLock(w) => mishaps'.lost = mishaps.lost + 1
    BY <1>1, MishapsGrow
  <1>7. CASE \E w \in Worker : LoseLock(w)
    <2>1. PICK w \in Worker : LoseLock(w)
      BY <1>7
    <2>2. jobLock = w /\ jobLock' = None /\ at' = at
      BY <2>1 DEF LoseLock
    <2>3. Active' \ {jobLock'} \subseteq (Active \ {jobLock}) \cup {w}
      BY <2>2 DEF Active
    <2>4. /\ IsFiniteSet((Active \ {jobLock}) \cup {w})
          /\ Cardinality((Active \ {jobLock}) \cup {w})
               <= Cardinality(Active \ {jobLock}) + 1
      <3> DEFINE S == Active \ {jobLock}
      <3>1. /\ IsFiniteSet(S) /\ Cardinality(S) \in Nat
        BY <1>5
      <3> HIDE DEF S
      <3>2. IsFiniteSet(S \cup {w}) /\ Cardinality(S \cup {w}) <= Cardinality(S) + 1
        BY <3>1, FS_AddElement
      <3> QED BY <3>2 DEF S
    <2>5. /\ Cardinality(Active' \ {jobLock'}) \in Nat
          /\ Cardinality(Active' \ {jobLock'})
               <= Cardinality((Active \ {jobLock}) \cup {w})
          /\ Cardinality((Active \ {jobLock}) \cup {w}) \in Nat
      BY <2>3, <2>4, FS_Subset, FS_CardinalityType
    <2> QED BY <1>4, <1>5, <1>6, <2>1, <2>4, <2>5 DEF Strays
  <1>8. CASE ~\E w \in Worker : LoseLock(w)
    <2>1. Active' \ {jobLock'} \subseteq Active \ {jobLock}
      <3>1. CASE jobLock' = jobLock
        <4>1. \A u \in Worker : BeginTick(u) => jobLock' = u
          BY DEF BeginTick
        <4> QED BY <1>2, <3>1, <4>1 DEF Active
      <3>2. ASSUME NEW w \in Worker, BeginTick(w)
            PROVE  Active' \ {jobLock'} \subseteq Active \ {jobLock}
        BY <1>1, <1>2, <1>3, <3>2 DEF Active, BeginTick
      <3>3. ASSUME NEW w \in Worker, EndTick(w) \/ FailTick(w)
            PROVE  Active' \ {jobLock'} \subseteq Active \ {jobLock}
        <4>1. /\ at'[w] = "idle"
              /\ \A u \in Worker \ {w} : at'[u] = at[u]
              /\ jobLock' = IF jobLock = w THEN None ELSE jobLock
          BY <1>1, <3>3, LeaveFacts DEF EndTick, FailTick
        <4> QED BY <4>1 DEF Active
      <3> QED BY <1>8, <3>1, <3>2, <3>3, LockWriter
    <2>2. /\ Cardinality(Active' \ {jobLock'}) \in Nat
          /\ Cardinality(Active' \ {jobLock'}) <= Cardinality(Active \ {jobLock})
      BY <1>5, <2>1, FS_Subset, FS_CardinalityType
    <2> QED BY <1>4, <1>5, <1>6, <2>2 DEF Strays
  <1> QED BY <1>7, <1>8

\* The submissions of a trade, its tickets and who is sending it are finitely
\* many, and the workers among them are in a tick.
LEMMA CountsFinite ==
  ASSUME Known, Strays, NEW t \in Trade
  PROVE  /\ IsFiniteSet(Submissions(t)) /\ Cardinality(Submissions(t)) \in Nat
         /\ IsFiniteSet(Tickets(t)) /\ Cardinality(Tickets(t)) \in Nat
         /\ IsFiniteSet(Sending(t)) /\ Cardinality(Sending(t)) \in Nat
         /\ Cardinality(Tickets(t)) + Cardinality(Sending(t)) <= 1 + mishaps.lost
  <1>1. IsFiniteSet(Submissions(t))
    <2>1. DOMAIN chain = 1 .. Len(chain) /\ Len(chain) \in Nat
      BY DEF Known, Typed, TypeOK
    <2>2. Submissions(t) \subseteq 1 .. Len(chain)
      BY <2>1 DEF Submissions
    <2>3. IsFiniteSet(1 .. Len(chain))
      BY <2>1, FS_Interval
    <2> QED BY <2>2, <2>3, FS_Subset
  <1>2. Tickets(t) \subseteq Active
    <2>1. \A w \in Worker : at[w] = "idle" => tick[w].rows = <<>>
      BY DEF Known, Typed, WorkerPlaced
    <2> QED BY <2>1 DEF Tickets, Ticket, Active
  <1>3. Sending(t) \subseteq Active
    BY DEF Sending, Active
  <1>4. Tickets(t) \cap Sending(t) = {}
    <2> SUFFICES ASSUME NEW w \in Worker, Ticket(w, t), at[w] = "sent",
                        Row(w).trade = t
                 PROVE  FALSE
      BY DEF Tickets, Sending
    <2>1. PICK i \in DOMAIN tick[w].rows : tick[w].rows[i].trade = t /\ i # 1
      BY DEF Ticket
    <2>2. 1 \in DOMAIN tick[w].rows /\ Row(w) = tick[w].rows[1]
      BY RowFacts DEF Known, Typed, WorkerPlaced
    <2>3. i \in DOMAIN tick[w].rows
      BY <2>1
    <2> QED BY <2>1, <2>2, <2>3 DEF Known, RowsKnown
  <1>5. IsFiniteSet(Tickets(t)) /\ IsFiniteSet(Sending(t)) /\ IsFiniteSet(Active)
    BY <1>2, <1>3, FS_Subset DEF Strays
  <1>6. /\ Cardinality(Submissions(t)) \in Nat /\ Cardinality(Tickets(t)) \in Nat
        /\ Cardinality(Sending(t)) \in Nat /\ Cardinality(Active) \in Nat
        /\ mishaps.lost \in Nat
    BY <1>1, <1>5, FS_CardinalityType DEF Known, Typed, TypeOK
  <1>7. Cardinality(Tickets(t)) + Cardinality(Sending(t)) <= Cardinality(Active)
    <2>1. Cardinality(Tickets(t) \cup Sending(t)) =
            Cardinality(Tickets(t)) + Cardinality(Sending(t))
      <3>1. Cardinality({}) = 0
        BY FS_EmptySet
      <3> DEFINE S == Tickets(t)
                 T == Sending(t)
      <3>2. /\ IsFiniteSet(S) /\ IsFiniteSet(T) /\ S \cap T = {}
            /\ Cardinality(S) \in Nat /\ Cardinality(T) \in Nat
        BY <1>4, <1>5, <1>6
      <3> HIDE DEF S, T
      <3>3. Cardinality(S \cup T) = Cardinality(S) + Cardinality(T)
        <4>1. Cardinality(S \cup T) =
                Cardinality(S) + Cardinality(T) - Cardinality(S \cap T)
          BY <3>2, FS_Union
        <4>2. Cardinality(S \cap T) = 0
          BY <3>1, <3>2
        <4> QED BY <3>2, <4>1, <4>2
      <3> QED BY <3>3 DEF S, T
    <2>2. Cardinality(Tickets(t) \cup Sending(t)) <= Cardinality(Active)
      BY <1>2, <1>3, <1>5, FS_Subset
    <2> QED BY <2>1, <2>2
  <1>8. Cardinality(Active) <= 1 + mishaps.lost
    <2>1. /\ IsFiniteSet(Active \ {jobLock})
          /\ Cardinality(Active \ {jobLock}) \in Nat
          /\ Cardinality(Active \ {jobLock}) <= mishaps.lost
      BY <1>5, FS_RemoveElement, FS_CardinalityType DEF Strays
    <2>2. Cardinality(Active) <= Cardinality(Active \ {jobLock}) + 1
      <3>1. CASE jobLock \in Active
        <4>1. Cardinality(Active \ {jobLock}) = Cardinality(Active) - 1
          BY <1>5, <3>1, FS_RemoveElement
        <4> QED BY <1>6, <4>1
      <3>2. CASE jobLock \notin Active
        <4>1. Active \ {jobLock} = Active
          BY <3>2
        <4> QED BY <1>6, <4>1
      <3> QED BY <3>1, <3>2
    <2> QED BY <1>6, <2>1, <2>2
  <1> QED BY <1>1, <1>5, <1>6, <1>7, <1>8

\* Whether or not the hash is recorded, what was sent and what still may be is
\* within the bound.
LEMMA CountedTotal ==
  ASSUME Known, Strays, NEW t \in Trade, Counted(t)
  PROVE  Cardinality(Submissions(t)) + Cardinality(Tickets(t))
           <= 1 + mishaps.unrecorded + mishaps.lost
  <1>1. mishaps.unrecorded \in Nat /\ mishaps.lost \in Nat
    BY DEF Known, Typed, TypeOK
  <1> QED BY <1>1, CountsFinite DEF Counted

\* A step that submits nothing, gives nobody a ticket and ends no sending keeps
\* the count.
LEMMA CountedFrame ==
  ASSUME Known, Strays, Known', Strays', NEW t \in Trade, Counted(t),
         Submissions(t)' = Submissions(t),
         Tickets(t)' \subseteq Tickets(t),
         Sending(t) \subseteq Sending(t)',
         Hashed(t)' <=> Hashed(t),
         mishaps.unrecorded <= mishaps'.unrecorded, mishaps.lost <= mishaps'.lost
  PROVE  Counted(t)'
  <1>1. /\ mishaps.unrecorded \in Nat /\ mishaps.lost \in Nat
        /\ mishaps'.unrecorded \in Nat /\ mishaps'.lost \in Nat
    BY DEF Known, Typed, TypeOK
  <1>2. /\ IsFiniteSet(Tickets(t)) /\ Cardinality(Tickets(t)) \in Nat
        /\ Cardinality(Sending(t)) \in Nat
        /\ Cardinality(Submissions(t)) \in Nat
    BY CountsFinite
  <1>3. IsFiniteSet(Sending(t)')
    <2>1. IsFiniteSet(Active') /\ Sending(t)' \subseteq Active'
      BY DEF Strays, Sending, Active
    <2> QED BY <2>1, FS_Subset
  <1>4. /\ Cardinality(Tickets(t)') \in Nat /\ Cardinality(Sending(t)') \in Nat
        /\ Cardinality(Tickets(t)') <= Cardinality(Tickets(t))
        /\ Cardinality(Sending(t)) <= Cardinality(Sending(t)')
    BY <1>2, <1>3, FS_Subset, FS_CardinalityType
  <1>5. Cardinality(Submissions(t)') = Cardinality(Submissions(t))
    OBVIOUS
  <1>6. Hashed(t) =>
          Cardinality(Submissions(t)') + Cardinality(Tickets(t)')
            <= 1 + mishaps'.unrecorded + mishaps'.lost
    BY <1>1, <1>2, <1>4, <1>5 DEF Counted
  <1>7. ~Hashed(t) =>
          Cardinality(Submissions(t)')
            <= mishaps'.unrecorded + Cardinality(Sending(t)')
    BY <1>1, <1>2, <1>4, <1>5 DEF Counted
  <1> QED BY <1>6, <1>7 DEF Counted

\* A worker that does not move has the tickets it had.
LEMMA SameTickets ==
  ASSUME NEW u \in Worker, NEW t \in Trade, tick'[u] = tick[u], at'[u] = at[u]
  PROVE  /\ Ticket(u, t)' <=> Ticket(u, t)
         /\ u \in Sending(t)' <=> u \in Sending(t)
  <1>1. Row(u)' = Row(u)
    BY DEF Row
  <1> QED BY <1>1 DEF Ticket, Sending

\* What one step of a worker does to the tickets, but for its own.
LEMMA OthersCount ==
  ASSUME Known, Next, NEW w \in Worker, WorkerStep(w) \/ FailTick(w),
         NEW t \in Trade
  PROVE  \A u \in Worker \ {w} :
           /\ tick'[u] = tick[u] /\ at'[u] = at[u]
           /\ Ticket(u, t)' <=> Ticket(u, t)
           /\ u \in Sending(t)' <=> u \in Sending(t)
  <1> SUFFICES ASSUME NEW u \in Worker \ {w}
               PROVE  tick'[u] = tick[u] /\ at'[u] = at[u]
    BY SameTickets
  <1>1. \E label \in WorkerLabels : Goto(w, label)
    BY DEF WorkerStep, BeginTick, Scan, Submit, RecordHash, AwaitReceipt,
       ReadReceipt, SettleBatch, EndTick, FailTick, NextRow, LeaveTick,
       WorkerLabels
  <1>2. tick'[u] = tick[u]
    BY DEF WorkerStep, BeginTick, Scan, Submit, RecordHash, AwaitReceipt,
       ReadReceipt, SettleBatch, EndTick, FailTick, NextRow, LeaveTick,
       Known, Typed, TypeOK
  <1>3. at'[u] = at[u]
    BY <1>1, DisjointAssumption DEF Goto, Known, Typed, TypeOK
  <1> QED BY <1>2, <1>3

\* Steps of requests, of the chain and of the lock's connection keep the count.
LEMMA CountedElsewhere ==
  ASSUME Known, Strays, Known', Strays', Next, NEW t \in Trade, Counted(t),
         \/ \E r \in Request : RequestStep(r)
         \/ \E w \in Worker : LoseLock(w)
         \/ Mining
  PROVE  Counted(t)'
  <1>1. \A u \in Worker : tick'[u] = tick[u] /\ at'[u] = at[u]
    <2>1. ASSUME NEW r \in Request, RequestStep(r)
          PROVE  \A u \in Worker : tick'[u] = tick[u] /\ at'[u] = at[u]
      <3>1. \E label \in RequestLabels : Goto(r, label)
        BY <2>1 DEF RequestStep, FindBundle, MissBundle, ReadRecord,
           GatherArtifacts, StoreArchive, RecordBundle, AnswerBundle, ReadArchive,
           FailRequest, RequestLabels
      <3>2. tick' = tick
        BY <2>1 DEF RequestStep, FindBundle, MissBundle, ReadRecord,
           GatherArtifacts, StoreArchive, RecordBundle, AnswerBundle, ReadArchive,
           FailRequest
      <3> QED BY <3>1, <3>2, DisjointAssumption DEF Goto, Known, Typed, TypeOK
    <2>2. CASE Mining \/ \E w \in Worker : LoseLock(w)
      BY <2>2 DEF Mining, MineStep, Mine, LoseLock
    <2> QED BY <2>1, <2>2
  <1>2. Tickets(t)' = Tickets(t) /\ Sending(t)' = Sending(t)
    <2>1. \A u \in Worker : /\ Ticket(u, t)' <=> Ticket(u, t)
                            /\ u \in Sending(t)' <=> u \in Sending(t)
      BY <1>1, SameTickets
    <2>2. Tickets(t)' = Tickets(t)
      BY <2>1 DEF Tickets
    <2>3. Sending(t)' = Sending(t)
      <3>1. Sending(t) \subseteq Worker /\ Sending(t)' \subseteq Worker
        BY DEF Sending
      <3> QED BY <2>1, <3>1
    <2> QED BY <2>2, <2>3
  <1>3. Submissions(t)' = Submissions(t)
    <2>1. chain' = chain \/ Mining
      BY DEF RequestStep, FindBundle, MissBundle, ReadRecord,
         GatherArtifacts, StoreArchive, RecordBundle, AnswerBundle, ReadArchive,
         FailRequest, LoseLock
    <2>2. CASE chain' = chain
      BY <2>2 DEF Submissions
    <2>3. CASE Mining
      <3>1. PICK n \in DOMAIN chain : MineStep(n)
        BY <2>3 DEF Mining
      <3>2. PICK outcome \in {"succeeded", "reverted"} : Mine(n, outcome)
        BY <3>1 DEF MineStep
      <3>3. n \in DOMAIN chain
        BY <3>1
      <3>4. /\ DOMAIN chain' = DOMAIN chain
            /\ \A m \in DOMAIN chain : chain'[m].root = chain[m].root
        BY <3>2, <3>3, MineFacts DEF Known
      <3> QED BY <3>4 DEF Submissions
    <2> QED BY <2>1, <2>2, <2>3
  <1>4. Hashed(t)' <=> Hashed(t)
    <2>1. batch'[t] = batch[t] \/ \E r \in Request : RecordBundle(r)
      BY DEF RequestStep, FindBundle, MissBundle, ReadRecord,
         GatherArtifacts, StoreArchive, AnswerBundle, ReadArchive,
         FailRequest, LoseLock, Mining, MineStep, Mine, anchors
    <2>2. ASSUME NEW r \in Request, RecordBundle(r)
          PROVE  batch'[t] = batch[t] \/ (batch[t] = None /\ batch'[t].tx = None)
      BY <2>2, RecordFacts DEF Known
    <2> QED BY <2>1, <2>2 DEF Hashed
  <1>5. mishaps.unrecorded <= mishaps'.unrecorded /\ mishaps.lost <= mishaps'.lost
    BY MishapsGrow DEF Known
  <1> QED BY <1>2, <1>3, <1>4, <1>5, CountedFrame

\* A submission uses the ticket of its worker.
LEMMA CountedSubmit ==
  ASSUME Known, Strays, Known', Strays', Next, NEW t \in Trade, Counted(t),
         NEW w \in Worker, Submit(w)
  PROVE  Counted(t)'
  <1> DEFINE n == Len(chain) + 1
             row == Row(w)
  <1>1. /\ DOMAIN chain' = DOMAIN chain \cup {n} /\ n \notin DOMAIN chain
        /\ chain'[n].root = row.root
        /\ \A m \in DOMAIN chain : chain'[m] = chain[m]
        /\ tick'[w].rows = tick[w].rows
    BY SubmitFacts DEF Known
  <1>2. /\ row = tick[w].rows[1] /\ 1 \in DOMAIN tick[w].rows
        /\ row.tx = None /\ row.trade \in Trade
        /\ at[w] = "working" /\ at'[w] = "sent"
    BY RowFacts, WorkerMoves DEF Submit, HasRow, Known, WorkerLabels, RowRecord
  <1>3. row.root[1] = row.trade
    BY <1>2 DEF Known, RowsKnown, RowKnown, BatchesKnown
  <1>4. \A i \in DOMAIN tick[w].rows : i # 1 => tick[w].rows[i].trade # row.trade
    BY <1>2 DEF Known, RowsKnown
  <1>5. \A u \in Worker \ {w} : /\ Ticket(u, t)' <=> Ticket(u, t)
                                /\ u \in Sending(t)' <=> u \in Sending(t)
    BY OthersCount DEF WorkerStep
  <1>6. /\ mishaps' = mishaps /\ batch' = batch
        /\ mishaps.unrecorded \in Nat /\ mishaps.lost \in Nat
    BY DEF Submit, anchors, Known, Typed, TypeOK
  <1>7. Row(w)' = row
    BY <1>1 DEF Row
  <1>8. w \notin Sending(t) /\ (w \in Sending(t)' <=> row.trade = t)
    BY <1>2, <1>7 DEF Sending
  <1> HIDE DEF n, row
  <1>9. CASE row.trade # t
    <2>1. Submissions(t)' = Submissions(t)
      BY <1>1, <1>3, <1>9 DEF Submissions
    <2>2. Ticket(w, t)' => Ticket(w, t)
      BY <1>1, <1>2 DEF Ticket
    <2>3. Tickets(t)' \subseteq Tickets(t)
      BY <1>5, <2>2 DEF Tickets
    <2>4. Sending(t) \subseteq Sending(t)'
      <3>1. Sending(t) \subseteq Worker
        BY DEF Sending
      <3> QED BY <1>5, <1>8, <3>1
    <2> QED BY <1>6, <2>1, <2>3, <2>4, CountedFrame DEF Hashed
  <1>10. CASE row.trade = t
    <2>1. Submissions(t)' = Submissions(t) \cup {n} /\ n \notin Submissions(t)
      BY <1>1, <1>3, <1>10 DEF Submissions
    <2>2. w \in Tickets(t) /\ Tickets(t)' \subseteq Tickets(t) \ {w}
      <3>1. Ticket(w, t)
        BY <1>2, <1>10 DEF Ticket
      <3>2. ~Ticket(w, t)'
        BY <1>1, <1>2, <1>4, <1>10 DEF Ticket
      <3> QED BY <1>5, <3>1, <3>2 DEF Tickets
    <2>3. Sending(t) \cup {w} \subseteq Sending(t)'
      <3>1. Sending(t) \subseteq Worker
        BY DEF Sending
      <3> QED BY <1>5, <1>8, <1>10, <3>1
    <2>4. /\ IsFiniteSet(Submissions(t)) /\ IsFiniteSet(Tickets(t))
          /\ IsFiniteSet(Sending(t)) /\ IsFiniteSet(Sending(t)')
          /\ Cardinality(Submissions(t)) \in Nat /\ Cardinality(Tickets(t)) \in Nat
          /\ Cardinality(Sending(t)) \in Nat
      <3>1. IsFiniteSet(Active') /\ Sending(t)' \subseteq Active'
        BY DEF Strays, Sending, Active
      <3>2. IsFiniteSet(Sending(t)')
        BY <3>1, FS_Subset
      <3> QED BY <3>2, CountsFinite
    <2>5. Cardinality(Submissions(t)') = Cardinality(Submissions(t)) + 1
      BY <2>1, <2>4, FS_AddElement
    <2>6. /\ Cardinality(Tickets(t)') \in Nat
          /\ Cardinality(Tickets(t)') <= Cardinality(Tickets(t)) - 1
      <3>1. /\ IsFiniteSet(Tickets(t) \ {w})
            /\ Cardinality(Tickets(t) \ {w}) = Cardinality(Tickets(t)) - 1
        BY <2>2, <2>4, FS_RemoveElement
      <3>2. /\ IsFiniteSet(Tickets(t)')
            /\ Cardinality(Tickets(t)') <= Cardinality(Tickets(t) \ {w})
        BY <2>2, <3>1, FS_Subset
      <3> QED BY <3>1, <3>2, FS_CardinalityType
    <2>7. /\ Cardinality(Sending(t)') \in Nat
          /\ Cardinality(Sending(t)) + 1 <= Cardinality(Sending(t)')
      <3>1. Cardinality(Sending(t) \cup {w}) = Cardinality(Sending(t)) + 1
        BY <1>8, <2>4, FS_AddElement
      <3>2. Cardinality(Sending(t) \cup {w}) <= Cardinality(Sending(t)')
        BY <2>3, <2>4, FS_Subset
      <3> QED BY <2>4, <3>1, <3>2, FS_CardinalityType
    <2>8. Hashed(t) => Cardinality(Submissions(t)') + Cardinality(Tickets(t)')
                         <= 1 + mishaps'.unrecorded + mishaps'.lost
      BY <1>6, <2>4, <2>5, <2>6 DEF Counted
    <2>9. ~Hashed(t) => Cardinality(Submissions(t)')
                          <= mishaps'.unrecorded + Cardinality(Sending(t)')
      BY <1>6, <2>4, <2>5, <2>7 DEF Counted
    <2> QED BY <1>6, <2>8, <2>9 DEF Counted, Hashed
  <1> QED BY <1>9, <1>10

\* The steps of a worker that neither send nor record anything keep the count.
LEMMA CountedQuiet ==
  ASSUME Known, Strays, Known', Strays', Next, NEW t \in Trade, Counted(t),
         NEW w \in Worker,
         \/ BeginTick(w)
         \/ AwaitReceipt(w)
         \/ ReadReceipt(w)
         \/ SettleBatch(w)
         \/ EndTick(w)
  PROVE  Counted(t)'
  <1>1. \A u \in Worker \ {w} : /\ Ticket(u, t)' <=> Ticket(u, t)
                                /\ u \in Sending(t)' <=> u \in Sending(t)
    BY OthersCount DEF WorkerStep
  <1>2. w \notin Sending(t)
    BY DEF Sending, BeginTick, AwaitReceipt, ReadReceipt, HasRow, SettleBatch,
       EndTick
  <1>3. Ticket(w, t)' => Ticket(w, t)
    <2>1. CASE AwaitReceipt(w) \/ SettleBatch(w)
      <3>1. tick[w].rows # <<>> /\ NextRow(w) /\ at[w] # "sent"
        BY <2>1 DEF AwaitReceipt, HasRow, SettleBatch, Known, Typed, WorkerPlaced
      <3>2. /\ tick'[w].rows = Tail(tick[w].rows)
            /\ \A i \in DOMAIN Tail(tick[w].rows) :
                 /\ i + 1 \in DOMAIN tick[w].rows
                 /\ Tail(tick[w].rows)[i] = tick[w].rows[i + 1]
        BY <3>1, RowFacts, NextRowFacts DEF Known
      <3> QED BY <3>1, <3>2 DEF Ticket
    <2>2. CASE ReadReceipt(w)
      <3>1. tick' = tick /\ at[w] = "working"
        BY <2>2 DEF ReadReceipt, HasRow
      <3> QED BY <3>1 DEF Ticket
    <2>3. CASE BeginTick(w)
      <3>1. tick'[w].rows = <<>>
        BY <2>3 DEF BeginTick, Known, Typed, WorkerPlaced
      <3> QED BY <3>1 DEF Ticket
    <2>4. CASE EndTick(w)
      <3>1. tick'[w].rows = <<>>
        BY <2>4, LeaveFacts DEF EndTick, Known
      <3> QED BY <3>1 DEF Ticket
    <2> QED BY <2>1, <2>2, <2>3, <2>4
  <1>4. Tickets(t)' \subseteq Tickets(t)
    BY <1>1, <1>3 DEF Tickets
  <1>5. Sending(t) \subseteq Sending(t)'
    <2>1. Sending(t) \subseteq Worker
      BY DEF Sending
    <2> QED BY <1>1, <1>2, <2>1
  <1>6. Submissions(t)' = Submissions(t)
    <2>1. chain' = chain
      BY DEF BeginTick, AwaitReceipt, ReadReceipt, SettleBatch, EndTick
    <2> QED BY <2>1 DEF Submissions
  <1>7. Hashed(t)' <=> Hashed(t)
    <2>1. CASE SettleBatch(w)
      BY <2>1, SettleFacts DEF Hashed
    <2>2. CASE ~SettleBatch(w)
      BY <2>2 DEF BeginTick, AwaitReceipt, ReadReceipt, EndTick, anchors, Hashed
    <2> QED BY <2>1, <2>2
  <1>8. mishaps.unrecorded <= mishaps'.unrecorded /\ mishaps.lost <= mishaps'.lost
    BY MishapsGrow DEF Known
  <1> QED BY <1>4, <1>5, <1>6, <1>7, <1>8, CountedFrame

\* A scan gives no ticket for a batch that has its hash.
LEMMA CountedScan ==
  ASSUME Known, Strays, Known', Strays', Next, NEW t \in Trade, Counted(t),
         NEW w \in Worker, Scan(w)
  PROVE  Counted(t)'
  <1>1. \A u \in Worker \ {w} : /\ Ticket(u, t)' <=> Ticket(u, t)
                                /\ u \in Sending(t)' <=> u \in Sending(t)
    BY OthersCount DEF WorkerStep
  <1>2. Sending(t)' = Sending(t)
    <2>1. w \notin Sending(t) /\ w \notin Sending(t)'
      <3>1. at[w] = "scanning" /\ at'[w] = "working"
        BY WorkerMoves DEF Scan, Known, WorkerLabels
      <3> QED BY <3>1 DEF Sending
    <2>2. Sending(t) \subseteq Worker /\ Sending(t)' \subseteq Worker
      BY DEF Sending
    <2> QED BY <1>1, <2>1, <2>2
  <1>3. /\ chain' = chain /\ batch' = batch /\ mishaps' = mishaps
        /\ Submissions(t)' = Submissions(t)
    BY DEF Scan, anchors, Submissions
  <1>4. CASE Hashed(t)
    <2>1. PICK n \in Nat : \E found \in [1 .. n -> DOMAIN queue] :
            tick'[w].rows = [i \in 1 .. n |-> RowOf(queue[found[i]])]
      BY ScanFacts DEF Known
    <2>2. PICK found \in [1 .. n -> DOMAIN queue] :
            tick'[w].rows = [i \in 1 .. n |-> RowOf(queue[found[i]])]
      BY <2>1
    <2>3. \A i \in 1 .. n : RowOf(queue[found[i]]).trade = t
                              => RowOf(queue[found[i]]).tx # None
      BY <1>4 DEF RowOf, Hashed
    <2>4. ~Ticket(w, t)'
      BY <2>2, <2>3 DEF Ticket
    <2>5. Tickets(t)' \subseteq Tickets(t)
      BY <1>1, <2>4 DEF Tickets
    <2>6. Hashed(t)' <=> Hashed(t)
      BY <1>3 DEF Hashed
    <2>7. mishaps.unrecorded <= mishaps'.unrecorded
          /\ mishaps.lost <= mishaps'.lost
      BY MishapsGrow DEF Known
    <2> QED BY <1>2, <1>3, <2>5, <2>6, <2>7, CountedFrame
  <1>5. CASE ~Hashed(t)
    BY <1>2, <1>3, <1>5 DEF Counted, Hashed
  <1> QED BY <1>4, <1>5

\* A tick that dies before a hash is recorded counts as a mishap.
LEMMA CountedFail ==
  ASSUME Known, Strays, Known', Strays', Next, NEW t \in Trade, Counted(t),
         NEW w \in Worker, FailTick(w)
  PROVE  Counted(t)'
  <1>1. \A u \in Worker \ {w} : /\ Ticket(u, t)' <=> Ticket(u, t)
                                /\ u \in Sending(t)' <=> u \in Sending(t)
    BY OthersCount
  <1>2. /\ chain' = chain /\ batch' = batch
        /\ Submissions(t)' = Submissions(t) /\ (Hashed(t)' <=> Hashed(t))
    BY DEF FailTick, anchors, Submissions, Hashed
  <1>3. tick'[w].rows = <<>> /\ at'[w] = "idle"
    BY LeaveFacts DEF FailTick, Known
  <1>4. Tickets(t)' \subseteq Tickets(t)
    <2>1. ~Ticket(w, t)'
      BY <1>3 DEF Ticket
    <2> QED BY <1>1, <2>1 DEF Tickets
  <1>5. mishaps.unrecorded <= mishaps'.unrecorded /\ mishaps.lost <= mishaps'.lost
    BY MishapsGrow DEF Known
  <1>6. CASE w \notin Sending(t)
    <2>1. Sending(t) \subseteq Sending(t)'
      <3>1. Sending(t) \subseteq Worker
        BY DEF Sending
      <3> QED BY <1>1, <1>6, <3>1
    <2> QED BY <1>2, <1>4, <1>5, <2>1, CountedFrame
  <1>7. CASE w \in Sending(t)
    <2>1. mishaps'.unrecorded = mishaps.unrecorded + 1
      BY <1>7, MishapsGrow DEF Known, Sending
    <2>2. /\ mishaps.unrecorded \in Nat /\ mishaps.lost \in Nat
          /\ mishaps'.lost \in Nat
      BY MishapsGrow DEF Known
    <2>3. Sending(t) \ {w} \subseteq Sending(t)'
      <3>1. Sending(t) \subseteq Worker
        BY DEF Sending
      <3> QED BY <1>1, <3>1
    <2>4. /\ IsFiniteSet(Submissions(t)) /\ IsFiniteSet(Tickets(t))
          /\ IsFiniteSet(Sending(t)) /\ IsFiniteSet(Sending(t)')
          /\ Cardinality(Submissions(t)) \in Nat /\ Cardinality(Tickets(t)) \in Nat
          /\ Cardinality(Sending(t)) \in Nat
      <3>1. IsFiniteSet(Active') /\ Sending(t)' \subseteq Active'
        BY DEF Strays, Sending, Active
      <3>2. IsFiniteSet(Sending(t)')
        BY <3>1, FS_Subset
      <3> QED BY <3>2, CountsFinite
    <2>5. /\ Cardinality(Tickets(t)') \in Nat
          /\ Cardinality(Tickets(t)') <= Cardinality(Tickets(t))
      BY <1>4, <2>4, FS_Subset, FS_CardinalityType
    <2>6. /\ Cardinality(Sending(t)') \in Nat
          /\ Cardinality(Sending(t)) - 1 <= Cardinality(Sending(t)')
      <3>1. /\ IsFiniteSet(Sending(t) \ {w})
            /\ Cardinality(Sending(t) \ {w}) = Cardinality(Sending(t)) - 1
        BY <1>7, <2>4, FS_RemoveElement
      <3>2. Cardinality(Sending(t) \ {w}) <= Cardinality(Sending(t)')
        BY <2>3, <2>4, FS_Subset
      <3> QED BY <2>4, <3>1, <3>2, FS_CardinalityType
    <2>7. Cardinality(Submissions(t)') = Cardinality(Submissions(t))
      BY <1>2
    <2>8. Hashed(t) => Cardinality(Submissions(t)') + Cardinality(Tickets(t)')
                         <= 1 + mishaps'.unrecorded + mishaps'.lost
      BY <1>5, <2>1, <2>2, <2>4, <2>5, <2>7 DEF Counted
    <2>9. ~Hashed(t) => Cardinality(Submissions(t)')
                          <= mishaps'.unrecorded + Cardinality(Sending(t)')
      BY <1>5, <2>1, <2>2, <2>4, <2>6, <2>7 DEF Counted
    <2> QED BY <1>2, <2>8, <2>9 DEF Counted
  <1> QED BY <1>6, <1>7

\* The hash of a submission is recorded: from here on what may still be sent
\* counts.
LEMMA CountedRecord ==
  ASSUME Known, Strays, Known', Strays', Next, NEW t \in Trade, Counted(t),
         NEW w \in Worker, RecordHash(w)
  PROVE  Counted(t)'
  <1> DEFINE row == Row(w)
  <1>1. \A u \in Worker \ {w} : /\ Ticket(u, t)' <=> Ticket(u, t)
                                /\ u \in Sending(t)' <=> u \in Sending(t)
    BY OthersCount DEF WorkerStep
  <1>2. /\ row.trade \in Trade /\ tick[w].rows # <<>>
        /\ batch'[row.trade] # None /\ batch'[row.trade].tx = tick[w].sent
        /\ \A u \in Trade \ {row.trade} : batch'[u] = batch[u]
    BY HashFacts
  <1>3. at[w] = "sent" /\ tick[w].sent # None
    BY DEF RecordHash, Known, RowsKnown
  <1>4. Submissions(t)' = Submissions(t)
    BY DEF RecordHash, Submissions
  <1>5. Tickets(t)' \subseteq Tickets(t)
    <2>1. Ticket(w, t)' => Ticket(w, t)
      <3>1. /\ tick'[w].rows = Tail(tick[w].rows)
            /\ \A i \in DOMAIN Tail(tick[w].rows) :
                 /\ i + 1 \in DOMAIN tick[w].rows
                 /\ i + 1 # 1
                 /\ Tail(tick[w].rows)[i] = tick[w].rows[i + 1]
        BY <1>2, RowFacts, NextRowFacts DEF Known, RecordHash
      <3> QED BY <3>1 DEF Ticket
    <2> QED BY <1>1, <2>1 DEF Tickets
  <1>6. /\ mishaps' = mishaps
        /\ mishaps.unrecorded \in Nat /\ mishaps.lost \in Nat
    BY DEF RecordHash, Known, Typed, TypeOK
  <1>7. CASE row.trade = t
    <2>1. Hashed(t)'
      BY <1>2, <1>3, <1>7 DEF Hashed
    <2>2. Cardinality(Submissions(t)) + Cardinality(Tickets(t))
            <= 1 + mishaps.unrecorded + mishaps.lost
      BY CountedTotal
    <2>3. /\ IsFiniteSet(Tickets(t)) /\ Cardinality(Tickets(t)) \in Nat
          /\ Cardinality(Submissions(t)) \in Nat
      BY CountsFinite
    <2>4. /\ Cardinality(Tickets(t)') \in Nat
          /\ Cardinality(Tickets(t)') <= Cardinality(Tickets(t))
      BY <1>5, <2>3, FS_Subset, FS_CardinalityType
    <2>5. Cardinality(Submissions(t)') + Cardinality(Tickets(t)')
            <= 1 + mishaps'.unrecorded + mishaps'.lost
      BY <1>4, <1>6, <2>2, <2>3, <2>4
    <2> QED BY <2>1, <2>5 DEF Counted
  <1>8. CASE row.trade # t
    <2>1. Hashed(t)' <=> Hashed(t)
      BY <1>2, <1>8 DEF Hashed
    <2>2. w \notin Sending(t)
      BY <1>8 DEF Sending
    <2>3. Sending(t) \subseteq Sending(t)'
      <3>1. Sending(t) \subseteq Worker
        BY DEF Sending
      <3> QED BY <1>1, <2>2, <3>1
    <2>4. mishaps.unrecorded <= mishaps'.unrecorded
          /\ mishaps.lost <= mishaps'.lost
      BY <1>6
    <2> QED BY <1>4, <1>5, <2>1, <2>3, <2>4, CountedFrame
  <1> QED BY <1>7, <1>8

\* Every step keeps the count of every trade.
LEMMA CountedStep ==
  ASSUME Known, Strays, Next, NEW t \in Trade, Counted(t)
  PROVE  Counted(t)'
  <1>1. Known' /\ Strays'
    BY KnownStep, StraysStep
  <1>2. ASSUME NEW w \in Worker, WorkerStep(w)
        PROVE  Counted(t)'
    BY <1>1, <1>2, CountedSubmit, CountedQuiet, CountedScan, CountedRecord
       DEF WorkerStep
  <1> QED BY <1>1, <1>2, CountedFail, CountedElsewhere DEF Next

\* What one step of a request leaves alone.
LEMMA RequestWriter ==
  ASSUME Known, NEW r \in Request, RequestStep(r)
  PROVE  \A q \in Request \ {r} : request'[q] = request[q] /\ at'[q] = at[q]
  <1> SUFFICES ASSUME NEW q \in Request \ {r}
               PROVE  request'[q] = request[q] /\ at'[q] = at[q]
    OBVIOUS
  <1>1. \E label \in RequestLabels : Goto(r, label)
    BY DEF RequestStep, FindBundle, MissBundle, ReadRecord, GatherArtifacts,
       StoreArchive, RecordBundle, AnswerBundle, ReadArchive, FailRequest,
       RequestLabels
  <1>2. request'[q] = request[q]
    BY DEF RequestStep, FindBundle, MissBundle, ReadRecord, GatherArtifacts,
       StoreArchive, RecordBundle, AnswerBundle, ReadArchive, FailRequest, api,
       Known, Typed, TypeOK
  <1>3. at'[q] = at[q]
    BY <1>1, DisjointAssumption DEF Goto, Known, Typed, TypeOK
  <1> QED BY <1>2, <1>3

\* Builds of a trade agree as long as the one request that moves does its part
\* and becomes a builder only where there is none.
LEMMA BuiltMove ==
  ASSUME Known, Next, NEW t \in Trade, BuiltOnce(t),
         bundles'[t] = bundles[t],
         bundles[t] # <<>> => archive'[t] = archive[t],
         NEW r \in Request,
         \A q \in Request \ {r} : request'[q] = request[q] /\ at'[q] = at[q],
         \A q \in Request \ {r} :
           Building(q) /\ On(q, t) /\ On(r, t)' => ~Building(r)',
         \A q \in Request \ {r} :
           at[q] = "stored" /\ On(q, t) => archive'[t] = archive[t],
         On(r, t)' =>
           /\ Building(r)' => bundles[t] = <<>>
           /\ at'[r] = "stored" => archive'[t] = request'[r].root
           /\ at'[r] \in {"known", "reading"} =>
                bundles[t] # <<>> /\ request'[r].root = Latest(t)
           /\ at'[r] = "done" => request'[r].of = {request'[r].root}
  PROVE  BuiltOnce(t)'
  <1>1. Latest(t)' = Latest(t)
    BY DEF Latest
  <1>2. \A q \in Request \ {r} : /\ Building(q)' <=> Building(q)
                                 /\ On(q, t)' <=> On(q, t)
    BY DEF Building, On
  <1>3. bundles[t] # <<>> => batch'[t].root = batch[t].root
    BY BatchStays DEF Known, BatchesKnown
  <1>4. /\ Len(bundles'[t]) <= 1
        /\ bundles'[t] # <<>> =>
             archive'[t] = Latest(t)' /\ batch'[t].root = Latest(t)'
    BY <1>1, <1>3 DEF BuiltOnce
  <1>5. ASSUME NEW q \in Request, NEW p \in Request,
               Building(q)', Building(p)', On(q, t)', On(p, t)'
        PROVE  q = p
    BY <1>2, <1>5 DEF BuiltOnce
  <1>6. ASSUME NEW q \in Request, On(q, t)'
        PROVE  /\ Building(q)' => bundles'[t] = <<>>
               /\ at'[q] = "stored" => archive'[t] = request'[q].root
               /\ at'[q] \in {"known", "reading"} =>
                    bundles'[t] # <<>> /\ request'[q].root = Latest(t)'
               /\ at'[q] = "done" => request'[q].of = {request'[q].root}
    <2>1. CASE q = r
      BY <1>1, <1>6, <2>1
    <2>2. CASE q # r
      <3>1. /\ On(q, t) /\ (Building(q)' <=> Building(q))
            /\ request'[q] = request[q] /\ at'[q] = at[q]
        BY <1>2, <1>6, <2>2
      <3>2. at[q] = "stored" => archive'[t] = archive[t]
        BY <2>2, <3>1
      <3> QED BY <1>1, <3>1, <3>2 DEF BuiltOnce
    <2> QED BY <2>1, <2>2
  <1> QED BY <1>4, <1>5, <1>6 DEF BuiltOnce

\* The steps of a request that record nothing
LEMMA BuiltRequest ==
  ASSUME Known, Next, NEW t \in Trade, BuiltOnce(t), t \notin overlapped',
         NEW r \in Request, RequestStep(r), ~RecordBundle(r)
  PROVE  BuiltOnce(t)'
  <1>1. /\ \A q \in Request \ {r} : request'[q] = request[q] /\ at'[q] = at[q]
        /\ request[r] \in RequestRow \cup {None}
        /\ RequestPlaced(r)
    BY RequestWriter DEF Known, Typed, TypeOK, RequestRow
  <1>2. bundles' = bundles
    BY DEF RequestStep, FindBundle, MissBundle, ReadRecord, GatherArtifacts,
       StoreArchive, AnswerBundle, ReadArchive, FailRequest, ledger
  <1>3. archive' = archive \/ StoreArchive(r)
    BY DEF RequestStep, FindBundle, MissBundle, ReadRecord, GatherArtifacts,
       RecordBundle, AnswerBundle, ReadArchive, FailRequest, ledger
  <1>4. ASSUME NEW u \in Trade, FindBundle(r, u) \/ ReadRecord(r, u)
        PROVE  BuiltOnce(t)'
    <2> DEFINE x == Working(u, Latest(u))
    <2>1. x.trade = u /\ x.root = Latest(u) /\ x \in RequestRow
      BY <1>4, LatestFacts DEF Working, Known, FindBundle, ReadRecord,
         RequestRow, Off, AnchorInfo
    <2>2. /\ request' = [request EXCEPT ![r] = x] /\ bundles[u] # <<>>
          /\ archive' = archive
          /\ \E label \in {"known", "reading"} : Goto(r, label)
      BY <1>4 DEF FindBundle, ReadRecord, ledger
    <2> HIDE DEF x
    <2>3. request'[r] = x /\ at'[r] \in {"known", "reading"}
      <3>1. PICK label \in {"known", "reading"} : Goto(r, label)
        BY <2>2
      <3>2. label \in RequestLabels /\ x \in RequestRow \cup {None} /\ Typed
        BY <2>1 DEF RequestLabels, Known
      <3>3. at'[r] = label /\ request'[r] = x
        BY <2>2, <3>1, <3>2, RequestMoves
      <3> QED BY <3>3
    <2>4. On(r, t)' => u = t
      BY <2>1, <2>3 DEF On
    <2>5. ~Building(r)'
      BY <2>3 DEF Building
    <2> QED BY <1>1, <1>2, <2>1, <2>2, <2>3, <2>4, <2>5, BuiltMove
  <1>5. ASSUME NEW u \in Trade, MissBundle(r, u)
        PROVE  BuiltOnce(t)'
    <2> DEFINE x == Working(u, None)
    <2>1. x.trade = u /\ x \in RequestRow
      BY DEF Working, RequestRow, Off, AnchorInfo
    <2>2. /\ request' = [request EXCEPT ![r] = x] /\ bundles[u] = <<>>
          /\ archive' = archive /\ Goto(r, "missing")
          /\ \A q \in Request \ {r} :
               Building(q) /\ request[q].trade = u => u \in overlapped'
      BY <1>5 DEF MissBundle, ledger
    <2> HIDE DEF x
    <2>3. request'[r] = x /\ at'[r] = "missing"
      BY <2>1, <2>2, RequestMoves DEF RequestLabels, Known
    <2>4. On(r, t)' => u = t
      BY <2>1, <2>3 DEF On
    <2>5. \A q \in Request \ {r} : Building(q) /\ On(q, t) => t # u
      BY <2>2 DEF On
    <2> QED BY <1>1, <1>2, <2>2, <2>3, <2>4, <2>5, BuiltMove
  <1>6. CASE GatherArtifacts(r)
    <2>1. PICK version \in 0 .. MaxVersion :
            request' = [request EXCEPT ![r].root = <<request[r].trade, version>>]
      BY <1>6 DEF GatherArtifacts
    <2>2. /\ at[r] = "missing" /\ at'[r] = "gathered" /\ archive' = archive
          /\ request'[r].trade = request[r].trade
      <3>1. at[r] = "missing" /\ Goto(r, "gathered") /\ archive' = archive
        BY <1>6 DEF GatherArtifacts, ledger
      <3>2. at'[r] = "gathered"
        BY <3>1 DEF Goto, Known, Typed, TypeOK
      <3>3. request[r] \in RequestRow
        BY <1>1, <3>1 DEF RequestPlaced
      <3>4. request'[r] = [request[r] EXCEPT !.root = <<request[r].trade, version>>]
        BY <2>1 DEF Known, Typed, TypeOK
      <3> QED BY <3>1, <3>2, <3>3, <3>4 DEF RequestRow
    <2>3. On(r, t)' => On(r, t) /\ Building(r)
      BY <2>2 DEF On, Building
    <2>4. \A q \in Request \ {r} : Building(q) /\ On(q, t) => ~On(r, t)'
      BY <2>3 DEF BuiltOnce
    <2>5. On(r, t)' => bundles[t] = <<>>
      BY <2>3 DEF BuiltOnce
    <2> QED BY <1>1, <1>2, <2>2, <2>4, <2>5, BuiltMove
  <1>7. CASE StoreArchive(r)
    <2>1. /\ at[r] = "gathered" /\ at'[r] = "stored" /\ request'[r] = request[r]
          /\ archive' = [archive EXCEPT ![request[r].trade] = request[r].root]
      <3>1. Goto(r, "stored")
        BY <1>7 DEF StoreArchive
      <3> QED BY <1>7, <3>1 DEF StoreArchive, Goto, Known, Typed, TypeOK, api
    <2>2. /\ On(r, t)' <=> On(r, t)
          /\ Building(r)
      BY <2>1 DEF On, Building
    <2>3. CASE On(r, t)
      <3>1. request[r].trade = t /\ archive'[t] = request[r].root
        BY <2>1, <2>3 DEF On, Known, Typed, TypeOK
      <3>2. bundles[t] = <<>>
        BY <2>2, <2>3 DEF BuiltOnce
      <3>3. \A q \in Request \ {r} : On(q, t) => ~Building(q)
        BY <2>2, <2>3 DEF BuiltOnce
      <3>4. \A q \in Request \ {r} : On(q, t) => at[q] # "stored"
        BY <3>3 DEF Building
      <3> QED BY <1>1, <1>2, <2>1, <3>1, <3>2, <3>3, <3>4, BuiltMove
    <2>4. CASE ~On(r, t)
      <3>1. archive'[t] = archive[t]
        BY <2>1, <2>4 DEF On, Known, Typed, TypeOK
      <3> QED BY <1>1, <1>2, <2>2, <2>4, <3>1, BuiltMove
    <2> QED BY <2>3, <2>4
  <1>8. CASE AnswerBundle(r)
    <2> DEFINE of == {bundles[request[r].trade][i] :
                        i \in DOMAIN bundles[request[r].trade]}
               x == [request[r] EXCEPT !.anchor = AnchorOf(request[r].root),
                                       !.of = of]
    <2>1. /\ at[r] = "known" /\ at'[r] = "done" /\ archive' = archive
          /\ request[r] \in RequestRow /\ request'[r] = x
      <3>1. at[r] = "known" /\ Goto(r, "done") /\ archive' = archive
        BY <1>8 DEF AnswerBundle, ledger
      <3>2. at'[r] = "done"
        BY <3>1 DEF Goto, Known, Typed, TypeOK
      <3>3. request[r] \in RequestRow
        BY <1>1, <3>1 DEF RequestPlaced
      <3>4. request'[r] = x
        BY <1>8 DEF AnswerBundle, Known, Typed, TypeOK
      <3> QED BY <3>1, <3>2, <3>3, <3>4
    <2>2. /\ x.trade = request[r].trade /\ x.root = request[r].root
          /\ x.of = of
      BY <2>1 DEF RequestRow
    <2> HIDE DEF x
    <2>3. On(r, t)' => /\ On(r, t) /\ request[r].trade = t
      BY <2>1, <2>2 DEF On
    <2>4. ASSUME On(r, t)'
          PROVE  of = {request[r].root}
      <3>1. /\ bundles[t] # <<>> /\ request[r].root = Latest(t)
            /\ Len(bundles[t]) <= 1
        BY <2>1, <2>3, <2>4 DEF BuiltOnce
      <3>2. bundles[t] \in Seq(Root)
        BY DEF Known, Typed, TypeOK
      <3>3. Len(bundles[t]) = 1 /\ DOMAIN bundles[t] = 1 .. 1
        <4>1. \A s \in Seq(Root) :
                s # <<>> /\ Len(s) <= 1 => Len(s) = 1 /\ DOMAIN s = 1 .. 1
          OBVIOUS
        <4> QED BY <3>1, <3>2, <4>1
      <3>4. of = {bundles[t][1]}
        BY <2>3, <2>4, <3>3
      <3> QED BY <3>1, <3>3, <3>4 DEF Latest
    <2> HIDE DEF of
    <2>5. ~Building(r)'
      BY <2>1 DEF Building
    <2> QED BY <1>1, <1>2, <2>1, <2>2, <2>4, <2>5, BuiltMove
  <1>9. CASE ReadArchive(r)
    <2> DEFINE x == [request[r] EXCEPT !.of = {archive[request[r].trade]}]
    <2>1. /\ at[r] = "reading" /\ at'[r] = "done" /\ archive' = archive
          /\ request[r] \in RequestRow /\ request'[r] = x
      <3>1. at[r] = "reading" /\ Goto(r, "done") /\ archive' = archive
        BY <1>9 DEF ReadArchive, ledger
      <3>2. at'[r] = "done"
        BY <3>1 DEF Goto, Known, Typed, TypeOK
      <3>3. request[r] \in RequestRow
        BY <1>1, <3>1 DEF RequestPlaced
      <3>4. request'[r] = x
        BY <1>9 DEF ReadArchive, Known, Typed, TypeOK
      <3> QED BY <3>1, <3>2, <3>3, <3>4
    <2>2. /\ x.trade = request[r].trade /\ x.root = request[r].root
          /\ x.of = {archive[request[r].trade]}
      BY <2>1 DEF RequestRow
    <2> HIDE DEF x
    <2>3. On(r, t)' => On(r, t) /\ request[r].trade = t
      BY <2>1, <2>2 DEF On
    <2>4. On(r, t)' => archive[t] = request[r].root
      BY <2>1, <2>3 DEF BuiltOnce
    <2>5. ~Building(r)'
      BY <2>1 DEF Building
    <2> QED BY <1>1, <1>2, <2>1, <2>2, <2>3, <2>4, <2>5, BuiltMove
  <1>10. CASE FailRequest(r)
    <2>1. at'[r] = "idle" /\ archive' = archive
      <3>1. Goto(r, "idle") /\ archive' = archive
        BY <1>10 DEF FailRequest, ledger
      <3> QED BY <3>1 DEF Goto, Known, Typed, TypeOK
    <2>2. ~On(r, t)'
      BY <2>1 DEF On
    <2> QED BY <1>1, <1>2, <2>1, <2>2, BuiltMove
  <1> QED BY <1>4, <1>5, <1>6, <1>7, <1>8, <1>9, <1>10 DEF RequestStep

\* Recording the bundle of the one builder
LEMMA BuiltRecord ==
  ASSUME Known, Next, NEW t \in Trade, BuiltOnce(t),
         NEW r \in Request, RecordBundle(r)
  PROVE  BuiltOnce(t)'
  <1> DEFINE u == request[r].trade
             root == request[r].root
  <1>1. \A q \in Request \ {r} : request'[q] = request[q] /\ at'[q] = at[q]
    BY RequestWriter DEF RequestStep
  <1>2. /\ u \in Trade /\ root \in Root
        /\ bundles' = [bundles EXCEPT ![u] = Append(bundles[u], root)]
        /\ batch[u] = None => batch'[u].root = root
    BY RecordFacts DEF Known
  <1>3. /\ at[r] = "stored" /\ at'[r] = "known" /\ request'[r] = request[r]
        /\ archive' = archive
    <2>1. Goto(r, "known")
      BY DEF RecordBundle
    <2> QED BY <2>1 DEF RecordBundle, Goto, Known, Typed, TypeOK, api
  <1>4. /\ On(r, t)' <=> On(r, t)
        /\ On(r, t) <=> u = t
        /\ Building(r) /\ ~Building(r)'
    BY <1>3 DEF On, Building
  <1>5. CASE u # t
    <2>1. bundles'[t] = bundles[t]
      BY <1>2, <1>5 DEF Known, Typed, TypeOK
    <2> QED BY <1>1, <1>3, <1>4, <1>5, <2>1, BuiltMove
  <1>6. CASE u = t
    <2>1. /\ bundles[t] = <<>> /\ archive[t] = root
          /\ \A q \in Request \ {r} :
               On(q, t) => /\ ~Building(q)
                           /\ at[q] \notin {"known", "reading"}
                           /\ at[q] = "done" => request[q].of = {request[q].root}
      BY <1>3, <1>4, <1>6 DEF BuiltOnce
    <2>2. batch[t] = None
      BY <2>1 DEF Known, BatchesKnown
    <2>3. bundles'[t] = <<root>>
      <3>1. bundles'[t] = Append(bundles[t], root)
        BY <1>2, <1>6 DEF Known, Typed, TypeOK
      <3> QED BY <2>1, <3>1
    <2>4. /\ Len(bundles'[t]) = 1 /\ Latest(t)' = root /\ bundles'[t] # <<>>
      BY <2>3 DEF Latest
    <2>5. archive'[t] = root /\ batch'[t].root = root
      BY <1>2, <1>3, <1>6, <2>1, <2>2
    <2>6. \A q \in Request \ {r} : /\ Building(q)' <=> Building(q)
                                   /\ On(q, t)' <=> On(q, t)
      BY <1>1 DEF Building, On
    <2>7. \A q \in Request : On(q, t)' => ~Building(q)'
      BY <1>4, <2>1, <2>6
    <2>8. ASSUME NEW q \in Request, On(q, t)'
          PROVE  /\ Building(q)' => bundles'[t] = <<>>
                 /\ at'[q] = "stored" => archive'[t] = request'[q].root
                 /\ at'[q] \in {"known", "reading"} =>
                      bundles'[t] # <<>> /\ request'[q].root = Latest(t)'
                 /\ at'[q] = "done" => request'[q].of = {request'[q].root}
      <3>1. CASE q = r
        BY <1>3, <1>4, <2>4, <3>1
      <3>2. CASE q # r
        <4>1. /\ On(q, t) /\ ~Building(q)'
              /\ request'[q] = request[q] /\ at'[q] = at[q]
          BY <1>1, <2>6, <2>7, <2>8, <3>2
        <4>2. at'[q] # "stored"
          BY <4>1 DEF Building
        <4> QED BY <2>1, <3>2, <4>1, <4>2
      <3> QED BY <3>1, <3>2
    <2> HIDE DEF u, root
    <2> QED BY <2>4, <2>5, <2>7, <2>8 DEF BuiltOnce
  <1> QED BY <1>5, <1>6

\* Every step keeps what a trade without overlapping builds has built.
LEMMA BuiltStep ==
  ASSUME Known, Next, NEW t \in Trade, BuiltOnce(t), t \notin overlapped'
  PROVE  BuiltOnce(t)'
  <1>1. CASE \E r \in Request : RequestStep(r)
    BY <1>1, BuiltRequest, BuiltRecord
  <1>2. CASE \/ \E w \in Worker : WorkerStep(w) \/ FailTick(w) \/ LoseLock(w)
             \/ Mining
    <2>1. UNCHANGED <<bundles, archive, request>>
      BY <1>2 DEF WorkerStep, BeginTick, Scan, Submit, RecordHash, AwaitReceipt,
         ReadReceipt, SettleBatch, EndTick, FailTick, LoseLock, Mining, MineStep,
         Mine, ledger, api
    <2>2. \A r \in Request : at'[r] = at[r]
      <3>1. ASSUME NEW w \in Worker, WorkerStep(w) \/ FailTick(w)
            PROVE  \A r \in Request : at'[r] = at[r]
        <4>1. \E label \in WorkerLabels : Goto(w, label)
          BY <3>1 DEF WorkerStep, BeginTick, Scan, Submit, RecordHash,
             AwaitReceipt, ReadReceipt, SettleBatch, EndTick, FailTick, NextRow,
             LeaveTick, WorkerLabels
        <4> QED BY <4>1, WorkerMoves DEF Known
      <3>2. CASE Mining \/ \E w \in Worker : LoseLock(w)
        BY <3>2 DEF Mining, MineStep, Mine, LoseLock
      <3> QED BY <1>2, <3>1, <3>2
    <2>3. bundles[t] # <<>> => batch'[t].root = batch[t].root
      BY BatchStays DEF Known, BatchesKnown
    <2>4. /\ Latest(t)' = Latest(t)
          /\ \A q \in Request : /\ Building(q)' <=> Building(q)
                                /\ On(q, t)' <=> On(q, t)
      BY <2>1, <2>2 DEF Latest, Building, On
    <2> QED BY <2>1, <2>2, <2>3, <2>4 DEF BuiltOnce
  <1> QED BY <1>1, <1>2 DEF Next
-----------------------------------------------------------------------------
(* The invariant, and what follows from it                                   *)

LEMMA InvInit == Init => Inv
  <1> SUFFICES ASSUME Init PROVE Inv
    OBVIOUS
  <1>1. Known
    BY KnownInit
  <1>2. /\ \A w \in Worker : at[w] = "idle" /\ tick[w].rows = <<>>
        /\ \A r \in Request : at[r] = "idle"
        /\ \A t \in Trade : batch[t] = None /\ bundles[t] = <<>>
        /\ chain = <<>>
        /\ mishaps = [failed |-> 0, unrecorded |-> 0, lost |-> 0, ended |-> 0]
    BY DEF Init
  <1>3. Exclusive
    BY <1>2 DEF Exclusive
  <1>4. Anchored
    BY <1>2 DEF Anchored
  <1>5. IsFiniteSet({}) /\ Cardinality({}) = 0
    BY FS_EmptySet
  <1>6. Strays
    <2>1. Active = {} /\ Active \ {jobLock} = {}
      BY <1>2 DEF Active
    <2> QED BY <1>2, <1>5, <2>1 DEF Strays
  <1>7. ASSUME NEW t \in Trade
        PROVE  Counted(t)
    <2>1. Submissions(t) = {} /\ Sending(t) = {} /\ ~Hashed(t)
      BY <1>2 DEF Submissions, Sending, Hashed
    <2> QED BY <1>2, <1>5, <2>1 DEF Counted
  <1>8. ASSUME NEW t \in Trade
        PROVE  BuiltOnce(t)
    <2>1. \A r \in Request : ~On(r, t)
      BY <1>2 DEF On
    <2> QED BY <1>2, <2>1 DEF BuiltOnce
  <1> QED BY <1>1, <1>3, <1>4, <1>6, <1>7, <1>8 DEF Inv, Known

LEMMA InvStep == Inv /\ [Next]_vars => Inv'
  <1> SUFFICES ASSUME Inv, [Next]_vars PROVE Inv'
    OBVIOUS
  <1>1. Known
    BY DEF Inv, Known
  <1>2. Known'
    BY <1>1, KnownStep
  <1>3. CASE Next
    <2>1. Exclusive' /\ Anchored' /\ Strays'
      BY <1>1, <1>3, ExclusiveStep, AnchoredStep, StraysStep DEF Inv
    <2>2. ASSUME NEW t \in Trade
          PROVE  Counted(t)'
      BY <1>1, <1>3, CountedStep DEF Inv
    <2>3. ASSUME NEW t \in Trade, t \notin overlapped'
          PROVE  BuiltOnce(t)'
      <3>1. t \notin overlapped
        <4>1. overlapped' = overlapped \/ \E u : overlapped' = overlapped \cup {u}
          BY <1>3 DEF Next, RequestStep, FindBundle, MissBundle, ReadRecord,
             GatherArtifacts, StoreArchive, RecordBundle, AnswerBundle,
             ReadArchive, FailRequest, WorkerStep, BeginTick, Scan, Submit,
             RecordHash, AwaitReceipt, ReadReceipt, SettleBatch, EndTick,
             FailTick, LoseLock, Mining, MineStep, Mine, api
        <4> QED BY <2>3, <4>1
      <3> QED BY <1>1, <1>3, <2>3, <3>1, BuiltStep DEF Inv
    <2> QED BY <1>2, <2>1, <2>2, <2>3 DEF Inv, Known
  <1>4. CASE UNCHANGED vars
    <2>1. UNCHANGED <<archive, bundles, batch, chain, jobLock, at, request, tick,
                      overlapped, mishaps>>
      BY <1>4 DEF vars, ledger, anchors, api
    <2>2. Exclusive'
      BY <2>1 DEF Inv, Exclusive, RowCurrent
    <2>3. Anchored'
      BY <2>1 DEF Inv, Anchored, TxOnChain, OnChain
    <2>4. Strays'
      BY <2>1 DEF Inv, Strays, Active
    <2>5. ASSUME NEW t \in Trade
          PROVE  Counted(t)'
      <3>1. Counted(t)
        BY DEF Inv
      <3>2. /\ Submissions(t)' = Submissions(t) /\ Sending(t)' = Sending(t)
            /\ Tickets(t)' = Tickets(t) /\ (Hashed(t)' <=> Hashed(t))
        BY <2>1 DEF Submissions, Sending, Row, Tickets, Ticket, Hashed
      <3> QED BY <2>1, <3>1, <3>2 DEF Counted
    <2>6. ASSUME NEW t \in Trade, t \notin overlapped'
          PROVE  BuiltOnce(t)'
      <3>1. BuiltOnce(t)
        BY <2>1, <2>6 DEF Inv
      <3> QED BY <2>1, <3>1 DEF BuiltOnce, Latest, Building, On
    <2> QED BY <1>2, <2>2, <2>3, <2>4, <2>5, <2>6 DEF Inv, Known
  <1> QED BY <1>3, <1>4

\* The invariant holds in every state of every behaviour, mishaps or not.
THEOREM Invariance == Spec => []Inv
  <1> QED BY InvInit, InvStep, PTL DEF Spec

\* Every variable keeps its type.
THEOREM TypeCorrect == Spec => []TypeOK
  <1>1. Inv => TypeOK
    BY DEF Inv, Typed
  <1> QED BY <1>1, Invariance, PTL

\* What a batch or an answer of getAnchor tells to be anchored is on the chain,
\* by the very transaction that is told while no lock was lost.
THEOREM AnchoredIsMined == Spec => []AnchoredIsOnChain
  <1>1. ASSUME Inv
        PROVE  AnchoredIsOnChain
    <2>1. \A t \in Trade :
            batch[t] # None /\ batch[t].status = "anchored"
              => OnChain(batch[t].root, batch[t].tx)
      BY <1>1 DEF Inv, Anchored, TxOnChain
    <2>2. ASSUME NEW r \in Request, request[r] # None,
                 request[r].anchor.status = "anchored"
          PROVE  OnChain(request[r].root, request[r].anchor.tx)
      <3>1. at[r] = "done"
        BY <1>1, <2>2 DEF Inv, Typed, RequestPlaced, Off
      <3> QED BY <1>1, <2>2, <3>1 DEF Inv, Anchored, TxOnChain
    <2> QED BY <2>1, <2>2 DEF AnchoredIsOnChain
  <1> QED BY <1>1, Invariance, PTL

\* runAnchorLoop sends a root once, and once more at most for each tick that
\* died with its hash unrecorded and each lock that was lost.
THEOREM SentOnceApart == Spec => []SentOnceButForMishaps
  <1>1. ASSUME Inv, NEW t \in Trade
        PROVE  Cardinality(Submissions(t)) <= 1 + mishaps.unrecorded + mishaps.lost
    <2>1. Known /\ Strays /\ Counted(t)
      BY <1>1 DEF Inv, Known
    <2>2. /\ Cardinality(Submissions(t)) \in Nat /\ Cardinality(Tickets(t)) \in Nat
          /\ mishaps.unrecorded \in Nat /\ mishaps.lost \in Nat
      BY <2>1, CountsFinite DEF Known, Typed, TypeOK
    <2> QED BY <2>1, <2>2, CountedTotal
  <1>2. Inv => SentOnceButForMishaps
    BY <1>1 DEF SentOnceButForMishaps
  <1> QED BY <1>2, Invariance, PTL

\* Where no two builds of a trade overlap, its archive, its record, its batch
\* and every answer are about one root (getOrBuildBundle).
THEOREM BuildsAreOne == Spec => []BuildsAgree
  <1>1. ASSUME Inv, NEW t \in Trade \ overlapped
        PROVE  /\ Len(bundles[t]) <= 1
               /\ bundles[t] # <<>> =>
                    archive[t] = Latest(t) /\ batch[t].root = Latest(t)
               /\ \A r \in Request :
                    at[r] = "done" /\ request[r].trade = t
                      => request[r].of = {request[r].root}
    <2>1. BuiltOnce(t)
      BY <1>1 DEF Inv
    <2> QED BY <2>1 DEF BuiltOnce, On
  <1>2. Inv => BuildsAgree
    BY <1>1 DEF BuildsAgree
  <1> QED BY <1>2, Invariance, PTL

\* A batch that is settled is not written again while no lock was lost: a tick
\* writes only the pending batches it has read itself.
THEOREM SettledStands == Spec => SettledIsFinal
  <1>1. ASSUME Inv, [Next]_vars, mishaps.lost = 0, NEW t \in Trade,
               batch[t] # None, batch[t].status # "pending"
        PROVE  batch'[t] = batch[t]
    <2>1. Known
      BY <1>1 DEF Inv, Known
    <2>2. CASE UNCHANGED vars
      BY <2>2 DEF vars, anchors
    <2>3. ASSUME NEW r \in Request, RecordBundle(r)
          PROVE  batch'[t] = batch[t]
      BY <1>1, <2>1, <2>3, RecordFacts DEF Known
    <2>4. ASSUME NEW w \in Worker, RecordHash(w) \/ SettleBatch(w)
          PROVE  batch'[t] = batch[t]
      <3>1. tick[w].rows # <<>>
        BY <2>1, <2>4, HashFacts, SettleFacts
      <3>2. /\ 1 \in DOMAIN tick[w].rows /\ Row(w) = tick[w].rows[1]
        BY <2>1, <3>1, RowFacts DEF Known
      <3>3. batch[Row(w).trade].status = "pending"
        BY <1>1, <3>2 DEF Inv, Exclusive, RowCurrent
      <3>4. Row(w).trade # t
        BY <1>1, <3>3
      <3> QED BY <2>1, <2>4, <3>4, HashFacts, SettleFacts
    <2>5. CASE Next
      BY <2>3, <2>4, <2>5, BatchWriter
    <2> QED BY <1>1, <2>2, <2>5
  <1>2. Inv /\ [Next]_vars =>
          [mishaps.lost = 0 =>
             \A t \in Trade :
               batch[t] # None /\ batch[t].status # "pending"
                 => batch'[t] = batch[t]]_vars
    BY <1>1
  <1> QED BY <1>2, Invariance, PTL DEF Spec, SettledIsFinal
=============================================================================
