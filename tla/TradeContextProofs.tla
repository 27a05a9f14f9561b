------------------------- MODULE TradeContextProofs -------------------------
(***************************************************************************)
(* Proofs about TradeContext, for every set of objects, trades and         *)
(* requests, and whatever the requests ask for.                            *)
(***************************************************************************)
EXTENDS TradeContext, TLAPS

(* The inductive invariant.                                                  *)

Word == {"none", "invite", "approved", "rejected", "attach", "link"}
Seen == Request \cup Status \cup {None}
Asked == [kind : Kind, input : SUBSET Id, trade : Room, word : Word,
          seen : SUBSET Seen, found : SUBSET Id]
Control == [approval : Request, recipient : Request \cup {None},
            status : {"approval_required", "approved", "rejected"}]

\* Where a request of a kind can be.
Labels == {"store", "update", "write", "report", "evaluate", "insert", "passport",
           "match", "consult", "approve", "run", "control", "decide", "target",
           "release", "attach", "find", "relate", "done", "failed"}
LabelsOf(kind) ==
  {label \in Labels :
    \/ label \in Ended
    \/ label = "store" /\ kind = "upload"
    \/ label \in {"update", "write"}
       /\ kind \in {"extract", "upload", "clearance", "trust"}
    \/ label \in {"report", "evaluate"} /\ kind = "clearance"
    \/ label = "insert" /\ kind \in {"clearance", "readiness", "pack", "bundle",
                                     "agent", "review"}
    \/ label \in {"passport", "match", "consult"} /\ kind = "trust"
    \/ label \in {"approve", "run"} /\ kind \in {"trust", "approval", "share"}
    \/ label = "control" /\ kind = "share"
    \/ label \in {"decide", "target", "release"} /\ kind = "review"
    \/ label \in {"attach", "find", "relate"} /\ kind = "attach"}

\* What a request of a kind makes, and what of it may exist when it is at a
\* label: a role is taken once.
RolesOf(kind) ==
  {role \in Role :
    \/ role = "document" /\ kind = "upload"
    \/ role = "extraction" /\ kind \in {"extract", "upload"}
    \/ role = "eval"
       /\ kind \in {"extract", "upload", "clearance", "readiness", "bundle",
                    "agent", "review"}
    \/ role = "report" /\ kind = "clearance"
    \/ role = "readiness" /\ kind \in {"clearance", "readiness", "review"}
    \/ role \in {"passport", "match"} /\ kind = "trust"
    \/ role = "approval" /\ kind \in {"trust", "approval", "share"}
    \/ role = "run" /\ kind \in {"trust", "approval", "share", "bundle",
                                 "review", "attach"}
    \/ role = "pack" /\ kind = "pack"
    \/ role = "bundle" /\ kind = "bundle"
    \/ role = "task" /\ kind \in {"agent", "review"}
    \/ role = "work" /\ kind = "agent"}

Behind(kind, label) ==
  {role \in RolesOf(kind) :
    \/ label \in Ended
    \/ role = "document" /\ label \in {"update", "write"}
    \/ role = "report" /\ label \in {"evaluate", "insert"}
    \/ role = "passport" /\ label \in {"match", "consult", "approve", "run"}
    \/ role = "match" /\ label \in {"consult", "approve", "run"}
    \/ role = "approval" /\ label \in {"run", "control"}
    \/ role = "run" /\ label = "control"
    \/ role \in {"task", "run"} /\ kind = "review" /\ label = "insert"}

Began(r) == pc[r] # "idle"

\* What a request of a kind is about, from its arrival on
InputKnown(r) ==
  LET kind == request[r].kind
      input == request[r].input
  IN /\ input \subseteq Object
     /\ kind \notin {"upload", "pack", "bundle", "agent"} =>
          \E o \in Object : input = {o}
     /\ kind = "extract" => input \subseteq Document
     /\ kind = "upload" =>
          /\ input \in {{}, {<<r, "document">>}}
          /\ pc[r] = "store" => input = {}
          /\ pc[r] \in {"update", "write"} \/ <<r, "extraction">> \in Object
               => input = {<<r, "document">>}
          /\ <<r, "document">> \in Object => input = {<<r, "document">>}
     /\ kind = "clearance" => input \subseteq Root
     /\ kind = "share" => input \subseteq ProofBundle
     /\ kind = "review" =>
          \E s \in Request : Asks(s, {"share"}) /\ input = {<<s, "approval">>}
     /\ kind = "attach" => request[r].trade \in Trade

SeenKnown(r) ==
  /\ Asks(r, {"attach"}) => request[r].seen \subseteq Status
  /\ Asks(r, {"clearance"}) => request[r].seen \subseteq Request
  /\ Asks(r, {"review"}) =>
       /\ request[r].seen \subseteq Request \cup {None}
       /\ request[r].word \in {"approved", "rejected"}

Placed(r) ==
  /\ Began(r) =>
       /\ request[r] \in Asked
       /\ pc[r] \in LabelsOf(request[r].kind)
       /\ InputKnown(r)
       /\ SeenKnown(r)
       /\ request[r].found \subseteq Object
  /\ ~Began(r) => held[r] = {}
  /\ pc[r] \in {"write", "find", "relate", "target", "release"}
       => Input(r) \in held[r]
  /\ \A role \in Role :
       <<r, role>> \in Object =>
         Began(r) /\ role \in Behind(request[r].kind, pc[r])

LocksDisjoint == \A q, r \in Request : q # r => held[q] \cap held[r] = {}

Controlled ==
  \A b \in DOMAIN control :
    /\ control[b] \in Control
    /\ Asks(control[b].approval, {"share"})
    /\ request[control[b].approval].input = {b}

\* A rival is beside every other request that runs.
RivalsBeside ==
  /\ \A q, r \in Request : q \in beside[r] => Asks(q, Rival)
  /\ \A q, r \in Running : q # r /\ Asks(q, Rival) => q \in beside[r]

Typed ==
  /\ TypeOK
  /\ pc \in [Request -> Labels \cup {"idle"}]
  /\ DOMAIN request = Request
  /\ \A r \in Request : Placed(r)
  /\ LocksDisjoint
  /\ Controlled
  /\ RivalsBeside

\* A clearance that has committed is in the evidence, and in what every other
\* that will write it has read, unless another ran beside it.
EvidenceKnown(r) ==
  Asks(r, {"clearance"}) /\ pc[r] \notin {"update", "write", "failed"} =>
    \/ \E q \in beside[r] : Asks(q, {"clearance"})
    \/ /\ r \in evidence[Input(r)]
       /\ \A q \in Request :
            /\ Asks(q, {"clearance"}) /\ pc[q] \in {"update", "write"}
            /\ Input(q) = Input(r)
            => r \in request[q].seen

\* An extraction knows the trade of its document under the document's lock; an
\* attachment of the document has found what has no trade of it.
Extracts(r) == Asks(r, {"extract", "upload"})

ExtractionKnown(r) ==
  Extracts(r) =>
    /\ pc[r] = "write" => request[r].trade = room[Input(r)]
    /\ <<r, "extraction">> \in Object =>
         \A role \in {"extraction", "eval"} :
           /\ <<r, role>> \in Object
           /\ room[<<r, role>>] = None => room[Input(r)] = None
           /\ \A q \in Request :
                /\ pc[q] = "relate" /\ Input(q) = Input(r)
                /\ room[<<r, role>>] = None
                => <<r, role>> \in request[q].found

NoDocumentFound ==
  \A q \in Request : pc[q] = "relate" =>
    \A o \in request[q].found : TypeOf(o) # "document"

\* What a record goes without a trade for
Core(r) ==
  request[r].input
  \cup (IF Asks(r, {"approval"}) THEN {<<r, "approval">>} \cap Object ELSE {})
Undisturbed(r) ==
  ~Asks(r, {"agent"}) /\ ~\E q \in beside[r] : Attaches(q)

\* What a request without an attachment beside it will insert without a trade
\* has nothing with a trade to follow, ...
Calm(r) ==
  /\ Undisturbed(r)
  /\ pc[r] \in {"write", "report", "evaluate", "insert", "passport", "match",
                "consult", "approve", "run"}
  /\ request[r].trade = None
  => \A p \in Core(r) : room[p] = None

\* ... nor has what it has inserted, ...
Follows(r) ==
  Undisturbed(r) =>
    \A role \in Role :
      <<r, role>> \in Object /\ room[<<r, role>>] = None =>
        \A p \in Core(r) : room[p] = None

\* ... and an attachment that will reach one of those has found the record.
Reached(r) ==
  Undisturbed(r) =>
    \A q \in Request \ {r} : pc[q] = "relate" =>
      \A role \in Role :
        /\ <<r, role>> \in Object /\ room[<<r, role>>] = None
        /\ Core(r) \cap (request[q].input \cup request[q].found) # {}
        => <<r, role>> \in request[q].input \cup request[q].found

\* The run of an attachment, and the readiness after a decision, have a trade;
\* the run of an approval comes after it.
Settled(r) ==
  /\ Asks(r, {"attach"}) /\ <<r, "run">> \in Object =>
       room[<<r, "run">>] # None
  /\ Asks(r, {"review"}) =>
       /\ pc[r] = "insert" => request[r].trade # None
       /\ \A role \in {"readiness", "eval"} :
            <<r, role>> \in Object => room[<<r, role>>] # None
  /\ /\ Asks(r, {"trust", "approval", "share"})
     /\ pc[r] = "run" \/ <<r, "run">> \in Object
     => <<r, "approval">> \in Object

Known ==
  /\ Typed
  /\ NoDocumentFound
  /\ \A r \in Request : Settled(r)

Inv ==
  /\ Known
  /\ ReleasedIsApproved
  /\ \A r \in Request :
       EvidenceKnown(r) /\ ExtractionKnown(r) /\ Calm(r) /\ Follows(r)
       /\ Reached(r)
-----------------------------------------------------------------------------
(* Rows and requests                                                         *)

LEMMA PutFacts ==
  ASSUME NEW new, NEW old
  PROVE  /\ DOMAIN Put(new, old) = DOMAIN new \cup DOMAIN old
         /\ \A o \in DOMAIN new : Put(new, old)[o] = new[o]
         /\ \A o \in DOMAIN old \ DOMAIN new : Put(new, old)[o] = old[o]
  BY DEF Put

\* The object a request is about
LEMMA InputFacts ==
  ASSUME Typed, NEW r \in Request, Began(r),
         request[r].kind \notin {"upload", "pack", "bundle", "agent"}
  PROVE  request[r].input = {Input(r)} /\ Input(r) \in Object
  <1>1. PICK o \in Object : request[r].input = {o}
    BY DEF Typed, Placed, InputKnown
  <1>2. Input(r) = o
    BY <1>1 DEF Input
  <1> QED BY <1>1, <1>2

\* Objects and the records of requests are told apart, and so are the records
\* of two requests.
LEMMA IdFacts ==
  ASSUME Typed
  PROVE  /\ Root \subseteq Object
         /\ \A o \in Object : o \in Root \/ o \in Request \X Role
         /\ \A r \in Request, role \in Role :
              /\ <<r, role>> \notin Root
              /\ TypeOf(<<r, role>>) = role
  BY DisjointAssumption DEF Typed, TypeOK, Id, TypeOf

\* A request learns one thing.
LEMMA LearnTrade ==
  ASSUME Typed, NEW r \in Request, request[r] \in Asked,
         NEW value \in Room, Learn(r, "trade", value)
  PROVE  /\ DOMAIN request' = Request
         /\ \A q \in Request \ {r} : request'[q] = request[q]
         /\ request'[r] \in Asked
         /\ request'[r].trade = value
         /\ request'[r].kind = request[r].kind
         /\ request'[r].input = request[r].input
         /\ request'[r].word = request[r].word
         /\ request'[r].seen = request[r].seen
         /\ request'[r].found = request[r].found
  BY DEF Learn, Typed, Asked

LEMMA LearnInput ==
  ASSUME Typed, NEW r \in Request, request[r] \in Asked,
         NEW value \in SUBSET Id, Learn(r, "input", value)
  PROVE  /\ DOMAIN request' = Request
         /\ \A q \in Request \ {r} : request'[q] = request[q]
         /\ request'[r] \in Asked
         /\ request'[r].trade = request[r].trade
         /\ request'[r].kind = request[r].kind
         /\ request'[r].input = value
         /\ request'[r].word = request[r].word
         /\ request'[r].seen = request[r].seen
         /\ request'[r].found = request[r].found
  BY DEF Learn, Typed, Asked

LEMMA LearnSeen ==
  ASSUME Typed, NEW r \in Request, request[r] \in Asked,
         NEW value \in SUBSET Seen, Learn(r, "seen", value)
  PROVE  /\ DOMAIN request' = Request
         /\ \A q \in Request \ {r} : request'[q] = request[q]
         /\ request'[r] \in Asked
         /\ request'[r].trade = request[r].trade
         /\ request'[r].kind = request[r].kind
         /\ request'[r].input = request[r].input
         /\ request'[r].word = request[r].word
         /\ request'[r].seen = value
         /\ request'[r].found = request[r].found
  BY DEF Learn, Typed, Asked

LEMMA LearnFound ==
  ASSUME Typed, NEW r \in Request, request[r] \in Asked,
         NEW value \in SUBSET Id, Learn(r, "found", value)
  PROVE  /\ DOMAIN request' = Request
         /\ \A q \in Request \ {r} : request'[q] = request[q]
         /\ request'[r] \in Asked
         /\ request'[r].trade = request[r].trade
         /\ request'[r].kind = request[r].kind
         /\ request'[r].input = request[r].input
         /\ request'[r].word = request[r].word
         /\ request'[r].seen = request[r].seen
         /\ request'[r].found = value
  BY DEF Learn, Typed, Asked

\* What an arrival chooses
Opens(kind, input, trade, word, seen, label) ==
  /\ kind \in Kind /\ input \subseteq Object /\ trade \in Room
  /\ word \in Word /\ seen \subseteq Seen
  /\ label \in {"store", "update", "insert", "approve", "decide", "attach"}
  /\ label \in LabelsOf(kind)
  /\ kind \notin {"upload", "pack", "bundle", "agent"} =>
       \E o \in Object : input = {o}
  /\ kind \in {"extract", "clearance", "trust"} => label = "update"
  /\ kind = "extract" => input \subseteq Document
  /\ kind = "upload" => input = {} /\ label = "store"
  /\ kind = "clearance" =>
       \E o \in Root : input = {o} /\ seen = evidence[o]
  /\ kind = "share" => input \subseteq ProofBundle
  /\ kind = "review" =>
       /\ label = "decide" /\ seen = {} /\ word \in {"approved", "rejected"}
       /\ \E s \in Request : Asks(s, {"share"}) /\ input = {<<s, "approval">>}
  /\ kind = "attach" => trade \in Trade /\ seen \subseteq Status
  /\ kind \in {"readiness", "pack", "bundle", "approval", "share"}
     /\ trade = None => \A p \in input : room[p] = None

LEMMA ArriveFacts ==
  ASSUME Typed, NEW r \in Request, Arrive(r)
  PROVE  /\ pc[r] = "idle"
         /\ \E kind, input, trade, word, seen, label :
              /\ Begin(r, kind, input, trade, word, seen, label)
              /\ Opens(kind, input, trade, word, seen, label)
  <1> DEFINE Some == \E kind, input, trade, word, seen, label :
                       /\ Begin(r, kind, input, trade, word, seen, label)
                       /\ Opens(kind, input, trade, word, seen, label)
  <1>1. /\ None \in Room /\ Document \subseteq Object /\ Root \subseteq Object
        /\ \A o \in Object : room[o] \in Room
        /\ \A o \in Object : StatusOf(o) \in Status
        /\ Trade \subseteq Room
        /\ \A o \in Root : evidence[o] \subseteq Seen
    BY DEF Room, Document, Typed, TypeOK, Seen
  <1>2. ASSUME BeginExtraction(r)
        PROVE  Some
    <2>1. PICK d \in Document :
            Begin(r, "extract", {d}, None, "none", {}, "update")
      BY <1>2 DEF BeginExtraction
    <2>2. Opens("extract", {d}, None, "none", {}, "update")
      BY <1>1 DEF Opens, Kind, Word, LabelsOf, Labels
    <2> QED BY <2>1, <2>2
  <1>3. ASSUME BeginUpload(r)
        PROVE  Some
    <2>1. PICK t \in Room : Begin(r, "upload", {}, t, "none", {}, "store")
      BY <1>3 DEF BeginUpload
    <2>2. Opens("upload", {}, t, "none", {}, "store")
      BY <1>1 DEF Opens, Kind, Word, LabelsOf, Labels
    <2> QED BY <2>1, <2>2
  <1>4. ASSUME BeginClearance(r)
        PROVE  Some
    <2>1. PICK o \in Root :
            Begin(r, "clearance", {o}, None, "none", evidence[o], "update")
      BY <1>4 DEF BeginClearance
    <2>2. Opens("clearance", {o}, None, "none", evidence[o], "update")
      BY <1>1 DEF Opens, Kind, Word, LabelsOf, Labels
    <2> QED BY <2>1, <2>2
  <1>5. ASSUME BeginTrust(r)
        PROVE  Some
    <2>1. PICK o \in Root, word \in {"invite", "none"} :
            Begin(r, "trust", {o}, None, word, {}, "update")
      BY <1>5 DEF BeginTrust
    <2>2. Opens("trust", {o}, None, word, {}, "update")
      BY <1>1 DEF Opens, Kind, Word, LabelsOf, Labels
    <2> QED BY <2>1, <2>2
  <1>6. ASSUME BeginReadiness(r)
        PROVE  Some
    <2>1. PICK o \in Object :
            Begin(r, "readiness", {o}, room[o], "none", {}, "insert")
      BY <1>6 DEF BeginReadiness
    <2>2. Opens("readiness", {o}, room[o], "none", {}, "insert")
      BY <1>1 DEF Opens, Kind, Word, LabelsOf, Labels
    <2> QED BY <2>1, <2>2
  <1>7. \A objects \in SUBSET Object : \A s \in Selections(objects) :
          s \subseteq Object
    BY DEF Selections
  <1>8. \A s \in SUBSET Object : \A t \in TradeOf(s) :
          t \in Room /\ (t = None => \A p \in s : room[p] = None)
    BY <1>1 DEF TradeOf
  <1>9. ASSUME BeginPack(r)
        PROVE  Some
    <2>1. PICK s \in Selections(Document \cup Extraction) : \E t \in TradeOf(s) :
            Begin(r, "pack", s, t, "none", {}, "insert")
      BY <1>9 DEF BeginPack
    <2>2. PICK t \in TradeOf(s) : Begin(r, "pack", s, t, "none", {}, "insert")
      BY <2>1
    <2>3. s \in SUBSET Object
      <3>1. Document \cup Extraction \subseteq Object
        BY DEF Document, Extraction
      <3> QED BY <1>7, <3>1
    <2>4. Opens("pack", s, t, "none", {}, "insert")
      BY <1>8, <2>3 DEF Opens, Kind, Word, LabelsOf, Labels
    <2> QED BY <2>2, <2>4
  <1>10. ASSUME BeginBundle(r)
         PROVE  Some
    <2>1. PICK s \in Selections(Object) : \E t \in TradeOf(s) :
            Begin(r, "bundle", s, t, "none", {}, "insert")
      BY <1>10 DEF BeginBundle
    <2>2. PICK t \in TradeOf(s) : Begin(r, "bundle", s, t, "none", {}, "insert")
      BY <2>1
    <2>3. Opens("bundle", s, t, "none", {}, "insert")
      BY <1>7, <1>8 DEF Opens, Kind, Word, LabelsOf, Labels
    <2> QED BY <2>2, <2>3
  <1>11. ASSUME BeginAgentTask(r)
         PROVE  Some
    <2>1. PICK s \in Selections(Object), t \in Room :
            Begin(r, "agent", s, t, "none", {}, "insert")
      BY <1>11 DEF BeginAgentTask
    <2>2. Opens("agent", s, t, "none", {}, "insert")
      BY <1>7 DEF Opens, Kind, Word, LabelsOf, Labels
    <2> QED BY <2>1, <2>2
  <1>12. ASSUME BeginApproval(r)
         PROVE  Some
    <2>1. PICK o \in Object :
            Begin(r, "approval", {o}, room[o], "none", {}, "approve")
      BY <1>12 DEF BeginApproval
    <2>2. Opens("approval", {o}, room[o], "none", {}, "approve")
      BY <1>1 DEF Opens, Kind, Word, LabelsOf, Labels
    <2> QED BY <2>1, <2>2
  <1>13. ASSUME BeginShare(r)
         PROVE  Some
    <2>1. PICK b \in ProofBundle :
            Begin(r, "share", {b}, room[b], "none", {}, "approve")
      BY <1>13 DEF BeginShare
    <2>2. b \in Object
      BY DEF ProofBundle
    <2>3. Opens("share", {b}, room[b], "none", {}, "approve")
      BY <1>1, <2>2 DEF Opens, Kind, Word, LabelsOf, Labels
    <2> QED BY <2>1, <2>3
  <1>14. ASSUME BeginReview(r)
         PROVE  Some
    <2>1. PICK s \in Request, word \in {"approved", "rejected"} :
            /\ Asks(s, {"share"}) /\ <<s, "approval">> \in Object
            /\ Begin(r, "review", {<<s, "approval">>}, None, word, {}, "decide")
      BY <1>14 DEF BeginReview
    <2>2. Opens("review", {<<s, "approval">>}, None, word, {}, "decide")
      BY <1>1, <2>1 DEF Opens, Kind, Word, LabelsOf, Labels
    <2> QED BY <2>1, <2>2
  <1>15. ASSUME BeginAttachment(r)
         PROVE  Some
    <2>1. PICK o \in Object, t \in Trade, word \in {"attach", "link"} :
            Begin(r, "attach", {o}, t, word, {StatusOf(o)}, "attach")
      BY <1>15 DEF BeginAttachment
    <2>2. Opens("attach", {o}, t, word, {StatusOf(o)}, "attach")
      BY <1>1 DEF Opens, Kind, Word, LabelsOf, Labels, Seen
    <2> QED BY <2>1, <2>2
  <1> QED
    BY <1>2, <1>3, <1>4, <1>5, <1>6, <1>9, <1>10, <1>11, <1>12, <1>13, <1>14,
       <1>15 DEF Arrive

\* What an arrival leaves behind
LEMMA BeginFacts ==
  ASSUME Typed, NEW r \in Request, pc[r] = "idle",
         NEW kind, NEW input, NEW trade, NEW word, NEW seen, NEW label,
         Begin(r, kind, input, trade, word, seen, label),
         Opens(kind, input, trade, word, seen, label)
  PROVE  /\ request'[r] \in Asked
         /\ request'[r].kind = kind /\ request'[r].input = input
         /\ request'[r].trade = trade /\ request'[r].word = word
         /\ request'[r].seen = seen /\ request'[r].found = {}
         /\ DOMAIN request' = Request
         /\ \A q \in Request \ {r} : request'[q] = request[q] /\ pc'[q] = pc[q]
         /\ pc' \in [Request -> Labels \cup {"idle"}] /\ pc'[r] = label
         /\ held' = held
         /\ UNCHANGED <<type, room, status, control, decision, evidence>>
         /\ beside' = [q \in Request |->
              IF q = r THEN {p \in Running : Asks(p, Rival)}
              ELSE IF q \in Running /\ kind \in Rival THEN beside[q] \cup {r}
              ELSE beside[q]]
  <1> DEFINE x == [kind |-> kind, input |-> input, trade |-> trade,
                   word |-> word, seen |-> seen, found |-> {}]
  <1>1. x \in Asked
    <2>1. input \subseteq Id
      BY DEF Opens, Typed, TypeOK
    <2> QED BY <2>1 DEF Opens, Asked
  <1>2. /\ x.kind = kind /\ x.input = input /\ x.trade = trade /\ x.word = word
        /\ x.seen = seen /\ x.found = {}
    OBVIOUS
  <1>3. request' = [request EXCEPT ![r] = x]
    BY DEF Begin
  <1> HIDE DEF x
  <1>4. /\ request'[r] = x /\ DOMAIN request' = Request
        /\ \A q \in Request \ {r} : request'[q] = request[q]
    BY <1>3 DEF Typed
  <1>5. /\ pc' \in [Request -> Labels \cup {"idle"}] /\ pc'[r] = label
        /\ \A q \in Request \ {r} : pc'[q] = pc[q]
    BY DEF Begin, Goto, Typed, Opens, LabelsOf
  <1> QED BY <1>1, <1>2, <1>4, <1>5 DEF Begin, rows

\* Every step of a request moves it, and leaves the others where they are with
\* what they know and hold; it asks what it asked.
Moves(r, label) ==
  /\ Began(r) /\ pc[r] \notin Ended
  /\ pc' \in [Request -> Labels \cup {"idle"}] /\ pc'[r] = label
  /\ label \in LabelsOf(request[r].kind)
  /\ \A q \in Request \ {r} : /\ pc'[q] = pc[q]
                              /\ request'[q] = request[q]
                              /\ held'[q] = held[q]
  /\ DOMAIN request' = Request
  /\ request'[r] \in Asked
  /\ request'[r].kind = request[r].kind
  /\ request'[r].word = request[r].word
  /\ type' = type /\ beside' = beside

LEMMA MovesFacts ==
  ASSUME Typed, NEW r \in Request, NEW label, Goto(r, label), label \in Labels
  PROVE  /\ pc' \in [Request -> Labels \cup {"idle"}] /\ pc'[r] = label
         /\ \A q \in Request \ {r} : pc'[q] = pc[q]
  BY DEF Goto, Typed

\* Taking and leaving rows
LEMMA TakeFacts ==
  ASSUME Typed, NEW r \in Request, NEW o \in Object, Take(r, o)
  PROVE  /\ Free(o)
         /\ held' \in [Request -> SUBSET Object]
         /\ held'[r] = held[r] \cup {o}
         /\ \A q \in Request \ {r} : held'[q] = held[q]
  BY DEF Take, Typed, TypeOK

LEMMA ReleaseFacts ==
  ASSUME Typed, NEW r \in Request, Release(r)
  PROVE  /\ held' \in [Request -> SUBSET Object]
         /\ held'[r] = {}
         /\ \A q \in Request \ {r} : held'[q] = held[q]
  BY DEF Release, Typed, TypeOK

\* What steps do to the rows that exist
Inserts(r, roles, trade) ==
  /\ Object' = Object \cup ({r} \X roles)
  /\ \A o \in Object : room'[o] = room[o]
  /\ \A role \in roles : room'[<<r, role>>] = trade

LEMMA InsertsFacts ==
  ASSUME Typed, NEW r \in Request, Began(r), NEW roles \in SUBSET Role,
         roles \cap Behind(request[r].kind, pc[r]) = {},
         NEW trade,
         room' = Put([o \in {r} \X roles |-> trade], room)
  PROVE  Inserts(r, roles, trade)
  <1> DEFINE new == [o \in {r} \X roles |-> trade]
  <1>1. DOMAIN new = {r} \X roles /\ \A role \in roles : new[<<r, role>>] = trade
    OBVIOUS
  <1>2. \A role \in roles : <<r, role>> \notin Object
    BY DEF Typed, Placed
  <1>3. Object \cap ({r} \X roles) = {}
    BY <1>2
  <1>4. room' = Put(new, room)
    OBVIOUS
  <1> HIDE DEF new
  <1>5. /\ DOMAIN Put(new, room) = DOMAIN new \cup DOMAIN room
        /\ \A o \in DOMAIN new : Put(new, room)[o] = new[o]
        /\ \A o \in DOMAIN room \ DOMAIN new : Put(new, room)[o] = room[o]
    BY PutFacts
  <1>6. /\ DOMAIN room' = {r} \X roles \cup DOMAIN room
        /\ \A o \in DOMAIN room \ ({r} \X roles) : room'[o] = room[o]
        /\ \A o \in {r} \X roles : room'[o] = new[o]
    BY <1>1, <1>4, <1>5
  <1>7. \A role \in roles : room'[<<r, role>>] = trade
    BY <1>1, <1>6
  <1> QED BY <1>3, <1>6, <1>7 DEF Inserts, Object

\* The inserting steps: what they insert, with which trade, and where they go
LEMMA InsertStep ==
  ASSUME Typed, NEW r \in Request,
         \/ CommitExtraction(r) \/ CommitDocument(r) \/ InsertReport(r)
         \/ InsertReadiness(r) \/ InsertPack(r) \/ InsertBundle(r)
         \/ InsertAgentTask(r) \/ InsertPassport(r) \/ InsertMatch(r)
         \/ InsertApproval(r) \/ InsertRun(r)
  PROVE  \E roles \in SUBSET RolesOf(request[r].kind) :
           /\ Inserts(r, roles, request[r].trade)
           /\ roles \cap Behind(request[r].kind, pc[r]) = {}
           /\ Behind(request[r].kind, pc[r]) \cup roles
                \subseteq Behind(request[r].kind, pc'[r])
  <1>1. Placed(r)
    BY DEF Typed
  <1> DEFINE Made1(roles) ==
               /\ roles \in SUBSET Role
               /\ roles \subseteq RolesOf(request[r].kind)
               /\ roles \cap Behind(request[r].kind, pc[r]) = {}
               /\ Behind(request[r].kind, pc[r]) \cup roles
                    \subseteq Behind(request[r].kind, pc'[r])
               /\ room' = Put(Made(r, roles), room)
  <1>2. ASSUME NEW roles, Made1(roles), Began(r)
        PROVE  Inserts(r, roles, request[r].trade)
    BY <1>2, InsertsFacts DEF Made
  <1>3. CASE CommitExtraction(r)
    <2>1. /\ pc[r] = "write" /\ pc'[r] = "done"
          /\ request[r].kind \in {"extract", "upload"}
      BY <1>3, MovesFacts DEF Labels, CommitExtraction, Asks
    <2>2. Made1({"extraction", "eval"})
      BY <1>3, <2>1 DEF CommitExtraction, Role, RolesOf, Behind, Ended
    <2> QED BY <1>2, <2>1, <2>2 DEF Began
  <1>4. CASE CommitDocument(r)
    <2>1. /\ pc[r] = "store" /\ pc'[r] \in {"update", "done"}
          /\ request[r].kind = "upload"
      <3>1. pc[r] = "store" /\ \E label \in {"update", "done"} : Goto(r, label)
        BY <1>4 DEF CommitDocument
      <3>2. request[r].kind = "upload"
        BY <1>1, <3>1 DEF Placed, Began, LabelsOf, Ended
      <3> QED BY <3>1, <3>2, MovesFacts DEF Labels
    <2>2. Made1({"document"})
      BY <1>4, <2>1 DEF CommitDocument, Role, RolesOf, Behind, Ended
    <2> QED BY <1>2, <2>1, <2>2 DEF Began
  <1>5. CASE InsertReport(r)
    <2>1. /\ pc[r] = "report" /\ pc'[r] = "evaluate"
          /\ request[r].kind = "clearance"
      <3>1. pc[r] = "report" /\ Goto(r, "evaluate")
        BY <1>5 DEF InsertReport, Insert
      <3>2. request[r].kind = "clearance"
        BY <1>1, <3>1 DEF Placed, Began, LabelsOf, Ended
      <3> QED BY <3>1, <3>2, MovesFacts DEF Labels
    <2>2. Made1({"report"})
      BY <1>5, <2>1 DEF InsertReport, Insert, Role, RolesOf, Behind, Ended
    <2> QED BY <1>2, <2>1, <2>2 DEF Began
  <1>6. CASE InsertReadiness(r)
    <2>1. /\ pc[r] = "insert" /\ pc'[r] = "done"
          /\ request[r].kind \in {"readiness", "clearance", "review"}
      BY <1>6, MovesFacts DEF Labels, InsertReadiness, Insert, Asks
    <2>2. Made1({"readiness", "eval"})
      BY <1>6, <2>1 DEF InsertReadiness, Insert, Role, RolesOf, Behind, Ended
    <2> QED BY <1>2, <2>1, <2>2 DEF Began
  <1>7. CASE InsertPack(r)
    <2>1. /\ pc[r] = "insert" /\ pc'[r] = "done" /\ request[r].kind = "pack"
      BY <1>7, MovesFacts DEF Labels, InsertPack, Insert, Asks
    <2>2. Made1({"pack"})
      BY <1>7, <2>1 DEF InsertPack, Insert, Role, RolesOf, Behind, Ended
    <2> QED BY <1>2, <2>1, <2>2 DEF Began
  <1>8. CASE InsertBundle(r)
    <2>1. /\ pc[r] = "insert" /\ pc'[r] = "done" /\ request[r].kind = "bundle"
      BY <1>8, MovesFacts DEF Labels, InsertBundle, Insert, Asks
    <2>2. Made1({"bundle", "run", "eval"})
      BY <1>8, <2>1 DEF InsertBundle, Insert, Role, RolesOf, Behind, Ended
    <2> QED BY <1>2, <2>1, <2>2 DEF Began
  <1>9. CASE InsertAgentTask(r)
    <2>1. /\ pc[r] = "insert" /\ pc'[r] = "done" /\ request[r].kind = "agent"
      BY <1>9, MovesFacts DEF Labels, InsertAgentTask, Insert, Asks
    <2>2. Made1({"task", "work", "eval"})
      BY <1>9, <2>1 DEF InsertAgentTask, Insert, Role, RolesOf, Behind, Ended
    <2> QED BY <1>2, <2>1, <2>2 DEF Began
  <1>10. CASE InsertPassport(r)
    <2>1. /\ pc[r] = "passport" /\ pc'[r] = "match" /\ request[r].kind = "trust"
      <3>1. pc[r] = "passport" /\ Goto(r, "match")
        BY <1>10 DEF InsertPassport, Insert
      <3>2. request[r].kind = "trust"
        BY <1>1, <3>1 DEF Placed, Began, LabelsOf, Ended
      <3> QED BY <3>1, <3>2, MovesFacts DEF Labels
    <2>2. Made1({"passport"})
      BY <1>10, <2>1 DEF InsertPassport, Insert, Role, RolesOf, Behind, Ended
    <2> QED BY <1>2, <2>1, <2>2 DEF Began
  <1>11. CASE InsertMatch(r)
    <2>1. /\ pc[r] = "match" /\ pc'[r] \in {"consult", "done"}
          /\ request[r].kind = "trust"
      <3>1. /\ pc[r] = "match"
            /\ \E label \in {"consult", "done"} : Goto(r, label)
        BY <1>11 DEF InsertMatch, Insert
      <3>2. request[r].kind = "trust"
        BY <1>1, <3>1 DEF Placed, Began, LabelsOf, Ended
      <3> QED BY <3>1, <3>2, MovesFacts DEF Labels
    <2>2. Made1({"match"})
      BY <1>11, <2>1 DEF InsertMatch, Insert, Role, RolesOf, Behind, Ended
    <2> QED BY <1>2, <2>1, <2>2 DEF Began
  <1>12. CASE InsertApproval(r)
    <2>1. /\ pc[r] = "approve" /\ pc'[r] = "run"
          /\ request[r].kind \in {"trust", "approval", "share"}
      <3>1. pc[r] = "approve" /\ Goto(r, "run")
        BY <1>12 DEF InsertApproval
      <3>2. request[r].kind \in {"trust", "approval", "share"}
        BY <1>1, <3>1 DEF Placed, Began, LabelsOf, Ended
      <3> QED BY <3>1, <3>2, MovesFacts DEF Labels
    <2>2. Made1({"approval"})
      BY <1>12, <2>1 DEF InsertApproval, Role, RolesOf, Behind, Ended
    <2> QED BY <1>2, <2>1, <2>2 DEF Began
  <1>13. CASE InsertRun(r)
    <2>1. /\ pc[r] = "run" /\ pc'[r] \in {"control", "done"}
          /\ request[r].kind \in {"trust", "approval", "share"}
          /\ pc'[r] = "control" => request[r].kind = "share"
      <3>1. /\ pc[r] = "run"
            /\ \/ Goto(r, "control") /\ request[r].kind = "share"
               \/ Goto(r, "done")
        BY <1>13 DEF InsertRun, Insert, Asks
      <3>2. request[r].kind \in {"trust", "approval", "share"}
        BY <1>1, <3>1 DEF Placed, Began, LabelsOf, Ended
      <3> QED BY <3>1, <3>2, MovesFacts DEF Labels
    <2>2. Made1({"run"})
      BY <1>13, <2>1 DEF InsertRun, Insert, Role, RolesOf, Behind, Ended
    <2> QED BY <1>2, <2>1, <2>2 DEF Began
  <1> QED BY <1>3, <1>4, <1>5, <1>6, <1>7, <1>8, <1>9, <1>10, <1>11, <1>12,
             <1>13

\* A label tells what is asked there.
LEMMA LabelFacts ==
  ASSUME Typed, NEW r \in Request, Began(r)
  PROVE  /\ pc[r] \in LabelsOf(request[r].kind) /\ pc[r] \in Labels
         /\ request[r] \in Asked
         /\ pc[r] = "store" => request[r].kind = "upload"
         /\ pc[r] \in {"update", "write"} =>
              request[r].kind \in {"extract", "upload", "clearance", "trust"}
         /\ pc[r] \in {"report", "evaluate"} => request[r].kind = "clearance"
         /\ pc[r] \in {"passport", "match", "consult"} => request[r].kind = "trust"
         /\ pc[r] \in {"approve", "run"} =>
              request[r].kind \in {"trust", "approval", "share"}
         /\ pc[r] = "control" => request[r].kind = "share"
         /\ pc[r] \in {"decide", "target", "release"} => request[r].kind = "review"
         /\ pc[r] \in {"attach", "find", "relate"} => request[r].kind = "attach"
  <1>1. Placed(r)
    BY DEF Typed
  <1> QED BY <1>1 DEF Placed, LabelsOf, Ended

\* A request keeps what it knows, and goes on to a label of its kind.
LEMMA KeepMoves ==
  ASSUME Typed, NEW r \in Request, Began(r), pc[r] \notin Ended,
         NEW label \in LabelsOf(request[r].kind), Goto(r, label),
         request' = request, type' = type, beside' = beside,
         \A q \in Request \ {r} : held'[q] = held[q]
  PROVE  Moves(r, label)
  <1>1. request[r] \in Asked /\ label \in Labels
    BY LabelFacts DEF LabelsOf
  <1> QED BY <1>1, MovesFacts DEF Moves, Typed

LEMMA UpdateMoves ==
  ASSUME Typed, NEW r \in Request, Update(r)
  PROVE  /\ Moves(r, "write")
         /\ request[r].input = {Input(r)} /\ Input(r) \in Object
         /\ request'[r].input = request[r].input
         /\ request'[r].seen = request[r].seen
         /\ request'[r].found = request[r].found
         /\ request'[r].trade = room[Input(r)]
         /\ Free(Input(r)) /\ held' \in [Request -> SUBSET Object]
         /\ held'[r] = held[r] \cup {Input(r)}
         /\ room' = room
  <1>1. /\ Began(r) /\ pc[r] = "update" /\ pc[r] \notin Ended
        /\ Goto(r, "write") /\ Take(r, Input(r))
        /\ Learn(r, "trade", room[Input(r)])
        /\ type' = type /\ beside' = beside /\ room' = room
    BY DEF Update, Began, Ended, rows
  <1>2. /\ request[r] \in Asked
        /\ request[r].kind \in {"extract", "upload", "clearance", "trust"}
    BY <1>1, LabelFacts
  <1>3. "write" \in LabelsOf(request[r].kind) /\ "write" \in Labels
    BY <1>2 DEF LabelsOf, Labels
  <1>4. request[r].input = {Input(r)} /\ Input(r) \in Object
    <2>1. CASE request[r].kind = "upload"
      <3>1. request[r].input = {<<r, "document">>} /\ request[r].input \subseteq Object
        BY <1>1, <2>1 DEF Typed, Placed, InputKnown
      <3> QED BY <3>1 DEF Input
    <2> QED BY <1>1, <1>2, <2>1, InputFacts
  <1>5. room[Input(r)] \in Room
    BY <1>4 DEF Typed, TypeOK
  <1>6. /\ DOMAIN request' = Request /\ request'[r] \in Asked
        /\ \A q \in Request \ {r} : request'[q] = request[q]
        /\ request'[r].input = request[r].input
        /\ request'[r].kind = request[r].kind
        /\ request'[r].word = request[r].word
        /\ request'[r].seen = request[r].seen
        /\ request'[r].found = request[r].found
        /\ request'[r].trade = room[Input(r)]
    BY <1>1, <1>2, <1>5, LearnTrade
  <1>7. /\ Free(Input(r)) /\ held' \in [Request -> SUBSET Object]
        /\ held'[r] = held[r] \cup {Input(r)}
        /\ \A q \in Request \ {r} : held'[q] = held[q]
    BY <1>1, <1>4, TakeFacts
  <1> QED BY <1>1, <1>3, <1>4, <1>6, <1>7, MovesFacts DEF Moves

\* The request that knows its document by now
LEMMA DocumentMoves ==
  ASSUME Typed, NEW r \in Request, CommitDocument(r)
  PROVE  /\ pc[r] = "store" /\ request[r].kind = "upload"
         /\ \E label \in {"update", "done"} : Moves(r, label)
         /\ request'[r].input = {<<r, "document">>}
         /\ request'[r].trade = request[r].trade
         /\ request'[r].seen = request[r].seen
         /\ request'[r].found = request[r].found
         /\ held' = held
  <1>1. /\ Began(r) /\ pc[r] = "store" /\ pc[r] \notin Ended
        /\ Learn(r, "input", {<<r, "document">>})
        /\ type' = type /\ beside' = beside /\ held' = held
    BY DEF CommitDocument, Began, Ended
  <1>2. request[r] \in Asked /\ request[r].kind = "upload"
    BY <1>1, LabelFacts
  <1>3. {<<r, "document">>} \in SUBSET Id
    BY DEF Id, Role
  <1>4. /\ DOMAIN request' = Request /\ request'[r] \in Asked
        /\ \A q \in Request \ {r} : request'[q] = request[q]
        /\ request'[r].input = {<<r, "document">>}
        /\ request'[r].kind = request[r].kind
        /\ request'[r].word = request[r].word
        /\ request'[r].seen = request[r].seen
        /\ request'[r].found = request[r].found
        /\ request'[r].trade = request[r].trade
    BY <1>1, <1>2, <1>3, LearnInput
  <1>5. PICK label \in {"update", "done"} : Goto(r, label)
    BY DEF CommitDocument
  <1>6. label \in LabelsOf(request[r].kind) /\ label \in Labels
    BY <1>2, <1>5 DEF LabelsOf, Labels, Ended
  <1> QED BY <1>1, <1>2, <1>4, <1>5, <1>6, MovesFacts DEF Moves

\* The reads of a trade outside a transaction that locks
LEMMA ReadMoves ==
  ASSUME Typed, NEW r \in Request, ReadEvaluated(r) \/ ReadInvited(r)
  PROVE  /\ \/ ReadEvaluated(r) /\ Moves(r, "insert")
            \/ ReadInvited(r) /\ Moves(r, "approve")
         /\ request[r].input = {Input(r)} /\ Input(r) \in Object
         /\ request'[r].input = request[r].input
         /\ request'[r].seen = request[r].seen
         /\ request'[r].found = request[r].found
         /\ request'[r].trade = room[Input(r)]
            \/ (request[r].trade # None /\ request'[r].trade = request[r].trade)
         /\ held' = held /\ room' = room
         /\ request[r].kind \in {"clearance", "trust"}
  <1>1. /\ Began(r) /\ pc[r] \in {"evaluate", "consult"} /\ pc[r] \notin Ended
        /\ type' = type /\ beside' = beside /\ held' = held /\ room' = room
    BY DEF ReadEvaluated, ReadInvited, Began, Ended, rows
  <1>2. request[r] \in Asked /\ request[r].kind \in {"clearance", "trust"}
    BY <1>1, LabelFacts
  <1>3. request[r].input = {Input(r)} /\ Input(r) \in Object
    BY <1>1, <1>2, InputFacts
  <1>4. room[Input(r)] \in Room /\ request[r].trade \in Room
    BY <1>2, <1>3 DEF Typed, TypeOK, Asked
  <1> DEFINE value == IF ReadEvaluated(r) /\ request[r].trade # None
                      THEN request[r].trade ELSE room[Input(r)]
  <1>5. Learn(r, "trade", value)
    BY DEF ReadEvaluated, ReadInvited
  <1>6. /\ value \in Room
        /\ value = room[Input(r)] \/ (request[r].trade # None /\ value = request[r].trade)
    BY <1>4
  <1> HIDE DEF value
  <1>7. /\ DOMAIN request' = Request /\ request'[r] \in Asked
        /\ \A q \in Request \ {r} : request'[q] = request[q]
        /\ request'[r].input = request[r].input
        /\ request'[r].kind = request[r].kind
        /\ request'[r].word = request[r].word
        /\ request'[r].seen = request[r].seen
        /\ request'[r].found = request[r].found
        /\ request'[r].trade = value
    BY <1>2, <1>5, <1>6, LearnTrade
  <1>8. CASE ReadEvaluated(r)
    <2>1. pc[r] = "evaluate" /\ Goto(r, "insert")
      BY <1>8 DEF ReadEvaluated
    <2>2. request[r].kind = "clearance"
      BY <1>1, <2>1, LabelFacts
    <2>3. "insert" \in LabelsOf(request[r].kind) /\ "insert" \in Labels
      BY <2>2 DEF LabelsOf, Labels
    <2>4. Moves(r, "insert")
      BY <1>1, <1>7, <2>1, <2>3, MovesFacts DEF Moves
    <2> QED BY <1>1, <1>2, <1>3, <1>6, <1>7, <1>8, <2>4
  <1>9. CASE ReadInvited(r)
    <2>1. pc[r] = "consult" /\ Goto(r, "approve")
      BY <1>9 DEF ReadInvited
    <2>2. request[r].kind = "trust"
      BY <1>1, <2>1, LabelFacts
    <2>3. "approve" \in LabelsOf(request[r].kind) /\ "approve" \in Labels
      BY <2>2 DEF LabelsOf, Labels
    <2>4. Moves(r, "approve")
      BY <1>1, <1>7, <2>1, <2>3, MovesFacts DEF Moves
    <2> QED BY <1>1, <1>2, <1>3, <1>6, <1>7, <1>9, <2>4
  <1> QED BY <1>8, <1>9

\* The request to share that a review is about, and its bundle
LEMMA ReviewFacts ==
  ASSUME Typed, NEW r \in Request, Asks(r, {"review"})
  PROVE  /\ Decided(r) \in Request /\ Asks(Decided(r), {"share"})
         /\ Input(r) = <<Decided(r), "approval">>
         /\ request[r].input = {Input(r)} /\ Input(r) \in Object
         /\ Bundle(r) \in ProofBundle /\ Bundle(r) \in Object
         /\ request[Decided(r)].input = {Bundle(r)}
  <1>1. Began(r) /\ request[r].kind = "review"
    BY DEF Asks, Began
  <1>2. request[r].input = {Input(r)} /\ Input(r) \in Object
    BY <1>1, InputFacts
  <1>3. PICK s \in Request : /\ Asks(s, {"share"})
                             /\ request[r].input = {<<s, "approval">>}
    BY <1>1 DEF Typed, Placed, InputKnown
  <1>4. Input(r) = <<s, "approval">>
    BY <1>2, <1>3
  <1>5. Decided(r) = s
    BY <1>4 DEF Decided
  <1>6. Began(s) /\ request[s].kind = "share"
    BY <1>3 DEF Asks, Began
  <1>7. request[s].input = {Input(s)} /\ request[s].input \subseteq ProofBundle
    BY <1>6, InputFacts DEF Typed, Placed, InputKnown
  <1>8. Bundle(r) = Input(s)
    BY <1>5 DEF Bundle
  <1> QED BY <1>2, <1>3, <1>4, <1>5, <1>7, <1>8 DEF ProofBundle

LEMMA ReadBundleMoves ==
  ASSUME Typed, NEW r \in Request, ReadBundle(r)
  PROVE  /\ Moves(r, "release")
         /\ request'[r].input = request[r].input
         /\ request'[r].trade = request[r].trade
         /\ request'[r].seen \subseteq Request \cup {None}
         /\ request'[r].found = request[r].found
         /\ held' = held /\ room' = room
  <1>1. /\ Began(r) /\ pc[r] = "target" /\ pc[r] \notin Ended
        /\ Goto(r, "release")
        /\ type' = type /\ beside' = beside /\ held' = held /\ room' = room
    BY DEF ReadBundle, Began, Ended, rows
  <1>2. request[r] \in Asked /\ request[r].kind = "review"
    BY <1>1, LabelFacts
  <1>3. "release" \in LabelsOf(request[r].kind) /\ "release" \in Labels
    BY <1>2 DEF LabelsOf, Labels
  <1> DEFINE value == {control[b].recipient : b \in {Bundle(r)} \cap DOMAIN control}
  <1>4. Learn(r, "seen", value)
    BY DEF ReadBundle
  <1>5. value \subseteq Request \cup {None}
    BY DEF Typed, Controlled, Control
  <1>6. value \in SUBSET Seen
    BY <1>5 DEF Seen
  <1> HIDE DEF value
  <1>7. /\ DOMAIN request' = Request /\ request'[r] \in Asked
        /\ \A q \in Request \ {r} : request'[q] = request[q]
        /\ request'[r].input = request[r].input
        /\ request'[r].kind = request[r].kind
        /\ request'[r].word = request[r].word
        /\ request'[r].seen = value
        /\ request'[r].found = request[r].found
        /\ request'[r].trade = request[r].trade
    BY <1>2, <1>4, <1>6, LearnSeen
  <1> QED BY <1>1, <1>3, <1>5, <1>7, MovesFacts DEF Moves

LEMMA ReviewMoves ==
  ASSUME Typed, NEW r \in Request, CommitReview(r)
  PROVE  /\ Asks(r, {"review"}) /\ pc[r] = "release"
         /\ \/ Moves(r, "done") /\ Affected(r) = None
            \/ Moves(r, "insert") /\ Affected(r) # None
         /\ request'[r].input = request[r].input
         /\ request'[r].trade = Affected(r)
         /\ request'[r].seen = request[r].seen
         /\ request'[r].found = request[r].found
         /\ held' \in [Request -> SUBSET Object] /\ held'[r] = {}
         /\ room' = room \/ Inserts(r, {"task", "run"}, Affected(r))
         /\ Affected(r) \in Room
         /\ Affected(r) = None => room[Input(r)] = None
  <1>1. /\ Began(r) /\ pc[r] = "release" /\ pc[r] \notin Ended
        /\ Learn(r, "trade", Affected(r)) /\ Release(r)
        /\ Goto(r, IF Affected(r) = None THEN "done" ELSE "insert")
        /\ type' = type /\ beside' = beside
    BY DEF CommitReview, EndReview, Began, Ended
  <1>2. request[r] \in Asked /\ request[r].kind = "review" /\ Asks(r, {"review"})
    BY <1>1, LabelFacts DEF Asks
  <1>3. /\ "done" \in LabelsOf(request[r].kind) /\ "done" \in Labels
        /\ "insert" \in LabelsOf(request[r].kind) /\ "insert" \in Labels
    BY <1>2 DEF LabelsOf, Labels, Ended
  <1>4. Affected(r) \in Room
    BY <1>2, ReviewFacts DEF Affected, Typed, TypeOK
  <1>5. /\ DOMAIN request' = Request /\ request'[r] \in Asked
        /\ \A q \in Request \ {r} : request'[q] = request[q]
        /\ request'[r].input = request[r].input
        /\ request'[r].kind = request[r].kind
        /\ request'[r].word = request[r].word
        /\ request'[r].seen = request[r].seen
        /\ request'[r].found = request[r].found
        /\ request'[r].trade = Affected(r)
    BY <1>1, <1>2, <1>4, LearnTrade
  <1>6. /\ held' \in [Request -> SUBSET Object] /\ held'[r] = {}
        /\ \A q \in Request \ {r} : held'[q] = held[q]
    BY <1>1, ReleaseFacts
  <1>7. room' = room \/ Inserts(r, {"task", "run"}, Affected(r))
    <2>1. CASE request[r].word = "approved"
      <3>1. room' = Put([o \in {r} \X {"task", "run"} |-> Affected(r)], room)
        BY <2>1 DEF CommitReview, EndReview
      <3>2. /\ {"task", "run"} \in SUBSET Role
            /\ {"task", "run"} \cap Behind(request[r].kind, pc[r]) = {}
        BY <1>1, <1>2 DEF Role, Behind, Ended
      <3> QED BY <1>1, <3>1, <3>2, InsertsFacts
    <2>2. CASE request[r].word # "approved"
      BY <2>2 DEF CommitReview, EndReview
    <2> QED BY <2>1, <2>2
  <1>8. \/ Moves(r, "done") /\ Affected(r) = None
        \/ Moves(r, "insert") /\ Affected(r) # None
    <2>1. CASE Affected(r) = None
      <3>1. Goto(r, "done")
        BY <1>1, <2>1
      <3> QED BY <1>1, <1>3, <1>5, <1>6, <2>1, <3>1, MovesFacts DEF Moves
    <2>2. CASE Affected(r) # None
      <3>1. Goto(r, "insert")
        BY <1>1, <2>2
      <3> QED BY <1>1, <1>3, <1>5, <1>6, <2>2, <3>1, MovesFacts DEF Moves
    <2> QED BY <2>1, <2>2
  <1>9. Affected(r) = None => room[Input(r)] = None
    BY DEF Affected
  <1> QED BY <1>1, <1>2, <1>4, <1>5, <1>6, <1>7, <1>8, <1>9

\* What was derived from an object: records without a trade, all those that
\* refer to it or to one another.
LEMMA DerivedFacts ==
  ASSUME NEW o
  PROVE  /\ Derived(o) \subseteq Unplaced(o)
         /\ \A c \in Unplaced(o) :
              Refs(c) \cap (Derived(o) \cup {o}) # {} => c \in Derived(o)
         /\ \A c \in Derived(o) : Refs(c) # {}
  <1>1. Derived(o) \subseteq Unplaced(o)
    BY DEF Derived
  <1>2. ASSUME NEW c \in Unplaced(o), Refs(c) \cap (Derived(o) \cup {o}) # {}
        PROVE  c \in Derived(o)
    <2> SUFFICES ASSUME NEW s \in SUBSET Unplaced(o), Closed(s, o)
                 PROVE  c \in s
      BY DEF Derived
    <2>1. Derived(o) \subseteq s
      BY DEF Derived
    <2>2. Refs(c) \cap (s \cup {o}) # {}
      BY <1>2, <2>1
    <2> QED BY <2>2 DEF Closed
  <1>3. ASSUME NEW c \in Derived(o)
        PROVE  Refs(c) # {}
    <2> DEFINE s == {e \in Unplaced(o) : Refs(e) # {}}
    <2>1. Closed(s, o) /\ s \in SUBSET Unplaced(o)
      BY DEF Closed
    <2>2. c \in s
      BY <1>3, <2>1 DEF Derived
    <2> QED BY <2>2
  <1> QED BY <1>1, <1>2, <1>3

LEMMA FindMoves ==
  ASSUME Typed, NEW r \in Request, FindDerived(r)
  PROVE  /\ Moves(r, "relate")
         /\ request[r].input = {Input(r)} /\ Input(r) \in Object
         /\ request'[r].input = request[r].input
         /\ request'[r].trade = request[r].trade
         /\ request'[r].seen = request[r].seen
         /\ request'[r].found = Derived(Input(r))
         /\ request'[r].found \subseteq Object
         /\ held' = held /\ room' = room
  <1>1. /\ Began(r) /\ pc[r] = "find" /\ pc[r] \notin Ended
        /\ Goto(r, "relate") /\ Learn(r, "found", Derived(Input(r)))
        /\ type' = type /\ beside' = beside /\ held' = held /\ room' = room
    BY DEF FindDerived, Began, Ended, rows
  <1>2. request[r] \in Asked /\ request[r].kind = "attach"
    BY <1>1, LabelFacts
  <1>3. request[r].input = {Input(r)} /\ Input(r) \in Object
    BY <1>1, <1>2, InputFacts
  <1>4. "relate" \in LabelsOf(request[r].kind) /\ "relate" \in Labels
    BY <1>2 DEF LabelsOf, Labels
  <1>5. Derived(Input(r)) \subseteq Object
    BY DerivedFacts DEF Unplaced
  <1>6. Derived(Input(r)) \in SUBSET Id
    BY <1>5 DEF Typed, TypeOK
  <1>7. /\ DOMAIN request' = Request /\ request'[r] \in Asked
        /\ \A q \in Request \ {r} : request'[q] = request[q]
        /\ request'[r].input = request[r].input
        /\ request'[r].kind = request[r].kind
        /\ request'[r].word = request[r].word
        /\ request'[r].seen = request[r].seen
        /\ request'[r].found = Derived(Input(r))
        /\ request'[r].trade = request[r].trade
    BY <1>1, <1>2, <1>6, LearnFound
  <1> QED BY <1>1, <1>3, <1>4, <1>5, <1>7, MovesFacts DEF Moves

\* An attachment gives its trade to its object and to what it found without
\* one, and records its run.
LEMMA AttachMoves ==
  ASSUME Typed, NEW r \in Request, CommitAttachment(r)
  PROVE  /\ Asks(r, {"attach"}) /\ pc[r] = "relate"
         /\ Moves(r, "done") /\ request' = request
         /\ request[r].input = {Input(r)} /\ Input(r) \in Object
         /\ request[r].trade \in Trade
         /\ request[r].found \subseteq held[r]
         /\ held' \in [Request -> SUBSET Object] /\ held'[r] = {}
         /\ Object' = Object \cup {<<r, "run">>} /\ <<r, "run">> \notin Object
         /\ room'[<<r, "run">>] = request[r].trade
         /\ \A o \in Object :
              room'[o] = IF \/ o = Input(r)
                            \/ o \in request[r].found /\ room[o] = None
                         THEN request[r].trade ELSE room[o]
  <1>1. /\ Began(r) /\ pc[r] = "relate" /\ pc[r] \notin Ended
        /\ Goto(r, "done") /\ Release(r) /\ request[r].found \subseteq held[r]
        /\ type' = type /\ beside' = beside /\ request' = request
        /\ room' = Put(Made(r, {"run"}), Put(Attached(r), room))
    BY DEF CommitAttachment, Began, Ended
  <1>2. request[r] \in Asked /\ request[r].kind = "attach"
    BY <1>1, LabelFacts
  <1>3. /\ request[r].input = {Input(r)} /\ Input(r) \in Object
        /\ request[r].trade \in Trade /\ request[r].found \subseteq Object
    BY <1>1, <1>2, InputFacts DEF Typed, Placed, InputKnown
  <1>4. "done" \in LabelsOf(request[r].kind)
    BY <1>2 DEF LabelsOf, Labels, Ended
  <1>5. /\ held' \in [Request -> SUBSET Object] /\ held'[r] = {}
        /\ \A q \in Request \ {r} : held'[q] = held[q]
    BY <1>1, ReleaseFacts
  <1>6. Moves(r, "done")
    BY <1>1, <1>4, <1>5, KeepMoves
  <1>7. <<r, "run">> \notin Object
    <2>1. "run" \in Role /\ "run" \notin Behind(request[r].kind, pc[r])
      BY <1>1, <1>2 DEF Role, Behind, Ended
    <2> QED BY <2>1 DEF Typed, Placed
  <1> DEFINE old == Put(Attached(r), room)
             new == Made(r, {"run"})
             taken == {Input(r)} \cup Receivers(r)
  <1>8. /\ DOMAIN Attached(r) = taken
        /\ \A o \in taken : Attached(r)[o] = request[r].trade
    BY <1>3 DEF Attached
  <1>9. taken \subseteq Object
    BY <1>3 DEF Receivers
  <1>10. /\ DOMAIN old = DOMAIN Attached(r) \cup DOMAIN room
         /\ \A o \in DOMAIN Attached(r) : old[o] = Attached(r)[o]
         /\ \A o \in DOMAIN room \ DOMAIN Attached(r) : old[o] = room[o]
    BY PutFacts
  <1>11. DOMAIN new = {<<r, "run">>} /\ new[<<r, "run">>] = request[r].trade
    BY DEF Made
  <1>12. room' = Put(new, old)
    BY <1>1
  <1> HIDE DEF old, new
  <1>13. /\ DOMAIN Put(new, old) = DOMAIN new \cup DOMAIN old
         /\ \A o \in DOMAIN new : Put(new, old)[o] = new[o]
         /\ \A o \in DOMAIN old \ DOMAIN new : Put(new, old)[o] = old[o]
    BY PutFacts
  <1>14. DOMAIN old = Object
    BY <1>8, <1>9, <1>10 DEF Object
  <1>15. /\ Object' = Object \cup {<<r, "run">>}
         /\ room'[<<r, "run">>] = request[r].trade
         /\ \A o \in Object : room'[o] = old[o]
    BY <1>7, <1>11, <1>12, <1>13, <1>14 DEF Object
  <1>16. \A o \in Object :
           old[o] = IF o \in taken THEN request[r].trade ELSE room[o]
    BY <1>8, <1>9, <1>10 DEF Object
  <1>17. \A o \in Object :
           o \in taken <=> \/ o = Input(r)
                           \/ o \in request[r].found /\ room[o] = None
    BY DEF Receivers
  <1> HIDE DEF taken
  <1>18. \A o \in Object :
           room'[o] = IF \/ o = Input(r)
                         \/ o \in request[r].found /\ room[o] = None
                      THEN request[r].trade ELSE room[o]
    BY <1>15, <1>16, <1>17
  <1> QED BY <1>1, <1>2, <1>3, <1>5, <1>6, <1>7, <1>15, <1>18 DEF Asks, Began

\* The steps that commit, or give up, and leave their rows
LEMMA LeaveMoves ==
  ASSUME Typed, NEW r \in Request,
         \/ CommitExtraction(r) \/ CommitClearance(r) \/ CommitTrust(r)
         \/ Rollback(r)
  PROVE  /\ Moves(r, pc'[r]) /\ pc'[r] \in {"done", "report", "passport", "failed"}
         /\ request' = request
         /\ held' \in [Request -> SUBSET Object] /\ held'[r] = {}
         /\ pc'[r] \in Ended \/ pc[r] = "write"
  <1>1. /\ Began(r) /\ pc[r] \notin Ended /\ Release(r)
        /\ request' = request /\ type' = type /\ beside' = beside
    BY DEF CommitExtraction, CommitClearance, CommitTrust, Rollback, Began,
           Ended, Running, rows
  <1>2. PICK label \in {"done", "report", "passport", "failed"} :
          /\ Goto(r, label)
          /\ label \in Ended \/ pc[r] = "write"
          /\ label = "report" => request[r].kind = "clearance"
          /\ label = "passport" => request[r].kind = "trust"
    BY DEF CommitExtraction, CommitClearance, CommitTrust, Rollback, Asks,
           Ended
  <1>3. label \in LabelsOf(request[r].kind) /\ label \in Labels
    BY <1>1, <1>2, LabelFacts DEF LabelsOf, Labels, Ended
  <1>4. /\ held' \in [Request -> SUBSET Object] /\ held'[r] = {}
        /\ \A q \in Request \ {r} : held'[q] = held[q]
    BY <1>1, ReleaseFacts
  <1>5. Moves(r, label) /\ pc'[r] = label
    BY <1>1, <1>2, <1>3, <1>4, KeepMoves, MovesFacts
  <1> QED BY <1>1, <1>2, <1>4, <1>5

\* The steps that insert, or show a bundle, and hold what they held
LEMMA StayMoves ==
  ASSUME Typed, NEW r \in Request,
         \/ InsertReport(r) \/ InsertReadiness(r) \/ InsertPack(r)
         \/ InsertBundle(r) \/ InsertAgentTask(r) \/ InsertPassport(r)
         \/ InsertMatch(r) \/ InsertApproval(r) \/ InsertRun(r)
         \/ CommitShare(r)
  PROVE  /\ Moves(r, pc'[r])
         /\ pc'[r] \in {"evaluate", "match", "consult", "run", "control", "done"}
         /\ request' = request /\ held' = held
  <1>1. /\ Began(r) /\ pc[r] \notin Ended /\ held' = held
        /\ request' = request /\ type' = type /\ beside' = beside
    BY DEF InsertReport, InsertReadiness, InsertPack, InsertBundle,
           InsertAgentTask, InsertPassport, InsertMatch, InsertApproval,
           InsertRun, CommitShare, Insert, Began, Ended
  <1>2. PICK label \in {"evaluate", "match", "consult", "run", "control", "done"} :
          /\ Goto(r, label)
          /\ label = "evaluate" => pc[r] = "report"
          /\ label \in {"match", "consult"} => pc[r] \in {"passport", "match"}
          /\ label = "run" => pc[r] = "approve"
          /\ label = "control" => request[r].kind = "share"
    <2>1. CASE InsertReport(r)
      BY <2>1 DEF InsertReport, Insert
    <2>2. CASE InsertReadiness(r)
      BY <2>2 DEF InsertReadiness, Insert
    <2>3. CASE InsertPack(r) \/ InsertBundle(r) \/ InsertAgentTask(r)
      BY <2>3 DEF InsertPack, InsertBundle, InsertAgentTask, Insert
    <2>4. CASE InsertPassport(r) \/ InsertMatch(r)
      BY <2>4 DEF InsertPassport, InsertMatch, Insert
    <2>5. CASE InsertApproval(r) \/ InsertRun(r)
      BY <2>5 DEF InsertApproval, InsertRun, Insert, Asks
    <2>6. CASE CommitShare(r)
      BY <2>6 DEF CommitShare
    <2> QED BY <2>1, <2>2, <2>3, <2>4, <2>5, <2>6
  <1>3. label \in LabelsOf(request[r].kind) /\ label \in Labels
    <2>1. /\ label = "evaluate" => request[r].kind = "clearance"
          /\ label \in {"match", "consult"} => request[r].kind = "trust"
          /\ label = "run" => request[r].kind \in {"trust", "approval", "share"}
          /\ label = "control" => request[r].kind = "share"
      BY <1>1, <1>2, LabelFacts
    <2> QED BY <2>1 DEF LabelsOf, Labels, Ended
  <1>4. Moves(r, label) /\ pc'[r] = label
    BY <1>1, <1>2, <1>3, KeepMoves, MovesFacts
  <1> QED BY <1>1, <1>4

\* The steps that take a row for a decision or an attachment
LEMMA TakeMoves ==
  ASSUME Typed, NEW r \in Request,
         TakeApproval(r) \/ TakeAttached(r) \/ TakeDerived(r)
  PROVE  /\ Moves(r, pc'[r]) /\ request' = request /\ room' = room
         /\ held' \in [Request -> SUBSET Object]
         /\ \E o \in Object :
              /\ Free(o) /\ held'[r] = held[r] \cup {o}
              /\ \/ TakeApproval(r) /\ pc'[r] = "target" /\ o = Input(r)
                 \/ TakeAttached(r) /\ pc'[r] = "find" /\ o = Input(r)
                 \/ TakeDerived(r) /\ pc[r] = "relate" /\ pc' = pc
  <1>1. /\ Began(r) /\ pc[r] \in {"decide", "attach", "relate"}
        /\ pc[r] \notin Ended /\ room' = room
        /\ request' = request /\ type' = type /\ beside' = beside
    BY DEF TakeApproval, TakeAttached, TakeDerived, Began, Ended, rows
  <1>2. request[r] \in Asked /\ request[r].kind \in {"review", "attach"}
    BY <1>1, LabelFacts
  <1>3. request[r].input = {Input(r)} /\ Input(r) \in Object
    BY <1>1, <1>2, InputFacts
  <1>4. CASE TakeApproval(r)
    <2>1. pc[r] = "decide" /\ Goto(r, "target") /\ Take(r, Input(r))
      BY <1>4 DEF TakeApproval
    <2>2. "target" \in LabelsOf(request[r].kind) /\ "target" \in Labels
      BY <1>1, <2>1, LabelFacts DEF LabelsOf, Labels
    <2>3. /\ Free(Input(r)) /\ held' \in [Request -> SUBSET Object]
          /\ held'[r] = held[r] \cup {Input(r)}
          /\ \A q \in Request \ {r} : held'[q] = held[q]
      BY <1>3, <2>1, TakeFacts
    <2>4. Moves(r, "target") /\ pc'[r] = "target"
      BY <1>1, <2>1, <2>2, <2>3, KeepMoves, MovesFacts
    <2> QED BY <1>1, <1>3, <1>4, <2>3, <2>4
  <1>5. CASE TakeAttached(r)
    <2>1. pc[r] = "attach" /\ Goto(r, "find") /\ Take(r, Input(r))
      BY <1>5 DEF TakeAttached
    <2>2. "find" \in LabelsOf(request[r].kind) /\ "find" \in Labels
      BY <1>1, <2>1, LabelFacts DEF LabelsOf, Labels
    <2>3. /\ Free(Input(r)) /\ held' \in [Request -> SUBSET Object]
          /\ held'[r] = held[r] \cup {Input(r)}
          /\ \A q \in Request \ {r} : held'[q] = held[q]
      BY <1>3, <2>1, TakeFacts
    <2>4. Moves(r, "find") /\ pc'[r] = "find"
      BY <1>1, <2>1, <2>2, <2>3, KeepMoves, MovesFacts
    <2> QED BY <1>1, <1>3, <1>5, <2>3, <2>4
  <1>6. CASE TakeDerived(r)
    <2>1. pc[r] = "relate" /\ pc' = pc
      BY <1>6 DEF TakeDerived
    <2>2. PICK o \in request[r].found \ held[r] : Take(r, o)
      BY <1>6 DEF TakeDerived
    <2>3. o \in Object
      BY <1>1 DEF Typed, Placed
    <2>4. /\ Free(o) /\ held' \in [Request -> SUBSET Object]
          /\ held'[r] = held[r] \cup {o}
          /\ \A q \in Request \ {r} : held'[q] = held[q]
      BY <2>2, <2>3, TakeFacts
    <2>5. Moves(r, pc'[r])
      BY <1>1, <1>2, <2>1, <2>4, LabelFacts DEF Moves, Typed
    <2> QED BY <1>1, <1>6, <2>1, <2>3, <2>4, <2>5
  <1> QED BY <1>4, <1>5, <1>6

\* A step that inserts nothing
LEMMA InsertsNothing ==
  ASSUME room' = room, NEW r, NEW trade
  PROVE  Inserts(r, {}, trade)
  BY DEF Inserts, Object

\* What a step inserts, an attachment apart
Brings(r, trade) ==
  \E roles \in SUBSET RolesOf(request[r].kind) :
    /\ Inserts(r, roles, trade)
    /\ roles \cap Behind(request[r].kind, pc[r]) = {}
    /\ Behind(request[r].kind, pc[r]) \cup roles
         \subseteq Behind(request[r].kind, pc'[r])

LEMMA BringsNothing ==
  ASSUME Typed, NEW r \in Request, NEW trade, room' = room, Moves(r, pc'[r]),
         \/ pc'[r] \in Ended
         \/ pc[r] = "update" /\ pc'[r] = "write"
         \/ pc[r] = "write" /\ pc'[r] \in {"report", "passport"}
         \/ pc[r] = "evaluate" /\ pc'[r] = "insert"
         \/ pc[r] = "consult" /\ pc'[r] = "approve"
         \/ pc[r] = "decide" /\ pc'[r] = "target"
         \/ pc[r] = "target" /\ pc'[r] = "release"
         \/ pc[r] = "release" /\ pc'[r] = "insert"
         \/ pc[r] = "attach" /\ pc'[r] = "find"
         \/ pc[r] = "find" /\ pc'[r] = "relate"
         \/ pc[r] = "relate" /\ pc'[r] = "relate"
  PROVE  Brings(r, trade)
  <1>1. Inserts(r, {}, trade)
    BY InsertsNothing
  <1>2. /\ Began(r)
        /\ pc'[r] \in {"report", "passport"} =>
             request[r].kind \in {"clearance", "trust"}
    BY DEF Moves, LabelsOf, Ended
  <1>3. Behind(request[r].kind, pc[r]) \subseteq Behind(request[r].kind, pc'[r])
    BY <1>2 DEF Behind, RolesOf, Ended, Moves
  <1> QED BY <1>1, <1>3 DEF Brings

LEMMA StepFacts ==
  ASSUME Typed, NEW r \in Request, Step(r) \/ Rollback(r)
  PROVE  /\ Moves(r, pc'[r])
         /\ held' \in [Request -> SUBSET Object]
         /\ \/ held'[r] \subseteq held[r]
            \/ \E o \in Object : Free(o) /\ held'[r] = held[r] \cup {o}
         /\ pc'[r] \in {"write", "find", "relate", "target", "release"} =>
              /\ request'[r].input = request[r].input
              /\ Input(r) \in held'[r]
         /\ request'[r].input = request[r].input \/ CommitDocument(r)
         /\ request'[r].found \subseteq Object
         /\ CommitAttachment(r) \/ Brings(r, request[r].trade)
            \/ (CommitReview(r) /\ Brings(r, Affected(r)))
  <1>1. held \in [Request -> SUBSET Object] /\ Placed(r)
    BY DEF Typed, TypeOK
  <1>2. ASSUME Began(r)
        PROVE  request[r].found \subseteq Object
    BY <1>1, <1>2 DEF Placed
  <1>3. CASE Update(r)
    <2>1. pc[r] = "update" /\ pc'[r] = "write" /\ Moves(r, pc'[r]) /\ room' = room
      BY <1>3, UpdateMoves DEF Update, Moves
    <2>2. Brings(r, request[r].trade)
      BY <2>1, BringsNothing
    <2>3. request'[r].found = request[r].found /\ Began(r)
      BY <1>3, UpdateMoves DEF Moves
    <2> QED BY <1>2, <1>3, <2>1, <2>2, <2>3, UpdateMoves
  <1>4. CASE \/ CommitExtraction(r) \/ CommitClearance(r) \/ CommitTrust(r)
             \/ Rollback(r)
    <2>1. /\ Moves(r, pc'[r]) /\ request' = request /\ held'[r] = {}
          /\ held' \in [Request -> SUBSET Object]
          /\ pc'[r] \in {"done", "report", "passport", "failed"}
          /\ pc'[r] \in Ended \/ pc[r] = "write"
      BY <1>4, LeaveMoves
    <2>2. Brings(r, request[r].trade)
      <3>1. CASE CommitExtraction(r)
        BY <3>1, InsertStep DEF Brings
      <3>2. CASE CommitClearance(r) \/ CommitTrust(r) \/ Rollback(r)
        <4>1. room' = room
          BY <3>2 DEF CommitClearance, CommitTrust, Rollback, rows
        <4>2. pc'[r] \in Ended \/ (pc[r] = "write" /\ pc'[r] \in {"report", "passport"})
          BY <2>1 DEF Ended
        <4> QED BY <2>1, <4>1, <4>2, BringsNothing
      <3> QED BY <1>4, <3>1, <3>2
    <2>3. Began(r)
      BY <2>1 DEF Moves
    <2> QED BY <1>2, <2>1, <2>2, <2>3
  <1>5. CASE CommitDocument(r)
    <2>1. /\ \E label \in {"update", "done"} : Moves(r, label)
          /\ held' = held /\ request'[r].found = request[r].found
      BY <1>5, DocumentMoves
    <2>2. Moves(r, pc'[r]) /\ pc'[r] \in {"update", "done"} /\ Began(r)
      BY <2>1 DEF Moves
    <2>3. Brings(r, request[r].trade)
      BY <1>5, InsertStep DEF Brings
    <2> QED BY <1>1, <1>2, <1>5, <2>1, <2>2, <2>3
  <1>6. CASE \/ InsertReport(r) \/ InsertReadiness(r) \/ InsertPack(r)
             \/ InsertBundle(r) \/ InsertAgentTask(r) \/ InsertPassport(r)
             \/ InsertMatch(r) \/ InsertApproval(r) \/ InsertRun(r)
    <2>1. /\ Moves(r, pc'[r]) /\ request' = request /\ held' = held
          /\ pc'[r] \in {"evaluate", "match", "consult", "run", "control", "done"}
      BY <1>6, StayMoves
    <2>2. Brings(r, request[r].trade)
      BY <1>6, InsertStep DEF Brings
    <2>3. Began(r)
      BY <2>1 DEF Moves
    <2> QED BY <1>1, <1>2, <2>1, <2>2, <2>3
  <1>7. CASE CommitShare(r)
    <2>1. /\ Moves(r, pc'[r]) /\ request' = request /\ held' = held
          /\ pc'[r] = "done" /\ room' = room
      <3>1. Goto(r, "done") /\ room' = room
        BY <1>7 DEF CommitShare
      <3> QED BY <1>7, <3>1, StayMoves, MovesFacts DEF Labels
    <2>2. Brings(r, request[r].trade)
      BY <2>1, BringsNothing DEF Ended
    <2>3. Began(r)
      BY <2>1 DEF Moves
    <2> QED BY <1>1, <1>2, <2>1, <2>2, <2>3
  <1>8. CASE ReadEvaluated(r) \/ ReadInvited(r)
    <2>1. /\ \/ pc[r] = "evaluate" /\ Moves(r, "insert")
             \/ pc[r] = "consult" /\ Moves(r, "approve")
          /\ held' = held /\ room' = room
          /\ request'[r].input = request[r].input
          /\ request'[r].found = request[r].found
      BY <1>8, ReadMoves DEF ReadEvaluated, ReadInvited
    <2>2. /\ Moves(r, pc'[r]) /\ Began(r)
          /\ \/ pc[r] = "evaluate" /\ pc'[r] = "insert"
             \/ pc[r] = "consult" /\ pc'[r] = "approve"
      BY <2>1 DEF Moves
    <2>3. Brings(r, request[r].trade)
      BY <2>1, <2>2, BringsNothing
    <2> QED BY <1>1, <1>2, <2>1, <2>2, <2>3
  <1>9. CASE TakeApproval(r) \/ TakeAttached(r) \/ TakeDerived(r)
    <2>1. /\ Moves(r, pc'[r]) /\ request' = request /\ room' = room
          /\ held' \in [Request -> SUBSET Object]
      BY <1>9, TakeMoves
    <2>2. PICK o \in Object :
              /\ Free(o) /\ held'[r] = held[r] \cup {o}
              /\ \/ TakeApproval(r) /\ pc'[r] = "target" /\ o = Input(r)
                 \/ TakeAttached(r) /\ pc'[r] = "find" /\ o = Input(r)
                 \/ TakeDerived(r) /\ pc[r] = "relate" /\ pc' = pc
      BY <1>9, TakeMoves
    <2>3. /\ \/ pc[r] = "decide" /\ pc'[r] = "target"
             \/ pc[r] = "attach" /\ pc'[r] = "find"
             \/ pc[r] = "relate" /\ pc'[r] = "relate"
          /\ Input(r) \in held'[r]
      BY <1>1, <2>2 DEF TakeApproval, TakeAttached, TakeDerived, Placed
    <2>4. Brings(r, request[r].trade)
      BY <2>1, <2>3, BringsNothing
    <2>5. Began(r)
      BY <2>1 DEF Moves
    <2> QED BY <1>2, <2>1, <2>2, <2>3, <2>4, <2>5
  <1>10. CASE ReadBundle(r)
    <2>1. /\ pc[r] = "target" /\ pc'[r] = "release" /\ Moves(r, pc'[r])
          /\ room' = room /\ held' = held /\ Began(r)
          /\ request'[r].input = request[r].input
          /\ request'[r].found = request[r].found
      BY <1>10, ReadBundleMoves DEF ReadBundle, Moves
    <2>2. Brings(r, request[r].trade)
      BY <2>1, BringsNothing
    <2>3. Input(r) \in held[r]
      BY <1>1, <2>1 DEF Placed
    <2> QED BY <1>1, <1>2, <2>1, <2>2, <2>3
  <1>11. CASE CommitReview(r)
    <2>1. /\ pc[r] = "release" /\ Began(r)
          /\ pc'[r] \in {"done", "insert"} /\ Moves(r, pc'[r])
          /\ request'[r].input = request[r].input
          /\ request'[r].found = request[r].found
          /\ held' \in [Request -> SUBSET Object] /\ held'[r] = {}
          /\ request[r].kind = "review"
      BY <1>11, ReviewMoves DEF Moves, Asks
    <2>2. CASE room' = room
      <3>1. Brings(r, Affected(r))
        BY <2>1, <2>2, BringsNothing DEF Ended
      <3> QED BY <1>2, <1>11, <2>1, <3>1
    <2>3. CASE Inserts(r, {"task", "run"}, Affected(r))
      <3>1. /\ {"task", "run"} \subseteq RolesOf(request[r].kind)
            /\ {"task", "run"} \cap Behind(request[r].kind, pc[r]) = {}
            /\ Behind(request[r].kind, pc[r]) \cup {"task", "run"}
                 \subseteq Behind(request[r].kind, pc'[r])
        BY <2>1 DEF RolesOf, Role, Behind, Ended
      <3>2. Brings(r, Affected(r))
        BY <2>3, <3>1 DEF Brings
      <3> QED BY <1>2, <1>11, <2>1, <3>2
    <2> QED BY <1>11, <2>2, <2>3, ReviewMoves
  <1>12. CASE FindDerived(r)
    <2>1. /\ pc[r] = "find" /\ pc'[r] = "relate" /\ Moves(r, pc'[r])
          /\ room' = room /\ held' = held
          /\ request'[r].input = request[r].input
          /\ request'[r].found \subseteq Object
      BY <1>12, FindMoves DEF FindDerived, Moves
    <2>2. Brings(r, request[r].trade)
      BY <2>1, BringsNothing
    <2>3. Input(r) \in held[r]
      BY <1>1, <2>1 DEF Placed
    <2> QED BY <1>1, <2>1, <2>2, <2>3
  <1>13. CASE CommitAttachment(r)
    <2>1. /\ Moves(r, "done") /\ request' = request
          /\ held' \in [Request -> SUBSET Object] /\ held'[r] = {}
      BY <1>13, AttachMoves
    <2>2. Began(r) /\ pc'[r] = "done" /\ Moves(r, pc'[r])
      BY <2>1 DEF Moves
    <2> QED BY <1>2, <1>13, <2>1, <2>2
  <1> QED BY <1>3, <1>4, <1>5, <1>6, <1>7, <1>8, <1>9, <1>10, <1>11, <1>12,
             <1>13 DEF Step

\* The objects there are after a step, each with a trade or with none
LEMMA RoomFacts ==
  ASSUME Typed, NEW r \in Request, Step(r) \/ Rollback(r)
  PROVE  /\ \E roles \in SUBSET RolesOf(request[r].kind) :
              /\ Object' = Object \cup ({r} \X roles)
              /\ Behind(request[r].kind, pc[r]) \cup roles
                   \subseteq Behind(request[r].kind, pc'[r])
         /\ \A o \in Object' : room'[o] \in Room
         /\ Object \subseteq Object' /\ Object' \subseteq Id
  <1>1. /\ \A o \in Object : room[o] \in Room
        /\ Object \subseteq Id
    BY DEF Typed, TypeOK
  <1>2. Began(r) /\ request[r] \in Asked
    BY StepFacts, LabelFacts DEF Moves
  <1>3. RolesOf(request[r].kind) \subseteq Role
    BY DEF RolesOf
  <1>4. ASSUME NEW trade \in Room, Brings(r, trade)
        PROVE  /\ \E roles \in SUBSET RolesOf(request[r].kind) :
                    /\ Object' = Object \cup ({r} \X roles)
                    /\ Behind(request[r].kind, pc[r]) \cup roles
                         \subseteq Behind(request[r].kind, pc'[r])
               /\ \A o \in Object' : room'[o] \in Room
               /\ Object \subseteq Object' /\ Object' \subseteq Id
    <2>1. PICK roles \in SUBSET RolesOf(request[r].kind) :
            /\ Inserts(r, roles, trade)
            /\ Behind(request[r].kind, pc[r]) \cup roles
                 \subseteq Behind(request[r].kind, pc'[r])
      BY <1>4 DEF Brings
    <2>2. /\ Object' = Object \cup ({r} \X roles)
          /\ \A o \in Object : room'[o] = room[o]
          /\ \A role \in roles : room'[<<r, role>>] = trade
      BY <2>1 DEF Inserts
    <2>3. \A o \in Object' : room'[o] \in Room
      BY <1>1, <2>2
    <2>4. Object' \subseteq Id
      BY <1>1, <1>3, <2>2 DEF Id
    <2> QED BY <2>1, <2>2, <2>3, <2>4
  <1>5. CASE CommitAttachment(r)
    <2>1. /\ Object' = Object \cup {<<r, "run">>}
          /\ room'[<<r, "run">>] = request[r].trade
          /\ request[r].trade \in Trade
          /\ \A o \in Object : room'[o] \in {request[r].trade, room[o]}
          /\ pc[r] = "relate" /\ Moves(r, "done") /\ Asks(r, {"attach"})
      BY <1>5, AttachMoves
    <2>2. \A o \in Object' : room'[o] \in Room
      BY <1>1, <2>1 DEF Room
    <2>3. /\ {"run"} \subseteq RolesOf(request[r].kind)
          /\ Behind(request[r].kind, pc[r]) \cup {"run"}
               \subseteq Behind(request[r].kind, pc'[r])
      BY <2>1 DEF Asks, RolesOf, Role, Behind, Moves, Ended
    <2>4. Object' = Object \cup ({r} \X {"run"})
      BY <2>1
    <2>5. Object' \subseteq Id
      BY <1>1, <2>1 DEF Id, Role
    <2> QED BY <2>2, <2>3, <2>4, <2>5
  <1>6. CASE Brings(r, request[r].trade)
    <2>1. request[r].trade \in Room
      BY <1>2 DEF Asked
    <2> QED BY <1>4, <1>6, <2>1
  <1>7. CASE CommitReview(r) /\ Brings(r, Affected(r))
    <2>1. Affected(r) \in Room
      BY <1>7, ReviewMoves
    <2> QED BY <1>4, <1>7, <2>1
  <1> QED BY <1>5, <1>6, <1>7, StepFacts

\* Every object keeps a status.
LEMMA StatusFacts ==
  ASSUME Typed, NEW r \in Request, Step(r) \/ Rollback(r)
  PROVE  DOMAIN status' \subseteq Object'
         /\ \A o \in Object' : StatusOf(o)' \in Status
  <1>1. /\ DOMAIN status \subseteq Object
        /\ \A o \in Object : StatusOf(o) \in Status
        /\ Object \subseteq Object'
        /\ request[r] \in Asked /\ Began(r)
    BY RoomFacts, StepFacts, LabelFacts DEF Typed, TypeOK, Moves
  <1>2. ASSUME NEW o \in Object', NEW value \in Status,
               status' = Put(Only(o, value), status)
        PROVE  DOMAIN status' \subseteq Object'
               /\ \A p \in Object' : StatusOf(p)' \in Status
    <2>1. /\ DOMAIN status' = DOMAIN status \cup {o}
          /\ status'[o] = value
          /\ \A p \in DOMAIN status \ {o} : status'[p] = status[p]
      <3> DEFINE put == Put(Only(o, value), status)
      <3>1. /\ DOMAIN put = DOMAIN status \cup {o}
            /\ put[o] = value
            /\ \A p \in DOMAIN status \ {o} : put[p] = status[p]
        BY DEF Put, Only
      <3>2. status' = put
        BY <1>2
      <3> QED BY <3>1, <3>2
    <2>2. \A p \in DOMAIN status : status[p] \in Status
      BY <1>1 DEF StatusOf
    <2> QED BY <1>1, <1>2, <2>1, <2>2 DEF StatusOf, Status
  <1>3. CASE status' = status
    BY <1>1, <1>3 DEF StatusOf, Status
  <1>4. CASE CommitExtraction(r) \/ CommitClearance(r) \/ CommitTrust(r)
    <2>1. /\ status' = Put(Only(Input(r), "open"), status)
          /\ pc[r] = "write"
      BY <1>4 DEF CommitExtraction, CommitClearance, CommitTrust, Reopen
    <2>2. Input(r) \in Object
      BY <2>1 DEF Typed, TypeOK, Placed
    <2> QED BY <1>1, <1>2, <2>1, <2>2 DEF Status
  <1>5. CASE InsertApproval(r)
    <2>1. /\ status' = Put(Only(<<r, "approval">>, "approval_required"), status)
          /\ room' = Put(Made(r, {"approval"}), room)
      BY <1>5 DEF InsertApproval
    <2>2. <<r, "approval">> \in Object'
      <3> DEFINE new == Made(r, {"approval"})
      <3>1. <<r, "approval">> \in DOMAIN new
        BY DEF Made
      <3>2. room' = Put(new, room)
        BY <2>1
      <3> HIDE DEF new
      <3>3. DOMAIN Put(new, room) = DOMAIN new \cup DOMAIN room
        BY PutFacts
      <3> QED BY <3>1, <3>2, <3>3 DEF Object
    <2> QED BY <1>2, <2>1, <2>2 DEF Status
  <1>6. CASE CommitReview(r)
    <2>1. /\ status' = [status EXCEPT ![Input(r)] = request[r].word]
          /\ pc[r] = "release"
      BY <1>6 DEF CommitReview
    <2>2. request[r].word \in Status
      <3>1. Asks(r, {"review"})
        BY <1>6, ReviewMoves
      <3> QED BY <1>1, <3>1 DEF Typed, Placed, SeenKnown, Status
    <2> QED BY <1>1, <2>1, <2>2 DEF StatusOf, Status
  <1>7. CASE CommitAttachment(r)
    <2>1. PICK seen \in request[r].seen :
            status' = Put(Only(Input(r), IF request[r].word = "link" THEN seen
                                         ELSE "attached"), status)
      BY <1>7 DEF CommitAttachment
    <2>2. seen \in Status /\ Input(r) \in Object'
      <3>1. Asks(r, {"attach"}) /\ Input(r) \in Object
        BY <1>7, AttachMoves
      <3> QED BY <1>1, <3>1 DEF Typed, Placed, SeenKnown
    <2> DEFINE value == IF request[r].word = "link" THEN seen ELSE "attached"
    <2>3. value \in Status
      BY <2>2 DEF Status
    <2> HIDE DEF value
    <2>4. status' = Put(Only(Input(r), value), status)
      BY <2>1 DEF value
    <2> QED BY <1>2, <2>2, <2>3, <2>4
  <1>8. \/ status' = status
        \/ CommitExtraction(r) \/ CommitClearance(r) \/ CommitTrust(r)
        \/ InsertApproval(r) \/ CommitReview(r) \/ CommitAttachment(r)
    BY DEF Step, Rollback, rows, Update, CommitDocument, InsertReport, Insert,
           ReadEvaluated, InsertReadiness, InsertPack, InsertBundle,
           InsertAgentTask, InsertPassport, InsertMatch, ReadInvited,
           InsertRun, CommitShare, TakeApproval, ReadBundle, TakeAttached,
           FindDerived, TakeDerived
  <1> QED BY <1>3, <1>4, <1>5, <1>6, <1>7, <1>8

\* What a bundle shows is of a request to share it.
LEMMA ControlFacts ==
  ASSUME Typed, NEW r \in Request, Step(r) \/ Rollback(r)
  PROVE  /\ \/ control' = control
            \/ CommitShare(r) \/ CommitReview(r)
         /\ \A b \in DOMAIN control' :
              /\ b \in ProofBundle
              /\ control'[b] \in Control
              /\ Asks(control'[b].approval, {"share"})
              /\ request[control'[b].approval].input = {b}
  <1>1. /\ DOMAIN control \subseteq ProofBundle /\ Controlled
        /\ request[r] \in Asked /\ Began(r)
    BY StepFacts, LabelFacts DEF Typed, TypeOK, Moves
  <1>2. ASSUME NEW b \in ProofBundle, NEW value \in Control,
               control' = Put(Only(b, value), control),
               Asks(value.approval, {"share"}),
               request[value.approval].input = {b}
        PROVE  \A c \in DOMAIN control' :
                 /\ c \in ProofBundle
                 /\ control'[c] \in Control
                 /\ Asks(control'[c].approval, {"share"})
                 /\ request[control'[c].approval].input = {c}
    <2>1. /\ DOMAIN control' = DOMAIN control \cup {b}
          /\ control'[b] = value
          /\ \A c \in DOMAIN control \ {b} : control'[c] = control[c]
      <3> DEFINE put == Put(Only(b, value), control)
      <3>1. /\ DOMAIN put = DOMAIN control \cup {b}
            /\ put[b] = value
            /\ \A c \in DOMAIN control \ {b} : put[c] = control[c]
        BY DEF Put, Only
      <3>2. control' = put
        BY <1>2
      <3> QED BY <3>1, <3>2
    <2> QED BY <1>1, <1>2, <2>1 DEF Controlled
  <1>3. CASE control' = control
    BY <1>1, <1>3 DEF Controlled
  <1>4. CASE CommitShare(r)
    <2>1. /\ control' = Put(Only(Input(r), ShareControl(r)), control)
          /\ pc[r] = "control"
      BY <1>4 DEF CommitShare
    <2>2. request[r].kind = "share" /\ Asks(r, {"share"})
      BY <1>1, <2>1, LabelFacts DEF Asks
    <2>3. request[r].input = {Input(r)} /\ Input(r) \in ProofBundle
      BY <1>1, <2>2, InputFacts DEF Typed, Placed, InputKnown
    <2>4. ShareControl(r) \in Control /\ ShareControl(r).approval = r
      BY DEF ShareControl, Control
    <2> QED BY <1>2, <1>4, <2>1, <2>2, <2>3, <2>4
  <1>5. CASE CommitReview(r)
    <2>1. /\ control' = Put(Only(Bundle(r), Decision(r)), control)
          /\ Asks(r, {"review"})
      BY <1>5, ReviewMoves DEF CommitReview
    <2>2. /\ Decided(r) \in Request /\ Asks(Decided(r), {"share"})
          /\ Bundle(r) \in ProofBundle
          /\ request[Decided(r)].input = {Bundle(r)}
      BY <2>1, ReviewFacts
    <2>3. /\ request[r].seen \subseteq Request \cup {None}
          /\ request[r].word \in {"approved", "rejected"}
      BY <1>1, <2>1 DEF Typed, Placed, SeenKnown
    <2>4. Decision(r) \in Control /\ Decision(r).approval = Decided(r)
      BY <2>2, <2>3 DEF Decision, Control
    <2> QED BY <1>2, <1>5, <2>1, <2>2, <2>4
  <1>6. control' = control \/ CommitShare(r) \/ CommitReview(r)
    BY DEF Step, Rollback, rows, Update, CommitExtraction, CommitDocument,
           CommitClearance, InsertReport, Insert, ReadEvaluated,
           InsertReadiness, InsertPack, InsertBundle, InsertAgentTask,
           CommitTrust, InsertPassport, InsertMatch, ReadInvited,
           InsertApproval, InsertRun, TakeApproval, ReadBundle, TakeAttached,
           FindDerived, TakeDerived, CommitAttachment
  <1> QED BY <1>3, <1>4, <1>5, <1>6

\* Decisions and evidence
LEMMA RecordFacts ==
  ASSUME Typed, NEW r \in Request, Step(r) \/ Rollback(r)
  PROVE  /\ decision' \in [Request -> {"none", "approved", "rejected"}]
         /\ evidence' \in [Root -> SUBSET Request]
         /\ decision' = decision \/ CommitReview(r)
         /\ evidence' = evidence \/ CommitClearance(r)
  <1>1. /\ decision \in [Request -> {"none", "approved", "rejected"}]
        /\ evidence \in [Root -> SUBSET Request]
    BY DEF Typed, TypeOK
  <1>2. CASE CommitReview(r)
    <2>1. Asks(r, {"review"})
      BY <1>2, ReviewMoves
    <2>2. request[r].word \in {"approved", "rejected"}
      BY <2>1 DEF Typed, Placed, SeenKnown, Asks, Began
    <2> QED BY <1>1, <1>2, <2>2 DEF CommitReview, EndReview
  <1>3. CASE CommitClearance(r)
    <2>1. Asks(r, {"clearance"})
      BY <1>3 DEF CommitClearance
    <2>2. request[r].seen \subseteq Request
      BY <2>1 DEF Typed, Placed, SeenKnown, Asks, Began
    <2> QED BY <1>1, <1>3, <2>2 DEF CommitClearance
  <1>4. (decision' = decision /\ evidence' = evidence)
        \/ CommitReview(r) \/ CommitClearance(r)
    BY DEF Step, Rollback, rows, Update, CommitExtraction, CommitDocument,
           InsertReport, Insert, ReadEvaluated,
           InsertReadiness, InsertPack, InsertBundle, InsertAgentTask,
           CommitTrust, InsertPassport, InsertMatch, ReadInvited, CommitShare,
           InsertApproval, InsertRun, TakeApproval, ReadBundle, TakeAttached,
           FindDerived, TakeDerived, CommitAttachment
  <1> QED BY <1>1, <1>2, <1>3, <1>4

\* What a step teaches, and where it may lead
LEMMA KeepFacts ==
  ASSUME Typed, NEW r \in Request, Step(r) \/ Rollback(r)
  PROVE  /\ request'[r].seen = request[r].seen
            \/ (Asks(r, {"review"}) /\ request'[r].seen \subseteq Request \cup {None})
         /\ request'[r].trade = request[r].trade
            \/ Update(r) \/ ReadEvaluated(r) \/ ReadInvited(r) \/ CommitReview(r)
         /\ request'[r].found = request[r].found \/ FindDerived(r)
         /\ pc'[r] # "store"
         /\ pc'[r] = "update" => CommitDocument(r)
         /\ pc'[r] = "write" => Update(r)
         /\ pc'[r] = "relate" => FindDerived(r) \/ TakeDerived(r)
         /\ pc'[r] = "insert" => ReadEvaluated(r) \/ CommitReview(r)
         /\ pc'[r] = "run" => InsertApproval(r)
  <1>1. CASE Update(r)
    BY <1>1, UpdateMoves DEF Moves
  <1>2. CASE \/ CommitExtraction(r) \/ CommitClearance(r) \/ CommitTrust(r)
             \/ Rollback(r)
    <2>1. request' = request /\ pc'[r] \in {"done", "report", "passport", "failed"}
      BY <1>2, LeaveMoves
    <2> QED BY <2>1
  <1>3. CASE CommitDocument(r)
    <2>1. /\ \E label \in {"update", "done"} : Moves(r, label)
          /\ request'[r].trade = request[r].trade
          /\ request'[r].seen = request[r].seen
          /\ request'[r].found = request[r].found
      BY <1>3, DocumentMoves
    <2>2. pc'[r] \in {"update", "done"}
      BY <2>1 DEF Moves
    <2> QED BY <1>3, <2>1, <2>2
  <1>4. CASE \/ InsertReport(r) \/ InsertReadiness(r) \/ InsertPack(r)
             \/ InsertBundle(r) \/ InsertAgentTask(r) \/ InsertPassport(r)
             \/ InsertMatch(r) \/ InsertApproval(r) \/ InsertRun(r)
             \/ CommitShare(r)
    <2>1. /\ request' = request
          /\ pc'[r] \in {"evaluate", "match", "consult", "run", "control", "done"}
      BY <1>4, StayMoves
    <2>2. ~InsertApproval(r) => pc'[r] # "run"
      <3>1. ASSUME NEW label \in {"evaluate", "match", "consult", "control", "done"},
                   Goto(r, label)
            PROVE  pc'[r] # "run"
        BY <3>1, MovesFacts DEF Labels
      <3> QED BY <1>4, <3>1 DEF InsertReport, InsertReadiness, InsertPack,
            InsertBundle, InsertAgentTask, InsertPassport, InsertMatch,
            InsertRun, CommitShare, Insert
    <2> QED BY <2>1, <2>2
  <1>5. CASE ReadEvaluated(r) \/ ReadInvited(r)
    <2>1. /\ \/ ReadEvaluated(r) /\ Moves(r, "insert")
             \/ Moves(r, "approve")
          /\ request'[r].seen = request[r].seen
          /\ request'[r].found = request[r].found
      BY <1>5, ReadMoves
    <2> QED BY <1>5, <2>1 DEF Moves
  <1>6. CASE TakeApproval(r) \/ TakeAttached(r) \/ TakeDerived(r)
    <2>1. /\ request' = request
          /\ pc'[r] \in {"target", "find"} \/ TakeDerived(r)
      BY <1>6, TakeMoves
    <2>2. TakeDerived(r) => pc'[r] = "relate"
      BY DEF TakeDerived
    <2> QED BY <2>1, <2>2
  <1>7. CASE ReadBundle(r)
    <2>1. /\ Moves(r, "release") /\ pc[r] = "target"
          /\ request'[r].trade = request[r].trade
          /\ request'[r].seen \subseteq Request \cup {None}
          /\ request'[r].found = request[r].found
      BY <1>7, ReadBundleMoves DEF ReadBundle
    <2>2. pc'[r] = "release" /\ Asks(r, {"review"})
      BY <2>1, LabelFacts DEF Moves, Asks
    <2> QED BY <2>1, <2>2
  <1>8. CASE CommitReview(r)
    <2>1. /\ Moves(r, "done") \/ Moves(r, "insert")
          /\ request'[r].seen = request[r].seen
          /\ request'[r].found = request[r].found
      BY <1>8, ReviewMoves
    <2> QED BY <1>8, <2>1 DEF Moves
  <1>9. CASE FindDerived(r)
    <2>1. /\ Moves(r, "relate")
          /\ request'[r].trade = request[r].trade
          /\ request'[r].seen = request[r].seen
      BY <1>9, FindMoves
    <2> QED BY <1>9, <2>1 DEF Moves
  <1>10. CASE CommitAttachment(r)
    <2>1. Moves(r, "done") /\ request' = request
      BY <1>10, AttachMoves
    <2> QED BY <2>1 DEF Moves
  <1> QED BY <1>1, <1>2, <1>3, <1>4, <1>5, <1>6, <1>7, <1>8, <1>9, <1>10
          DEF Step

\* Which step makes a record of a role
LEMMA MadeBy ==
  ASSUME Typed, NEW r \in Request, Step(r) \/ Rollback(r),
         NEW role, <<r, role>> \in Object', <<r, role>> \notin Object
  PROVE  \/ role = "document" /\ CommitDocument(r)
         \/ role \in {"extraction", "eval"} /\ CommitExtraction(r)
         \/ role = "report" /\ InsertReport(r)
         \/ role \in {"readiness", "eval"} /\ InsertReadiness(r)
         \/ role = "pack" /\ InsertPack(r)
         \/ role \in {"bundle", "run", "eval"} /\ InsertBundle(r)
         \/ role \in {"task", "work", "eval"} /\ InsertAgentTask(r)
         \/ role = "passport" /\ InsertPassport(r)
         \/ role = "match" /\ InsertMatch(r)
         \/ role = "approval" /\ InsertApproval(r)
         \/ role = "run" /\ InsertRun(r)
         \/ role \in {"task", "run"} /\ CommitReview(r)
         \/ role = "run" /\ CommitAttachment(r)
  <1>1. ASSUME NEW roles, room' = Put(Made(r, roles), room)
        PROVE  role \in roles
    BY <1>1 DEF Put, Object, Made
  <1>2. room' # room
    BY DEF Object
  <1>3. CASE CommitExtraction(r)
    <2>1. room' = Put(Made(r, {"extraction", "eval"}), room)
      BY <1>3 DEF CommitExtraction
    <2> QED BY <1>1, <1>3, <2>1
  <1>4. CASE CommitDocument(r)
    <2>1. room' = Put(Made(r, {"document"}), room)
      BY <1>4 DEF CommitDocument
    <2>2. role \in {"document"}
      BY <1>1, <2>1
    <2> QED BY <1>4, <2>2
  <1>5. CASE InsertReport(r)
    <2>1. room' = Put(Made(r, {"report"}), room)
      BY <1>5 DEF InsertReport, Insert
    <2>2. role \in {"report"}
      BY <1>1, <2>1
    <2> QED BY <1>5, <2>2
  <1>6. CASE InsertReadiness(r)
    <2>1. room' = Put(Made(r, {"readiness", "eval"}), room)
      BY <1>6 DEF InsertReadiness, Insert
    <2> QED BY <1>1, <1>6, <2>1
  <1>7. CASE InsertPack(r)
    <2>1. room' = Put(Made(r, {"pack"}), room)
      BY <1>7 DEF InsertPack, Insert
    <2>2. role \in {"pack"}
      BY <1>1, <2>1
    <2> QED BY <1>7, <2>2
  <1>8. CASE InsertBundle(r)
    <2>1. room' = Put(Made(r, {"bundle", "run", "eval"}), room)
      BY <1>8 DEF InsertBundle, Insert
    <2> QED BY <1>1, <1>8, <2>1
  <1>9. CASE InsertAgentTask(r)
    <2>1. room' = Put(Made(r, {"task", "work", "eval"}), room)
      BY <1>9 DEF InsertAgentTask, Insert
    <2> QED BY <1>1, <1>9, <2>1
  <1>10. CASE InsertPassport(r)
    <2>1. room' = Put(Made(r, {"passport"}), room)
      BY <1>10 DEF InsertPassport, Insert
    <2>2. role \in {"passport"}
      BY <1>1, <2>1
    <2> QED BY <1>10, <2>2
  <1>11. CASE InsertMatch(r)
    <2>1. room' = Put(Made(r, {"match"}), room)
      BY <1>11 DEF InsertMatch, Insert
    <2>2. role \in {"match"}
      BY <1>1, <2>1
    <2> QED BY <1>11, <2>2
  <1>12. CASE InsertApproval(r)
    <2>1. room' = Put(Made(r, {"approval"}), room)
      BY <1>12 DEF InsertApproval
    <2>2. role \in {"approval"}
      BY <1>1, <2>1
    <2> QED BY <1>12, <2>2
  <1>13. CASE InsertRun(r)
    <2>1. room' = Put(Made(r, {"run"}), room)
      BY <1>13 DEF InsertRun, Insert
    <2>2. role \in {"run"}
      BY <1>1, <2>1
    <2> QED BY <1>13, <2>2
  <1>14. CASE CommitReview(r)
    <2>1. Inserts(r, {"task", "run"}, Affected(r))
      BY <1>2, <1>14, ReviewMoves
    <2>2. role \in {"task", "run"}
      BY <2>1 DEF Inserts
    <2> QED BY <1>14, <2>2
  <1>15. CASE CommitAttachment(r)
    <2>1. Object' = Object \cup {<<r, "run">>}
      BY <1>15, AttachMoves
    <2>2. role = "run"
      BY <2>1
    <2> QED BY <1>15, <2>2
  <1>16. \/ CommitExtraction(r) \/ CommitDocument(r) \/ InsertReport(r)
         \/ InsertReadiness(r) \/ InsertPack(r) \/ InsertBundle(r)
         \/ InsertAgentTask(r) \/ InsertPassport(r) \/ InsertMatch(r)
         \/ InsertApproval(r) \/ InsertRun(r) \/ CommitReview(r)
         \/ CommitAttachment(r)
    BY <1>2 DEF Step, Rollback, rows, Update, CommitClearance,
           ReadEvaluated, CommitTrust, ReadInvited, CommitShare,
           TakeApproval, ReadBundle, TakeAttached, FindDerived, TakeDerived
  <1> QED BY <1>3, <1>4, <1>5, <1>6, <1>7, <1>8, <1>9, <1>10, <1>11, <1>12,
             <1>13, <1>14, <1>15, <1>16
-----------------------------------------------------------------------------
(* Typed is inductive.                                                       *)

\* What a request asks for it asks for until it ends.
LEMMA AsksKept ==
  ASSUME Typed, NEW r \in Request, Step(r) \/ Rollback(r)
  PROVE  /\ \A q \in Request : \A kinds : Asks(q, kinds)' <=> Asks(q, kinds)
         /\ \A q \in Request : request'[q].kind = request[q].kind
         /\ \A q \in Request : Began(q)' <=> Began(q)
         /\ Document \subseteq Document' /\ ProofBundle \subseteq ProofBundle'
         /\ \A o : TypeOf(o)' = TypeOf(o)
  <1>1. /\ Moves(r, pc'[r]) /\ Object \subseteq Object'
        /\ type' = type
    BY StepFacts, RoomFacts DEF Moves
  <1>2. pc[r] # "idle" /\ pc'[r] # "idle"
    BY <1>1 DEF Moves, Began, LabelsOf, Labels
  <1>3. \A q \in Request : /\ request'[q].kind = request[q].kind
                           /\ pc'[q] = "idle" <=> pc[q] = "idle"
    BY <1>1, <1>2 DEF Moves
  <1>4. \A o : TypeOf(o)' = TypeOf(o)
    BY <1>1 DEF TypeOf
  <1> QED BY <1>1, <1>3, <1>4 DEF Asks, Began, Document, ProofBundle

LEMMA PlacedOthers ==
  ASSUME Typed, NEW r \in Request, Step(r) \/ Rollback(r),
         NEW q \in Request, q # r
  PROVE  Placed(q)'
  <1>1. /\ pc'[q] = pc[q] /\ request'[q] = request[q] /\ held'[q] = held[q]
        /\ Placed(q)
    BY StepFacts DEF Moves, Typed
  <1>2. Object \subseteq Object' /\ Document \subseteq Document'
        /\ ProofBundle \subseteq ProofBundle'
    BY RoomFacts, AsksKept
  <1>3. \A role : <<q, role>> \in Object' <=> <<q, role>> \in Object
    <2>1. PICK roles \in SUBSET RolesOf(request[r].kind) :
            Object' = Object \cup ({r} \X roles)
      BY RoomFacts
    <2> QED BY <2>1
  <1>4. \A p \in Request : \A kinds : Asks(p, kinds)' <=> Asks(p, kinds)
    BY AsksKept
  <1>5. Input(q)' = Input(q)
    BY <1>1 DEF Input
  <1>6. ASSUME Began(q), InputKnown(q)
        PROVE  InputKnown(q)'
    BY <1>1, <1>2, <1>3, <1>4, <1>6 DEF InputKnown
  <1>7. SeenKnown(q) => SeenKnown(q)'
    BY <1>1, <1>4 DEF SeenKnown
  <1>8. Began(q)' <=> Began(q)
    BY AsksKept
  <1>9. Began(q)' => /\ request'[q] \in Asked
                     /\ pc'[q] \in LabelsOf(request'[q].kind)
                     /\ InputKnown(q)' /\ SeenKnown(q)'
                     /\ request'[q].found \subseteq Object'
    BY <1>1, <1>2, <1>6, <1>7, <1>8 DEF Placed
  <1>10. \A role \in Role :
           <<q, role>> \in Object' =>
             Began(q)' /\ role \in Behind(request'[q].kind, pc'[q])
    BY <1>1, <1>3, <1>8 DEF Placed
  <1>11. /\ ~Began(q)' => held'[q] = {}
         /\ pc'[q] \in {"write", "find", "relate", "target", "release"}
              => Input(q)' \in held'[q]
    BY <1>1, <1>5, <1>8 DEF Placed
  <1> QED BY <1>9, <1>10, <1>11 DEF Placed

LEMMA PlacedSelf ==
  ASSUME Typed, NEW r \in Request, Step(r) \/ Rollback(r)
  PROVE  Placed(r)'
  <1>1. /\ Moves(r, pc'[r]) /\ Placed(r) /\ Began(r)
        /\ request'[r].kind = request[r].kind
        /\ request'[r].word = request[r].word
        /\ request'[r] \in Asked
        /\ pc'[r] \in LabelsOf(request[r].kind)
    BY StepFacts DEF Moves, Typed
  <1>2. Object \subseteq Object' /\ Document \subseteq Document'
        /\ ProofBundle \subseteq ProofBundle' /\ Began(r)'
    BY <1>1, RoomFacts, AsksKept
  <1>3. \A p \in Request : \A kinds : Asks(p, kinds)' <=> Asks(p, kinds)
    BY AsksKept
  <1>4. InputKnown(r) /\ SeenKnown(r)
    BY <1>1 DEF Placed
  <1>5. CASE CommitDocument(r)
    <2>1. /\ request[r].kind = "upload" /\ request'[r].input = {<<r, "document">>}
          /\ request'[r].seen = request[r].seen
      BY <1>5, DocumentMoves
    <2>2. <<r, "document">> \in Object'
      <3> DEFINE new == Made(r, {"document"})
      <3>1. <<r, "document">> \in DOMAIN new
        BY DEF Made
      <3>2. room' = Put(new, room)
        BY <1>5 DEF CommitDocument
      <3> HIDE DEF new
      <3>3. DOMAIN Put(new, room) = DOMAIN new \cup DOMAIN room
        BY PutFacts
      <3> QED BY <3>1, <3>2, <3>3 DEF Object
    <2>3. pc'[r] # "store"
      BY KeepFacts
    <2>4. InputKnown(r)'
      BY <1>1, <2>1, <2>2, <2>3 DEF InputKnown
    <2>5. SeenKnown(r)'
      BY <1>1, <1>3, <1>4, <2>1 DEF SeenKnown
    <2> QED
      <3>1. request'[r].found \subseteq Object'
        BY <1>2, StepFacts
      <3>2. \A role \in Role :
              <<r, role>> \in Object' => role \in Behind(request'[r].kind, pc'[r])
        <4>1. PICK roles \in SUBSET RolesOf(request[r].kind) :
                /\ Object' = Object \cup ({r} \X roles)
                /\ Behind(request[r].kind, pc[r]) \cup roles
                     \subseteq Behind(request[r].kind, pc'[r])
          BY RoomFacts
        <4> QED BY <1>1, <4>1 DEF Placed
      <3>3. pc'[r] \notin {"write", "find", "relate", "target", "release"}
        <4>1. request'[r].input # request[r].input
          BY <1>4, <1>5, <2>1 DEF InputKnown, CommitDocument
        <4> QED BY <4>1, StepFacts
      <3> QED BY <1>1, <1>2, <2>4, <2>5, <3>1, <3>2, <3>3 DEF Placed
  <1>6. CASE ~CommitDocument(r)
    <2>1. request'[r].input = request[r].input
      BY <1>6, StepFacts
    <2>2. /\ <<r, "document">> \in Object' <=> <<r, "document">> \in Object
          /\ <<r, "extraction">> \in Object' =>
               <<r, "extraction">> \in Object \/ pc[r] = "write"
      <3>1. CommitExtraction(r) => pc[r] = "write"
        BY DEF CommitExtraction
      <3> QED BY <1>2, <1>6, <3>1, MadeBy
    <2>3. pc'[r] \notin {"store", "update"} /\ (pc'[r] = "write" => pc[r] = "update")
      BY <1>6, KeepFacts DEF Update
    <2>4. request[r].kind = "attach" => request'[r].trade = request[r].trade
      <3>1. Update(r) => request[r].kind # "attach"
        BY <1>1, LabelFacts DEF Update
      <3>2. ReadEvaluated(r) \/ ReadInvited(r) => request[r].kind # "attach"
        BY ReadMoves
      <3>3. CommitReview(r) => request[r].kind # "attach"
        BY ReviewMoves DEF Asks
      <3> QED BY <3>1, <3>2, <3>3, KeepFacts
    <2>5. InputKnown(r)'
      <3> DEFINE input == request[r].input
                 kind == request[r].kind
      <3>1. /\ input \subseteq Object'
            /\ kind \notin {"upload", "pack", "bundle", "agent"} =>
                 \E o \in Object' : input = {o}
            /\ kind = "extract" => input \subseteq Document'
            /\ kind = "clearance" => input \subseteq Root
            /\ kind = "share" => input \subseteq ProofBundle'
        BY <1>2, <1>4 DEF InputKnown
      <3>2. kind = "upload" =>
              /\ input \in {{}, {<<r, "document">>}}
              /\ pc'[r] = "store" => input = {}
              /\ pc'[r] \in {"update", "write"} \/ <<r, "extraction">> \in Object'
                   => input = {<<r, "document">>}
              /\ <<r, "document">> \in Object' => input = {<<r, "document">>}
        BY <1>4, <2>2, <2>3 DEF InputKnown
      <3>3. kind = "review" =>
              \E s \in Request : Asks(s, {"share"})' /\ input = {<<s, "approval">>}
        BY <1>3, <1>4 DEF InputKnown
      <3>4. kind = "attach" => request'[r].trade \in Trade
        BY <1>4, <2>4 DEF InputKnown
      <3> QED BY <1>1, <2>1, <3>1, <3>2, <3>3, <3>4 DEF InputKnown
    <2>6. SeenKnown(r)'
      <3>1. CASE request'[r].seen = request[r].seen
        BY <1>1, <1>3, <1>4, <3>1 DEF SeenKnown
      <3>2. CASE /\ Asks(r, {"review"})
                 /\ request'[r].seen \subseteq Request \cup {None}
        <4>1. ~Asks(r, {"attach"}) /\ ~Asks(r, {"clearance"})
          BY <3>2 DEF Asks
        <4> QED BY <1>1, <1>3, <1>4, <3>2, <4>1 DEF SeenKnown
      <3> QED BY <3>1, <3>2, KeepFacts
    <2>7. request'[r].found \subseteq Object'
      BY <1>2, StepFacts
    <2>8. \A role \in Role :
            <<r, role>> \in Object' => role \in Behind(request'[r].kind, pc'[r])
      <3>1. PICK roles \in SUBSET RolesOf(request[r].kind) :
              /\ Object' = Object \cup ({r} \X roles)
              /\ Behind(request[r].kind, pc[r]) \cup roles
                   \subseteq Behind(request[r].kind, pc'[r])
        BY RoomFacts
      <3> QED BY <1>1, <3>1 DEF Placed
    <2>9. pc'[r] \in {"write", "find", "relate", "target", "release"}
            => Input(r)' \in held'[r]
      BY <2>1, StepFacts DEF Input
    <2> QED BY <1>1, <1>2, <2>5, <2>6, <2>7, <2>8, <2>9 DEF Placed
  <1> QED BY <1>5, <1>6

LEMMA TypedStep ==
  ASSUME Typed, NEW r \in Request, Step(r) \/ Rollback(r)
  PROVE  Typed'
  <1>1. Moves(r, pc'[r]) /\ type' = type /\ beside' = beside
    BY StepFacts DEF Moves
  <1>2. TypeOK'
    <2>1. held' \in [Request -> SUBSET Object']
      <3>1. held' \in [Request -> SUBSET Object] /\ Object \subseteq Object'
        BY StepFacts, RoomFacts
      <3> QED BY <3>1
    <2>2. DOMAIN control' \subseteq ProofBundle'
      BY ControlFacts, AsksKept
    <2>3. /\ type' \in [Root -> RootType] /\ beside' \in [Request -> SUBSET Request]
          /\ Root \subseteq Object'
      BY <1>1, RoomFacts DEF Typed, TypeOK
    <2> QED BY <2>1, <2>2, <2>3, RoomFacts, StatusFacts, RecordFacts DEF TypeOK
  <1>3. \A q \in Request : Placed(q)'
    BY PlacedOthers, PlacedSelf
  <1>4. LocksDisjoint'
    <2>1. \A q \in Request \ {r} : held'[q] = held[q] /\ held[q] \cap held'[r] = {}
      <3> TAKE q \in Request \ {r}
      <3>1. held'[q] = held[q]
        BY <1>1 DEF Moves
      <3>2. held[q] \cap held[r] = {}
        BY DEF Typed, LocksDisjoint
      <3>3. CASE held'[r] \subseteq held[r]
        BY <3>1, <3>2, <3>3
      <3>4. CASE \E o \in Object : Free(o) /\ held'[r] = held[r] \cup {o}
        BY <3>1, <3>2, <3>4 DEF Free
      <3> QED BY <3>3, <3>4, StepFacts
    <2>2. \A p, q \in Request \ {r} : p # q => held[p] \cap held[q] = {}
      BY DEF Typed, LocksDisjoint
    <2> QED BY <2>1, <2>2 DEF LocksDisjoint
  <1>5. Controlled'
    <2> SUFFICES ASSUME NEW b \in DOMAIN control'
                 PROVE  /\ control'[b] \in Control
                        /\ pc'[control'[b].approval] # "idle"
                        /\ request'[control'[b].approval].kind = "share"
                        /\ request'[control'[b].approval].input = {b}
      BY DEF Controlled, Asks
    <2>1. PICK s : s = control'[b].approval
      OBVIOUS
    <2>2. /\ control'[b] \in Control
          /\ Asks(s, {"share"}) /\ request[s].input = {b}
      BY <2>1, ControlFacts
    <2>3. s \in Request
      BY <2>1, <2>2 DEF Control
    <2>4. request'[s].input = request[s].input
      <3>1. CASE s = r
        <4>1. ~CommitDocument(r)
          BY <2>2, <3>1, DocumentMoves DEF Asks
        <4> QED BY <3>1, <4>1, StepFacts
      <3>2. CASE s # r
        BY <1>1, <2>3, <3>2 DEF Moves
      <3> QED BY <3>1, <3>2
    <2>5. pc'[s] # "idle" /\ request'[s].kind = "share"
      BY <2>2, <2>3, AsksKept DEF Asks
    <2> QED BY <2>1, <2>2, <2>4, <2>5
  <1>6. RivalsBeside'
    <2>1. Running' \subseteq Running
      <3>1. \A q \in Request \ {r} : pc'[q] = pc[q]
        BY <1>1 DEF Moves
      <3>2. r \in Running
        BY <1>1 DEF Moves, Began, Running
      <3> QED BY <3>1, <3>2 DEF Running
    <2>2. \A q \in Request : Asks(q, Rival)' <=> Asks(q, Rival)
      BY AsksKept
    <2>3. Running \subseteq Request /\ beside \in [Request -> SUBSET Request]
      BY DEF Running, Typed, TypeOK
    <2> QED BY <1>1, <2>1, <2>2, <2>3 DEF Typed, RivalsBeside
  <1>7. pc' \in [Request -> Labels \cup {"idle"}] /\ DOMAIN request' = Request
    BY <1>1 DEF Moves
  <1> QED BY <1>2, <1>3, <1>4, <1>5, <1>6, <1>7 DEF Typed

\* An arrival leaves the others and the rows as they are.
LEMMA ArriveKeeps ==
  ASSUME Typed, NEW r \in Request, Arrive(r)
  PROVE  /\ pc[r] = "idle" /\ Began(r)' /\ pc'[r] \notin Ended
         /\ \A q \in Request \ {r} : request'[q] = request[q] /\ pc'[q] = pc[q]
         /\ pc' \in [Request -> Labels \cup {"idle"}]
         /\ DOMAIN request' = Request
         /\ held' = held
         /\ UNCHANGED <<type, room, status, control, decision, evidence>>
         /\ \A q \in Request \ {r} : \A kinds : Asks(q, kinds)' <=> Asks(q, kinds)
         /\ \A kinds : ~Asks(r, kinds)
         /\ beside' \in [Request -> SUBSET Request]
         /\ \A q \in Request \ {r} :
              /\ beside[q] \subseteq beside'[q]
              /\ beside'[q] \subseteq beside[q] \cup {r}
              /\ r \in beside'[q] => Asks(r, Rival)'
              /\ q \in Running /\ Asks(r, Rival)' => r \in beside'[q]
         /\ beside'[r] = {p \in Running : Asks(p, Rival)}
         /\ \A role \in Role : <<r, role>> \notin Object
  <1>1. PICK kind, input, trade, word, seen, label :
          /\ Begin(r, kind, input, trade, word, seen, label)
          /\ Opens(kind, input, trade, word, seen, label)
    BY ArriveFacts
  <1>2. pc[r] = "idle"
    BY DEF Arrive
  <1>3. /\ request'[r].kind = kind
        /\ DOMAIN request' = Request
        /\ \A q \in Request \ {r} : request'[q] = request[q] /\ pc'[q] = pc[q]
        /\ pc' \in [Request -> Labels \cup {"idle"}] /\ pc'[r] = label
        /\ held' = held
        /\ UNCHANGED <<type, room, status, control, decision, evidence>>
        /\ beside' = [q \in Request |->
             IF q = r THEN {p \in Running : Asks(p, Rival)}
             ELSE IF q \in Running /\ kind \in Rival THEN beside[q] \cup {r}
             ELSE beside[q]]
    BY <1>1, <1>2, BeginFacts
  <1>4. label \notin Ended /\ label # "idle"
    BY <1>1 DEF Opens, Ended
  <1>5. /\ \A q \in Request \ {r} : \A kinds : Asks(q, kinds)' <=> Asks(q, kinds)
        /\ \A kinds : ~Asks(r, kinds)
        /\ Began(r)'
        /\ Asks(r, Rival)' <=> kind \in Rival
    BY <1>2, <1>3, <1>4 DEF Asks, Began
  <1>6. \A role \in Role : <<r, role>> \notin Object
    BY <1>2 DEF Typed, Placed, Began
  <1>7. /\ Running \subseteq Request
        /\ beside \in [Request -> SUBSET Request]
    BY DEF Running, Typed, TypeOK
  <1>8. /\ beside' \in [Request -> SUBSET Request]
        /\ \A q \in Request \ {r} :
              /\ beside[q] \subseteq beside'[q]
              /\ beside'[q] \subseteq beside[q] \cup {r}
              /\ r \in beside'[q] => kind \in Rival \/ r \in beside[q]
              /\ q \in Running /\ kind \in Rival => r \in beside'[q]
        /\ beside'[r] = {p \in Running : Asks(p, Rival)}
    BY <1>3, <1>7
  <1>9. \A q \in Request : r \notin beside[q]
    BY <1>5 DEF Typed, RivalsBeside
  <1> QED BY <1>2, <1>3, <1>4, <1>5, <1>6, <1>8, <1>9

LEMMA TypedArrive ==
  ASSUME Typed, NEW r \in Request, Arrive(r)
  PROVE  Typed'
  <1>1. PICK kind, input, trade, word, seen, label :
          /\ Begin(r, kind, input, trade, word, seen, label)
          /\ Opens(kind, input, trade, word, seen, label)
    BY ArriveFacts
  <1>2. pc[r] = "idle"
    BY DEF Arrive
  <1>3. /\ request'[r] \in Asked
        /\ request'[r].kind = kind /\ request'[r].input = input
        /\ request'[r].trade = trade /\ request'[r].word = word
        /\ request'[r].seen = seen /\ request'[r].found = {}
        /\ pc'[r] = label
    BY <1>1, <1>2, BeginFacts
  <1>4. /\ Object' = Object /\ Document' = Document /\ ProofBundle' = ProofBundle
        /\ \A o : StatusOf(o)' = StatusOf(o)
        /\ held' = held /\ control' = control /\ room' = room
    BY ArriveKeeps DEF Object, Document, ProofBundle, TypeOf, StatusOf
  <1>5. TypeOK'
    BY <1>4, ArriveKeeps DEF Typed, TypeOK
  <1>6. \A s \in Request : Asks(s, {"share"}) => s # r /\ Asks(s, {"share"})'
    BY ArriveKeeps
  <1>7. ASSUME NEW q \in Request \ {r}
        PROVE  Placed(q)'
    <2>1. request'[q] = request[q] /\ pc'[q] = pc[q] /\ held'[q] = held[q]
          /\ Placed(q)
      BY <1>4, ArriveKeeps DEF Typed
    <2>2. Input(q)' = Input(q)
      BY <2>1 DEF Input
    <2>3. InputKnown(q) => InputKnown(q)'
      BY <1>4, <1>6, <2>1 DEF InputKnown
    <2>4. SeenKnown(q) => SeenKnown(q)'
      BY <2>1, ArriveKeeps DEF SeenKnown
    <2>5. Began(q)' <=> Began(q)
      BY <2>1 DEF Began
    <2> QED BY <1>4, <2>1, <2>2, <2>3, <2>4, <2>5 DEF Placed
  <1>8. Placed(r)'
    <2>1. Began(r)' /\ \A role \in Role : <<r, role>> \notin Object'
      BY <1>4, ArriveKeeps
    <2>2. pc'[r] \in LabelsOf(request'[r].kind)
      BY <1>1, <1>3 DEF Opens
    <2>3. InputKnown(r)'
      <3>1. kind = "review" =>
              \E s \in Request : Asks(s, {"share"})' /\ input = {<<s, "approval">>}
        BY <1>1, <1>6 DEF Opens
      <3>2. "extraction" \in Role /\ "document" \in Role
        BY DEF Role
      <3>3. kind = "upload" => label = "store" /\ input = {}
        BY <1>1 DEF Opens
      <3>4. /\ input \subseteq Object'
            /\ kind \notin {"upload", "pack", "bundle", "agent"} =>
                 \E o \in Object' : input = {o}
            /\ kind = "extract" => input \subseteq Document'
            /\ kind = "clearance" => input \subseteq Root
            /\ kind = "share" => input \subseteq ProofBundle'
            /\ kind = "attach" => trade \in Trade
        BY <1>1, <1>4 DEF Opens
      <3> QED BY <1>3, <2>1, <3>1, <3>2, <3>3, <3>4 DEF InputKnown
    <2>4. SeenKnown(r)'
      <3>1. /\ kind = "attach" => seen \subseteq Status
            /\ kind = "review" => seen = {} /\ word \in {"approved", "rejected"}
        BY <1>1 DEF Opens
      <3>2. kind = "clearance" => seen \subseteq Request
        BY <1>1 DEF Opens, Typed, TypeOK
      <3> QED BY <1>3, <3>1, <3>2 DEF SeenKnown, Asks
    <2>5. label \notin {"write", "find", "relate", "target", "release"}
      BY <1>1 DEF Opens
    <2> QED BY <1>3, <2>1, <2>2, <2>3, <2>4, <2>5 DEF Placed
  <1>9. LocksDisjoint'
    BY <1>4 DEF Typed, LocksDisjoint
  <1>10. Controlled'
    <2> SUFFICES ASSUME NEW b \in DOMAIN control'
                 PROVE  /\ control'[b] \in Control
                        /\ pc'[control'[b].approval] # "idle"
                        /\ request'[control'[b].approval].kind = "share"
                        /\ request'[control'[b].approval].input = {b}
      BY DEF Controlled, Asks
    <2>1. PICK s : s = control[b].approval
      OBVIOUS
    <2>2. /\ control[b] \in Control
          /\ Asks(s, {"share"}) /\ request[s].input = {b}
      BY <1>4, <2>1 DEF Typed, Controlled
    <2>3. s \in Request /\ s # r
      BY <2>1, <2>2, ArriveKeeps DEF Control
    <2> QED BY <1>4, <2>1, <2>2, <2>3, ArriveKeeps DEF Asks
  <1>11. RivalsBeside'
    <2>1. \A q, p \in Request : q \in beside'[p] => Asks(q, Rival)'
      <3> TAKE q, p \in Request
      <3> HAVE q \in beside'[p]
      <3>1. CASE q = r
        <4>1. p # r
          <5>1. r \notin Running
            BY <1>2 DEF Running
          <5> QED BY <3>1, <5>1, ArriveKeeps
        <4> QED BY <3>1, <4>1, ArriveKeeps
      <3>2. CASE q # r
        <4>1. Asks(q, Rival)
          BY <3>2, ArriveKeeps DEF Typed, RivalsBeside
        <4> QED BY <3>2, <4>1, ArriveKeeps
      <3> QED BY <3>1, <3>2
    <2>2. \A q, p \in Running' : q # p /\ Asks(q, Rival)' => q \in beside'[p]
      <3> TAKE q, p \in Running'
      <3> HAVE q # p /\ Asks(q, Rival)'
      <3>1. Running' \subseteq Running \cup {r} /\ Running' \subseteq Request
        BY ArriveKeeps DEF Running
      <3>2. CASE q = r
        BY <3>1, <3>2, ArriveKeeps
      <3>3. CASE q # r
        <4>1. q \in Running /\ Asks(q, Rival)
          BY <3>1, <3>3, ArriveKeeps
        <4>2. CASE p = r
          BY <4>1, <4>2, ArriveKeeps
        <4>3. CASE p # r
          <5>1. q \in beside[p]
            BY <3>1, <4>1, <4>3 DEF Typed, RivalsBeside
          <5> QED BY <3>1, <4>3, <5>1, ArriveKeeps
        <4> QED BY <4>2, <4>3
      <3> QED BY <3>2, <3>3
    <2> QED BY <2>1, <2>2 DEF RivalsBeside
  <1> QED BY <1>5, <1>7, <1>8, <1>9, <1>10, <1>11, ArriveKeeps DEF Typed
-----------------------------------------------------------------------------
(* Known is inductive.                                                       *)

\* A record that has a trade keeps one; only an attachment gives an existing
\* record a trade, or another.
LEMMA TradeStays ==
  ASSUME Typed, NEW r \in Request, Step(r) \/ Rollback(r), NEW o \in Object
  PROVE  /\ room[o] # None => room'[o] # None
         /\ \/ room'[o] = room[o]
            \/ /\ CommitAttachment(r)
               /\ \/ o = Input(r)
                  \/ o \in request[r].found /\ room[o] = None
               /\ room'[o] = request[r].trade /\ room'[o] # None
  <1>1. None \notin Trade
    BY NoneAssumption
  <1>2. CASE CommitAttachment(r)
    <2>1. /\ request[r].trade \in Trade
          /\ room'[o] = IF \/ o = Input(r)
                           \/ o \in request[r].found /\ room[o] = None
                        THEN request[r].trade ELSE room[o]
      BY <1>2, AttachMoves
    <2> QED BY <1>1, <1>2, <2>1
  <1>3. ASSUME NEW trade, Brings(r, trade)
        PROVE  room'[o] = room[o]
    BY <1>3 DEF Brings, Inserts
  <1> QED BY <1>2, <1>3, StepFacts

\* What is made anew has the trade its request had read, or the one a decision
\* affects.
LEMMA MadeWith ==
  ASSUME Typed, NEW r \in Request, Step(r) \/ Rollback(r), NEW o \in Object',
         o \notin Object
  PROVE  /\ \E role \in RolesOf(request[r].kind) : o = <<r, role>>
         /\ room'[o] = request[r].trade
            \/ (CommitReview(r) /\ room'[o] = Affected(r))
  <1>1. CASE CommitAttachment(r)
    <2>1. /\ Object' = Object \cup {<<r, "run">>} /\ Asks(r, {"attach"})
          /\ room'[<<r, "run">>] = request[r].trade
      BY <1>1, AttachMoves
    <2> QED BY <2>1 DEF Asks, RolesOf, Role
  <1>2. ASSUME NEW trade, Brings(r, trade)
        PROVE  /\ \E role \in RolesOf(request[r].kind) : o = <<r, role>>
               /\ room'[o] = trade
    <2>1. PICK roles \in SUBSET RolesOf(request[r].kind) : Inserts(r, roles, trade)
      BY <1>2 DEF Brings
    <2>2. o \in {r} \X roles
      BY <2>1 DEF Inserts
    <2>3. PICK role \in roles : o = <<r, role>>
      BY <2>2
    <2> QED BY <2>1, <2>3 DEF Inserts
  <1> QED BY <1>1, <1>2, StepFacts

LEMMA DocumentsStay ==
  ASSUME Known, NEW r \in Request, Step(r) \/ Rollback(r)
  PROVE  NoDocumentFound'
  <1> SUFFICES ASSUME NEW q \in Request, pc'[q] = "relate",
                      NEW o \in request'[q].found
               PROVE  TypeOf(o) # "document"
    <2>1. \A o : TypeOf(o)' = TypeOf(o)
      BY AsksKept DEF Known
    <2> QED BY <2>1 DEF NoDocumentFound
  <1>1. Typed /\ Moves(r, pc'[r])
    BY StepFacts DEF Known
  <1>2. CASE q # r
    BY <1>1, <1>2 DEF Moves, Known, NoDocumentFound
  <1>3. CASE q = r /\ TakeDerived(r)
    BY <1>3 DEF TakeDerived, Known, NoDocumentFound
  <1>4. CASE q = r /\ FindDerived(r)
    <2>1. o \in Derived(Input(r))
      BY <1>1, <1>4, FindMoves
    <2>2. Refs(o) # {}
      BY <2>1, DerivedFacts
    <2> QED BY <2>2 DEF Refs, TypeOf
  <1> QED BY <1>1, <1>2, <1>3, <1>4, KeepFacts

LEMMA SettledStep ==
  ASSUME Known, NEW r \in Request, Step(r) \/ Rollback(r), NEW q \in Request
  PROVE  Settled(q)'
  <1>1. Typed /\ Moves(r, pc'[r]) /\ Settled(q)
    BY StepFacts DEF Known
  <1>2. \A kinds : Asks(q, kinds)' <=> Asks(q, kinds)
    BY <1>1, AsksKept
  <1>3. None \notin Trade
    BY NoneAssumption
  <1>4. \A o \in Object : room[o] # None => room'[o] # None
    BY <1>1, TradeStays
  <1>5. ASSUME Asks(q, {"attach"}), <<q, "run">> \in Object'
        PROVE  room'[<<q, "run">>] # None
    <2>1. CASE <<q, "run">> \in Object
      BY <1>1, <1>4, <1>5, <2>1 DEF Settled
    <2>2. CASE <<q, "run">> \notin Object
      <3>1. /\ q = r
            /\ room'[<<q, "run">>] = request[r].trade \/ CommitReview(r)
        BY <1>1, <1>5, <2>2, MadeWith
      <3>2. ~CommitReview(r)
        BY <1>1, <1>5, <3>1, ReviewMoves DEF Asks
      <3>3. request[r].trade \in Trade
        BY <1>1, <1>5, <3>1 DEF Typed, Placed, InputKnown, Asks, Began
      <3> QED BY <1>3, <3>1, <3>2, <3>3
    <2> QED BY <2>1, <2>2
  <1>6. ASSUME Asks(q, {"review"}), pc'[q] = "insert"
        PROVE  request'[q].trade # None
    <2>1. CASE q # r
      BY <1>1, <1>6, <2>1 DEF Moves, Settled
    <2>2. CASE q = r /\ ReadEvaluated(r)
      <3>1. request[r].kind \in {"clearance", "trust"}
        BY <1>1, <2>2, ReadMoves
      <3> QED BY <1>6, <2>2, <3>1 DEF Asks
    <2>3. CASE q = r /\ CommitReview(r)
      <3>1. /\ \/ Moves(r, "done")
               \/ Affected(r) # None
            /\ request'[r].trade = Affected(r)
        BY <1>1, <2>3, ReviewMoves
      <3> QED BY <1>6, <2>3, <3>1 DEF Moves
    <2> QED BY <1>1, <1>6, <2>1, <2>2, <2>3, KeepFacts
  <1>7. ASSUME Asks(q, {"review"}), NEW role \in {"readiness", "eval"},
               <<q, role>> \in Object'
        PROVE  room'[<<q, role>>] # None
    <2>1. CASE <<q, role>> \in Object
      BY <1>1, <1>4, <1>7, <2>1 DEF Settled
    <2>2. CASE <<q, role>> \notin Object
      <3>1. /\ q = r
            /\ room'[<<q, role>>] = request[r].trade \/ CommitReview(r)
        BY <1>1, <1>7, <2>2, MadeWith
      <3>2. \/ CommitExtraction(r) \/ InsertReadiness(r) \/ InsertBundle(r)
            \/ InsertAgentTask(r)
        BY <1>1, <1>7, <2>2, <3>1, MadeBy
      <3>3. InsertReadiness(r)
        BY <1>7, <3>1, <3>2 DEF CommitExtraction, InsertBundle,
           InsertAgentTask, Asks
      <3>4. pc[r] = "insert" /\ ~CommitReview(r)
        BY <3>3 DEF InsertReadiness, CommitReview
      <3> QED BY <1>1, <1>7, <3>1, <3>4 DEF Settled
    <2> QED BY <2>1, <2>2
  <1>8. ASSUME Asks(q, {"trust", "approval", "share"}),
               pc'[q] = "run" \/ <<q, "run">> \in Object'
        PROVE  <<q, "approval">> \in Object'
    <2>1. Object \subseteq Object'
      BY <1>1, RoomFacts
    <2>2. CASE pc[q] = "run" \/ <<q, "run">> \in Object
      BY <1>1, <1>8, <2>1, <2>2 DEF Settled
    <2>3. CASE q = r /\ InsertApproval(r)
      <3> DEFINE new == Made(r, {"approval"})
      <3>1. <<r, "approval">> \in DOMAIN new
        BY DEF Made
      <3>2. room' = Put(new, room)
        BY <2>3 DEF InsertApproval
      <3> HIDE DEF new
      <3>3. DOMAIN Put(new, room) = DOMAIN new \cup DOMAIN room
        BY PutFacts
      <3> QED BY <2>3, <3>1, <3>2, <3>3 DEF Object
    <2>4. CASE pc[q] # "run" /\ pc'[q] = "run"
      <3>1. q = r
        BY <1>1, <2>4 DEF Moves
      <3> QED BY <1>1, <2>3, <2>4, <3>1, KeepFacts
    <2>5. CASE <<q, "run">> \notin Object /\ <<q, "run">> \in Object'
      <3>1. q = r
        BY <1>1, <2>5, MadeWith
      <3>2. \/ InsertBundle(r) \/ InsertRun(r) \/ CommitReview(r)
            \/ CommitAttachment(r)
        BY <1>1, <2>5, <3>1, MadeBy
      <3>3. ~InsertBundle(r) /\ ~CommitReview(r) /\ ~CommitAttachment(r)
        BY <1>1, <1>8, <3>1, ReviewMoves, AttachMoves DEF InsertBundle, Asks
      <3>4. pc[q] = "run"
        BY <3>1, <3>2, <3>3 DEF InsertRun
      <3> QED BY <2>2, <3>4
    <2> QED BY <1>8, <2>2, <2>4, <2>5
  <1> QED BY <1>2, <1>5, <1>6, <1>7, <1>8 DEF Settled

LEMMA KnownStep ==
  ASSUME Known, [Next]_vars
  PROVE  Known'
  <1>1. Typed
    BY DEF Known
  <1>2. ASSUME NEW r \in Request, Step(r) \/ Rollback(r)
        PROVE  Known'
    BY <1>1, <1>2, TypedStep, DocumentsStay, SettledStep DEF Known
  <1>3. ASSUME NEW r \in Request, Arrive(r)
        PROVE  Known'
    <2>1. /\ Typed' /\ pc[r] = "idle" /\ room' = room /\ type' = type
          /\ \A q \in Request \ {r} : request'[q] = request[q] /\ pc'[q] = pc[q]
          /\ \A q \in Request \ {r} : \A kinds : Asks(q, kinds)' <=> Asks(q, kinds)
          /\ \A role \in Role : <<r, role>> \notin Object
      BY <1>1, <1>3, TypedArrive, ArriveKeeps
    <2>2. pc'[r] \notin {"relate", "run"}
          /\ (Asks(r, {"review"})' => pc'[r] # "insert")
      <3>1. PICK kind, input, trade, word, seen, label :
              /\ Begin(r, kind, input, trade, word, seen, label)
              /\ Opens(kind, input, trade, word, seen, label)
        BY <1>1, <1>3, ArriveFacts
      <3>2. request'[r].kind = kind /\ pc'[r] = label
        BY <1>1, <2>1, <3>1, BeginFacts
      <3> QED BY <3>1, <3>2 DEF Opens, Asks
    <2>3. NoDocumentFound'
      BY <2>1, <2>2 DEF Known, NoDocumentFound, TypeOf
    <2>4. Object' = Object
      BY <2>1 DEF Object
    <2>5. ASSUME NEW q \in Request
          PROVE  Settled(q)'
      <3>1. CASE q = r
        BY <2>1, <2>2, <2>4, <3>1 DEF Settled, Role
      <3>2. CASE q # r
        BY <2>1, <2>4, <3>2 DEF Settled, Known
      <3> QED BY <3>1, <3>2
    <2> QED BY <2>1, <2>3, <2>5 DEF Known
  <1>4. CASE UNCHANGED vars
    <2>1. UNCHANGED <<type, room, status, control, decision, evidence, held, pc,
                      request, beside>>
      BY <1>4 DEF vars, rows
    <2>2. /\ Object' = Object /\ Document' = Document
          /\ ProofBundle' = ProofBundle /\ Running' = Running
          /\ \A o : TypeOf(o)' = TypeOf(o) /\ StatusOf(o)' = StatusOf(o)
      BY <2>1 DEF Object, Document, ProofBundle, Running, TypeOf, StatusOf
    <2>3. \A q, kinds : Asks(q, kinds)' <=> Asks(q, kinds)
      BY <2>1 DEF Asks
    <2>4. TypeOK'
      BY <1>1, <2>1, <2>2 DEF Typed, TypeOK
    <2>5. ASSUME NEW q \in Request
          PROVE  Placed(q)' /\ Settled(q)'
      <3>1. InputKnown(q)' <=> InputKnown(q)
        BY <2>1, <2>2, <2>3 DEF InputKnown
      <3>2. SeenKnown(q)' <=> SeenKnown(q)
        BY <2>1, <2>3 DEF SeenKnown
      <3>3. (Began(q)' <=> Began(q)) /\ Input(q)' = Input(q)
        BY <2>1 DEF Began, Input
      <3>4. Placed(q)'
        BY <1>1, <2>1, <2>2, <3>1, <3>2, <3>3 DEF Typed, Placed
      <3>5. Settled(q)'
        BY <2>1, <2>2, <2>3 DEF Known, Settled
      <3> QED BY <3>4, <3>5
    <2>6. LocksDisjoint' /\ Controlled' /\ RivalsBeside' /\ NoDocumentFound'
      <3>1. LocksDisjoint' /\ NoDocumentFound'
        BY <1>1, <2>1, <2>2 DEF Known, Typed, LocksDisjoint, NoDocumentFound
      <3>2. Controlled'
        BY <1>1, <2>1 DEF Typed, Controlled, Asks
      <3>3. RivalsBeside'
        BY <1>1, <2>1, <2>2, <2>3 DEF Typed, RivalsBeside
      <3> QED BY <3>1, <3>2, <3>3
    <2> QED BY <1>1, <2>1, <2>4, <2>5, <2>6 DEF Known, Typed
  <1> QED BY <1>2, <1>3, <1>4 DEF Next

LEMMA KnownInit ==
  ASSUME Init
  PROVE  Known
  <1>1. /\ \A r \in Request : pc[r] = "idle"
        /\ DOMAIN room = Root /\ DOMAIN status = {} /\ DOMAIN control = {}
        /\ \A o \in Root : room[o] = None
        /\ \A r \in Request : held[r] = {} /\ beside[r] = {}
    BY DEF Init
  <1>2. /\ Object = Root /\ \A o \in Object : StatusOf(o) = "open"
        /\ \A r \in Request, role \in Role : <<r, role>> \notin Object
    BY <1>1, DisjointAssumption DEF Object, StatusOf
  <1>3. TypeOK
    BY <1>1, <1>2 DEF Init, TypeOK, Id, Room, Status
  <1>4. /\ \A r \in Request : \A kinds : ~Asks(r, kinds)
        /\ \A r \in Request : ~Began(r) /\ r \notin Running
    BY <1>1 DEF Asks, Began, Running
  <1>5. \A r \in Request : Placed(r)
    BY <1>1, <1>2, <1>4 DEF Placed
  <1>6. /\ LocksDisjoint /\ Controlled /\ RivalsBeside
        /\ pc \in [Request -> Labels \cup {"idle"}] /\ DOMAIN request = Request
    BY <1>1, <1>4 DEF LocksDisjoint, Controlled, RivalsBeside, Init, Running
  <1>7. NoDocumentFound /\ \A r \in Request : Settled(r)
    BY <1>1, <1>4 DEF NoDocumentFound, Settled
  <1> QED BY <1>3, <1>5, <1>6, <1>7 DEF Known, Typed
-----------------------------------------------------------------------------
(* The rest of the invariant, part by part.                                  *)

LEMMA ReleasedStep ==
  ASSUME Known, ReleasedIsApproved, NEW r \in Request, Step(r) \/ Rollback(r)
  PROVE  ReleasedIsApproved'
  <1>1. Typed
    BY DEF Known
  <1>2. CASE control' = control /\ ~CommitReview(r)
    BY <1>1, <1>2, RecordFacts DEF ReleasedIsApproved
  <1>3. CASE CommitShare(r)
    <2> DEFINE put == Put(Only(Input(r), ShareControl(r)), control)
    <2>1. /\ DOMAIN put = DOMAIN control \cup {Input(r)}
          /\ put[Input(r)] = ShareControl(r)
          /\ \A b \in DOMAIN control \ {Input(r)} : put[b] = control[b]
      BY DEF Put, Only
    <2>2. control' = put /\ decision' = decision
      BY <1>3 DEF CommitShare
    <2>3. ShareControl(r).status # "approved"
      BY DEF ShareControl
    <2> HIDE DEF put
    <2> QED BY <2>1, <2>2, <2>3 DEF ReleasedIsApproved
  <1>4. CASE CommitReview(r)
    <2> DEFINE put == Put(Only(Bundle(r), Decision(r)), control)
    <2>1. /\ DOMAIN put = DOMAIN control \cup {Bundle(r)}
          /\ put[Bundle(r)] = Decision(r)
          /\ \A b \in DOMAIN control \ {Bundle(r)} : put[b] = control[b]
      BY DEF Put, Only
    <2>2. /\ control' = put
          /\ decision' = [decision EXCEPT ![Decided(r)] = request[r].word]
      BY <1>4 DEF CommitReview
    <2> HIDE DEF put
    <2>3. /\ Decided(r) \in Request
          /\ request[Decided(r)].input = {Bundle(r)}
          /\ DOMAIN decision = Request
      BY <1>1, <1>4, ReviewMoves, ReviewFacts DEF Typed, TypeOK
    <2>4. /\ Decision(r).approval = Decided(r)
          /\ Decision(r).status = request[r].word
      BY DEF Decision
    <2>5. \A b \in DOMAIN control \ {Bundle(r)} :
            /\ control[b].approval \in Request
            /\ control[b].approval # Decided(r)
      BY <1>1, <2>3 DEF Typed, Controlled, Control
    <2> QED BY <2>1, <2>2, <2>3, <2>4, <2>5 DEF ReleasedIsApproved
  <1> QED BY <1>1, <1>2, <1>3, <1>4, ControlFacts

\* A request to evaluate a clearance is about the same one throughout.
LEMMA InputKept ==
  ASSUME Typed, NEW r \in Request, Step(r) \/ Rollback(r), NEW q \in Request,
         ~Asks(q, {"upload"})
  PROVE  request'[q].input = request[q].input /\ Input(q)' = Input(q)
  <1>1. Moves(r, pc'[r])
    BY StepFacts
  <1>2. request'[q].input = request[q].input
    <2>1. CASE q # r
      BY <1>1, <2>1 DEF Moves
    <2>2. CASE q = r
      <3>1. ~CommitDocument(r)
        BY <1>1, <2>2, DocumentMoves DEF Asks, Moves, Began
      <3> QED BY <2>2, <3>1, StepFacts
    <2> QED BY <2>1, <2>2
  <1> QED BY <1>2 DEF Input

LEMMA EvidenceStep ==
  ASSUME Known, \A q \in Request : EvidenceKnown(q),
         NEW r \in Request, Step(r) \/ Rollback(r), NEW q \in Request
  PROVE  EvidenceKnown(q)'
  <1> DEFINE Evaluates(p) == Asks(p, {"clearance"})
  <1>1. Typed /\ Moves(r, pc'[r]) /\ beside' = beside
    BY StepFacts DEF Known, Moves
  <1>2. \A p \in Request : Asks(p, {"clearance"})' <=> Asks(p, {"clearance"})
    BY <1>1, AsksKept
  <1>3. \A p \in Request : Evaluates(p) =>
          /\ Input(p)' = Input(p) /\ Input(p) \in Root
          /\ request[p].input = {Input(p)}
    <2> TAKE p \in Request
    <2> HAVE Evaluates(p)
    <2>1. Input(p)' = Input(p)
      BY <1>1, InputKept DEF Asks
    <2>2. request[p].input = {Input(p)} /\ request[p].input \subseteq Root
      BY <1>1, InputFacts DEF Asks, Began, Typed, Placed, InputKnown
    <2> QED BY <2>1, <2>2
  <1>4. ASSUME NEW p \in Request, Evaluates(p), pc'[p] \in {"update", "write"}
        PROVE  pc[p] \in {"update", "write"} /\ request'[p].seen = request[p].seen
    <2>1. CASE p # r
      BY <1>1, <1>4, <2>1 DEF Moves
    <2>2. CASE p = r
      <3>1. ~CommitDocument(r) /\ ~Asks(r, {"review"})
        BY <1>1, <1>4, <2>2, DocumentMoves DEF Asks
      <3>2. Update(r)
        BY <1>1, <1>4, <2>2, <3>1, KeepFacts
      <3> QED BY <1>1, <2>2, <3>1, <3>2, KeepFacts DEF Update
    <2> QED BY <2>1, <2>2
  <1>5. evidence \in [Root -> SUBSET Request]
    BY <1>1 DEF Typed, TypeOK
  <1> SUFFICES ASSUME Evaluates(q), pc'[q] \notin {"update", "write", "failed"},
                      \A p \in beside[q] : ~Evaluates(p)
               PROVE  /\ q \in evidence'[Input(q)]
                      /\ \A p \in Request :
                           /\ Evaluates(p) /\ pc'[p] \in {"update", "write"}
                           /\ Input(p) = Input(q)
                           => q \in request'[p].seen
    <2>1. beside \in [Request -> SUBSET Request]
      BY <1>1 DEF Typed, TypeOK
    <2> QED BY <1>1, <1>2, <1>3, <2>1 DEF EvidenceKnown
  <1>6. CASE pc[q] \in {"update", "write", "failed"}
    <2>1. q = r
      BY <1>1, <1>6 DEF Moves
    <2>2. CommitClearance(r)
      <3>1. pc[r] \in {"update", "write"} /\ request[r].kind = "clearance"
        BY <1>1, <1>6, <2>1 DEF Moves, Ended, Asks
      <3>2. ~CommitExtraction(r) /\ ~CommitTrust(r) /\ ~Update(r) /\ ~Rollback(r)
        <4>1. Update(r) => pc'[r] = "write"
          BY <1>1, UpdateMoves DEF Moves
        <4>2. Rollback(r) => pc'[r] = "failed"
          BY <1>1, MovesFacts DEF Rollback, Labels
        <4> QED BY <2>1, <3>1, <4>1, <4>2 DEF CommitExtraction, CommitTrust, Asks
      <3> QED BY <3>1, <3>2 DEF Step, CommitDocument, InsertReport,
           ReadEvaluated, InsertReadiness, InsertPack, InsertBundle,
           InsertAgentTask, InsertPassport, InsertMatch, ReadInvited,
           InsertApproval, InsertRun, CommitShare, TakeApproval, ReadBundle,
           CommitReview, TakeAttached, FindDerived, TakeDerived,
           CommitAttachment
    <2>3. q \in evidence'[Input(q)]
      BY <1>3, <1>5, <2>1, <2>2 DEF CommitClearance
    <2>4. ASSUME NEW p \in Request, Evaluates(p), pc'[p] \in {"update", "write"}
          PROVE  FALSE
      <3>1. pc[p] \in {"update", "write"}
        BY <1>4, <2>4
      <3>2. p # r
        BY <2>1, <2>4
      <3>3. p \in Running /\ r \in Running
        BY <1>1, <3>1 DEF Running, Moves, Began, Ended
      <3>4. Asks(p, Rival)
        BY <2>4 DEF Asks, Rival
      <3>5. p \in beside[r]
        BY <1>1, <3>2, <3>3, <3>4 DEF Typed, RivalsBeside
      <3> QED BY <2>1, <2>4, <3>5
    <2> QED BY <2>3, <2>4
  <1>7. CASE pc[q] \notin {"update", "write", "failed"}
    <2>1. /\ q \in evidence[Input(q)]
          /\ \A p \in Request :
               /\ Evaluates(p) /\ pc[p] \in {"update", "write"}
               /\ Input(p) = Input(q)
               => q \in request[p].seen
      BY <1>7 DEF EvidenceKnown
    <2>2. q \in evidence'[Input(q)]
      <3>1. CASE evidence' = evidence
        BY <2>1, <3>1
      <3>2. CASE CommitClearance(r)
        <4>1. /\ Evaluates(r) /\ pc[r] = "write"
              /\ evidence' = [evidence EXCEPT
                                ![Input(r)] = request[r].seen \cup {r}]
          BY <3>2 DEF CommitClearance
        <4>2. CASE Input(r) = Input(q)
          BY <1>3, <1>5, <2>1, <4>1, <4>2
        <4>3. CASE Input(r) # Input(q)
          BY <1>3, <1>5, <2>1, <4>1, <4>3
        <4> QED BY <4>2, <4>3
      <3> QED BY <1>1, <3>1, <3>2, RecordFacts
    <2> QED BY <1>4, <2>1, <2>2
  <1> QED BY <1>6, <1>7

\* The records of an extraction refer to its document.
LEMMA ExtractionRefs ==
  ASSUME Typed, NEW q \in Request, Extracts(q),
         NEW role \in {"extraction", "eval"}
  PROVE  request[q].input \subseteq Refs(<<q, role>>)
  <1>1. <<q, role>> \notin Root
    BY IdFacts DEF Role
  <1>2. ~Asks(q, {"review"})
    BY DEF Extracts, Asks
  <1> QED BY <1>1, <1>2 DEF Refs

\* While an extraction has its document, nobody attaches the document; and
\* once its records exist it is over.
LEMMA ExtractionFacts ==
  ASSUME Typed, NEW q \in Request, Extracts(q),
         pc[q] = "write" \/ <<q, "extraction">> \in Object
  PROVE  /\ request[q].input = {Input(q)} /\ Input(q) \in Document
         /\ <<q, "extraction">> \in Object => pc[q] \in Ended
         /\ pc[q] = "write" => Input(q) \in held[q]
  <1>1. Began(q) /\ request[q].kind \in {"extract", "upload"} /\ Placed(q)
    BY DEF Extracts, Asks, Began, Typed
  <1>2. request[q].input = {Input(q)} /\ Input(q) \in Document
    <2>1. CASE request[q].kind = "extract"
      BY <1>1, <2>1, InputFacts DEF Placed, InputKnown
    <2>2. CASE request[q].kind = "upload"
      <3>1. request[q].input = {<<q, "document">>} /\ request[q].input \subseteq Object
        BY <1>1, <2>2 DEF Placed, InputKnown
      <3>2. TypeOf(<<q, "document">>) = "document"
        BY IdFacts DEF Role
      <3> QED BY <3>1, <3>2 DEF Input, Document
    <2> QED BY <1>1, <2>1, <2>2
  <1>3. <<q, "extraction">> \in Object => pc[q] \in Ended
    BY <1>1 DEF Placed, Behind, Role
  <1> QED BY <1>1, <1>2, <1>3 DEF Placed

LEMMA ExtractionStep ==
  ASSUME Known, \A q \in Request : ExtractionKnown(q),
         NEW r \in Request, Step(r) \/ Rollback(r), NEW q \in Request
  PROVE  ExtractionKnown(q)'
  <1>1. Typed /\ Moves(r, pc'[r])
    BY StepFacts DEF Known
  <1>2. Extracts(q)' <=> Extracts(q)
    BY <1>1, AsksKept DEF Extracts
  <1> SUFFICES ASSUME Extracts(q) PROVE ExtractionKnown(q)'
    BY <1>2 DEF ExtractionKnown
  <1>3. Object \subseteq Object'
    BY <1>1, RoomFacts
  <1> DEFINE Finds(p) == pc[p] = "relate"
             Roles == {"extraction", "eval"}
  <1>4. \A p \in Request : pc[p] = "relate" =>
          /\ Asks(p, {"attach"}) /\ Input(p) \in held[p]
          /\ request[p].input = {Input(p)} /\ Input(p) \in Object
    <2> TAKE p \in Request
    <2> HAVE pc[p] = "relate"
    <2>1. Began(p) /\ request[p].kind = "attach"
      BY <1>1, LabelFacts DEF Began
    <2> QED BY <1>1, <2>1, InputFacts DEF Asks, Began, Typed, Placed
  <1>5. ASSUME pc'[q] = "write"
        PROVE  request'[q].trade = room'[Input(q)'] /\ Input(q)' = Input(q)
    <2>1. CASE q # r
      <3>1. pc[q] = "write" /\ request'[q] = request[q] /\ Input(q)' = Input(q)
        BY <1>1, <1>5, <2>1 DEF Moves, Input
      <3>2. Input(q) \in held[q] /\ Input(q) \in Object
        BY <1>1, <3>1, ExtractionFacts DEF Document
      <3>3. room'[Input(q)] = room[Input(q)]
        <4>1. SUFFICES ASSUME CommitAttachment(r),
                              Input(q) = Input(r) \/ Input(q) \in request[r].found
                       PROVE  FALSE
          BY <1>1, <3>2, TradeStays
        <4>2. Input(q) \in held[r]
          BY <1>1, <1>4, <4>1, AttachMoves
        <4> QED BY <1>1, <2>1, <3>2, <4>2 DEF Typed, LocksDisjoint
      <3> QED BY <3>1, <3>3 DEF ExtractionKnown
    <2>2. CASE q = r
      <3>1. Update(r)
        BY <1>1, <1>5, <2>2, KeepFacts
      <3>2. /\ request'[r].trade = room[Input(r)] /\ room' = room
            /\ request'[r].input = request[r].input
        BY <1>1, <3>1, UpdateMoves
      <3> QED BY <2>2, <3>2 DEF Input
    <2> QED BY <2>1, <2>2
  <1>6. ASSUME <<q, "extraction">> \in Object', NEW role \in Roles
        PROVE  /\ <<q, role>> \in Object'
               /\ room'[<<q, role>>] = None => room'[Input(q)'] = None
               /\ \A p \in Request :
                    /\ pc'[p] = "relate" /\ Input(p)' = Input(q)'
                    /\ room'[<<q, role>>] = None
                    => <<q, role>> \in request'[p].found
    <2>1. CASE <<q, "extraction">> \in Object
      <3>1. /\ pc[q] \in Ended /\ q # r
            /\ Input(q) \in Document /\ Input(q) \in Object
        BY <1>1, <2>1, ExtractionFacts DEF Moves, Document
      <3>2. request'[q] = request[q] /\ Input(q)' = Input(q)
        BY <1>1, <3>1 DEF Moves, Input
      <3>3. /\ <<q, role>> \in Object
            /\ room[<<q, role>>] = None => room[Input(q)] = None
            /\ \A p \in Request :
                 /\ pc[p] = "relate" /\ Input(p) = Input(q)
                 /\ room[<<q, role>>] = None
                 => <<q, role>> \in request[p].found
        BY <2>1 DEF ExtractionKnown
      <3>4. room'[<<q, role>>] = None => room[<<q, role>>] = None
        BY <1>1, <3>3, TradeStays
      <3>5. ASSUME room'[<<q, role>>] = None
            PROVE  room'[Input(q)] = None
        <4>1. SUFFICES ASSUME CommitAttachment(r),
                              Input(q) = Input(r) \/ Input(q) \in request[r].found
                       PROVE  FALSE
          BY <1>1, <3>1, <3>3, <3>4, <3>5, TradeStays
        <4>2. pc[r] = "relate" /\ request[r].trade \in Trade
          BY <1>1, <4>1, AttachMoves
        <4>3. Input(q) \notin request[r].found
          BY <3>1, <4>2 DEF Known, NoDocumentFound, Document
        <4>4. <<q, role>> \in request[r].found
          BY <3>3, <3>4, <3>5, <4>1, <4>2, <4>3
        <4>5. room'[<<q, role>>] = request[r].trade
          BY <1>1, <3>3, <3>4, <3>5, <4>1, <4>4, AttachMoves
        <4> QED BY <3>5, <4>2, <4>5, NoneAssumption
      <3>6. ASSUME NEW p \in Request, pc'[p] = "relate", Input(p)' = Input(q),
                   room'[<<q, role>>] = None
            PROVE  <<q, role>> \in request'[p].found
        <4>1. CASE p # r
          <5>1. pc[p] = "relate" /\ request'[p] = request[p] /\ Input(p)' = Input(p)
            BY <1>1, <3>6, <4>1 DEF Moves, Input
          <5> QED BY <3>3, <3>4, <3>6, <5>1
        <4>2. CASE p = r /\ TakeDerived(r)
          <5>1. pc[p] = "relate" /\ request' = request /\ Input(p)' = Input(p)
            BY <4>2 DEF TakeDerived, Input
          <5> QED BY <3>3, <3>4, <3>6, <5>1
        <4>3. CASE p = r /\ FindDerived(r)
          <5>1. /\ request'[r].found = Derived(Input(r))
                /\ request'[r].input = request[r].input
            BY <1>1, <4>3, FindMoves
          <5>2. Input(r) = Input(q)
            BY <3>6, <4>3, <5>1 DEF Input
          <5>3. <<q, role>> \in Unplaced(Input(q))
            <6> role \in Role
              BY DEF Role
            <6>1. TypeOf(<<q, role>>) = role
              BY <1>1, IdFacts
            <6>2. <<q, role>> # Input(q)
              BY <3>1, <6>1 DEF Document
            <6> QED BY <3>3, <3>4, <3>6, <6>2 DEF Unplaced
          <5>4. Input(q) \in Refs(<<q, role>>)
            BY <1>1, <2>1, ExtractionRefs, ExtractionFacts
          <5>5. <<q, role>> \in Derived(Input(q))
            BY <5>3, <5>4, DerivedFacts
          <5> QED BY <4>3, <5>1, <5>2, <5>5
        <4> QED BY <1>1, <3>6, <4>1, <4>2, <4>3, KeepFacts
      <3> QED BY <1>3, <3>2, <3>3, <3>5, <3>6
    <2>2. CASE <<q, "extraction">> \notin Object
      <3>1. q = r
        BY <1>1, <1>6, <2>2, MadeWith
      <3>2. CommitExtraction(r)
        BY <1>1, <1>6, <2>2, <3>1, MadeBy
      <3>3. /\ pc[r] = "write" /\ request' = request /\ ~CommitReview(r)
            /\ Input(q)' = Input(q)
        BY <1>1, <3>1, <3>2, LeaveMoves DEF CommitExtraction, CommitReview, Input
      <3>4. Input(r) \in Object /\ Input(r) \in held[r]
        BY <1>1, <3>1, <3>3, ExtractionFacts DEF Document
      <3>5. \E roles \in SUBSET RolesOf(request[r].kind) :
              Inserts(r, roles, request[r].trade)
        BY <1>1, <3>2, InsertStep
      <3>6. <<q, role>> \in Object' /\ <<q, role>> \notin Object
        <4> DEFINE new == Made(r, Roles)
        <4>1. <<r, role>> \in DOMAIN new
          BY DEF Made
        <4>2. room' = Put(new, room)
          BY <3>2 DEF CommitExtraction
        <4> HIDE DEF new
        <4>3. DOMAIN Put(new, room) = DOMAIN new \cup DOMAIN room
          BY PutFacts
        <4>4. role \notin Behind(request[r].kind, pc[r])
          BY <3>3 DEF Behind, Ended
        <4> QED BY <1>1, <3>1, <4>1, <4>2, <4>3, <4>4
                DEF Object, Typed, Placed, Role
      <3>7. room'[<<q, role>>] = request[r].trade
        BY <1>1, <3>3, <3>6, MadeWith
      <3>8. room'[Input(r)] = room[Input(r)]
        BY <3>4, <3>5 DEF Inserts
      <3>9. request[r].trade = room[Input(r)]
        BY <3>1, <3>3 DEF ExtractionKnown
      <3>10. ASSUME NEW p \in Request, pc'[p] = "relate", Input(p)' = Input(q)
             PROVE  FALSE
        <4>1. pc'[r] # "relate"
          BY <1>1, <3>2, LeaveMoves
        <4>2. p # r
          BY <3>10, <4>1
        <4>3. pc[p] = "relate" /\ Input(p) = Input(r)
          BY <1>1, <3>1, <3>3, <3>10, <4>2 DEF Moves, Input
        <4>4. Input(r) \in held[p]
          BY <1>4, <4>3
        <4> QED BY <1>1, <3>4, <4>2, <4>4 DEF Typed, LocksDisjoint
      <3> QED BY <3>1, <3>3, <3>6, <3>7, <3>8, <3>9, <3>10
    <2> QED BY <2>1, <2>2
  <1> QED BY <1>5, <1>6 DEF ExtractionKnown

\* What a record that goes without a trade was derived from
LEMMA RefsCore ==
  ASSUME Known, NEW q \in Request, NEW role \in Role,
         <<q, role>> \in Object, room[<<q, role>>] = None, ~Asks(q, {"agent"})
  PROVE  \/ role = "document" /\ request[q].input = {<<q, role>>}
         \/ /\ Asks(q, {"approval"}) /\ role = "run"
            /\ <<q, "approval">> \in Object
            /\ <<q, "approval">> \in Refs(<<q, role>>)
         \/ request[q].input \subseteq Refs(<<q, role>>)
  <1> DEFINE kind == request[q].kind
             o == <<q, role>>
  <1>1. /\ Typed /\ Began(q) /\ Settled(q)
        /\ role \in RolesOf(kind)
        /\ kind \in Kind /\ kind # "agent"
        /\ InputKnown(q)
    BY LabelFacts DEF Known, Typed, Placed, Behind, Asks, Began, Asked
  <1>2. o \notin Root /\ o[1] = q /\ o[2] = role
    BY <1>1, IdFacts
  <1>3. \A kinds : Asks(q, kinds) <=> kind \in kinds
    BY <1>1 DEF Asks, Began
  <1>4. CASE role = "document"
    BY <1>1, <1>4 DEF InputKnown, RolesOf
  <1>5. CASE role = "eval"
    <2>1. ~Asks(q, {"review"})
      BY <1>1, <1>5 DEF Settled
    <2> QED BY <1>2, <1>5, <2>1 DEF Refs
  <1>6. CASE role = "run" /\ kind = "approval"
    <2>1. <<q, "approval">> \in Object
      BY <1>1, <1>3, <1>6 DEF Settled
    <2>2. <<q, "approval">> \in Refs(o)
      <3>1. ~Asks(q, {"attach", "bundle"}) /\ ~Asks(q, {"bundle"})
            /\ ~Asks(q, {"review"})
        BY <1>3, <1>6
      <3>2. <<q, "approval">> \in ({q} \X {"approval", "task"}) \cap Object
        BY <2>1
      <3> QED BY <1>2, <1>6, <3>1, <3>2 DEF Refs
    <2> QED BY <1>3, <1>6, <2>1, <2>2
  <1>7. CASE role = "run" /\ kind \in {"trust", "share", "review"}
    <2>1. ~Asks(q, {"attach", "bundle"}) /\ ~Asks(q, {"bundle"})
      BY <1>3, <1>7
    <2>2. request[q].input \subseteq Evidence(q)
      BY <1>3, <1>7 DEF Evidence
    <2>3. Evidence(q) \subseteq Refs(o)
      BY <1>2, <1>7, <2>1 DEF Refs
    <2> QED BY <2>2, <2>3
  <1>8. CASE role = "run" /\ kind \in {"bundle", "attach"}
    <2>1. Asks(q, {"attach", "bundle"}) /\ ~Asks(q, {"review"})
          /\ (Asks(q, {"bundle"}) <=> kind = "bundle")
      BY <1>3, <1>8
    <2> QED BY <1>2, <1>8, <2>1 DEF Refs
  <1>9. CASE role = "task"
    <2>1. kind = "review" /\ Asks(q, {"review"})
      BY <1>1, <1>3, <1>9 DEF RolesOf
    <2>2. request[q].input \subseteq Evidence(q)
      BY <1>3, <2>1 DEF Evidence
    <2>3. Evidence(q) = Refs(o)
      BY <1>2, <1>9, <2>1 DEF Refs
    <2> QED BY <2>2, <2>3
  <1>10. CASE role = "readiness"
    <2>1. ~Asks(q, {"review"})
      BY <1>1, <1>10 DEF Settled
    <2> QED BY <1>2, <1>10, <2>1 DEF Refs
  <1>11. CASE role \in {"extraction", "bundle", "report", "passport", "pack"}
    BY <1>2, <1>11 DEF Refs
  <1>12. CASE role \in {"match", "approval", "work"}
    BY <1>2, <1>12 DEF Refs
  <1>13. role = "run" => kind \in {"trust", "approval", "share", "bundle",
                                   "review", "attach"}
    BY <1>1 DEF RolesOf
  <1> QED BY <1>4, <1>5, <1>6, <1>7, <1>8, <1>9, <1>10, <1>11, <1>12, <1>13
          DEF Role

LEMMA CoreKnown ==
  ASSUME Typed, NEW q \in Request, Began(q)
  PROVE  Core(q) \subseteq Object
  BY DEF Core, Typed, Placed, InputKnown

\* What a request follows changes when it has its document, and when it has
\* asked for an approval.
LEMMA CoreKept ==
  ASSUME Typed, NEW r \in Request, Step(r) \/ Rollback(r)
  PROVE  /\ \A q \in Request \ {r} : Core(q)' = Core(q)
         /\ CommitDocument(r) => Core(r)' = {<<r, "document">>}
         /\ ~CommitDocument(r) =>
              /\ Core(r) \subseteq Core(r)'
              /\ \A p \in Core(r)' : p \in Core(r) \/
                   (InsertApproval(r) /\ p = <<r, "approval">>
                    /\ p \in Object' /\ p \notin Object)
  <1>1. Moves(r, pc'[r])
    BY StepFacts
  <1>2. \A q \in Request : Asks(q, {"approval"})' <=> Asks(q, {"approval"})
    BY AsksKept
  <1>3. ASSUME NEW q \in Request \ {r}
        PROVE  Core(q)' = Core(q)
    <2>1. request'[q].input = request[q].input
      BY <1>1 DEF Moves
    <2>2. <<q, "approval">> \in Object' <=> <<q, "approval">> \in Object
      BY RoomFacts, MadeWith
    <2> QED BY <1>2, <2>1, <2>2 DEF Core
  <1>4. ASSUME CommitDocument(r)
        PROVE  Core(r)' = {<<r, "document">>}
    <2>1. request'[r].input = {<<r, "document">>} /\ ~Asks(r, {"approval"})
      BY <1>4, DocumentMoves DEF Asks
    <2> QED BY <1>2, <2>1 DEF Core
  <1>5. ASSUME ~CommitDocument(r)
        PROVE  /\ Core(r) \subseteq Core(r)'
               /\ \A p \in Core(r)' : p \in Core(r) \/
                    (InsertApproval(r) /\ p = <<r, "approval">>
                     /\ p \in Object' /\ p \notin Object)
    <2>1. request'[r].input = request[r].input
      BY <1>5, StepFacts
    <2>2. /\ Object \subseteq Object'
          /\ <<r, "approval">> \in Object' /\ <<r, "approval">> \notin Object
               => InsertApproval(r)
      BY RoomFacts, MadeBy
    <2> QED BY <1>2, <2>1, <2>2 DEF Core
  <1> QED BY <1>3, <1>4, <1>5

LEMMA UndisturbedKept ==
  ASSUME Typed, NEW r \in Request, Step(r) \/ Rollback(r), NEW q \in Request
  PROVE  Undisturbed(q)' <=> Undisturbed(q)
  <1>1. beside' = beside /\ beside[q] \subseteq Request
    BY StepFacts DEF Moves, Typed, TypeOK
  <1>2. \A p \in Request : \A kinds : Asks(p, kinds)' <=> Asks(p, kinds)
    BY AsksKept
  <1> QED BY <1>1, <1>2 DEF Undisturbed, Attaches

\* An attachment that runs is beside all that runs.
LEMMA NobodyAttaches ==
  ASSUME Typed, NEW q \in Request, Undisturbed(q), q \in Running,
         NEW p \in Request, p # q, pc[p] \in {"attach", "find", "relate"}
  PROVE  FALSE
  <1>1. Began(p) /\ p \in Running
    BY DEF Began, Running, Ended
  <1>2. Asks(p, {"attach"}) /\ Asks(p, Rival)
    BY <1>1, LabelFacts DEF Asks, Rival, Began
  <1>3. p \in beside[q]
    BY <1>1, <1>2 DEF Typed, RivalsBeside
  <1> QED BY <1>2, <1>3 DEF Undisturbed, Attaches

\* Where a request knows the trade it inserts with
Sure == {"write", "report", "evaluate", "insert", "passport", "match", "consult",
         "approve", "run"}

\* It has read it from the object, or knew it already.
LEMMA SureSteps ==
  ASSUME Typed, NEW r \in Request, Step(r) \/ Rollback(r), pc'[r] \in Sure
  PROVE  /\ ~CommitDocument(r) /\ ~CommitAttachment(r)
         /\ \/ /\ Update(r) \/ ReadEvaluated(r) \/ ReadInvited(r)
               /\ request[r].input = {Input(r)} /\ ~Asks(r, {"approval"})
               /\ room' = room
               /\ \/ request'[r].trade = room[Input(r)]
                  \/ request'[r].trade # None
            \/ CommitReview(r) /\ request'[r].trade # None
            \/ /\ pc[r] \in Sure /\ request'[r].trade = request[r].trade
               /\ \A o \in Object : room'[o] = room[o]
  <1>1. CASE Update(r)
    <2>1. pc[r] = "update" /\ Began(r)
      BY <1>1 DEF Update, Began
    <2>2. ~Asks(r, {"approval"})
      BY <2>1, LabelFacts DEF Asks
    <2> QED BY <1>1, <2>1, <2>2, UpdateMoves
            DEF CommitDocument, CommitAttachment
  <1>2. CASE ReadEvaluated(r) \/ ReadInvited(r)
    <2>1. ~Asks(r, {"approval"})
      BY <1>2, ReadMoves DEF Asks
    <2>2. pc[r] \in {"evaluate", "consult"}
      BY <1>2 DEF ReadEvaluated, ReadInvited
    <2> QED BY <1>2, <2>1, <2>2, ReadMoves
            DEF CommitDocument, CommitAttachment
  <1>3. CASE CommitReview(r)
    <2>1. /\ \/ Moves(r, "done")
             \/ Affected(r) # None
          /\ request'[r].trade = Affected(r) /\ pc[r] = "release"
      BY <1>3, ReviewMoves
    <2>2. request'[r].trade # None
      BY <2>1 DEF Moves, Sure
    <2> QED BY <1>3, <2>1, <2>2 DEF CommitDocument, CommitAttachment
  <1>4. CASE CommitClearance(r) \/ CommitTrust(r)
    <2>1. request' = request /\ pc[r] = "write" /\ room' = room
      BY <1>4 DEF CommitClearance, CommitTrust
    <2> QED BY <2>1 DEF Sure, CommitDocument, CommitAttachment
  <1>5. CASE InsertReport(r) \/ InsertPassport(r) \/ InsertMatch(r)
             \/ InsertApproval(r)
    <2>1. request' = request /\ pc[r] \in {"report", "passport", "match", "approve"}
      BY <1>5 DEF InsertReport, InsertPassport, InsertMatch, InsertApproval, Insert
    <2>2. \A o \in Object : room'[o] = room[o]
      BY <1>5, InsertStep DEF Inserts
    <2> QED BY <2>1, <2>2 DEF Sure, CommitDocument, CommitAttachment
  <1>6. ASSUME NEW label \in {"done", "failed", "control", "target", "find",
                              "release", "relate", "update"},
               Goto(r, label)
        PROVE  FALSE
    BY <1>6, MovesFacts DEF Labels, Sure
  <1>7. CASE TakeDerived(r)
    BY <1>7 DEF TakeDerived, Sure
  <1>8. ~CommitExtraction(r) /\ ~CommitDocument(r) /\ ~Rollback(r)
        /\ ~InsertReadiness(r) /\ ~InsertPack(r) /\ ~InsertBundle(r)
        /\ ~InsertAgentTask(r) /\ ~InsertRun(r) /\ ~CommitShare(r)
        /\ ~TakeApproval(r) /\ ~ReadBundle(r) /\ ~TakeAttached(r)
        /\ ~FindDerived(r) /\ ~CommitAttachment(r)
    <2>1. ~InsertRun(r)
      BY <1>6 DEF InsertRun, Insert
    <2> QED BY <1>6, <2>1 DEF CommitExtraction, CommitDocument, Rollback,
         InsertReadiness, InsertPack, InsertBundle, InsertAgentTask, Insert,
         CommitShare, TakeApproval, ReadBundle, TakeAttached, FindDerived,
         CommitAttachment
  <1> QED BY <1>1, <1>2, <1>3, <1>4, <1>5, <1>7, <1>8 DEF Step

LEMMA CalmStep ==
  ASSUME Known, \A q \in Request : Calm(q),
         NEW r \in Request, Step(r) \/ Rollback(r), NEW q \in Request
  PROVE  Calm(q)'
  <1>1. Typed /\ Moves(r, pc'[r])
    BY StepFacts DEF Known
  <1> SUFFICES ASSUME Undisturbed(q), pc'[q] \in Sure, request'[q].trade = None
               PROVE  \A p \in Core(q)' : room'[p] = None
    BY <1>1, UndisturbedKept DEF Calm, Sure
  <1>2. CASE q # r
    <2>1. /\ pc[q] \in Sure /\ request[q].trade = None
          /\ q \in Running /\ Began(q)
      BY <1>1, <1>2 DEF Moves, Sure, Running, Ended, Began
    <2>2. /\ Core(q)' = Core(q) /\ Core(q) \subseteq Object
          /\ \A p \in Core(q) : room[p] = None
      BY <1>1, <1>2, <2>1, CoreKept, CoreKnown DEF Calm, Sure
    <2>3. ~CommitAttachment(r)
      BY <1>1, <1>2, <2>1, NobodyAttaches DEF CommitAttachment
    <2> QED BY <1>1, <2>2, <2>3, TradeStays
  <1>3. CASE q = r
    <2>1. ~CommitDocument(r) /\ Began(r)
      BY <1>1, <1>3, SureSteps DEF Moves
    <2>2. CASE /\ request[r].input = {Input(r)} /\ ~Asks(r, {"approval"})
               /\ room' = room /\ request'[r].trade = room[Input(r)]
               /\ ~InsertApproval(r)
      <3>1. Core(r)' \subseteq Core(r)
        BY <1>1, <2>1, <2>2, CoreKept
      <3>2. Core(r) = {Input(r)}
        BY <2>2 DEF Core
      <3> QED BY <1>3, <2>2, <3>1, <3>2
    <2>3. CASE /\ pc[r] \in Sure /\ request'[r].trade = request[r].trade
               /\ \A o \in Object : room'[o] = room[o]
      <3>1. \A p \in Core(r) : room[p] = None /\ p \in Object
        BY <1>1, <1>3, <2>1, <2>3, CoreKnown DEF Calm, Sure
      <3>2. ASSUME NEW p, p = <<r, "approval">>, p \in Object', p \notin Object,
                   InsertApproval(r)
            PROVE  room'[p] = None
        <4>1. ~CommitReview(r)
          BY <3>2 DEF InsertApproval, CommitReview
        <4> QED BY <1>1, <1>3, <2>3, <3>2, <4>1, MadeWith
      <3> QED BY <1>1, <1>3, <2>1, <2>3, <3>1, <3>2, CoreKept
    <2>4. Update(r) \/ ReadEvaluated(r) \/ ReadInvited(r) => ~InsertApproval(r)
      BY DEF Update, ReadEvaluated, ReadInvited, InsertApproval
    <2> QED BY <1>1, <1>3, <2>2, <2>3, <2>4, SureSteps
  <1> QED BY <1>2, <1>3

LEMMA FollowsStep ==
  ASSUME Known, NEW r \in Request, Step(r) \/ Rollback(r), NEW q \in Request,
         Calm(q), Follows(q), Reached(q)
  PROVE  Follows(q)'
  <1>1. Typed /\ Moves(r, pc'[r])
    BY StepFacts DEF Known
  <1> SUFFICES ASSUME Undisturbed(q), NEW role \in Role,
                      <<q, role>> \in Object', room'[<<q, role>>] = None
               PROVE  \A p \in Core(q)' : room'[p] = None
    BY <1>1, UndisturbedKept DEF Follows
  <1>2. CASE <<q, role>> \in Object
    <2>1. room[<<q, role>>] = None /\ Began(q)
      BY <1>1, <1>2, TradeStays DEF Typed, Placed
    <2>2. Core(q) \subseteq Object /\ \A p \in Core(q) : room[p] = None
      BY <1>1, <1>2, <2>1, CoreKnown DEF Follows
    <2>3. Core(q)' = Core(q)
      <3>1. CASE q # r
        BY <1>1, <3>1, CoreKept
      <3>2. CASE q = r
        <4>1. role \in Behind(request[r].kind, pc[r])
          BY <1>1, <1>2, <3>2 DEF Typed, Placed
        <4>2. ~CommitDocument(r)
          <5>1. SUFFICES ASSUME CommitDocument(r) PROVE FALSE
            OBVIOUS
          <5>2. pc[r] = "store" /\ request[r].kind = "upload"
            BY <1>1, <5>1, DocumentMoves
          <5> QED BY <4>1, <5>2 DEF Behind, RolesOf, Ended
        <4>3. ~(InsertApproval(r) /\ Asks(r, {"approval"}))
          <5>1. SUFFICES ASSUME InsertApproval(r), Asks(r, {"approval"}) PROVE FALSE
            OBVIOUS
          <5>2. pc[r] = "approve" /\ request[r].kind = "approval"
            BY <5>1 DEF InsertApproval, Asks
          <5> QED BY <4>1, <5>2 DEF Behind, RolesOf, Ended
        <4>4. ~Asks(r, {"approval"}) => Core(r)' = Core(r)
          <5>1. request'[r].input = request[r].input
            BY <1>1, <4>2, StepFacts
          <5>2. Asks(r, {"approval"})' <=> Asks(r, {"approval"})
            BY <1>1, AsksKept
          <5> QED BY <5>1, <5>2 DEF Core
        <4>5. Core(r)' = Core(r)
          BY <1>1, <4>2, <4>3, <4>4, CoreKept
        <4> QED BY <3>2, <4>5
      <3> QED BY <3>1, <3>2
    <2>4. ASSUME NEW p \in Core(q), room'[p] # None
          PROVE  FALSE
      <3>1. p \in Object /\ room[p] = None
        BY <2>2
      <3>2. /\ CommitAttachment(r)
            /\ p = Input(r) \/ p \in request[r].found
        BY <1>1, <2>4, <3>1, TradeStays
      <3>3. /\ pc[r] = "relate" /\ request[r].input = {Input(r)}
            /\ Asks(r, {"attach"}) /\ room'[<<r, "run">>] = request[r].trade
            /\ request[r].trade \in Trade
        BY <1>1, <3>2, AttachMoves
      <3>4. q # r
        <4>1. SUFFICES ASSUME q = r PROVE FALSE
          OBVIOUS
        <4>2. role \in Behind("attach", "relate")
          BY <1>1, <1>2, <3>3, <4>1 DEF Typed, Placed, Asks
        <4> QED BY <4>2 DEF Behind, RolesOf, Ended
      <3>5. <<q, role>> \in request[r].input \cup request[r].found
        BY <1>2, <2>1, <2>4, <3>2, <3>3, <3>4 DEF Reached
      <3>6. room'[<<q, role>>] = request[r].trade
        BY <1>1, <1>2, <2>1, <3>2, <3>3, <3>5, AttachMoves
      <3> QED BY <3>3, <3>6, NoneAssumption
    <2> QED BY <2>3, <2>4
  <1>3. CASE <<q, role>> \notin Object
    <2>1. /\ q = r
          /\ \/ request[r].trade = None
             \/ CommitReview(r) /\ Affected(r) = None
      BY <1>1, <1>3, MadeWith
    <2>2. CASE CommitReview(r) /\ Affected(r) = None
      <3>1. /\ room[Input(r)] = None /\ Asks(r, {"review"})
            /\ Input(r) \in Object /\ request[r].input = {Input(r)}
        BY <1>1, <2>2, ReviewMoves, ReviewFacts
      <3>2. /\ Core(r) = {Input(r)} /\ ~CommitDocument(r) /\ ~InsertApproval(r)
            /\ ~CommitAttachment(r)
        BY <2>2, <3>1 DEF Core, Asks, CommitReview, CommitDocument,
           InsertApproval, CommitAttachment
      <3> QED BY <1>1, <2>1, <3>1, <3>2, CoreKept, TradeStays
    <2>3. CASE request[r].trade = None /\ ~CommitReview(r)
      <3>1. ~CommitAttachment(r)
        BY <1>1, <2>3, AttachMoves, NoneAssumption
      <3>2. CASE CommitDocument(r)
        <4>1. role = "document"
          <5>1. ~CommitExtraction(r) /\ ~InsertReport(r) /\ ~InsertReadiness(r)
                /\ ~InsertPack(r) /\ ~InsertBundle(r) /\ ~InsertAgentTask(r)
                /\ ~InsertPassport(r) /\ ~InsertMatch(r) /\ ~InsertApproval(r)
                /\ ~InsertRun(r) /\ ~CommitReview(r) /\ ~CommitAttachment(r)
            BY <3>2 DEF CommitDocument, CommitExtraction, InsertReport,
               InsertReadiness, InsertPack, InsertBundle, InsertAgentTask,
               InsertPassport, InsertMatch, InsertApproval, InsertRun,
               CommitReview, CommitAttachment
          <5> QED BY <1>1, <1>3, <2>1, <5>1, MadeBy
        <4>2. Core(r)' = {<<r, "document">>}
          BY <1>1, <3>2, CoreKept
        <4> QED BY <2>1, <4>1, <4>2
      <3>3. CASE ~CommitDocument(r)
        <4>1. pc[r] \in Sure /\ ~InsertAgentTask(r)
          <5>1. ~InsertAgentTask(r)
            BY <2>1 DEF InsertAgentTask, Asks, Undisturbed
          <5>2. \/ CommitExtraction(r) \/ InsertReport(r) \/ InsertReadiness(r)
                \/ InsertPack(r) \/ InsertBundle(r) \/ InsertPassport(r)
                \/ InsertMatch(r) \/ InsertApproval(r) \/ InsertRun(r)
            BY <1>1, <1>3, <2>1, <2>3, <3>1, <3>3, <5>1, MadeBy
          <5> QED BY <5>1, <5>2 DEF CommitExtraction, InsertReport,
                InsertReadiness, InsertPack, InsertBundle, InsertPassport,
                InsertMatch, InsertApproval, InsertRun, Sure
        <4>2. Core(r) \subseteq Object /\ \A p \in Core(r) : room[p] = None
          BY <1>1, <2>1, <2>3, <4>1, CoreKnown DEF Calm, Sure, Moves
        <4>3. ASSUME NEW p, p = <<r, "approval">>, p \in Object', p \notin Object
              PROVE  room'[p] = None
          BY <1>1, <2>3, <4>3, MadeWith
        <4> QED BY <1>1, <2>1, <3>1, <3>3, <4>2, <4>3, CoreKept, TradeStays
      <3> QED BY <3>2, <3>3
    <2>4. CASE request[r].trade = None /\ CommitReview(r) /\ Affected(r) # None
      <3>1. <<q, role>> \in Object' /\ room'[<<q, role>>] = Affected(r)
        <4>1. room' = room \/ Inserts(r, {"task", "run"}, Affected(r))
          BY <1>1, <2>4, ReviewMoves
        <4>2. room' # room
          BY <1>3 DEF Object
        <4>3. role \in {"task", "run"}
          BY <1>3, <2>1, <4>1, <4>2 DEF Inserts
        <4> QED BY <2>1, <4>1, <4>2, <4>3 DEF Inserts
      <3> QED BY <2>4, <3>1
    <2> QED BY <2>1, <2>2, <2>3, <2>4
  <1> QED BY <1>2, <1>3

\* What an attachment finds closes over what goes without a trade.
LEMMA FoundReached ==
  ASSUME Known, NEW q \in Request, Undisturbed(q), Follows(q),
         NEW o \in Object, NEW role \in Role,
         <<q, role>> \in Object, room[<<q, role>>] = None,
         Core(q) \cap ({o} \cup Derived(o)) # {}
  PROVE  <<q, role>> \in {o} \cup Derived(o)
  <1> DEFINE S == {o} \cup Derived(o)
  <1>1. ASSUME NEW c \in Object, room[c] = None, Refs(c) \cap S # {}
        PROVE  c \in S
    BY <1>1, DerivedFacts DEF Unplaced
  <1>2. ~Asks(q, {"agent"})
    BY DEF Undisturbed
  <1>3. PICK p \in Core(q) : p \in S
    OBVIOUS
  <1>4. CASE role = "document" /\ request[q].input = {<<q, role>>}
    <2>1. ~Asks(q, {"approval"})
      <3>1. role \in RolesOf(request[q].kind)
        BY DEF Known, Typed, Placed, Behind
      <3> QED BY <1>4, <3>1 DEF RolesOf, Asks
    <2>2. p = <<q, role>>
      BY <1>3, <1>4, <2>1 DEF Core
    <2> QED BY <1>3, <2>2
  <1>5. CASE /\ Asks(q, {"approval"}) /\ role = "run"
             /\ <<q, "approval">> \in Object
             /\ <<q, "approval">> \in Refs(<<q, role>>)
    <2>1. <<q, "approval">> \in S
      <3>1. CASE p = <<q, "approval">>
        BY <1>3, <3>1
      <3>2. CASE p \in request[q].input
        <4>1. room[<<q, "approval">>] = None
          BY <1>5 DEF Follows, Core
        <4>2. request[q].input \subseteq Refs(<<q, "approval">>)
          <5>1. "approval" \in Role
            BY DEF Role
          <5>2. \/ request[q].input \subseteq Refs(<<q, "approval">>)
                \/ "approval" = "document" \/ "approval" = "run"
            BY <1>2, <1>5, <4>1, <5>1, RefsCore
          <5> QED BY <5>2
        <4> QED BY <1>1, <1>3, <1>5, <3>2, <4>1, <4>2
      <3> QED BY <1>3, <3>1, <3>2 DEF Core
    <2> QED BY <1>1, <1>5, <2>1
  <1>6. CASE request[q].input \subseteq Refs(<<q, role>>)
    <2>1. CASE p \in request[q].input
      BY <1>1, <1>3, <1>6, <2>1
    <2>2. CASE p = <<q, "approval">> /\ Asks(q, {"approval"})
      <3>1. role \in {"approval", "run"}
        <4>1. role \in RolesOf("approval")
          BY <2>2 DEF Known, Typed, Placed, Behind, Asks
        <4> QED BY <4>1 DEF RolesOf
      <3>2. CASE role = "approval"
        BY <1>3, <2>2, <3>2
      <3>3. CASE role = "run"
        <4>1. ~Asks(q, {"attach", "bundle"}) /\ ~Asks(q, {"bundle"})
              /\ ~Asks(q, {"review"})
          BY <2>2 DEF Asks
        <4>2. <<q, role>> \notin Root
          BY IdFacts DEF Known
        <4>3. p \in ({q} \X {"approval", "task"}) \cap Object
          BY <1>3, <2>2, CoreKnown DEF Known, Asks, Began
        <4>4. p \in Refs(<<q, role>>)
          BY <3>3, <4>1, <4>2, <4>3 DEF Refs
        <4> QED BY <1>1, <1>3, <4>4
      <3> QED BY <3>1, <3>2, <3>3
    <2> QED BY <1>3, <2>1, <2>2 DEF Core
  <1> QED BY <1>2, <1>4, <1>5, <1>6, RefsCore

LEMMA ReachedStep ==
  ASSUME Known, NEW r \in Request, Step(r) \/ Rollback(r), NEW q \in Request,
         Follows(q), Reached(q)
  PROVE  Reached(q)'
  <1>1. Typed /\ Typed' /\ Moves(r, pc'[r])
    BY StepFacts, TypedStep DEF Known
  <1> SUFFICES ASSUME Undisturbed(q), NEW p \in Request, p # q,
                      pc'[p] = "relate", NEW role \in Role,
                      <<q, role>> \in Object', room'[<<q, role>>] = None,
                      Core(q)' \cap (request'[p].input \cup request'[p].found) # {}
               PROVE  <<q, role>> \in request'[p].input \cup request'[p].found
    BY <1>1, UndisturbedKept DEF Reached
  <1>2. q # r
    <2>1. SUFFICES ASSUME q = r PROVE FALSE
      OBVIOUS
    <2>2. pc[p] = "relate" /\ q \in Running
      BY <1>1, <2>1 DEF Moves, Running, Began
    <2> QED BY <1>1, <2>2, NobodyAttaches
  <1>3. /\ <<q, role>> \in Object /\ Core(q)' = Core(q)
        /\ room[<<q, role>>] = None
    BY <1>1, <1>2, MadeWith, CoreKept, TradeStays
  <1>4. CASE p # r
    <2>1. pc[p] = "relate" /\ request'[p] = request[p]
      BY <1>1, <1>4 DEF Moves
    <2> QED BY <1>3, <2>1 DEF Reached
  <1>5. CASE p = r /\ TakeDerived(r)
    <2>1. pc[p] = "relate" /\ request' = request
      BY <1>5 DEF TakeDerived
    <2> QED BY <1>3, <2>1 DEF Reached
  <1>6. CASE p = r /\ FindDerived(r)
    <2>1. /\ request'[r].input = {Input(r)} /\ Input(r) \in Object
          /\ request'[r].found = Derived(Input(r))
      BY <1>1, <1>6, FindMoves
    <2> QED BY <1>3, <1>6, <2>1, FoundReached
  <1> QED BY <1>1, <1>4, <1>5, <1>6, KeepFacts

\* An arrival disturbs nothing that holds.
LEMMA ArriveStep ==
  ASSUME Inv, NEW r \in Request, Arrive(r), NEW q \in Request
  PROVE  /\ EvidenceKnown(q)' /\ ExtractionKnown(q)'
         /\ Calm(q)' /\ Follows(q)' /\ Reached(q)'
  <1>1. Typed /\ NoDocumentFound
    BY DEF Inv, Known
  <1>2. PICK kind, input, trade, word, seen, label :
          /\ Begin(r, kind, input, trade, word, seen, label)
          /\ Opens(kind, input, trade, word, seen, label)
    BY <1>1, ArriveFacts
  <1>3. /\ request'[r].kind = kind /\ request'[r].input = input
        /\ request'[r].trade = trade /\ request'[r].seen = seen
        /\ pc'[r] = label /\ pc[r] = "idle"
    BY <1>1, <1>2, ArriveKeeps, BeginFacts
  <1>4. /\ room' = room /\ Object' = Object /\ evidence' = evidence
        /\ \A p \in Request \ {r} : request'[p] = request[p] /\ pc'[p] = pc[p]
        /\ \A p \in Request \ {r} : \A kinds : Asks(p, kinds)' <=> Asks(p, kinds)
        /\ \A p \in Request \ {r} : Input(p)' = Input(p)
        /\ \A role \in Role : <<r, role>> \notin Object
        /\ \A kinds : Asks(r, kinds)' <=> kind \in kinds
        /\ \A kinds : ~Asks(r, kinds)
    BY <1>1, <1>3, ArriveKeeps DEF Object, Input, Asks, Began
  <1>5. label \notin {"write", "relate"}
    BY <1>2 DEF Opens
  <1>6. /\ \A p \in Request \ {r} : beside[p] \subseteq beside'[p]
        /\ beside' \in [Request -> SUBSET Request]
        /\ \A p \in Request : r \notin beside[p]
    BY <1>1, <1>4, ArriveKeeps DEF Typed, RivalsBeside
  <1>7. \A p \in Request : \A s \in beside[p] : s \in Request /\ s # r
    BY <1>1, <1>6 DEF Typed, TypeOK
  <1>8. EvidenceKnown(q)'
    <2>1. CASE q = r
      <3>1. kind = "clearance" => label = "update"
        BY <1>2 DEF Opens
      <3> QED BY <1>3, <1>4, <2>1, <3>1 DEF EvidenceKnown
    <2>2. CASE q # r
      <3> SUFFICES ASSUME Asks(q, {"clearance"}),
                          pc[q] \notin {"update", "write", "failed"}
                   PROVE  \/ \E p \in beside'[q] : Asks(p, {"clearance"})'
                          \/ /\ q \in evidence[Input(q)]
                             /\ \A p \in Request :
                                  /\ Asks(p, {"clearance"})'
                                  /\ pc'[p] \in {"update", "write"}
                                  /\ Input(p)' = Input(q)
                                  => q \in request'[p].seen
        BY <1>4, <2>2 DEF EvidenceKnown
      <3>1. CASE \E p \in beside[q] : Asks(p, {"clearance"})
        BY <1>4, <1>6, <1>7, <2>2, <3>1
      <3>2. CASE /\ q \in evidence[Input(q)]
                 /\ \A p \in Request :
                      /\ Asks(p, {"clearance"}) /\ pc[p] \in {"update", "write"}
                      /\ Input(p) = Input(q)
                      => q \in request[p].seen
        <4>1. ASSUME kind = "clearance", Input(r)' = Input(q)
              PROVE  q \in request'[r].seen
          <5>1. PICK o \in Root : input = {o} /\ seen = evidence[o]
            BY <1>2, <4>1 DEF Opens
          <5>2. Input(q) = o
            BY <1>3, <4>1, <5>1 DEF Input
          <5> QED BY <1>3, <3>2, <5>1, <5>2
        <4> QED BY <1>4, <3>2, <4>1
      <3>3. EvidenceKnown(q)
        BY DEF Inv
      <3> QED BY <3>1, <3>2, <3>3 DEF EvidenceKnown
    <2> QED BY <2>1, <2>2
  <1>9. ExtractionKnown(q)'
    <2>1. CASE q = r
      BY <1>3, <1>4, <1>5, <2>1 DEF ExtractionKnown, Role
    <2>2. CASE q # r
      <3>1. ExtractionKnown(q) /\ (Extracts(q)' <=> Extracts(q))
        BY <1>4, <2>2 DEF Inv, Extracts
      <3>2. \A p \in Request : pc'[p] = "relate" => p # r /\ pc[p] = "relate"
        BY <1>3, <1>4, <1>5
      <3> QED BY <1>4, <2>2, <3>1, <3>2 DEF ExtractionKnown
    <2> QED BY <2>1, <2>2
  <1>10. q # r => (Undisturbed(q)' => Undisturbed(q))
    BY <1>4, <1>6, <1>7 DEF Undisturbed, Attaches
  <1>11. q # r => Core(q)' = Core(q)
    BY <1>4 DEF Core
  <1>12. Calm(q)'
    <2>1. CASE q = r
      <3> SUFFICES ASSUME Undisturbed(r)', label \in Sure, trade = None
                   PROVE  \A p \in Core(r)' : room[p] = None
        BY <1>3, <1>4, <2>1 DEF Calm, Sure
      <3>1. kind # "agent"
        BY <1>4 DEF Undisturbed
      <3>2. label \in {"insert", "approve"}
        BY <1>2 DEF Opens, Sure
      <3>3. kind \in {"readiness", "pack", "bundle", "approval", "share"}
        BY <1>2, <3>1, <3>2 DEF Opens, LabelsOf, Ended
      <3>4. \A p \in input : room[p] = None
        BY <1>2, <3>3 DEF Opens
      <3>5. Core(r)' = input
        BY <1>3, <1>4 DEF Core, Role
      <3> QED BY <3>4, <3>5
    <2>2. CASE q # r
      <3>1. Calm(q)
        BY DEF Inv
      <3> QED BY <1>4, <1>10, <1>11, <2>2, <3>1 DEF Calm
    <2> QED BY <2>1, <2>2
  <1>13. Follows(q)'
    <2>1. CASE q = r
      BY <1>4, <2>1 DEF Follows
    <2>2. CASE q # r
      <3>1. Follows(q)
        BY DEF Inv
      <3> QED BY <1>4, <1>10, <1>11, <2>2, <3>1 DEF Follows
    <2> QED BY <2>1, <2>2
  <1>14. Reached(q)'
    <2>1. CASE q = r
      BY <1>4, <2>1 DEF Reached
    <2>2. CASE q # r
      <3>1. Reached(q)
        BY DEF Inv
      <3>2. \A p \in Request : pc'[p] = "relate" => p # r /\ pc[p] = "relate"
        BY <1>3, <1>4, <1>5
      <3> QED BY <1>4, <1>10, <1>11, <2>2, <3>1, <3>2 DEF Reached
    <2> QED BY <2>1, <2>2
  <1> QED BY <1>8, <1>9, <1>12, <1>13, <1>14

LEMMA InvStutters ==
  ASSUME Inv, UNCHANGED vars
  PROVE  Inv'
  <1>1. UNCHANGED <<type, room, status, control, decision, evidence, held, pc,
                    request, beside>>
    BY DEF vars, rows
  <1>2. Known'
    BY KnownStep DEF Inv
  <1>3. ReleasedIsApproved'
    BY <1>1 DEF Inv, ReleasedIsApproved
  <1>4. ASSUME NEW q \in Request
        PROVE  /\ EvidenceKnown(q)' /\ ExtractionKnown(q)'
               /\ Calm(q)' /\ Follows(q)' /\ Reached(q)'
    <2>1. /\ EvidenceKnown(q) /\ ExtractionKnown(q)
          /\ Calm(q) /\ Follows(q) /\ Reached(q)
      BY DEF Inv
    <2>2. /\ \A p, kinds : Asks(p, kinds)' <=> Asks(p, kinds)
          /\ \A p : Input(p)' = Input(p)
          /\ Object' = Object
      BY <1>1 DEF Asks, Input, Object
    <2>3. EvidenceKnown(q)'
      BY <1>1, <2>1, <2>2 DEF EvidenceKnown
    <2>4. ExtractionKnown(q)'
      BY <1>1, <2>1, <2>2 DEF ExtractionKnown, Extracts
    <2>5. Core(q)' = Core(q) /\ (Undisturbed(q)' <=> Undisturbed(q))
      BY <1>1, <2>2 DEF Core, Undisturbed, Attaches
    <2>6. Calm(q)' /\ Follows(q)'
      BY <1>1, <2>1, <2>2, <2>5 DEF Calm, Follows
    <2>7. Reached(q)'
      BY <1>1, <2>1, <2>2, <2>5 DEF Reached
    <2> QED BY <2>3, <2>4, <2>6, <2>7
  <1> QED BY <1>2, <1>3, <1>4 DEF Inv

LEMMA InvInit ==
  ASSUME Init
  PROVE  Inv
  <1>1. Known
    BY KnownInit
  <1>2. ReleasedIsApproved
    BY DEF Init, ReleasedIsApproved
  <1>3. ASSUME NEW q \in Request
        PROVE  /\ EvidenceKnown(q) /\ ExtractionKnown(q)
               /\ Calm(q) /\ Follows(q) /\ Reached(q)
    <2>1. /\ \A p \in Request : pc[p] = "idle"
          /\ \A kinds : ~Asks(q, kinds)
      BY DEF Init, Asks
    <2>2. \A role \in Role : <<q, role>> \notin Object
      BY <1>1, <2>1 DEF Known, Typed, Placed, Began
    <2> QED BY <2>1, <2>2 DEF EvidenceKnown, ExtractionKnown, Extracts, Calm,
                 Follows, Reached
  <1> QED BY <1>1, <1>2, <1>3 DEF Inv

LEMMA InvStep ==
  ASSUME Inv, [Next]_vars
  PROVE  Inv'
  <1>1. Known /\ Known' /\ Typed
    BY KnownStep DEF Inv, Known
  <1>2. ASSUME NEW r \in Request, Step(r) \/ Rollback(r)
        PROVE  Inv'
    <2>1. ReleasedIsApproved'
      BY <1>1, <1>2, ReleasedStep DEF Inv
    <2>2. \A q \in Request : EvidenceKnown(q)' /\ ExtractionKnown(q)'
      BY <1>1, <1>2, EvidenceStep, ExtractionStep DEF Inv
    <2>3. \A q \in Request : Calm(q)' /\ Follows(q)' /\ Reached(q)'
      BY <1>1, <1>2, CalmStep, FollowsStep, ReachedStep DEF Inv
    <2> QED BY <1>1, <2>1, <2>2, <2>3 DEF Inv
  <1>3. ASSUME NEW r \in Request, Arrive(r)
        PROVE  Inv'
    <2>1. control' = control /\ decision' = decision
      BY <1>1, <1>3, ArriveKeeps
    <2>2. ReleasedIsApproved'
      BY <2>1 DEF Inv, ReleasedIsApproved
    <2> QED BY <1>1, <1>3, <2>2, ArriveStep DEF Inv
  <1>4. CASE UNCHANGED vars
    BY <1>4, InvStutters
  <1> QED BY <1>2, <1>3, <1>4 DEF Next
-----------------------------------------------------------------------------
(* What TradeContext promises, in every state of every behaviour.            *)

THEOREM Invariance == Spec => []Inv
  <1> QED BY InvInit, InvStep, PTL DEF Spec

\* Every variable keeps its type: what exists is what there was and what
\* requests made, each in a trade or in none.
THEOREM TypeCorrect == Spec => []TypeOK
  <1>1. Inv => TypeOK
    BY DEF Inv, Known, Typed
  <1> QED BY <1>1, Invariance, PTL

\* What was extracted from a document that has a trade has one, whatever ran
\* beside the extraction (extractDocumentAlpha and attachAlphaObject).
THEOREM ExtractionsAttached == Spec => []ExtractionsFollow
  <1>1. Inv => ExtractionsFollow
    <2> SUFFICES ASSUME Inv, NEW r \in Request, Asks(r, {"extract", "upload"}),
                        <<r, "extraction">> \in Object,
                        NEW role \in {"extraction", "eval"},
                        room[<<r, role>>] = None
                 PROVE  room[Input(r)] = None
      BY DEF ExtractionsFollow
    <2> QED BY DEF Inv, ExtractionKnown, Extracts
  <1> QED BY <1>1, Invariance, PTL

\* Nothing that was derived from a record of a trade is left without a trade,
\* unless an attachment ran beside the request that derived it.
THEOREM LeftBehind == Spec => []LeftBehindOnlyBeside
  <1>1. Inv => LeftBehindOnlyBeside
    <2> SUFFICES ASSUME Inv, NEW o \in Object \ Root,
                        ~Asks(o[1], {"agent"}), room[o] = None,
                        NEW p \in request[o[1]].input, room[p] # None
                 PROVE  \E q \in beside[o[1]] : Attaches(q)
      BY DEF LeftBehindOnlyBeside
    <2>1. PICK r \in Request, role \in Role : o = <<r, role>>
      BY IdFacts DEF Inv, Known
    <2>2. o[1] = r
      BY <2>1
    <2>3. p \in Core(r)
      BY <2>2 DEF Core
    <2>4. Follows(r)
      BY DEF Inv
    <2> QED BY <2>1, <2>2, <2>3, <2>4 DEF Follows, Undisturbed
  <1> QED BY <1>1, Invariance, PTL

\* A bundle shows a release only under an approval that was given.
THEOREM Released == Spec => []ReleasedIsApproved
  <1>1. Inv => ReleasedIsApproved
    BY DEF Inv
  <1> QED BY <1>1, Invariance, PTL

\* Evaluations of a clearance that do not overlap lose no evidence.
THEOREM EvidenceStays == Spec => []EvidenceIsKept
  <1>1. Inv => EvidenceIsKept
    BY DEF Inv, EvidenceIsKept, EvidenceKnown
  <1> QED BY <1>1, Invariance, PTL

\* A record leaves a trade only by its own attachment to another.
THEOREM TradeStaysUntilAttached == Spec => TradeIsKept
  <1> DEFINE A == \A o \in Object :
                    room[o] # None /\ room'[o] # room[o] =>
                      /\ room'[o] # None
                      /\ \E r \in Request :
                           /\ Attaches(r) /\ request[r].input = {o}
                           /\ pc[r] = "relate" /\ pc'[r] = "done"
  <1>1. Inv /\ [Next]_vars => [A]_vars
    <2> SUFFICES ASSUME Inv, Next, NEW o \in Object,
                        room[o] # None, room'[o] # room[o]
                 PROVE  /\ room'[o] # None
                        /\ \E r \in Request :
                             /\ Attaches(r) /\ request[r].input = {o}
                             /\ pc[r] = "relate" /\ pc'[r] = "done"
      OBVIOUS
    <2>1. Typed
      BY DEF Inv, Known
    <2>2. PICK r \in Request : Step(r) \/ Rollback(r)
      <3>1. \A r \in Request : Arrive(r) => room' = room
        BY <2>1, ArriveKeeps
      <3> QED BY <3>1 DEF Next
    <2>3. /\ CommitAttachment(r) /\ o = Input(r) /\ room'[o] # None
      BY <2>1, <2>2, TradeStays
    <2>4. /\ Asks(r, {"attach"}) /\ pc[r] = "relate" /\ Moves(r, "done")
          /\ request[r].input = {Input(r)}
      BY <2>1, <2>3, AttachMoves
    <2> QED BY <2>3, <2>4 DEF Attaches, Moves
  <1> QED BY <1>1, Invariance, PTL DEF Spec, TradeIsKept
-----------------------------------------------------------------------------
(* What a decision leaves to the bundle                                      *)

\* Only the approval of a share is decided; while its request still runs, the
\* decision was made beside it.
DecidedBeside ==
  \A s \in Request : decision[s] # "none" =>
    /\ Asks(s, {"share"})
    /\ pc[s] \in Ended \/ \E r \in beside[s] : Asks(r, {"review"})

\* Nothing is decided at the start.
LEMMA DecidedInit ==
  ASSUME Init
  PROVE  DecidedBeside /\ ApprovedIsReleased
  BY DEF Init, DecidedBeside, ApprovedIsReleased

\* A request that runs beside its review knows of it, and so does a share whose
\* request runs when its approval is decided.
LEMMA DecidedStep ==
  ASSUME Known, DecidedBeside, NEW r \in Request, Step(r) \/ Rollback(r)
  PROVE  DecidedBeside'
  <1>1. Typed /\ Moves(r, pc'[r])
    BY StepFacts DEF Known
  <1>2. /\ \A q \in Request : \A kinds : Asks(q, kinds)' <=> Asks(q, kinds)
        /\ beside' = beside /\ beside \in [Request -> SUBSET Request]
        /\ pc[r] \notin Ended
    BY <1>1, AsksKept DEF Moves, Typed, TypeOK
  <1>3. ASSUME NEW s \in Request, decision'[s] # "none", decision'[s] = decision[s]
        PROVE  /\ Asks(s, {"share"})'
               /\ pc'[s] \in Ended \/ \E q \in beside'[s] : Asks(q, {"review"})'
    BY <1>1, <1>2, <1>3 DEF DecidedBeside, Moves
  <1>4. ASSUME NEW s \in Request, decision'[s] # decision[s]
        PROVE  /\ Asks(s, {"share"})'
               /\ pc'[s] \in Ended \/ \E q \in beside'[s] : Asks(q, {"review"})'
    <2>1. CommitReview(r)
      BY <1>1, <1>4, RecordFacts
    <2>2. Asks(r, {"review"}) /\ Decided(r) \in Request /\ Asks(Decided(r), {"share"})
      BY <1>1, <2>1, ReviewMoves, ReviewFacts
    <2>3. s = Decided(r)
      BY <1>1, <1>4, <2>1, <2>2 DEF CommitReview, Typed, TypeOK
    <2>4. s # r
      BY <2>2, <2>3 DEF Asks
    <2>5. CASE pc[s] \in Ended
      BY <1>1, <1>2, <2>2, <2>3, <2>4, <2>5 DEF Moves
    <2>6. CASE pc[s] \notin Ended
      <3>1. r \in Running /\ s \in Running /\ Asks(r, Rival)
        BY <1>2, <2>2, <2>3, <2>6 DEF Running, Asks, Rival
      <3>2. r \in beside[s]
        BY <1>1, <2>4, <3>1 DEF Typed, RivalsBeside
      <3> QED BY <1>2, <2>2, <2>3, <3>2
    <2> QED BY <2>5, <2>6
  <1> QED BY <1>3, <1>4 DEF DecidedBeside

\* A bundle shows the decision of its approval from then on; one that was asked
\* for later than it was decided had the decision beside it.
LEMMA ApprovedStep ==
  ASSUME Known, DecidedBeside, ApprovedIsReleased,
         NEW r \in Request, Step(r) \/ Rollback(r)
  PROVE  ApprovedIsReleased'
  <1>1. Typed /\ Moves(r, pc'[r])
    BY StepFacts DEF Known
  <1>2. /\ \A q \in Request : \A kinds : Asks(q, kinds)' <=> Asks(q, kinds)
        /\ beside' = beside /\ beside \in [Request -> SUBSET Request]
        /\ \A b \in DOMAIN control : control[b].approval \in Request
    BY <1>1, AsksKept DEF Moves, Typed, TypeOK, Controlled, Control
  <1>3. CASE control' = control /\ decision' = decision
    BY <1>2, <1>3 DEF ApprovedIsReleased
  <1>4. CASE CommitShare(r)
    <2> DEFINE put == Put(Only(Input(r), ShareControl(r)), control)
    <2>1. /\ DOMAIN put = DOMAIN control \cup {Input(r)}
          /\ put[Input(r)] = ShareControl(r)
          /\ \A b \in DOMAIN control \ {Input(r)} : put[b] = control[b]
      BY DEF Put, Only
    <2>2. control' = put /\ decision' = decision /\ pc[r] = "control"
      BY <1>4 DEF CommitShare
    <2>3. ShareControl(r).approval = r
      BY DEF ShareControl
    <2>4. decision[r] = "approved" => \E q \in beside[r] : Asks(q, {"review"})
      BY <2>2 DEF DecidedBeside, Ended
    <2> HIDE DEF put
    <2> QED BY <1>2, <2>1, <2>2, <2>3, <2>4 DEF ApprovedIsReleased
  <1>5. CASE CommitReview(r)
    <2> DEFINE put == Put(Only(Bundle(r), Decision(r)), control)
    <2>1. /\ DOMAIN put = DOMAIN control \cup {Bundle(r)}
          /\ put[Bundle(r)] = Decision(r)
          /\ \A b \in DOMAIN control \ {Bundle(r)} : put[b] = control[b]
      BY DEF Put, Only
    <2>2. /\ control' = put
          /\ decision' = [decision EXCEPT ![Decided(r)] = request[r].word]
      BY <1>5 DEF CommitReview
    <2> HIDE DEF put
    <2>3. /\ Decided(r) \in Request
          /\ request[Decided(r)].input = {Bundle(r)}
          /\ DOMAIN decision = Request
      BY <1>1, <1>5, ReviewMoves, ReviewFacts DEF Typed, TypeOK
    <2>4. /\ Decision(r).approval = Decided(r)
          /\ Decision(r).status = request[r].word
      BY DEF Decision
    <2>5. \A b \in DOMAIN control \ {Bundle(r)} :
            control[b].approval # Decided(r)
      BY <1>1, <2>3 DEF Typed, Controlled
    <2> QED BY <1>2, <2>1, <2>2, <2>3, <2>4, <2>5 DEF ApprovedIsReleased
  <1> QED BY <1>1, <1>3, <1>4, <1>5, ControlFacts, RecordFacts

\* An arrival decides nothing, and what ran beside a request stays so.
LEMMA DecidedArrive ==
  ASSUME Known, DecidedBeside, ApprovedIsReleased, NEW r \in Request, Arrive(r)
  PROVE  DecidedBeside' /\ ApprovedIsReleased'
  <1>1. Typed /\ decision' = decision /\ control' = control
    BY ArriveKeeps DEF Known
  <1>2. \A s \in Request : decision[s] # "none" => s # r
    BY <1>1, ArriveKeeps DEF DecidedBeside
  <1>3. ASSUME NEW s \in Request \ {r}, NEW q \in beside[s], Asks(q, {"review"})
        PROVE  q \in beside'[s] /\ Asks(q, {"review"})'
    <2>1. q \in Request /\ q # r /\ q \in beside'[s]
      BY <1>1, <1>3, ArriveKeeps DEF Typed, TypeOK
    <2> QED BY <1>1, <1>3, <2>1, ArriveKeeps
  <1>4. DecidedBeside'
    BY <1>1, <1>2, <1>3, ArriveKeeps DEF DecidedBeside
  <1>5. \A b \in DOMAIN control : control[b].approval \in Request
    BY <1>1 DEF Typed, Controlled, Control
  <1>6. ApprovedIsReleased'
    BY <1>1, <1>2, <1>3, <1>5 DEF ApprovedIsReleased
  <1> QED BY <1>4, <1>6

\* A bundle whose approval was given is released, unless the decision came before
\* the request had ended.
THEOREM Approved == Spec => []ApprovedIsReleased
  <1>1. Inv /\ DecidedBeside /\ ApprovedIsReleased /\ [Next]_vars
          => DecidedBeside' /\ ApprovedIsReleased'
    <2> SUFFICES ASSUME Inv, DecidedBeside, ApprovedIsReleased, [Next]_vars
                 PROVE  DecidedBeside' /\ ApprovedIsReleased'
      OBVIOUS
    <2>1. Known
      BY DEF Inv
    <2>2. CASE UNCHANGED vars
      BY <2>2 DEF vars, rows, DecidedBeside, ApprovedIsReleased, Asks
    <2>3. CASE Next
      BY <2>1, <2>3, DecidedStep, ApprovedStep, DecidedArrive DEF Next
    <2> QED BY <2>2, <2>3
  <1> QED BY <1>1, DecidedInit, Invariance, PTL DEF Spec
=============================================================================
