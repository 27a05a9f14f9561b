---------------------------- MODULE TradeContext ----------------------------
(***************************************************************************)
(* How records come to belong to a trade: what is derived from an object   *)
(* (extractions, readiness, document packs, proof bundles, approvals,      *)
(* reports, passports, agent results), the attachment of an object to a    *)
(* trade and its propagation to what was derived from it, and the approval *)
(* that releases a proof bundle (apps/api/src/services/alpha.ts).          *)
(*                                                                         *)
(* A request runs one transaction or several.  What a transaction writes   *)
(* is visible at its commit, so a request acts in three ways: it reads,    *)
(* without a lock; it takes the row it will change, which waits for        *)
(* another transaction that has it and then sees what that one wrote; and  *)
(* it commits.                                                             *)
(***************************************************************************)

CONSTANTS
  Root,     \* objects that exist at first
  Trade,
  Request,
  May,      \* what a request may ask for
  None

Room == Trade \cup {None}
Status == {"open", "approval_required", "approved", "rejected", "attached"}
RootType == {"document", "clearance_check", "counterparty", "proof_bundle"}
Kind == {"extract", "upload", "clearance", "trust", "readiness", "pack",
         "bundle", "agent", "approval", "share", "review", "attach"}

(* Requests that change what another may have read.                          *)
Rival == {"attach", "review", "clearance"}

(* A record a request makes is named by its role in that request.            *)
Role == {"document", "extraction", "eval", "readiness", "pack", "bundle",
         "report", "passport", "match", "approval", "run", "task", "work"}
Id == Root \cup (Request \X Role)

ASSUME MayAssumption == May \in [Request -> SUBSET Kind]
ASSUME NoneAssumption == None \notin Trade \cup Request \cup Root
ASSUME DisjointAssumption == Root \cap (Request \X Role) = {}

VARIABLES
  type,      \* alpha_objects.type of the roots
  room,      \* alpha_objects.trade_id, of every object there is
  status,    \* alpha_objects.status, where it is not "open"
  control,   \* payload_json.share_control of the bundles that have one
  decision,  \* payload_json.human_decision of the approval of a share request
  evidence,  \* payload_json.available_evidence, by the evaluation that adds it
  held,      \* the rows a transaction has locked
  pc,
  request,   \* what a request asks for and what it has read
  beside     \* the rivals it has run beside: a history no step reads

rows == <<type, room, status, control, decision, evidence>>
vars == <<rows, held, pc, request, beside>>

Object == DOMAIN room
StatusOf(o) == IF o \in DOMAIN status THEN status[o] ELSE "open"
TypeOf(o) == IF o \in Root THEN type[o] ELSE o[2]

Document == {o \in Object : TypeOf(o) = "document"}
Extraction == {o \in Object : TypeOf(o) = "extraction"}
ProofBundle == {o \in Object : TypeOf(o) \in {"proof_bundle", "bundle"}}

Init ==
  /\ type \in [Root -> RootType]
  /\ room = [o \in Root |-> None]
  /\ status = <<>>
  /\ control = <<>>
  /\ decision = [r \in Request |-> "none"]
  /\ evidence = [o \in Root |-> {}]
  /\ held = [r \in Request |-> {}]
  /\ pc = [r \in Request |-> "idle"]
  /\ request = [r \in Request |-> None]
  /\ beside = [r \in Request |-> {}]
-----------------------------------------------------------------------------
(* Rows that are inserted or written over, and the others                     *)
Put(new, old) ==
  [o \in DOMAIN new \cup DOMAIN old |->
     IF o \in DOMAIN new THEN new[o] ELSE old[o]]
Only(o, value) == [p \in {o} |-> value]

Goto(r, label) == pc' = [pc EXCEPT ![r] = label]
Ended == {"done", "failed"}
Running == {r \in Request : pc[r] \notin {"idle"} \cup Ended}

Free(o) == \A r \in Request : o \notin held[r]
Take(r, o) == Free(o) /\ held' = [held EXCEPT ![r] = @ \cup {o}]
Release(r) == held' = [held EXCEPT ![r] = {}]

Asks(r, kinds) == pc[r] # "idle" /\ request[r].kind \in kinds
Input(r) == CHOOSE o \in request[r].input : TRUE
Learn(r, field, value) == request' = [request EXCEPT ![r][field] = value]

(* The records a request inserts carry the trade it has read.                *)
Made(r, roles) == [o \in {r} \X roles |-> request[r].trade]

(* The request to share whose approval a review decides, and its bundle       *)
Decided(r) == Input(r)[1]
Bundle(r) == Input(Decided(r))

(* What a record was derived from: its evidence_refs_json and its target.    *)
Artifacts(b) == IF b \in Root THEN {} ELSE request[b[1]].input
Evidence(r) ==
  CASE Asks(r, {"share"}) -> request[r].input \cup Artifacts(Input(r))
    [] Asks(r, {"trust"}) -> request[r].input \cup {<<r, "passport">>}
    [] Asks(r, {"review"}) -> request[r].input \cup {Bundle(r)}
    [] OTHER -> {}
Refs(o) ==
  LET r == o[1]
      input == request[r].input
      also(roles) == ({r} \X roles) \cap Object
  IN IF o \in Root THEN {} ELSE
     CASE o[2] = "document" -> {}
       [] Asks(r, {"review"}) /\ o[2] = "task" -> Evidence(r)
       [] Asks(r, {"review"}) /\ o[2] \in {"readiness", "eval"} -> {}
       [] o[2] = "eval" /\ ~Asks(r, {"review"}) ->
            input \cup also({"extraction", "bundle", "task", "work"})
       [] o[2] = "work" -> input \cup also({"task"})
       [] o[2] = "match" -> input \cup also({"passport"})
       [] o[2] = "approval" -> input \cup Evidence(r)
       [] o[2] = "run" /\ Asks(r, {"bundle"}) -> input \cup also({"bundle"})
       [] o[2] = "run" /\ ~Asks(r, {"attach", "bundle"}) ->
            Evidence(r) \cup also({"approval", "task"})
       [] OTHER -> input

(* A request arrives.  word is what it says besides its input: how to        *)
(* attach, what to decide; seen is what it has read.                         *)
Begin(r, kind, input, trade, word, seen, label) ==
  /\ kind \in May[r]
  /\ request' = [request EXCEPT ![r] =
       [kind |-> kind, input |-> input, trade |-> trade, word |-> word,
        seen |-> seen, found |-> {}]]
  /\ beside' = [q \in Request |->
       IF q = r THEN {p \in Running : Asks(p, Rival)}
       ELSE IF q \in Running /\ kind \in Rival THEN beside[q] \cup {r}
       ELSE beside[q]]
  /\ Goto(r, label)
  /\ UNCHANGED <<rows, held>>

(* One or two objects, and the trade of one that has a trade.                *)
Selections(objects) == {{o, p} : o, p \in objects}
TradeOf(s) ==
  IF \A o \in s : room[o] = None THEN {None}
  ELSE {room[o] : o \in s} \ {None}
-----------------------------------------------------------------------------
(* Requests that change the row they are about: its UPDATE returns the trade  *)
(* as it is under the lock.                                                   *)

\* Mutant: the trade of the document is the one read before its UPDATE.
BeginExtractionUnlocked(r) ==
  \E d \in Document : Begin(r, "extract", {d}, room[d], "none", {}, "write")

BeginExtraction(r) ==
  \E d \in Document : Begin(r, "extract", {d}, None, "none", {}, "update")

(* The evidence is read before the UPDATE.                                    *)
BeginClearance(r) ==
  \E o \in Root :
    /\ type[o] = "clearance_check"
    /\ Begin(r, "clearance", {o}, None, "none", evidence[o], "update")

BeginTrust(r) ==
  \E o \in Root, word \in {"invite", "none"} :
    /\ type[o] = "counterparty"
    /\ Begin(r, "trust", {o}, None, word, {}, "update")

(* UPDATE alpha_objects ... RETURNING: the row as it is now.                  *)
Update(r) ==
  /\ pc[r] = "update"
  /\ Take(r, Input(r))
  /\ Learn(r, "trade", room[Input(r)])
  /\ Goto(r, "write")
  /\ UNCHANGED <<rows, beside>>

(* The status it writes, whatever the status was.                             *)
Reopen(o) == status' = Put(Only(o, "open"), status)

CommitExtraction(r) ==
  /\ pc[r] = "write" /\ Asks(r, {"extract", "upload"})
  /\ Reopen(Input(r))
  /\ room' = Put(Made(r, {"extraction", "eval"}), room)
  /\ Release(r)
  /\ Goto(r, "done")
  /\ UNCHANGED <<type, control, decision, evidence, request, beside>>

(* uploadDocumentAlpha: the bytes are stored, then the document; extraction   *)
(* is a transaction of its own, for a text that can be read.                  *)
BeginUpload(r) ==
  \E t \in Room : Begin(r, "upload", {}, t, "none", {}, "store")

CommitDocument(r) ==
  /\ pc[r] = "store"
  /\ room' = Put(Made(r, {"document"}), room)
  /\ Learn(r, "input", {<<r, "document">>})
  /\ \E label \in {"update", "done"} : Goto(r, label)
  /\ UNCHANGED <<type, status, control, decision, evidence, held, beside>>

(* evaluateClearanceCheckAlpha: the evidence that was read is merged and      *)
(* written back; the report and the readiness are later transactions.         *)
\* Mutant: the evidence of this evaluation replaces what there was.
CommitClearanceAlone(r) ==
  /\ pc[r] = "write" /\ Asks(r, {"clearance"})
  /\ Reopen(Input(r))
  /\ evidence' = [evidence EXCEPT ![Input(r)] = {r}]
  /\ Release(r)
  /\ Goto(r, "report")
  /\ UNCHANGED <<type, room, control, decision, request, beside>>

CommitClearance(r) ==
  /\ pc[r] = "write" /\ Asks(r, {"clearance"})
  /\ Reopen(Input(r))
  /\ evidence' = [evidence EXCEPT ![Input(r)] = request[r].seen \cup {r}]
  /\ Release(r)
  /\ Goto(r, "report")
  /\ UNCHANGED <<type, room, control, decision, request, beside>>

(* A transaction that only inserts.                                           *)
Insert(r, roles, label) ==
  /\ room' = Put(Made(r, roles), room)
  /\ Goto(r, label)
  /\ UNCHANGED <<type, status, control, decision, evidence, held, request,
                 beside>>

InsertReport(r) == pc[r] = "report" /\ Insert(r, {"report"}, "evaluate")

(* evaluateReadinessAlpha after a clearance: the trade it is given, or else   *)
(* the trade of the object.                                                   *)
ReadEvaluated(r) ==
  /\ pc[r] = "evaluate"
  /\ Learn(r, "trade", IF request[r].trade # None THEN request[r].trade
                       ELSE room[Input(r)])
  /\ Goto(r, "insert")
  /\ UNCHANGED <<rows, held, beside>>
-----------------------------------------------------------------------------
(* Requests that only read what they derive from.                             *)

BeginReadiness(r) ==
  \E o \in Object :
    Begin(r, "readiness", {o}, room[o], "none", {}, "insert")

InsertReadiness(r) ==
  /\ pc[r] = "insert" /\ Asks(r, {"readiness", "clearance", "review"})
  /\ Insert(r, {"readiness", "eval"}, "done")

BeginPack(r) ==
  \E s \in Selections(Document \cup Extraction) : \E t \in TradeOf(s) :
    Begin(r, "pack", s, t, "none", {}, "insert")

InsertPack(r) ==
  pc[r] = "insert" /\ Asks(r, {"pack"}) /\ Insert(r, {"pack"}, "done")

BeginBundle(r) ==
  \E s \in Selections(Object) : \E t \in TradeOf(s) :
    Begin(r, "bundle", s, t, "none", {}, "insert")

InsertBundle(r) ==
  /\ pc[r] = "insert" /\ Asks(r, {"bundle"})
  /\ Insert(r, {"bundle", "run", "eval"}, "done")

(* An agent's task belongs to the trade it was launched for, if any, and no   *)
(* input may belong to another.                                               *)
BeginAgentTask(r) ==
  \E s \in Selections(Object), t \in Room :
    /\ t # None => \A o \in s : room[o] \in {t, None}
    /\ Begin(r, "agent", s, t, "none", {}, "insert")

InsertAgentTask(r) ==
  /\ pc[r] = "insert" /\ Asks(r, {"agent"})
  /\ Insert(r, {"task", "work", "eval"}, "done")
-----------------------------------------------------------------------------
(* buildNetworkTrustAlpha: the counterparty, its passport, the match, and the *)
(* approval of an invitation, each in a transaction of its own.               *)

CommitTrust(r) ==
  /\ pc[r] = "write" /\ Asks(r, {"trust"})
  /\ Reopen(Input(r))
  /\ Release(r)
  /\ Goto(r, "passport")
  /\ UNCHANGED <<type, room, control, decision, evidence, request, beside>>

InsertPassport(r) == pc[r] = "passport" /\ Insert(r, {"passport"}, "match")

InsertMatch(r) ==
  /\ pc[r] = "match"
  /\ Insert(r, {"match"},
            IF request[r].word = "invite" THEN "consult" ELSE "done")

ReadInvited(r) ==
  /\ pc[r] = "consult"
  /\ Learn(r, "trade", room[Input(r)])
  /\ Goto(r, "approve")
  /\ UNCHANGED <<rows, held, beside>>
-----------------------------------------------------------------------------
(* requestApprovalAlpha: the trade of the target, the approval and its        *)
(* workflow run, in three transactions.                                       *)

BeginApproval(r) ==
  \E o \in Object :
    Begin(r, "approval", {o}, room[o], "none", {}, "approve")

(* requestProofShareAlpha asks for an approval and then writes the bundle.    *)
BeginShare(r) ==
  \E b \in ProofBundle :
    Begin(r, "share", {b}, room[b], "none", {}, "approve")

InsertApproval(r) ==
  /\ pc[r] = "approve"
  /\ room' = Put(Made(r, {"approval"}), room)
  /\ status' = Put(Only(<<r, "approval">>, "approval_required"), status)
  /\ Goto(r, "run")
  /\ UNCHANGED <<type, control, decision, evidence, held, request, beside>>

InsertRun(r) ==
  /\ pc[r] = "run"
  /\ Insert(r, {"run"}, IF Asks(r, {"share"}) THEN "control" ELSE "done")

(* The bundle shows what was asked last, whatever it showed.                  *)
ShareControl(r) ==
  [approval |-> r, recipient |-> r, status |-> "approval_required"]

CommitShare(r) ==
  /\ pc[r] = "control"
  /\ Free(Input(r))
  /\ control' = Put(Only(Input(r), ShareControl(r)), control)
  /\ Goto(r, "done")
  /\ UNCHANGED <<type, room, status, decision, evidence, held, request, beside>>
-----------------------------------------------------------------------------
(* decideApprovalAlpha on the approval of a share.  seen is the recipient the *)
(* bundle shows when the decision is made.                                    *)

BeginReview(r) ==
  \E s \in Request, word \in {"approved", "rejected"} :
    /\ Asks(s, {"share"}) /\ <<s, "approval">> \in Object
    /\ StatusOf(<<s, "approval">>) = "approval_required"
    /\ Begin(r, "review", {<<s, "approval">>}, None, word, {}, "decide")

TakeApproval(r) ==
  /\ pc[r] = "decide"
  /\ Take(r, Input(r))
  /\ Goto(r, "target")
  /\ UNCHANGED <<rows, request, beside>>

ReadBundle(r) ==
  /\ pc[r] = "target"
  /\ Learn(r, "seen", {control[b].recipient : b \in {Bundle(r)} \cap
                                                     DOMAIN control})
  /\ Goto(r, "release")
  /\ UNCHANGED <<rows, held, beside>>

Decision(r) ==
  [approval |-> Decided(r),
   recipient |-> IF request[r].seen = {} THEN None
                 ELSE CHOOSE s \in request[r].seen : TRUE,
   status |-> request[r].word]

(* The trade of the approval, or else of the bundle: of the task an approval  *)
(* releases, and of the readiness that is evaluated after the decision.       *)
Affected(r) ==
  IF room[Input(r)] # None THEN room[Input(r)] ELSE room[Bundle(r)]

EndReview(r) ==
  /\ room' = IF request[r].word = "approved"
             THEN Put([o \in {r} \X {"task", "run"} |-> Affected(r)], room)
             ELSE room
  /\ Learn(r, "trade", Affected(r))
  /\ Release(r)
  /\ Goto(r, IF Affected(r) = None THEN "done" ELSE "insert")
  /\ UNCHANGED <<type, evidence, beside>>

\* Mutant: a bundle follows an approval, and no rejection.
CommitReviewIfApproved(r) ==
  /\ pc[r] = "release"
  /\ Free(Bundle(r))
  /\ status' = [status EXCEPT ![Input(r)] = request[r].word]
  /\ decision' = [decision EXCEPT ![Decided(r)] = request[r].word]
  /\ control' = IF request[r].word = "approved"
                THEN Put(Only(Bundle(r), Decision(r)), control) ELSE control
  /\ EndReview(r)

(* The approval and the bundle change in one transaction, which releases the  *)
(* task and its run.                                                          *)
CommitReview(r) ==
  /\ pc[r] = "release"
  /\ Free(Bundle(r))
  /\ status' = [status EXCEPT ![Input(r)] = request[r].word]
  /\ decision' = [decision EXCEPT ![Decided(r)] = request[r].word]
  /\ control' = Put(Only(Bundle(r), Decision(r)), control)
  /\ EndReview(r)
-----------------------------------------------------------------------------
(* attachAlphaObject.  The status is read without a lock; a link writes it    *)
(* back.                                                                      *)

BeginAttachment(r) ==
  \E o \in Object, t \in Trade, word \in {"attach", "link"} :
    /\ word = "attach" => StatusOf(o) \notin {"attached", "rejected"}
    /\ Begin(r, "attach", {o}, t, word, {StatusOf(o)}, "attach")

TakeAttached(r) ==
  /\ pc[r] = "attach"
  /\ Take(r, Input(r))
  /\ Goto(r, "find")
  /\ UNCHANGED <<rows, request, beside>>

\* Mutant: only what was derived from the object itself.
DerivedDirectly(o) ==
  {c \in Object \ {o} : room[c] = None /\ o \in Refs(c)}

(* The objects that were derived from o, through objects without a trade: the *)
(* least set the recursive query is closed under.                             *)
Unplaced(o) == {c \in Object \ {o} : room[c] = None}
Closed(s, o) == \A c \in Unplaced(o) : Refs(c) \cap (s \cup {o}) # {} => c \in s
Derived(o) ==
  {c \in Unplaced(o) : \A s \in SUBSET Unplaced(o) : Closed(s, o) => c \in s}

FindDerived(r) ==
  /\ pc[r] = "find"
  /\ Learn(r, "found", Derived(Input(r)))
  /\ Goto(r, "relate")
  /\ UNCHANGED <<rows, held, beside>>

TakeDerived(r) ==
  /\ pc[r] = "relate"
  /\ \E o \in request[r].found \ held[r] : Take(r, o)
  /\ UNCHANGED <<rows, pc, request, beside>>

\* Mutant: what had no trade when it was found.
Found(r) == request[r].found

(* WHERE candidate.trade_id IS NULL is evaluated again under the lock.        *)
Receivers(r) == {o \in request[r].found : room[o] = None}

Attached(r) ==
  [o \in request[r].input \cup Receivers(r) |-> request[r].trade]

CommitAttachment(r) ==
  /\ pc[r] = "relate" /\ request[r].found \subseteq held[r]
  /\ room' = Put(Made(r, {"run"}), Put(Attached(r), room))
  /\ \E seen \in request[r].seen :
       status' = Put(Only(Input(r), IF request[r].word = "link" THEN seen
                                    ELSE "attached"), status)
  /\ Release(r)
  /\ Goto(r, "done")
  /\ UNCHANGED <<type, control, decision, evidence, request, beside>>
-----------------------------------------------------------------------------
(* A refusal, a failure, a crash: the transaction is undone, and the request  *)
(* ends with what its earlier transactions have committed.                    *)
Rollback(r) ==
  /\ r \in Running
  /\ Release(r)
  /\ Goto(r, "failed")
  /\ UNCHANGED <<rows, request, beside>>

Step(r) ==
  \/ Update(r) \/ CommitExtraction(r) \/ CommitDocument(r)
  \/ CommitClearance(r) \/ InsertReport(r) \/ ReadEvaluated(r)
  \/ InsertReadiness(r) \/ InsertPack(r) \/ InsertBundle(r)
  \/ InsertAgentTask(r)
  \/ CommitTrust(r) \/ InsertPassport(r) \/ InsertMatch(r) \/ ReadInvited(r)
  \/ InsertApproval(r) \/ InsertRun(r) \/ CommitShare(r)
  \/ TakeApproval(r) \/ ReadBundle(r) \/ CommitReview(r)
  \/ TakeAttached(r) \/ FindDerived(r) \/ TakeDerived(r)
  \/ CommitAttachment(r)

Arrive(r) ==
  /\ pc[r] = "idle"
  /\ \/ BeginExtraction(r) \/ BeginUpload(r) \/ BeginClearance(r)
     \/ BeginTrust(r) \/ BeginReadiness(r) \/ BeginPack(r) \/ BeginBundle(r)
     \/ BeginAgentTask(r) \/ BeginApproval(r) \/ BeginShare(r)
     \/ BeginReview(r) \/ BeginAttachment(r)

Next == \E r \in Request : Arrive(r) \/ Step(r) \/ Rollback(r)

Spec == Init /\ [][Next]_vars
-----------------------------------------------------------------------------
TypeOK ==
  /\ type \in [Root -> RootType]
  /\ Root \subseteq Object /\ Object \subseteq Id
  /\ \A o \in Object : room[o] \in Room
  /\ DOMAIN status \subseteq Object /\ \A o \in Object : StatusOf(o) \in Status
  /\ DOMAIN control \subseteq ProofBundle
  /\ decision \in [Request -> {"none", "approved", "rejected"}]
  /\ evidence \in [Root -> SUBSET Request]
  /\ held \in [Request -> SUBSET Object]
  /\ beside \in [Request -> SUBSET Request]

Attaches(r) == Asks(r, {"attach"})

(* The records of an extraction have a trade if their document has one: the   *)
(* UPDATE of the document (alpha.ts:1131) orders the extraction with every    *)
(* attachment of it, whatever else runs.                                      *)
ExtractionsFollow ==
  \A r \in Request :
    Asks(r, {"extract", "upload"}) /\ <<r, "extraction">> \in Object =>
      \A role \in {"extraction", "eval"} :
        room[<<r, role>>] = None => room[Input(r)] = None

(* Whatever is derived from an object that has a trade has a trade, except    *)
(* what a request made while an attachment ran (propagateAttachedTradeContext *)
(* reaches all that was committed).  An agent's task is for the trade its     *)
(* caller named.                                                              *)
LeftBehindOnlyBeside ==
  \A o \in Object \ Root :
    LET r == o[1] IN
    /\ ~Asks(r, {"agent"})
    /\ room[o] = None
    /\ \E p \in request[r].input : room[p] # None
    => \E q \in beside[r] : Attaches(q)

(* A record leaves a trade only when it is itself attached or linked to       *)
(* another; propagation never moves it.                                       *)
TradeIsKept ==
  [][\A o \in Object :
       room[o] # None /\ room'[o] # room[o] =>
         /\ room'[o] # None
         /\ \E r \in Request : /\ Attaches(r) /\ request[r].input = {o}
                               /\ pc[r] = "relate" /\ pc'[r] = "done"]_vars

(* The approval a released bundle names was approved: decideApprovalAlpha     *)
(* writes both under the lock of the approval.                                *)
ReleasedIsApproved ==
  \A b \in DOMAIN control :
    control[b].status = "approved" => decision[control[b].approval] = "approved"

(* A bundle whose approval was given is released, unless the decision came    *)
(* before its request had ended (alpha.ts:3391 then takes the release back).  *)
ApprovedIsReleased ==
  \A b \in DOMAIN control :
    LET s == control[b].approval IN
    /\ decision[s] = "approved" /\ control[b].status # "approved"
    => \E r \in beside[s] : Asks(r, {"review"})

(* No evaluation loses the evidence of another that had ended before it       *)
(* began.                                                                     *)
EvidenceIsKept ==
  \A r \in Request :
    /\ Asks(r, {"clearance"}) /\ pc[r] \notin {"update", "write", "failed"}
    /\ r \notin evidence[Input(r)]
    => \E q \in beside[r] : Asks(q, {"clearance"})

(* protected-actions.yaml:262: recipient and approval payload are validated,  *)
(* so a bundle is not released to another recipient than its approval was     *)
(* asked for.                                                                 *)
ReleasedToItsRecipient ==
  \A b \in DOMAIN control :
    control[b].status = "approved" =>
      control[b].recipient \in {control[b].approval, None}
=============================================================================
