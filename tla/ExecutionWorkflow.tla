-------------------------- MODULE ExecutionWorkflow --------------------------
(***************************************************************************)
(* An execution task and the workflow run that follows it: operators move  *)
(* the task and append a step to the run in one transaction, participants  *)
(* update the task, links attach it to a trade                             *)
(* (apps/api/src/services/alpha.ts), and the worker's monitor signals the  *)
(* run's phase (apps/worker/src/jobs/alpha_workflows.ts).                  *)
(*                                                                         *)
(* Every transaction reads the row first, without a lock, and writes the   *)
(* status and the arrays it computed from what it read.  An UPDATE waits   *)
(* for the transaction that changed the row and then writes regardless of  *)
(* what it left there.                                                     *)
(***************************************************************************)
EXTENDS Naturals, Sequences, FiniteSets

CONSTANTS
  Operator,  \* updateExecutionTaskStatusAlpha requests
  Writer,    \* submitExternalExecutionTaskUpdateAlpha and attachAlphaObject
  Monitor,   \* the worker that holds the advisory lock "alpha-workflow-monitor"
  None

Request == Operator \cup Writer

ASSUME DisjointAssumption ==
  /\ Operator \cap Writer = {}
  /\ Monitor \notin Request
  /\ None \notin Request

VARIABLES
  task,     \* the status of the execution_task
  run,      \* its workflow_run: status, workflow_state.status and the steps in
            \* its lifecycle, but for the monitor's own, which all readers skip
  signal,   \* workflow_worker: the last signal and attention of the monitor
  taskLock, \* the operator whose transaction holds the task's row lock
  at,
  seen,     \* what a request or the monitor read
  old,      \* the steps taken more than staleAfterMs ago
  done,     \* history: the operators that committed, in order
  raced     \* history: the monitor wrote the run while an operator held it

rows == <<task, run, signal>>
vars == <<rows, taskLock, at, seen, old, done, raced>>

Status == {"in_progress", "ready_for_review", "blocked", "completed",
           "cancelled", "attached"}
Terminal == {"completed", "cancelled"}
Active == {"in_progress", "ready_for_review", "blocked"}
Phase == {"waiting_for_operator", "waiting_for_review", "blocked",
          "recovery_attention"}

\* The creation of the task, which starts the run's lifecycle
Start == "started"
Step == Operator \cup {Start}

\* createExecutionTaskObject: the task and its run, in one transaction
Init ==
  /\ task = "in_progress"
  /\ run = [status |-> "in_progress", told |-> "in_progress",
            log |-> <<Start>>]
  /\ signal = None
  /\ taskLock = None
  /\ at = [p \in Request \cup {Monitor} |-> "idle"]
  /\ seen = [p \in Request \cup {Monitor} |-> None]
  /\ old = {}
  /\ done = <<>>
  /\ raced = FALSE
-----------------------------------------------------------------------------
Goto(p, label) == at' = [at EXCEPT ![p] = label]

\* A transaction or a tick is over.
Leave(p, label) == Goto(p, label) /\ seen' = [seen EXCEPT ![p] = None]

(* validateLifecycleTransition (object-lifecycle.ts), for these statuses      *)

TaskTransitions ==
  [in_progress |-> {"ready_for_review", "blocked", "completed", "cancelled"},
   ready_for_review |-> {"in_progress", "blocked", "completed", "cancelled"},
   blocked |-> {"in_progress", "cancelled"}]

\* What holds of an object of any type
Transition(from, to, action) ==
  \/ from = to /\ (from = "attached" => action = "object.link")
  \/ from # to /\ to = "attached" /\ from # "cancelled"
  \/ from # to /\ to # "attached" /\ from \notin Terminal

TaskTransition(from, to, action) ==
  /\ Transition(from, to, action)
  /\ from # to /\ to # "attached" /\ from \in DOMAIN TaskTransitions
       => to \in TaskTransitions[from]

RunTransition(from, to) == Transition(from, to, "workflow.run.update")
-----------------------------------------------------------------------------
(* updateExecutionTaskStatusAlpha: one transaction.  Completion needs a note, *)
(* the operator's confirmation, acknowledged risks and an idempotency key.    *)

ReadTask(o, to, confirmed) ==
  /\ at[o] = "idle"
  /\ IF /\ task \notin Terminal
        /\ TaskTransition(task, to, "execution.task.status")
        /\ to = "completed" => confirmed
     THEN /\ seen' = [seen EXCEPT ![o] = [to |-> to]]
          /\ Goto(o, "read")
     ELSE /\ UNCHANGED seen
          /\ Goto(o, "done")
  /\ UNCHANGED <<rows, taskLock, old, done, raced>>

\* Mutant: the run is read before the task's row lock is had.
ReadRunUnlocked(o) ==
  /\ at[o] = "read"
  /\ RunTransition(run.status, seen[o].to)
  /\ taskLock' = IF taskLock = None THEN o ELSE taskLock
  /\ seen' = [seen EXCEPT ![o] = [to |-> @.to, run |-> run]]
  /\ Goto(o, "locked")
  /\ UNCHANGED <<rows, old, done, raced>>

\* The task's UPDATE takes its row lock; then the run is read.
LockTask(o) ==
  /\ at[o] = "read"
  /\ taskLock = None
  /\ IF RunTransition(run.status, seen[o].to)
     THEN /\ taskLock' = o
          /\ seen' = [seen EXCEPT ![o] =
               [to |-> @.to, run |-> run]]
          /\ Goto(o, "locked")
     ELSE /\ Leave(o, "done")
          /\ UNCHANGED taskLock
  /\ UNCHANGED <<rows, old, done, raced>>

\* appendWorkflowRunStep writes the run, and the transaction commits.
CommitTask(o) ==
  LET s == seen[o] IN
  /\ at[o] = "locked"
  /\ task' = s.to
  /\ run' = [status |-> s.to, told |-> s.to,
             log |-> Append(s.run.log, o)]
  /\ taskLock' = None
  /\ done' = Append(done, o)
  /\ Leave(o, "done")
  /\ UNCHANGED <<signal, old, raced>>

\* A statement fails or the process dies: the transaction rolls back.
FailTask(o) ==
  /\ at[o] \in {"read", "locked"}
  /\ taskLock' = IF taskLock = o THEN None ELSE taskLock
  /\ Leave(o, "done")
  /\ UNCHANGED <<rows, old, done, raced>>
-----------------------------------------------------------------------------
(* submitExternalExecutionTaskUpdateAlpha: the run is not told.               *)

\* What the route's schema lets a participant ask for
ParticipantStatus == {"in_progress", "ready_for_review", "blocked"}

ReadForUpdate(q) ==
  /\ at[q] = "idle"
  /\ task \notin Terminal
  /\ \E to \in ParticipantStatus :
       /\ TaskTransition(task, to, "external.execution_task.update")
       /\ seen' = [seen EXCEPT ![q] = [to |-> to]]
  /\ Goto(q, "read")
  /\ UNCHANGED <<rows, taskLock, old, done, raced>>

(* attachAlphaObject: 'link' writes back the status it read.                  *)
ReadForLink(q) ==
  /\ at[q] = "idle"
  /\ \/ seen' = [seen EXCEPT ![q] = [to |-> task]]
     \/ /\ TaskTransition(task, "attached", "object.attach")
        /\ seen' = [seen EXCEPT ![q] = [to |-> "attached"]]
  /\ Goto(q, "read")
  /\ UNCHANGED <<rows, taskLock, old, done, raced>>

\* The UPDATE of either
WriteTask(q) ==
  /\ at[q] = "read"
  /\ taskLock = None
  /\ task' = seen[q].to
  /\ Leave(q, "done")
  /\ UNCHANGED <<run, signal, taskLock, old, done, raced>>
-----------------------------------------------------------------------------
(* runAlphaWorkflowTick: the monitor, under the job lock                      *)

\* A step becomes older than staleAfterMs, and with it those before it.
GrowOld(n) ==
  /\ run.log[n] \notin old
  /\ old' = old \cup {run.log[i] : i \in 1 .. n}
  /\ UNCHANGED <<rows, taskLock, at, seen, done, raced>>

\* lastDomainWorkflowStepAt
LastDomainStep(log) == log[Len(log)]

\* workflowPhase of an active run of kind controlled_execution
PhaseOf(status, stale) ==
  CASE stale                                 -> "recovery_attention"
    [] ~stale /\ status = "blocked"          -> "blocked"
    [] ~stale /\ status = "ready_for_review" -> "waiting_for_review"
    [] ~stale /\ status = "in_progress"      -> "waiting_for_operator"

\* buildWorkflowMonitorDecision: the signal and whether it wants attention
Decision(status, log) ==
  LET stale == LastDomainStep(log) \in old
  IN [phase |-> PhaseOf(status, stale),
      attention |-> stale \/ status = "blocked"]

\* shouldRecordSignal compares with the last signal of the row that was read.
ShouldRecord == seen[Monitor].signal # seen[Monitor].decision

BeginTick ==
  /\ at[Monitor] = "idle"
  /\ Goto(Monitor, "scanning")
  /\ UNCHANGED <<rows, taskLock, seen, old, done, raced>>

\* Mutant: a run whose state tells its status is not looked at.
ScanChangedRun ==
  /\ at[Monitor] = "scanning"
  /\ run.status \in Active
  /\ signal = None \/ run.told # run.status
  /\ seen' = [seen EXCEPT ![Monitor] = [run |-> run, signal |-> signal,
       decision |-> Decision(run.status, run.log)]]
  /\ Goto(Monitor, "monitoring")
  /\ UNCHANGED <<rows, taskLock, old, done, raced>>

\* SELECT ... status = ANY(active)
ScanRun ==
  /\ at[Monitor] = "scanning"
  /\ run.status \in Active
  /\ seen' = [seen EXCEPT ![Monitor] = [run |-> run, signal |-> signal,
       decision |-> Decision(run.status, run.log)]]
  /\ Goto(Monitor, "monitoring")
  /\ UNCHANGED <<rows, taskLock, old, done, raced>>

\* Mutant: the UPDATE does not look at the status the run has by now.
WhateverStatus(status) == TRUE

\* UPDATE ... AND status = ANY(active)
StillActive(status) == status \in Active

\* The patch is what the monitor made of the row it read.
MonitorRun ==
  LET s == seen[Monitor] IN
  /\ at[Monitor] = "monitoring"
  /\ IF StillActive(run.status)
     THEN /\ run' = [run EXCEPT
               !.told = s.run.status,
               !.log = IF ShouldRecord THEN s.run.log ELSE @]
          /\ signal' = s.decision
          /\ raced' = (raced \/ taskLock # None \/ s.run.log # run.log)
     ELSE UNCHANGED <<run, signal, raced>>
  /\ Leave(Monitor, "idle")
  /\ UNCHANGED <<task, taskLock, old, done>>

\* No active run is found, or the tick throws, or the worker dies.
EndTick ==
  /\ at[Monitor] # "idle"
  /\ Leave(Monitor, "idle")
  /\ UNCHANGED <<rows, taskLock, old, done, raced>>
-----------------------------------------------------------------------------
OperatorStep(o) ==
  \/ \E to \in Status, confirmed \in BOOLEAN : ReadTask(o, to, confirmed)
  \/ LockTask(o)
  \/ CommitTask(o)
  \/ FailTask(o)

Next ==
  \/ \E o \in Operator : OperatorStep(o)
  \/ \E q \in Writer : ReadForUpdate(q) \/ ReadForLink(q) \/ WriteTask(q)
  \/ \E n \in DOMAIN run.log : GrowOld(n)
  \/ BeginTick \/ ScanRun \/ MonitorRun \/ EndTick

Spec == Init /\ [][Next]_vars

\* A transaction ends; the monitor's loop runs on, and a tick that throws again
\* and again does not keep it from ever writing an active run.
Fairness ==
  /\ \A o \in Operator : WF_vars(CommitTask(o) \/ FailTask(o))
  /\ WF_vars(BeginTick)
  /\ SF_vars(ScanRun) /\ SF_vars(MonitorRun)

FairSpec == Spec /\ Fairness
-----------------------------------------------------------------------------
TypeOK ==
  /\ task \in Status
  /\ run.status \in Status /\ run.told \in Status
  /\ run.log \in Seq(Step)
  /\ signal \in [phase : Phase, attention : BOOLEAN] \cup {None}
  /\ taskLock \in Operator \cup {None}
  /\ at \in [Request \cup {Monitor} ->
       {"idle", "read", "locked", "done", "scanning", "monitoring"}]
  /\ old \subseteq Operator \cup {Start}
  /\ done \in Seq(Operator)
  /\ raced \in BOOLEAN

\* A run that ended stays as it ended, or is attached: of operators who read the
\* task at the same time, to complete it and to cancel it, the second one finds
\* the run ended, because it reads the run under the task's row lock.
EndedRunStays ==
  [][run.status \in Terminal => run'.status \in {run.status, "attached"}]_vars

\* The steps operators committed are in the run's lifecycle, once each and in
\* the order of their commits, unless the monitor wrote the run meanwhile: the
\* task's row lock orders their reads of the run, though not of the task.
StepsAreKept ==
  ~raced => run.log = <<Start>> \o done

\* The monitor, whatever it read earlier, leaves the state of a run that is no
\* longer active alone, so that state is the run's status.
EndedRunTellsItsStatus == run.status \notin Active => run.told = run.status

\* In the end the monitor has told the phase of a run that stays active, the
\* attention it wants when no step was taken for long included.
MonitorCatchesUp ==
  <>[](run.status \in Active
         => /\ run.told = run.status
            /\ signal = Decision(run.status, run.log))

\* alpha.ts:1817: "Execution task is already terminal"; it stays so.
CompletedIsFinal ==
  [][task = "completed" => task' = "completed"]_vars
=============================================================================
