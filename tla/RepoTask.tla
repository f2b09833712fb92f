------------------------------ MODULE RepoTask ------------------------------
(***************************************************************************)
(* One task of a multi-repository run, from admission to completion, over  *)
(* any number of incarnations of the parent (src/multirepo/orchestration.ts,*)
(* scheduler.ts, worker-recovery.ts, runtime.ts, control-store.ts).        *)
(*                                                                         *)
(* Everything but the parent's program counter and the worker process is   *)
(* durable: the scheduler's projection is a fold of journalled facts, and  *)
(* each append is one atomic batch of the control store.  Lease tokens are *)
(* compared for equality only, so what a token is written on is "current"  *)
(* or "old" (bound to an earlier lease).  The vector transaction and the   *)
(* worktree group appear here by their outcomes; RepoTransaction and       *)
(* WorktreeGroup model them.                                               *)
(***************************************************************************)
EXTENDS Naturals

CONSTANTS MaxTaskCrashes     \* bound: crashes of the parent

ASSUME TaskCrashAssumption == MaxTaskCrashes \in Nat

VARIABLES
  sched,      \* the scheduler's projection of the task
  group,      \* the worktree group on disk: whose lease it is bound to
  fact,       \* the worktree fact: whose lease, and the group's state
  facts,      \* the other journalled facts: settled, heads, vector, receipt
  proc,       \* the worker process
  attested,   \* the ledger holds the accounted settlement of the worker's call
  receiptFile,\* the worker recovery receipt and its temporary
  parent,     \* [pc, mine]: mine - the lease was issued by this incarnation
  execs,      \* history: provider programs started for this task
  told,       \* history: a run ended with recovery_required or blocked
  taskCrashes

taskVars == <<sched, group, fact, facts, proc, attested, receiptFile, parent,
              execs, told, taskCrashes>>

Bound == {"none", "current", "old"}

ReceiptFiles == {"none", "partial", "temp", "both", "final"}

TaskPcs == {"start", "admit", "deciding", "granted", "leased", "prepare",
            "prepared", "worker", "gated", "acked", "waiting", "record",
            "commit", "integrate", "receipt", "finish", "release", "ended", "dead"}

-----------------------------------------------------------------------------
(* The scheduler's projection.                                             *)

registeredTask == [state |-> "waiting", dirty |-> TRUE, processing |-> FALSE,
                   lease |-> "none"]

MayReconcile(t) ==
  t.dirty /\ ~t.processing /\ t.state \notin {"completed", "cancelled"}

reconcileStarted(t) == [t EXCEPT !.dirty = FALSE, !.processing = TRUE]

reconcileFinished(t) == [t EXCEPT !.processing = FALSE]

leaseGranted(t) == [t EXCEPT !.state = "active", !.lease = "admitted"]

(* Variant: the acknowledgement does not reach the journal.                *)
dispatchAcknowledged_Lost(t) == t

dispatchAcknowledged(t) == [t EXCEPT !.lease = "dispatched"]

leaseUncertain(t) == [t EXCEPT !.state = "uncertain", !.lease = "uncertain"]

leaseReleased(t, outcome) ==
  [t EXCEPT !.state = IF outcome = "retry" THEN "waiting" ELSE outcome,
            !.lease = "none",
            !.dirty = (outcome = "retry") \/ @]

(* decideSchedulerAdmission: tasks run one at a time in dependency order,  *)
(* so capacity and dependencies never refuse the task at hand.             *)
decideSchedulerAdmission(t) == t.state = "waiting" /\ t.lease = "none"

Aged(x) == IF x = "none" THEN "none" ELSE "old"

Goto(pc) == parent' = [parent EXCEPT !.pc = pc]

-----------------------------------------------------------------------------
TaskInit ==
  /\ sched = registeredTask
  /\ group = "none"
  /\ fact = [of |-> "none", state |-> "none"]
  /\ facts = [settled |-> FALSE, heads |-> "none", vector |-> "none", receipt |-> "none"]
  /\ proc = "none"
  /\ attested = FALSE
  /\ receiptFile = "none"
  /\ parent = [pc |-> "start", mine |-> FALSE]
  /\ execs = 0
  /\ told = FALSE
  /\ taskCrashes = 0

(* A new incarnation replays the journal; plan and task are registered    *)
(* once and found there afterwards.                                        *)
registerPlanAndTasks ==
  /\ parent.pc = "start"
  /\ Goto("admit")
  /\ UNCHANGED <<sched, group, fact, facts, proc, attested, receiptFile, execs, told, taskCrashes>>

(* The first append of admitTask; an ineligible task throws.               *)
startReconcile ==
  /\ parent.pc = "admit"
  /\ UNCHANGED <<group, fact, facts, proc, attested, receiptFile, execs, told, taskCrashes>>
  /\ \/ /\ sched.state = "completed"
        /\ Goto("ended")
        /\ UNCHANGED sched
     \/ /\ sched.state # "completed" /\ sched.lease # "none"
        /\ Goto("leased")
        /\ UNCHANGED sched
     \/ /\ sched.state # "completed" /\ sched.lease = "none"
        /\ IF MayReconcile(sched)
           THEN sched' = reconcileStarted(sched) /\ Goto("deciding")
           ELSE Goto("ended") /\ UNCHANGED sched

(* A fresh token: whatever was bound to the previous lease is now old.     *)
admitTask ==
  /\ parent.pc = "deciding"
  /\ decideSchedulerAdmission(sched)
  /\ sched' = leaseGranted(sched)
  /\ group' = Aged(group)
  /\ fact' = [fact EXCEPT !.of = Aged(@)]
  /\ facts' = [facts EXCEPT !.receipt = Aged(@)]
  /\ parent' = [pc |-> "granted", mine |-> TRUE]
  /\ UNCHANGED <<proc, attested, receiptFile, execs, told, taskCrashes>>

finishReconcile ==
  /\ parent.pc = "granted"
  /\ sched' = reconcileFinished(sched)
  /\ Goto("leased")
  /\ UNCHANGED <<group, fact, facts, proc, attested, receiptFile, execs, told, taskCrashes>>

(* executeTask up to the worktree: the lease of an earlier incarnation is  *)
(* released for retry when no dispatch was acknowledged on it.             *)
executeTask ==
  /\ parent.pc = "leased"
  /\ UNCHANGED <<group, fact, facts, proc, attested, receiptFile, execs, told, taskCrashes>>
  /\ \/ /\ sched.lease = "uncertain"
        /\ Goto("ended")
        /\ UNCHANGED sched
     \/ /\ sched.lease = "admitted" /\ ~parent.mine
        /\ sched' = leaseReleased(sched, "retry")
        /\ Goto("admit")
     \/ /\ sched.lease = "dispatched" \/ (sched.lease = "admitted" /\ parent.mine)
        /\ Goto(IF facts.receipt = "current" /\ fact.of = "current" THEN "finish"
                ELSE IF facts.receipt # "none" THEN "ended"
                ELSE IF fact.of = "none" THEN "prepare"
                ELSE IF fact.state # "ready" THEN "ended" ELSE "worker")
        /\ UNCHANGED sched

(* The branch names come from the plan, not from the attempt: a group left *)
(* by an earlier lease makes the preparation throw.                        *)
prepareGroup ==
  /\ parent.pc = "prepare"
  /\ UNCHANGED <<sched, fact, facts, proc, attested, receiptFile, execs, told, taskCrashes>>
  /\ \/ /\ group = "old"
        /\ Goto("ended") /\ UNCHANGED group
     \/ /\ group # "old"
        /\ group' \in {"none", "current"}
        /\ Goto("prepared")

recordWorktree ==
  /\ parent.pc = "prepared"
  /\ fact' = [of |-> "current", state |-> IF group = "current" THEN "ready" ELSE "rolled_back"]
  /\ IF group = "current"
     THEN Goto("worker") /\ UNCHANGED told
     ELSE Goto("ended") /\ told' = TRUE
  /\ UNCHANGED <<sched, group, facts, proc, attested, receiptFile, execs, taskCrashes>>

-----------------------------------------------------------------------------
(* The worker.  A child is started behind a closed gate; the gate opens    *)
(* only after the acknowledgement is journalled.                           *)

launchGated ==
  /\ parent.pc = "worker"
  /\ ~facts.settled /\ sched.lease = "admitted"
  /\ proc' = "gated"
  /\ Goto("gated")
  /\ UNCHANGED <<sched, group, fact, facts, attested, receiptFile, execs, told, taskCrashes>>

acknowledgeDispatch ==
  /\ parent.pc = "gated"
  /\ sched' = dispatchAcknowledged(sched)
  /\ Goto("acked")
  /\ UNCHANGED <<group, fact, facts, proc, attested, receiptFile, execs, told, taskCrashes>>

openGate ==
  /\ parent.pc = "acked"
  /\ proc' = "running"
  /\ execs' = execs + 1
  /\ Goto("waiting")
  /\ UNCHANGED <<sched, group, fact, facts, attested, receiptFile, told, taskCrashes>>

(* The launch fails, or the turn ends without an accounted settlement.     *)
markLeaseUncertain ==
  /\ \/ parent.pc = "gated"
     \/ parent.pc = "waiting" /\ proc = "stopped" /\ ~attested
  /\ sched' = leaseUncertain(sched)
  /\ proc' = "stopped"
  /\ Goto("ended")
  /\ UNCHANGED <<group, fact, facts, attested, receiptFile, execs, told, taskCrashes>>

(* The running turn settles in the ledger once its scope is empty.         *)
settleCall ==
  /\ parent.pc = "waiting" /\ proc = "stopped" /\ ~attested
  /\ attested' = TRUE
  /\ UNCHANGED <<sched, group, fact, facts, proc, receiptFile, parent, execs, told, taskCrashes>>

recordEvidence ==
  /\ parent.pc = "waiting" /\ attested
  /\ Goto("record")
  /\ UNCHANGED <<sched, group, fact, facts, proc, attested, receiptFile, execs, told, taskCrashes>>

(* reconcileReceiptPublication discards a temporary that is not a complete *)
(* receipt and keeps every later stage of the protocol.                    *)
reconcileReceiptPublication(file) == IF file = "partial" THEN "none" ELSE file

(* Variant: without an attestation the run is only refused.                *)
recoverWorker_Refuses ==
  /\ parent.pc = "worker"
  /\ ~facts.settled /\ sched.lease = "dispatched"
  /\ IF proc # "running" /\ attested
     THEN receiptFile' = reconcileReceiptPublication(receiptFile) /\ Goto("record")
     ELSE Goto("ended") /\ UNCHANGED receiptFile
  /\ UNCHANGED <<sched, group, fact, facts, proc, attested, execs, told, taskCrashes>>

(* recover: a predecessor still alive throws, without an attestation the   *)
(* lease becomes uncertain, otherwise the same receipt is published.       *)
recoverWorker ==
  /\ parent.pc = "worker"
  /\ ~facts.settled /\ sched.lease = "dispatched"
  /\ UNCHANGED <<group, fact, facts, proc, attested, execs, told, taskCrashes>>
  /\ \/ /\ proc = "running"
        /\ Goto("ended") /\ UNCHANGED <<sched, receiptFile>>
     \/ /\ proc # "running" /\ ~attested
        /\ sched' = leaseUncertain(sched)
        /\ Goto("ended") /\ UNCHANGED receiptFile
     \/ /\ proc # "running" /\ attested
        /\ receiptFile' = reconcileReceiptPublication(receiptFile)
        /\ Goto("record") /\ UNCHANGED sched

(* publishReceipt: temporary, fsync, hard link, unlink; what a crash left  *)
(* is promoted, or dropped when it is not a complete receipt.              *)
publishStep(file) ==
  CASE file = "none" -> {"partial"}
    [] file = "partial" -> {"temp"}
    [] file = "temp" -> {"both"}
    [] OTHER -> {"final"}

publishReceiptFile ==
  /\ parent.pc = "record"
  /\ receiptFile # "final"
  /\ receiptFile' \in publishStep(receiptFile)
  /\ UNCHANGED <<sched, group, fact, facts, proc, attested, parent, execs, told, taskCrashes>>

ensureWorkerSettled ==
  /\ UNCHANGED <<sched, group, fact, proc, attested, receiptFile, execs, told, taskCrashes>>
  /\ \/ /\ parent.pc = "record" /\ receiptFile = "final"
        /\ facts' = [facts EXCEPT !.settled = TRUE]
        /\ Goto("commit")
     \/ /\ parent.pc = "worker" /\ facts.settled
        /\ Goto("commit")
        /\ UNCHANGED facts

-----------------------------------------------------------------------------
(* The parent's commits, the vector, the receipt and the completion.       *)

(* Variant: the recorded intent is taken for the recorded head.            *)
ensureHeadRecorded_IntentOnly ==
  /\ parent.pc = "commit"
  /\ IF facts.heads = "none"
     THEN facts' = [facts EXCEPT !.heads = "intended"] /\ UNCHANGED parent
     ELSE Goto("integrate") /\ UNCHANGED facts
  /\ UNCHANGED <<sched, group, fact, proc, attested, receiptFile, execs, told, taskCrashes>>

(* Intent, then commit and compare-and-set of the private branch, then the *)
(* head fact; a restart adopts a branch that already moved.  A worker that *)
(* changed nothing, or moved the branch itself, makes the intent throw.    *)
ensureHeadRecorded ==
  /\ parent.pc = "commit"
  /\ \/ /\ facts.heads = "recorded"
        /\ Goto("integrate") /\ UNCHANGED facts
     \/ /\ facts.heads = "none"
        /\ Goto("ended") /\ UNCHANGED facts
     \/ /\ facts.heads # "recorded"
        /\ facts' = [facts EXCEPT !.heads =
                       CASE @ = "none" -> "intended"
                         [] @ = "intended" -> "moved"
                         [] OTHER -> "recorded"]
        /\ UNCHANGED parent
  /\ UNCHANGED <<sched, group, fact, proc, attested, receiptFile, execs, told, taskCrashes>>

runIntegration ==
  /\ parent.pc = "integrate"
  /\ \E outcome \in IF facts.vector = "none" THEN {"applied", "stopped"} ELSE {facts.vector} :
       /\ facts' = [facts EXCEPT !.vector = outcome]
       /\ IF outcome = "applied"
          THEN Goto("receipt") /\ UNCHANGED told
          ELSE Goto("ended") /\ told' = TRUE
  /\ UNCHANGED <<sched, group, fact, proc, attested, receiptFile, execs, taskCrashes>>

appendLocalReceipt ==
  /\ parent.pc = "receipt"
  /\ facts' = [facts EXCEPT !.receipt = "current"]
  /\ Goto("finish")
  /\ UNCHANGED <<sched, group, fact, proc, attested, receiptFile, execs, told, taskCrashes>>

(* Reclamation reads the group of the current lease: a group bound to an   *)
(* earlier one is not found and the call throws.                           *)
finishIntegratedTask ==
  /\ parent.pc = "finish"
  /\ UNCHANGED <<sched, facts, proc, attested, receiptFile, execs, taskCrashes>>
  /\ \/ /\ fact.state = "reclaimed"
        /\ Goto("release") /\ UNCHANGED <<group, fact, told>>
     \/ /\ fact.state # "reclaimed" /\ fact.of = "current"
        /\ \/ /\ group' = "none"
              /\ fact' = [fact EXCEPT !.state = "reclaimed"]
              /\ Goto("release") /\ UNCHANGED told
           \/ /\ group # "none"
              /\ fact' = [fact EXCEPT !.state = "recovery_required"]
              /\ told' = TRUE
              /\ Goto("ended") /\ UNCHANGED group
     \/ /\ fact.state # "reclaimed" /\ fact.of = "old"
        /\ Goto("ended") /\ UNCHANGED <<group, fact, told>>

(* With no publication configured the task completes at once, with one it  *)
(* completes when the publication is terminal.                             *)
releaseLease ==
  /\ parent.pc = "release"
  /\ UNCHANGED <<group, fact, facts, proc, attested, receiptFile, execs, taskCrashes>>
  /\ \/ /\ sched' = leaseReleased(sched, "completed")
        /\ UNCHANGED told
     \/ /\ told' = TRUE
        /\ UNCHANGED sched
  /\ Goto("ended")

-----------------------------------------------------------------------------
workerStops ==
  /\ proc = "running"
  /\ proc' = "stopped"
  /\ UNCHANGED <<sched, group, fact, facts, attested, receiptFile, parent, execs, told, taskCrashes>>

(* A gated child cannot pass its gate without the parent.                  *)
TaskCrash ==
  /\ parent.pc \notin {"ended", "dead"}
  /\ taskCrashes < MaxTaskCrashes
  /\ taskCrashes' = taskCrashes + 1
  /\ parent' = [pc |-> "dead", mine |-> FALSE]
  /\ proc' = IF proc = "gated" THEN "stopped" ELSE proc
  /\ UNCHANGED <<sched, group, fact, facts, attested, receiptFile, execs, told>>

(* A new incarnation, after a crash or after a run that ended early.       *)
TaskRestart ==
  /\ parent.pc \in {"ended", "dead"}
  /\ sched.state # "completed"
  /\ parent' = [pc |-> "start", mine |-> FALSE]
  /\ UNCHANGED <<sched, group, fact, facts, proc, attested, receiptFile, execs, told, taskCrashes>>

ParentStep ==
  \/ registerPlanAndTasks \/ startReconcile \/ admitTask \/ finishReconcile
  \/ executeTask \/ prepareGroup \/ recordWorktree \/ launchGated
  \/ acknowledgeDispatch \/ openGate \/ markLeaseUncertain \/ settleCall
  \/ recordEvidence \/ recoverWorker \/ publishReceiptFile
  \/ ensureWorkerSettled \/ ensureHeadRecorded
  \/ runIntegration \/ appendLocalReceipt \/ finishIntegratedTask \/ releaseLease

TaskNext == ParentStep \/ workerStops \/ TaskCrash \/ TaskRestart

(* Operators restart an unfinished run, the parent's code runs on, and the *)
(* deadline of a turn stops every worker.                                  *)
TaskFairness ==
  WF_taskVars(ParentStep) /\ WF_taskVars(workerStops) /\ WF_taskVars(TaskRestart)

TaskSpec == TaskInit /\ [][TaskNext]_taskVars /\ TaskFairness

-----------------------------------------------------------------------------
TaskTypeOK ==
  /\ sched \in [state : {"waiting", "active", "uncertain", "completed"},
               dirty : BOOLEAN, processing : BOOLEAN,
               lease : {"none", "admitted", "dispatched", "uncertain"}]
  /\ group \in Bound
  /\ fact \in [of : Bound, state : {"none", "ready", "rolled_back", "reclaimed", "recovery_required"}]
  /\ facts \in [settled : BOOLEAN, heads : {"none", "intended", "moved", "recorded"},
               vector : {"none", "applied", "stopped"}, receipt : Bound]
  /\ proc \in {"none", "gated", "running", "stopped"}
  /\ attested \in BOOLEAN
  /\ receiptFile \in ReceiptFiles
  /\ parent \in [pc : TaskPcs, mine : BOOLEAN]
  /\ execs \in Nat
  /\ told \in BOOLEAN
  /\ taskCrashes \in 0 .. MaxTaskCrashes

(* However often the parent dies and retries, at most one provider program *)
(* is ever started for the task, and a new lease is never held while that  *)
(* program may run (ensureWorkerSettled, executeTask's retry).             *)
OneWorkerEver ==
  /\ execs <= 1
  /\ proc = "running" => sched.lease = "dispatched"

(* A task the scheduler calls completed was worked on by a stopped worker  *)
(* whose settlement is attested and receipted, its vector was applied, its *)
(* receipt journalled and its worktrees reclaimed.                         *)
CompletedMeansDelivered ==
  sched.state = "completed" =>
    /\ proc = "stopped" /\ attested /\ receiptFile = "final"
    /\ facts.settled /\ facts.heads = "recorded" /\ facts.vector = "applied"
    /\ facts.receipt = "current"
    /\ fact.state = "reclaimed" /\ group = "none"

(* A dispatched worker is settled or its lease becomes uncertain, whatever *)
(* the parent's incarnations go through (ensureWorkerSettled).             *)
DispatchedIsSettled ==
  (sched.lease = "dispatched") ~> (facts.settled \/ sched.lease = "uncertain")

(* A reconciliation that was started is finished, by this incarnation or   *)
(* by the one that replays its journal.                                    *)
ReconcileFinishes == sched.processing ~> ~sched.processing
=============================================================================
