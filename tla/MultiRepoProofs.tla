-------------------------- MODULE MultiRepoProofs --------------------------
(***************************************************************************)
(* Proofs about the four parts of a multi-repository run: the task         *)
(* (RepoTask), the lock of a repository (RepoAuthority), the transaction   *)
(* (RepoTransaction) and the worktree group (WorktreeGroup).               *)
(***************************************************************************)
EXTENDS RepoTask, RepoAuthority, RepoTransaction, WorktreeGroup, WellFoundedInduction,
        FiniteSetTheorems, TLAPS

-----------------------------------------------------------------------------
(* The task.                                                               *)

\* A lease on which a program was started, or a call attested, is never given back.
WorkerBound ==
  /\ execs <= 1
  /\ execs # 0 \/ attested => sched.lease \in {"dispatched", "uncertain"} \/ sched.state = "completed"
  /\ proc = "running" => sched.lease = "dispatched"
  /\ attested => proc = "stopped"
  /\ sched.state = "completed" => parent.pc = "ended"
  /\ parent.pc = "gated" => sched.lease = "admitted"
  /\ parent.pc = "acked" => sched.lease = "dispatched" /\ execs = 0 /\ ~attested
  /\ parent.pc = "waiting" => sched.lease = "dispatched"

\* Each fact of the delivery stands on the one before it.
FactsInOrder ==
  /\ facts.settled => attested /\ receiptFile = "final"
  /\ facts.heads # "none" => facts.settled
  /\ facts.vector # "none" => facts.heads = "recorded"
  /\ facts.receipt # "none" => facts.vector = "applied" /\ facts.receipt = "current"

\* What each step of the parent has behind it.
StepBehind ==
  /\ parent.pc = "record" => attested
  /\ parent.pc = "commit" => facts.settled
  /\ parent.pc = "integrate" => facts.heads = "recorded"
  /\ parent.pc = "receipt" => facts.vector = "applied"
  /\ parent.pc \in {"finish", "release"} => facts.receipt = "current"
  /\ parent.pc = "release" => fact.state = "reclaimed"

\* A reclaimed group is gone, and nothing prepares another one for the lease.
GroupOfFact ==
  /\ fact.of = "none" => fact.state = "none"
  /\ fact.state = "reclaimed" => group = "none"
  /\ parent.pc \in {"prepare", "prepared"} => fact.of = "none"

TaskInv ==
  /\ TaskTypeOK /\ WorkerBound /\ FactsInOrder /\ StepBehind /\ GroupOfFact
  /\ CompletedMeansDelivered

LEMMA TaskInitInv == TaskInit => TaskInv
<1> SUFFICES ASSUME TaskInit PROVE TaskInv
    OBVIOUS
<1>1. /\ sched \in [state : {"waiting", "active", "uncertain", "completed"}, dirty : BOOLEAN,
                   processing : BOOLEAN, lease : {"none", "admitted", "dispatched", "uncertain"}]
      /\ parent \in [pc : TaskPcs, mine : BOOLEAN]
    BY DEF TaskInit, registeredTask, TaskPcs
<1>2. taskCrashes \in 0 .. MaxTaskCrashes /\ execs \in Nat
    BY TaskCrashAssumption DEF TaskInit
<1>3. fact \in [of : Bound, state : {"none", "ready", "rolled_back", "reclaimed", "recovery_required"}]
    BY DEF TaskInit, Bound
<1>4. facts \in [settled : BOOLEAN, heads : {"none", "intended", "moved", "recorded"},
                vector : {"none", "applied", "stopped"}, receipt : Bound]
    BY DEF TaskInit, Bound
<1>5. TaskTypeOK
    BY <1>1, <1>2, <1>3, <1>4 DEF TaskInit, TaskTypeOK, Bound, ReceiptFiles
<1> QED
    BY <1>5 DEF TaskInit, TaskInv, WorkerBound, FactsInOrder, StepBehind, GroupOfFact,
       CompletedMeansDelivered, registeredTask, Bound, ReceiptFiles, TaskPcs

LEMMA TaskStep == TaskInv /\ [TaskNext]_taskVars => TaskInv'
<1> SUFFICES ASSUME TaskInv, [TaskNext]_taskVars
             PROVE  TaskInv'
    OBVIOUS
<1> DEFINE SchedOK == sched \in [state : {"waiting", "active", "uncertain", "completed"},
                                dirty : BOOLEAN, processing : BOOLEAN,
                                lease : {"none", "admitted", "dispatched", "uncertain"}]
           FactOK == fact \in [of : Bound, state : {"none", "ready", "rolled_back", "reclaimed",
                                                   "recovery_required"}]
           FactsOK == facts \in [settled : BOOLEAN,
                                 heads : {"none", "intended", "moved", "recorded"},
                                 vector : {"none", "applied", "stopped"}, receipt : Bound]
           ParentOK == parent \in [pc : TaskPcs, mine : BOOLEAN]
           RestOK == /\ group \in Bound /\ proc \in {"none", "gated", "running", "stopped"}
                     /\ attested \in BOOLEAN /\ receiptFile \in ReceiptFiles
                     /\ execs \in Nat /\ told \in BOOLEAN /\ taskCrashes \in 0 .. MaxTaskCrashes
<1> USE TaskCrashAssumption
    DEF TaskInv, TaskTypeOK, WorkerBound, FactsInOrder, StepBehind, GroupOfFact,
        CompletedMeansDelivered, Bound, ReceiptFiles, TaskPcs, Goto
<1>1. CASE registerPlanAndTasks
    BY <1>1 DEF registerPlanAndTasks
<1>2. CASE startReconcile
  <2>1. TaskTypeOK'
    <3>1. SchedOK'
        BY ZenonT(40), <1>2 DEF startReconcile, reconcileStarted, MayReconcile
    <3>2. FactOK'
        BY <1>2 DEF startReconcile, reconcileStarted, MayReconcile
    <3>3. FactsOK'
        BY <1>2 DEF startReconcile, reconcileStarted, MayReconcile
    <3>4. ParentOK'
        BY <1>2 DEF startReconcile, reconcileStarted, MayReconcile
    <3>5. RestOK'
        BY <1>2 DEF startReconcile, reconcileStarted, MayReconcile
    <3> QED
        BY <3>1, <3>2, <3>3, <3>4, <3>5
  <2>2. WorkerBound'
      BY ZenonT(40), <1>2 DEF startReconcile, reconcileStarted, MayReconcile
  <2>3. FactsInOrder'
      BY <1>2 DEF startReconcile, reconcileStarted, MayReconcile
  <2>4. StepBehind'
      BY <1>2 DEF startReconcile, reconcileStarted, MayReconcile
  <2>5. GroupOfFact'
      BY <1>2 DEF startReconcile, reconcileStarted, MayReconcile
  <2>6. CompletedMeansDelivered'
      BY <1>2 DEF startReconcile, reconcileStarted, MayReconcile
  <2> QED
      BY <2>1, <2>2, <2>3, <2>4, <2>5, <2>6
<1>3. CASE admitTask
  <2>1. TaskTypeOK'
    <3>1. SchedOK'
        BY <1>3 DEF admitTask, decideSchedulerAdmission, leaseGranted, Aged
    <3>2. FactOK'
        BY <1>3 DEF admitTask, decideSchedulerAdmission, leaseGranted, Aged
    <3>3. FactsOK'
        BY <1>3 DEF admitTask, decideSchedulerAdmission, leaseGranted, Aged
    <3>4. ParentOK'
        BY <1>3 DEF admitTask, decideSchedulerAdmission, leaseGranted, Aged
    <3>5. RestOK'
        BY <1>3 DEF admitTask, decideSchedulerAdmission, leaseGranted, Aged
    <3> QED
        BY <3>1, <3>2, <3>3, <3>4, <3>5
  <2>2. WorkerBound'
      BY <1>3 DEF admitTask, decideSchedulerAdmission, leaseGranted, Aged
  <2>3. FactsInOrder'
      BY <1>3 DEF admitTask, decideSchedulerAdmission, leaseGranted, Aged
  <2>4. StepBehind'
      BY <1>3 DEF admitTask, decideSchedulerAdmission, leaseGranted, Aged
  <2>5. GroupOfFact'
      BY <1>3 DEF admitTask, decideSchedulerAdmission, leaseGranted, Aged
  <2>6. CompletedMeansDelivered'
      BY <1>3 DEF admitTask, decideSchedulerAdmission, leaseGranted, Aged
  <2> QED
      BY <2>1, <2>2, <2>3, <2>4, <2>5, <2>6
<1>4. CASE finishReconcile
  <2>1. TaskTypeOK'
    <3>1. SchedOK'
        BY <1>4 DEF finishReconcile, reconcileFinished
    <3>2. FactOK'
        BY <1>4 DEF finishReconcile, reconcileFinished
    <3>3. FactsOK'
        BY <1>4 DEF finishReconcile, reconcileFinished
    <3>4. ParentOK'
        BY <1>4 DEF finishReconcile, reconcileFinished
    <3>5. RestOK'
        BY <1>4 DEF finishReconcile, reconcileFinished
    <3> QED
        BY <3>1, <3>2, <3>3, <3>4, <3>5
  <2>2. WorkerBound'
      BY <1>4 DEF finishReconcile, reconcileFinished
  <2>3. FactsInOrder'
      BY <1>4 DEF finishReconcile, reconcileFinished
  <2>4. StepBehind'
      BY <1>4 DEF finishReconcile, reconcileFinished
  <2>5. GroupOfFact'
      BY <1>4 DEF finishReconcile, reconcileFinished
  <2>6. CompletedMeansDelivered'
      BY <1>4 DEF finishReconcile, reconcileFinished
  <2> QED
      BY <2>1, <2>2, <2>3, <2>4, <2>5, <2>6
<1>5. CASE executeTask
  <2>1. TaskTypeOK'
    <3>1. SchedOK'
        BY <1>5 DEF executeTask, leaseReleased
    <3>2. FactOK'
        BY <1>5 DEF executeTask, leaseReleased
    <3>3. FactsOK'
        BY <1>5 DEF executeTask, leaseReleased
    <3>4. ParentOK'
        BY <1>5 DEF executeTask, leaseReleased
    <3>5. RestOK'
        BY <1>5 DEF executeTask, leaseReleased
    <3> QED
        BY <3>1, <3>2, <3>3, <3>4, <3>5
  <2>2. WorkerBound'
    <3>1. (execs <= 1)'
        BY <1>5 DEF executeTask, leaseReleased
    <3>2. (execs # 0 \/ attested => sched.lease \in {"dispatched", "uncertain"} \/ sched.state = "completed")'
        BY <1>5 DEF executeTask, leaseReleased
    <3>3. (proc = "running" => sched.lease = "dispatched")'
        BY <1>5 DEF executeTask, leaseReleased
    <3>4. (attested => proc = "stopped")'
        BY <1>5 DEF executeTask, leaseReleased
    <3>5. (sched.state = "completed" => parent.pc = "ended")'
        BY <1>5 DEF executeTask, leaseReleased
    <3>6. (parent.pc \notin {"gated", "acked", "waiting"})'
        BY <1>5 DEF executeTask, leaseReleased
    <3> QED
        BY <3>1, <3>2, <3>3, <3>4, <3>5, <3>6
  <2>3. FactsInOrder'
      BY <1>5 DEF executeTask, leaseReleased
  <2>4. StepBehind'
      BY <1>5 DEF executeTask, leaseReleased
  <2>5. GroupOfFact'
      BY <1>5 DEF executeTask, leaseReleased
  <2>6. CompletedMeansDelivered'
      BY <1>5 DEF executeTask, leaseReleased
  <2> QED
      BY <2>1, <2>2, <2>3, <2>4, <2>5, <2>6
<1>6. CASE prepareGroup
    BY <1>6 DEF prepareGroup
<1>7. CASE recordWorktree
  <2>1. TaskTypeOK'
    <3>1. SchedOK'
        BY <1>7 DEF recordWorktree
    <3>2. FactOK'
        BY <1>7 DEF recordWorktree
    <3>3. FactsOK'
        BY <1>7 DEF recordWorktree
    <3>4. ParentOK'
        BY <1>7 DEF recordWorktree
    <3>5. RestOK'
        BY <1>7 DEF recordWorktree
    <3> QED
        BY <3>1, <3>2, <3>3, <3>4, <3>5
  <2>2. WorkerBound'
      BY <1>7 DEF recordWorktree
  <2>3. FactsInOrder'
      BY <1>7 DEF recordWorktree
  <2>4. StepBehind'
      BY <1>7 DEF recordWorktree
  <2>5. GroupOfFact'
      BY <1>7 DEF recordWorktree
  <2>6. CompletedMeansDelivered'
      BY <1>7 DEF recordWorktree
  <2> QED
      BY <2>1, <2>2, <2>3, <2>4, <2>5, <2>6
<1>8. CASE launchGated
    BY <1>8 DEF launchGated
<1>9. CASE acknowledgeDispatch
    BY <1>9 DEF acknowledgeDispatch, dispatchAcknowledged
<1>10. CASE openGate
    BY <1>10 DEF openGate
<1>11. CASE markLeaseUncertain
  <2>1. TaskTypeOK'
      BY ZenonT(40), <1>11 DEF markLeaseUncertain, leaseUncertain
  <2>2. WorkerBound'
      BY <1>11 DEF markLeaseUncertain, leaseUncertain
  <2>3. FactsInOrder'
      BY <1>11 DEF markLeaseUncertain, leaseUncertain
  <2>4. StepBehind'
      BY <1>11 DEF markLeaseUncertain, leaseUncertain
  <2>5. GroupOfFact'
      BY <1>11 DEF markLeaseUncertain, leaseUncertain
  <2>6. CompletedMeansDelivered'
      BY <1>11 DEF markLeaseUncertain, leaseUncertain
  <2> QED
      BY <2>1, <2>2, <2>3, <2>4, <2>5, <2>6
<1>12. CASE settleCall
    BY <1>12 DEF settleCall
<1>13. CASE recordEvidence
    BY <1>13 DEF recordEvidence
<1>14. CASE recoverWorker
  <2>1. TaskTypeOK'
    <3>1. SchedOK'
        BY <1>14 DEF recoverWorker, leaseUncertain, reconcileReceiptPublication
    <3>2. FactOK'
        BY <1>14 DEF recoverWorker, leaseUncertain, reconcileReceiptPublication
    <3>3. FactsOK'
        BY <1>14 DEF recoverWorker, leaseUncertain, reconcileReceiptPublication
    <3>4. ParentOK'
        BY <1>14 DEF recoverWorker, leaseUncertain, reconcileReceiptPublication
    <3>5. RestOK'
        BY <1>14 DEF recoverWorker, leaseUncertain, reconcileReceiptPublication
    <3> QED
        BY <3>1, <3>2, <3>3, <3>4, <3>5
  <2>2. WorkerBound'
      BY <1>14 DEF recoverWorker, leaseUncertain, reconcileReceiptPublication
  <2>3. FactsInOrder'
      BY <1>14 DEF recoverWorker, leaseUncertain, reconcileReceiptPublication
  <2>4. StepBehind'
      BY <1>14 DEF recoverWorker, leaseUncertain, reconcileReceiptPublication
  <2>5. GroupOfFact'
      BY <1>14 DEF recoverWorker, leaseUncertain, reconcileReceiptPublication
  <2>6. CompletedMeansDelivered'
      BY <1>14 DEF recoverWorker, leaseUncertain, reconcileReceiptPublication
  <2> QED
      BY <2>1, <2>2, <2>3, <2>4, <2>5, <2>6
<1>15. CASE publishReceiptFile
    BY <1>15 DEF publishReceiptFile, publishStep
<1>16. CASE ensureWorkerSettled
  <2>1. TaskTypeOK'
    <3>1. SchedOK'
        BY <1>16 DEF ensureWorkerSettled
    <3>2. FactOK'
        BY <1>16 DEF ensureWorkerSettled
    <3>3. FactsOK'
        BY <1>16 DEF ensureWorkerSettled
    <3>4. ParentOK'
        BY <1>16 DEF ensureWorkerSettled
    <3>5. RestOK'
        BY <1>16 DEF ensureWorkerSettled
    <3> QED
        BY <3>1, <3>2, <3>3, <3>4, <3>5
  <2>2. WorkerBound'
      BY <1>16 DEF ensureWorkerSettled
  <2>3. FactsInOrder'
      BY <1>16 DEF ensureWorkerSettled
  <2>4. StepBehind'
      BY <1>16 DEF ensureWorkerSettled
  <2>5. GroupOfFact'
      BY <1>16 DEF ensureWorkerSettled
  <2>6. CompletedMeansDelivered'
      BY <1>16 DEF ensureWorkerSettled
  <2> QED
      BY <2>1, <2>2, <2>3, <2>4, <2>5, <2>6
<1>17. CASE ensureHeadRecorded
    BY <1>17 DEF ensureHeadRecorded
<1>18. CASE runIntegration
  <2>1. TaskTypeOK'
    <3>1. SchedOK'
        BY <1>18 DEF runIntegration
    <3>2. FactOK'
        BY <1>18 DEF runIntegration
    <3>3. FactsOK'
        BY <1>18 DEF runIntegration
    <3>4. ParentOK'
        BY <1>18 DEF runIntegration
    <3>5. RestOK'
        BY <1>18 DEF runIntegration
    <3> QED
        BY <3>1, <3>2, <3>3, <3>4, <3>5
  <2>2. WorkerBound'
      BY <1>18 DEF runIntegration
  <2>3. FactsInOrder'
      BY <1>18 DEF runIntegration
  <2>4. StepBehind'
      BY <1>18 DEF runIntegration
  <2>5. GroupOfFact'
      BY <1>18 DEF runIntegration
  <2>6. CompletedMeansDelivered'
      BY <1>18 DEF runIntegration
  <2> QED
      BY <2>1, <2>2, <2>3, <2>4, <2>5, <2>6
<1>19. CASE appendLocalReceipt
    BY <1>19 DEF appendLocalReceipt
<1>20. CASE finishIntegratedTask
  <2>1. TaskTypeOK'
    <3>1. SchedOK'
        BY <1>20 DEF finishIntegratedTask
    <3>2. FactOK'
        BY <1>20 DEF finishIntegratedTask
    <3>3. FactsOK'
        BY <1>20 DEF finishIntegratedTask
    <3>4. ParentOK'
        BY <1>20 DEF finishIntegratedTask
    <3>5. RestOK'
        BY <1>20 DEF finishIntegratedTask
    <3> QED
        BY <3>1, <3>2, <3>3, <3>4, <3>5
  <2>2. WorkerBound'
      BY <1>20 DEF finishIntegratedTask
  <2>3. FactsInOrder'
      BY <1>20 DEF finishIntegratedTask
  <2>4. StepBehind'
      BY <1>20 DEF finishIntegratedTask
  <2>5. GroupOfFact'
      BY <1>20 DEF finishIntegratedTask
  <2>6. CompletedMeansDelivered'
      BY <1>20 DEF finishIntegratedTask
  <2> QED
      BY <2>1, <2>2, <2>3, <2>4, <2>5, <2>6
<1>21. CASE releaseLease
    BY ZenonT(40), <1>21 DEF releaseLease, leaseReleased
<1>22. CASE workerStops
    BY <1>22 DEF workerStops
<1>23. CASE TaskCrash
    BY <1>23 DEF TaskCrash
<1>24. CASE TaskRestart
    BY <1>24 DEF TaskRestart
<1>25. CASE UNCHANGED taskVars
    BY <1>25 DEF taskVars
<1> QED
    BY <1>1, <1>2, <1>3, <1>4, <1>5, <1>6, <1>7, <1>8, <1>9, <1>10, <1>11, <1>12, <1>13, <1>14, <1>15, <1>16, <1>17, <1>18, <1>19, <1>20, <1>21, <1>22, <1>23, <1>24, <1>25 DEF TaskNext, ParentStep

\* At most one provider program is ever started for a task, however often its parent dies and
\* retries (ensureWorkerSettled, executeTask).
THEOREM OneWorkerAlways == TaskSpec => []OneWorkerEver
<1>1. TaskInv => OneWorkerEver
    BY DEF TaskInv, WorkerBound, OneWorkerEver
<1> QED
    BY <1>1, TaskInitInv, TaskStep, PTL DEF TaskSpec

\* A task the scheduler calls completed was attested, receipted, integrated and reclaimed
\* (releaseLease, finishIntegratedTask).
THEOREM CompletedAlwaysDelivered == TaskSpec => []CompletedMeansDelivered
<1>1. TaskInv => CompletedMeansDelivered
    BY DEF TaskInv
<1> QED
    BY <1>1, TaskInitInv, TaskStep, PTL DEF TaskSpec

-----------------------------------------------------------------------------
(* The lock of a repository.                                               *)

\* A claim has one place: the live name, or the archive of one process.
OnePlace ==
  \A p \in Claimants : archive[p] # Nobody =>
    archive[p] # liveLeaf /\ \A q \in Claimants : q # p => archive[p] # archive[q]

\* It has none before it is published.
NotPublishedYet ==
  \A p \in Claimants : claimPc[p] \in {"idle", "staged", "written", "preserve", "check", "publish"} =>
    liveLeaf # p /\ \A q \in Claimants : archive[q] # p

\* What a process has in its archive at each step.
ArchiveOfStep ==
  \A p \in Claimants :
    /\ claimPc[p] \in {"idle", "staged", "written", "preserve", "done"} => archive[p] = Nobody
    /\ claimPc[p] = "withdrawn" => archive[p] = p
    /\ claimPc[p] \in {"preserve", "check"} => pinned[p] \in Claimants \ alive
    /\ claimPc[p] \in {"publish", "verify", "held"} => archive[p] \notin alive

\* The claim of a living process that published it is in its place.
ClaimKept ==
  \A p \in alive : claimPc[p] \in {"verify", "held"} =>
    liveLeaf = p \/ \E q \in Claimants : archive[q] = p

LockInv == LockTypeOK /\ OnePlace /\ NotPublishedYet /\ ArchiveOfStep /\ ClaimKept

LEMMA LockInitInv == LockInit => LockInv
BY ClaimantAssumption
   DEF LockInit, LockInv, LockTypeOK, OnePlace, NotPublishedYet, ArchiveOfStep, ClaimKept, ClaimPcs

LEMMA LockStep == LockInv /\ [LockNext]_lockVars => LockInv'
<1> SUFFICES ASSUME LockInv, [LockNext]_lockVars
             PROVE  LockInv'
    OBVIOUS
<1> USE ClaimantAssumption
    DEF LockInv, LockTypeOK, OnePlace, NotPublishedYet, ArchiveOfStep, ClaimKept, ClaimPcs, At
<1>1. ASSUME NEW p \in Claimants, reconcileAbandonedStagingClaims(p)
      PROVE  LockInv'
  <2>1. LockTypeOK'
      BY <1>1 DEF reconcileAbandonedStagingClaims
  <2>2. OnePlace'
      BY <1>1 DEF reconcileAbandonedStagingClaims
  <2>3. NotPublishedYet'
      BY <1>1 DEF reconcileAbandonedStagingClaims
  <2>4. ArchiveOfStep'
      BY <1>1 DEF reconcileAbandonedStagingClaims
  <2>5. ClaimKept'
      BY <1>1 DEF reconcileAbandonedStagingClaims
  <2> QED
      BY <2>1, <2>2, <2>3, <2>4, <2>5
<1>2. ASSUME NEW p \in Claimants, stageClaim(p)
      PROVE  LockInv'
  <2>1. LockTypeOK'
      BY <1>2 DEF stageClaim, To
  <2>2. OnePlace'
      BY <1>2 DEF stageClaim, To
  <2>3. NotPublishedYet'
      BY <1>2 DEF stageClaim, To
  <2>4. ArchiveOfStep'
      BY <1>2 DEF stageClaim, To
  <2>5. ClaimKept'
      BY <1>2 DEF stageClaim, To
  <2> QED
      BY <2>1, <2>2, <2>3, <2>4, <2>5
<1>3. ASSUME NEW p \in Claimants, durableExclusiveReceipt(p)
      PROVE  LockInv'
  <2>1. LockTypeOK'
      BY <1>3 DEF durableExclusiveReceipt, To
  <2>2. OnePlace'
      BY <1>3 DEF durableExclusiveReceipt, To
  <2>3. NotPublishedYet'
      BY <1>3 DEF durableExclusiveReceipt, To
  <2>4. ArchiveOfStep'
      BY <1>3 DEF durableExclusiveReceipt, To
  <2>5. ClaimKept'
      BY <1>3 DEF durableExclusiveReceipt, To
  <2> QED
      BY <2>1, <2>2, <2>3, <2>4, <2>5
<1>4. ASSUME NEW p \in Claimants, prepareLiveLeaf(p)
      PROVE  LockInv'
  <2>1. LockTypeOK'
      BY <1>4 DEF prepareLiveLeaf, To, cleanupStagingDirectory
  <2>2. OnePlace'
      BY <1>4 DEF prepareLiveLeaf, To, cleanupStagingDirectory
  <2>3. NotPublishedYet'
      BY <1>4 DEF prepareLiveLeaf, To, cleanupStagingDirectory
  <2>4. ArchiveOfStep'
      BY <1>4 DEF prepareLiveLeaf, To, cleanupStagingDirectory
  <2>5. ClaimKept'
      BY <1>4 DEF prepareLiveLeaf, To, cleanupStagingDirectory
  <2> QED
      BY <2>1, <2>2, <2>3, <2>4, <2>5
<1>5. ASSUME NEW p \in Claimants, moveLiveDirectoryExact(p)
      PROVE  LockInv'
  <2>1. LockTypeOK'
      BY <1>5 DEF moveLiveDirectoryExact, To, cleanupStagingDirectory
  <2>2. OnePlace'
      BY <1>5 DEF moveLiveDirectoryExact, To, cleanupStagingDirectory
  <2>3. NotPublishedYet'
      BY <1>5 DEF moveLiveDirectoryExact, To, cleanupStagingDirectory
  <2>4. ArchiveOfStep'
      BY <1>5 DEF moveLiveDirectoryExact, To, cleanupStagingDirectory
  <2>5. ClaimKept'
      BY <1>5 DEF moveLiveDirectoryExact, To, cleanupStagingDirectory
  <2> QED
      BY <2>1, <2>2, <2>3, <2>4, <2>5
<1>6. ASSUME NEW p \in Claimants, preserveLiveDirectory(p)
      PROVE  LockInv'
  <2>1. LockTypeOK'
      BY <1>6 DEF preserveLiveDirectory, To, cleanupStagingDirectory
  <2>2. OnePlace'
      BY <1>6 DEF preserveLiveDirectory, To, cleanupStagingDirectory
  <2>3. NotPublishedYet'
      BY <1>6 DEF preserveLiveDirectory, To, cleanupStagingDirectory
  <2>4. ArchiveOfStep'
      BY <1>6 DEF preserveLiveDirectory, To, cleanupStagingDirectory
  <2>5. ClaimKept'
      BY <1>6 DEF preserveLiveDirectory, To, cleanupStagingDirectory
  <2> QED
      BY <2>1, <2>2, <2>3, <2>4, <2>5
<1>7. ASSUME NEW p \in Claimants, publishClaim(p)
      PROVE  LockInv'
  <2>1. LockTypeOK'
      BY <1>7 DEF publishClaim, To, cleanupStagingDirectory
  <2>2. OnePlace'
      BY <1>7 DEF publishClaim, To, cleanupStagingDirectory
  <2>3. NotPublishedYet'
      BY <1>7 DEF publishClaim, To, cleanupStagingDirectory
  <2>4. ArchiveOfStep'
      BY <1>7 DEF publishClaim, To, cleanupStagingDirectory
  <2>5. ClaimKept'
      BY <1>7 DEF publishClaim, To, cleanupStagingDirectory
  <2> QED
      BY <2>1, <2>2, <2>3, <2>4, <2>5
<1>8. ASSUME NEW p \in Claimants, acquireOne(p)
      PROVE  LockInv'
  <2>1. LockTypeOK'
      BY <1>8 DEF acquireOne, To
  <2>2. OnePlace'
      BY <1>8 DEF acquireOne, To
  <2>3. NotPublishedYet'
      BY <1>8 DEF acquireOne, To
  <2>4. ArchiveOfStep'
      BY <1>8 DEF acquireOne, To
  <2>5. ClaimKept'
      BY <1>8 DEF acquireOne, To
  <2> QED
      BY <2>1, <2>2, <2>3, <2>4, <2>5
<1>9. ASSUME NEW p \in Claimants, releaseOne(p)
      PROVE  LockInv'
  <2>1. LockTypeOK'
      BY <1>9 DEF releaseOne, To
  <2>2. OnePlace'
      BY <1>9 DEF releaseOne, To
  <2>3. NotPublishedYet'
      BY <1>9 DEF releaseOne, To
  <2>4. ArchiveOfStep'
      BY <1>9 DEF releaseOne, To
  <2>5. ClaimKept'
      BY <1>9 DEF releaseOne, To
  <2> QED
      BY <2>1, <2>2, <2>3, <2>4, <2>5
<1>10. ASSUME NEW p \in Claimants, ClaimantDies(p)
      PROVE  LockInv'
  <2>1. LockTypeOK'
      BY <1>10 DEF ClaimantDies
  <2>2. OnePlace'
      BY <1>10 DEF ClaimantDies
  <2>3. NotPublishedYet'
      BY <1>10 DEF ClaimantDies
  <2>4. ArchiveOfStep'
      BY <1>10 DEF ClaimantDies
  <2>5. ClaimKept'
      BY <1>10 DEF ClaimantDies
  <2> QED
      BY <2>1, <2>2, <2>3, <2>4, <2>5
<1>11. CASE UNCHANGED lockVars
    BY <1>11 DEF lockVars
<1> QED
    BY <1>1, <1>2, <1>3, <1>4, <1>5, <1>6, <1>7, <1>8, <1>9, <1>10, <1>11 DEF LockNext

LEMMA LockImplies == LockInv => DisplacerNeverHolds
<1> SUFFICES ASSUME LockInv, NEW p \in Claimants
             PROVE  /\ claimPc[p] \in {"publish", "verify", "held"} => archive[p] \notin alive
                    /\ At(p, "held") /\ liveLeaf # p =>
                         Cardinality({q \in Claimants \ {p} : archive[q] = p
                                        /\ claimPc[q] \in {"check", "failed"}}) = 1
    BY DEF DisplacerNeverHolds
<1>1. claimPc[p] \in {"publish", "verify", "held"} => archive[p] \notin alive
    BY DEF LockInv, ArchiveOfStep
<1>2. ASSUME At(p, "held"), liveLeaf # p
      PROVE  Cardinality({q \in Claimants \ {p} : archive[q] = p
                            /\ claimPc[q] \in {"check", "failed"}}) = 1
  <2> DEFINE displacers == {q \in Claimants \ {p} : archive[q] = p
                              /\ claimPc[q] \in {"check", "failed"}}
  <2>1. PICK q \in Claimants : archive[q] = p
      BY <1>2 DEF LockInv, ClaimKept, At
  <2>2. p # Nobody /\ p \in alive
      BY <1>2, ClaimantAssumption DEF At
  <2>3. \A r \in Claimants : archive[r] = p => r = q
      BY <2>1, <2>2 DEF LockInv, OnePlace
  <2>4. claimPc[q] \in {"check", "failed"} /\ q # p
    <3>1. claimPc[q] \in ClaimPcs
        BY DEF LockInv, LockTypeOK
    <3>2. claimPc[p] = "held"
        BY <1>2 DEF At
    <3>3. q # p
        BY <2>1, <2>2, <3>2 DEF LockInv, ArchiveOfStep
    <3> QED
        BY <2>1, <2>2, <3>1, <3>3 DEF LockInv, ArchiveOfStep, ClaimPcs
  <2>5. displacers = {q}
      BY <2>1, <2>3, <2>4
  <2> HIDE DEF displacers
  <2>6. Cardinality(displacers) = 1
      BY <2>5, FS_Singleton
  <2> QED
      BY <2>6 DEF displacers
<1> QED
    BY <1>1, <1>2

\* A process that displaced a claim it had not proven dead never holds the lock, and the claim of
\* a living holder is never destroyed: one displacer has it (moveLiveDirectoryExact,
\* preserveLiveDirectory).
THEOREM DisplacerNeverEverHolds == LockSpec => []DisplacerNeverHolds
BY LockInitInv, LockStep, LockImplies, PTL DEF LockSpec

-----------------------------------------------------------------------------
(* The transaction.                                                        *)

VectorStates == {"preparing", "prepared", "verifying", "verified", "applying", "applied",
                 "compensating", "compensated", "recovery_required"}

PublicationStates == {"none", "publishing", "partial", "published", "recovery_required"}

VectorTypeOK ==
  /\ vector \in [state : VectorStates, candidate : SUBSET Entries, applied : SUBSET Entries,
                 undone : SUBSET Entries]
  /\ targetRef \in [Entries -> {"base", "cand", "other", "candother"}]
  /\ lease \in {"free", "held", "stale"} /\ localReceipt \in BOOLEAN
  /\ published \in [state : PublicationStates, recorded : [Entries -> 0 .. 3]]
  /\ remote \in [Entries -> 0 .. 3]

\* Every candidate is prepared before a ref may carry one, and an entry recorded as applied
\* carries its candidate until the vector is undone.
CandidateFirst ==
  /\ vector.state \notin {"preparing", "recovery_required"} => vector.candidate = Entries
  /\ vector.state \in {"preparing", "prepared", "verifying", "verified"} =>
       vector.applied = {} /\ \A e \in Entries : ~CarriesCandidate(e)
  /\ (\E e \in Entries : CarriesCandidate(e)) => vector.candidate = Entries
  /\ vector.state \in {"applying", "applied"} => \A e \in vector.applied : CarriesCandidate(e)
  /\ vector.state = "applied" => vector.applied = Entries
  /\ vector.undone \subseteq vector.applied

\* The event on its way to the journal fits the state it will be applied to.
IntegrationPending ==
  \/ vector.state = "preparing" /\ \E e \in Entries : pending = EntryEvent("candidate_prepared", e)
  \/ vector.state = "preparing" /\ vector.candidate = Entries /\ pending = Event("prepared")
  \/ vector.state = "prepared" /\ pending = Event("verification_started")
  \/ vector.state = "verifying" /\ pending = Event("verified")
  \/ vector.state = "verified" /\ pending = Event("applying_started")
  \/ /\ vector.state = "applying"
     /\ \E e \in Entries : pending = EntryEvent("entry_applied", e) /\ CarriesCandidate(e)
  \/ vector.state = "applying" /\ pending = Event("compensation_started")
  \/ vector.state = "applying" /\ vector.applied = Entries /\ pending = Event("applied")
  \/ vector.state = "compensating" /\ \E e \in vector.applied : pending = EntryEvent("entry_compensated", e)
  \/ vector.state = "compensating" /\ pending = Event("compensated")
  \/ vector.state \notin IntegrationTerminal /\ pending = Event("recovery_required")

PublicationPending ==
  \/ \E e \in Entries, k \in 1 .. 3 :
       /\ pending = [type |-> "recorded", entry |-> e, kind |-> k]
       /\ published.recorded[e] < k /\ k <= remote[e]
  \/ pending = Event("completed") /\ \A e \in Entries : published.recorded[e] = 3
  \/ pending = Event("retryable_failure")
  \/ pending = Event("recovery_required")

PendingFits ==
  \/ pending = Nothing
  \/ ~localReceipt /\ IntegrationPending
  \/ localReceipt /\ PublicationPending

\* Nothing is published before the receipt, which stands on an applied vector.
RemoteBehindReceipt ==
  /\ localReceipt => vector.state = "applied"
  /\ (\E e \in Entries : remote[e] > 0) => localReceipt

\* The remote is ahead of the journal by one kind of artifact at most.
RemoteInOrder ==
  /\ \A e \in Entries : published.recorded[e] <= remote[e]
  /\ \A e, f \in Entries : remote[e] <= published.recorded[f] + 1
  /\ published.state = "published" => \A e \in Entries : published.recorded[e] = 3

VectorInv ==
  VectorTypeOK /\ CandidateFirst /\ PendingFits /\ RemoteBehindReceipt /\ RemoteInOrder

LEMMA LeastOf ==
  ASSUME NEW S \in SUBSET Nat, S # {}
  PROVE  \E m \in S : \A n \in S : m <= n
<1> DEFINE R == {ss \in Nat \X Nat : ss[1] < ss[2]}
<1>1. IsWellFoundedOn(R, Nat)
    BY NatLessThanWellFounded DEF OpToRel
<1>2. \A x, y \in Nat : y < x => <<y, x>> \in R
    OBVIOUS
<1> HIDE DEF R
<1>3. \E x \in S : \A y \in S : ~ (<<y, x>> \in R)
    BY <1>1, WFMin
<1>4. \E x \in S : \A y \in S : ~(y < x)
    BY <1>2, <1>3
<1> QED
    BY <1>4

LEMMA FirstIn ==
  ASSUME NEW S \in SUBSET Entries, S # {}
  PROVE  First(S) \in S
<1>1. S \in SUBSET Nat
    BY RepositoriesAssumption DEF Entries
<1>2. \E m \in S : \A n \in S : m <= n
    BY <1>1, LeastOf
<1> QED
    BY <1>2 DEF First

LEMMA LastIn ==
  ASSUME NEW S \in SUBSET Entries, S # {}
  PROVE  Last(S) \in S
<1> DEFINE T == {Repositories - n : n \in S}
<1>1. T \in SUBSET Nat /\ T # {}
  <2>1. \A n \in S : Repositories - n \in Nat
      BY RepositoriesAssumption DEF Entries
  <2> QED
      BY <2>1
<1>2. PICK k \in T : \A j \in T : k <= j
  <2> HIDE DEF T
  <2> QED
      BY <1>1, LeastOf
<1>3. PICK m \in S : k = Repositories - m
    OBVIOUS
<1>4. \A n \in S : Repositories - m <= Repositories - n
    BY <1>2, <1>3
<1>5. \A n \in S : m >= n
    BY <1>4, RepositoriesAssumption DEF Entries
<1> QED
    BY <1>5 DEF Last

\* The next artifact to publish is missing in the journal, and no other entry is further behind.
LEMMA NextArtifactIs ==
  ASSUME VectorTypeOK
  PROVE  \/ NextArtifact = <<0, 0>> /\ \A f \in Entries : published.recorded[f] = 3
         \/ \E k \in 1 .. 3, e \in Entries :
              /\ NextArtifact = <<k, e>> /\ published.recorded[e] < k
              /\ \A f \in Entries : k <= published.recorded[f] + 1
<1>1. \A f \in Entries : published.recorded[f] \in 0 .. 3
    BY DEF VectorTypeOK
<1>2. ASSUME NEW k \in 1 .. 3, Behind(k) # {}
      PROVE  First(Behind(k)) \in Entries /\ published.recorded[First(Behind(k))] < k
  <2>1. Behind(k) \in SUBSET Entries
      BY DEF Behind
  <2>2. First(Behind(k)) \in Behind(k)
      BY <1>2, <2>1, FirstIn
  <2> QED
      BY <2>2 DEF Behind
<1>3. ASSUME NEW k \in 1 .. 3, Behind(k) = {}
      PROVE  \A f \in Entries : k <= published.recorded[f]
    BY <1>1, <1>3 DEF Behind
<1>4. CASE Behind(1) # {}
  <2>1. NextArtifact = <<1, First(Behind(1))>>
      BY <1>4 DEF NextArtifact
  <2>2. \A f \in Entries : 1 <= published.recorded[f] + 1
      BY <1>1
  <2> QED
      BY <1>2, <1>4, <2>1, <2>2
<1>5. CASE Behind(1) = {} /\ Behind(2) # {}
  <2>1. NextArtifact = <<2, First(Behind(2))>>
      BY <1>5 DEF NextArtifact
  <2>2. \A f \in Entries : 2 <= published.recorded[f] + 1
      BY <1>1, <1>3, <1>5
  <2> QED
      BY <1>2, <1>5, <2>1, <2>2
<1>6. CASE Behind(1) = {} /\ Behind(2) = {} /\ Behind(3) # {}
  <2>1. NextArtifact = <<3, First(Behind(3))>>
      BY <1>6 DEF NextArtifact
  <2>2. \A f \in Entries : 3 <= published.recorded[f] + 1
      BY <1>1, <1>3, <1>6
  <2> QED
      BY <1>2, <1>6, <2>1, <2>2
<1>7. CASE Behind(1) = {} /\ Behind(2) = {} /\ Behind(3) = {}
  <2>1. NextArtifact = <<0, 0>>
      BY <1>7 DEF NextArtifact
  <2>2. \A f \in Entries : published.recorded[f] = 3
      BY <1>1, <1>3, <1>7
  <2> QED
      BY <2>1, <2>2
<1> QED
    BY <1>4, <1>5, <1>6, <1>7

LEMMA VectorInitInv == VectorInit => VectorInv
<1> SUFFICES ASSUME VectorInit PROVE VectorInv
    OBVIOUS
<1>1. VectorTypeOK
  <2>1. vector \in [state : VectorStates, candidate : SUBSET Entries, applied : SUBSET Entries,
                    undone : SUBSET Entries]
      BY DEF VectorInit, createMultiRepoIntegrationEvent, VectorStates
  <2>2. published \in [state : PublicationStates, recorded : [Entries -> 0 .. 3]]
      BY DEF VectorInit, createMultiRepoPublicationEvent, PublicationStates
  <2>3. remote \in [Entries -> 0 .. 3]
      BY DEF VectorInit
  <2>4. /\ targetRef \in [Entries -> {"base", "cand", "other", "candother"}]
        /\ lease \in {"free", "held", "stale"} /\ localReceipt \in BOOLEAN
      BY DEF VectorInit
  <2> QED
      BY <2>1, <2>2, <2>3, <2>4 DEF VectorTypeOK
<1>2. CandidateFirst
    BY DEF VectorInit, CandidateFirst, CarriesCandidate, createMultiRepoIntegrationEvent
<1>3. PendingFits /\ RemoteBehindReceipt /\ RemoteInOrder
    BY DEF VectorInit, PendingFits, RemoteBehindReceipt, RemoteInOrder,
           createMultiRepoIntegrationEvent, createMultiRepoPublicationEvent
<1> QED
    BY <1>1, <1>2, <1>3 DEF VectorInv

LEMMA VectorStep == VectorInv /\ [VectorNext]_vectorVars => VectorInv'
<1> SUFFICES ASSUME VectorInv, [VectorNext]_vectorVars
             PROVE  VectorInv'
    OBVIOUS
<1> USE DEF VectorInv, VectorTypeOK, CandidateFirst, PendingFits, RemoteBehindReceipt,
           RemoteInOrder, VectorStates, PublicationStates, CarriesCandidate, IntegrationPending,
           PublicationPending, Nothing, Event, EntryEvent, IntegrationTerminal
<1>1. CASE acquireAuthority
  <2>1. VectorTypeOK'
      BY <1>1 DEF acquireAuthority
  <2>2. CandidateFirst'
      BY <1>1 DEF acquireAuthority
  <2>3. PendingFits'
      BY <1>1 DEF acquireAuthority
  <2>4. RemoteBehindReceipt'
      BY <1>1 DEF acquireAuthority
  <2>5. RemoteInOrder'
      BY <1>1 DEF acquireAuthority
  <2> QED
      BY <2>1, <2>2, <2>3, <2>4, <2>5
<1>2. CASE prepareRepositoryCandidate
  <2>1. VectorTypeOK'
      BY <1>2 DEF prepareRepositoryCandidate, MayStep, Propose
  <2>2. CandidateFirst'
      BY <1>2 DEF prepareRepositoryCandidate, MayStep, Propose
  <2>3. PendingFits'
    <3>1. CASE vector.candidate = Entries
        BY <1>2, <3>1 DEF prepareRepositoryCandidate, MayStep, Propose
    <3>2. CASE vector.candidate # Entries
      <4>1. Entries \ vector.candidate \in SUBSET Entries /\ Entries \ vector.candidate # {}
          BY <3>2
      <4>2. First(Entries \ vector.candidate) \in Entries
          BY <4>1, FirstIn
      <4> QED
          BY <1>2, <3>2, <4>2 DEF prepareRepositoryCandidate, MayStep, Propose
    <3> QED
        BY <3>1, <3>2
  <2>4. RemoteBehindReceipt'
      BY <1>2 DEF prepareRepositoryCandidate, MayStep, Propose
  <2>5. RemoteInOrder'
      BY <1>2 DEF prepareRepositoryCandidate, MayStep, Propose
  <2> QED
      BY <2>1, <2>2, <2>3, <2>4, <2>5
<1>3. CASE executeCombinedVerification
  <2>1. VectorTypeOK'
      BY <1>3 DEF executeCombinedVerification, MayStep, Propose
  <2>2. CandidateFirst'
      BY <1>3 DEF executeCombinedVerification, MayStep, Propose
  <2>3. PendingFits'
      BY <1>3 DEF executeCombinedVerification, MayStep, Propose
  <2>4. RemoteBehindReceipt'
      BY <1>3 DEF executeCombinedVerification, MayStep, Propose
  <2>5. RemoteInOrder'
      BY <1>3 DEF executeCombinedVerification, MayStep, Propose
  <2> QED
      BY <2>1, <2>2, <2>3, <2>4, <2>5
<1>4. CASE applyRepositoryCandidate
  <2>1. VectorTypeOK'
      BY SMTT(40), <1>4 DEF applyRepositoryCandidate, MayStep, Propose, Refusal
  <2>2. CandidateFirst'
      BY <1>4 DEF applyRepositoryCandidate, MayStep, Propose, Refusal
  <2>3. PendingFits'
    <3>1. CASE vector.applied = Entries
        BY <1>4, <3>1 DEF applyRepositoryCandidate, MayStep, Propose
    <3>2. CASE vector.applied # Entries
      <4>1. Entries \ vector.applied \in SUBSET Entries /\ Entries \ vector.applied # {}
          BY <3>2
      <4>2. First(Entries \ vector.applied) \in Entries
          BY <4>1, FirstIn
      <4>3. UNCHANGED <<vector, localReceipt>> /\ vector.state = "applying" /\ ~localReceipt
          BY <1>4 DEF applyRepositoryCandidate
      <4>4. \/ pending' = Event("recovery_required")
            \/ pending' = Event("compensation_started")
            \/ /\ pending' = EntryEvent("entry_applied", First(Entries \ vector.applied))
               /\ targetRef'[First(Entries \ vector.applied)] = "cand"
          BY <1>4, <3>2, <4>2 DEF applyRepositoryCandidate, Propose, Refusal
      <4> QED
          BY <4>2, <4>3, <4>4
    <3> QED
        BY <3>1, <3>2
  <2>4. RemoteBehindReceipt'
      BY <1>4 DEF applyRepositoryCandidate, MayStep, Propose, Refusal
  <2>5. RemoteInOrder'
      BY <1>4 DEF applyRepositoryCandidate, MayStep, Propose, Refusal
  <2> QED
      BY <2>1, <2>2, <2>3, <2>4, <2>5
<1>5. CASE compensateRepositoryCandidate
  <2>1. VectorTypeOK'
      BY <1>5 DEF compensateRepositoryCandidate, MayStep, Propose
  <2>2. CandidateFirst'
      BY <1>5 DEF compensateRepositoryCandidate, MayStep, Propose
  <2>3. PendingFits'
    <3>1. CASE vector.applied = vector.undone
        BY <1>5, <3>1 DEF compensateRepositoryCandidate, MayStep, Propose
    <3>2. CASE vector.applied # vector.undone
      <4> DEFINE e == Last(vector.applied \ vector.undone)
      <4>1. UNCHANGED <<vector, localReceipt>> /\ vector.state = "compensating" /\ ~localReceipt
          BY <1>5 DEF compensateRepositoryCandidate
      <4>2. e \in vector.applied
        <5>1. vector.applied \ vector.undone \in SUBSET Entries
            OBVIOUS
        <5>2. vector.applied \ vector.undone # {}
            BY <3>2, <4>1
        <5> QED
            BY <5>1, <5>2, LastIn
      <4>3. pending' = Event("recovery_required") \/ pending' = EntryEvent("entry_compensated", e)
          BY <1>5, <3>2 DEF compensateRepositoryCandidate, Propose
      <4> QED
          BY <4>1, <4>2, <4>3
    <3> QED
        BY <3>1, <3>2
  <2>4. RemoteBehindReceipt'
      BY <1>5 DEF compensateRepositoryCandidate, MayStep, Propose
  <2>5. RemoteInOrder'
      BY <1>5 DEF compensateRepositoryCandidate, MayStep, Propose
  <2> QED
      BY <2>1, <2>2, <2>3, <2>4, <2>5
<1>6. CASE appendIntegrationFact
  <2>1. /\ vector' = applyMultiRepoIntegrationEvent(vector, pending) /\ pending' = Nothing
        /\ UNCHANGED <<targetRef, lease, localReceipt, published, remote>> /\ ~localReceipt
        /\ IntegrationPending
      BY <1>6 DEF appendIntegrationFact
  <2> DEFINE After(st, c, a, u) == vector' = [state |-> st, candidate |-> c, applied |-> a, undone |-> u]
  <2>2. ASSUME NEW e \in Entries, vector.state = "preparing", pending = EntryEvent("candidate_prepared", e)
        PROVE  VectorTypeOK' /\ CandidateFirst'
    <3>1. After(vector.state, vector.candidate \cup {e}, vector.applied, vector.undone)
        BY <2>1, <2>2 DEF applyMultiRepoIntegrationEvent
    <3> QED
        BY <2>1, <2>2, <3>1
  <2>3. CASE vector.state = "preparing" /\ vector.candidate = Entries /\ pending = Event("prepared")
    <3>1. After("prepared", vector.candidate, vector.applied, vector.undone)
        BY <2>1, <2>3 DEF applyMultiRepoIntegrationEvent
    <3> QED
        BY <2>1, <2>3, <3>1
  <2>4. CASE vector.state = "prepared" /\ pending = Event("verification_started")
    <3>1. After("verifying", vector.candidate, vector.applied, vector.undone)
        BY <2>1, <2>4 DEF applyMultiRepoIntegrationEvent
    <3> QED
        BY <2>1, <2>4, <3>1
  <2>5. CASE vector.state = "verifying" /\ pending = Event("verified")
    <3>1. After("verified", vector.candidate, vector.applied, vector.undone)
        BY <2>1, <2>5 DEF applyMultiRepoIntegrationEvent
    <3> QED
        BY <2>1, <2>5, <3>1
  <2>6. CASE vector.state = "verified" /\ pending = Event("applying_started")
    <3>1. After("applying", vector.candidate, vector.applied, vector.undone)
        BY <2>1, <2>6 DEF applyMultiRepoIntegrationEvent
    <3> QED
        BY <2>1, <2>6, <3>1
  <2>7. ASSUME NEW e \in Entries, vector.state = "applying", pending = EntryEvent("entry_applied", e), CarriesCandidate(e)
        PROVE  VectorTypeOK' /\ CandidateFirst'
    <3>1. After(vector.state, vector.candidate, vector.applied \cup {e}, vector.undone)
        BY <2>1, <2>7 DEF applyMultiRepoIntegrationEvent
    <3> QED
        BY <2>1, <2>7, <3>1
  <2>8. CASE vector.state = "applying" /\ pending = Event("compensation_started")
    <3>1. After("compensating", vector.candidate, vector.applied, vector.undone)
        BY <2>1, <2>8 DEF applyMultiRepoIntegrationEvent
    <3> QED
        BY <2>1, <2>8, <3>1
  <2>9. CASE vector.state = "applying" /\ vector.applied = Entries /\ pending = Event("applied")
    <3>1. After("applied", vector.candidate, vector.applied, vector.undone)
        BY <2>1, <2>9 DEF applyMultiRepoIntegrationEvent
    <3> QED
        BY <2>1, <2>9, <3>1
  <2>10. ASSUME NEW e \in vector.applied, vector.state = "compensating", pending = EntryEvent("entry_compensated", e)
        PROVE  VectorTypeOK' /\ CandidateFirst'
    <3>1. After(vector.state, vector.candidate, vector.applied, vector.undone \cup {e})
        BY <2>1, <2>10 DEF applyMultiRepoIntegrationEvent
    <3> QED
        BY <2>1, <2>10, <3>1
  <2>11. CASE vector.state = "compensating" /\ pending = Event("compensated")
    <3>1. After("compensated", vector.candidate, vector.applied, vector.undone)
        BY <2>1, <2>11 DEF applyMultiRepoIntegrationEvent
    <3> QED
        BY <2>1, <2>11, <3>1
  <2>12. CASE vector.state \notin IntegrationTerminal /\ pending = Event("recovery_required")
    <3>1. After("recovery_required", vector.candidate, vector.applied, vector.undone)
        BY <2>1, <2>12 DEF applyMultiRepoIntegrationEvent
    <3> QED
        BY <2>1, <2>12, <3>1
  <2>13. VectorTypeOK' /\ CandidateFirst'
      BY <2>1, <2>2, <2>3, <2>4, <2>5, <2>6, <2>7, <2>8, <2>9, <2>10, <2>11, <2>12 DEF IntegrationPending
  <2>14. PendingFits' /\ RemoteBehindReceipt' /\ RemoteInOrder'
      BY <2>1
  <2> QED
      BY <2>13, <2>14
<1>7. CASE localReceiptFact
  <2>1. VectorTypeOK'
      BY <1>7 DEF localReceiptFact
  <2>2. CandidateFirst'
      BY <1>7 DEF localReceiptFact
  <2>3. PendingFits'
      BY <1>7 DEF localReceiptFact
  <2>4. RemoteBehindReceipt'
      BY <1>7 DEF localReceiptFact
  <2>5. RemoteInOrder'
      BY <1>7 DEF localReceiptFact
  <2> QED
      BY <2>1, <2>2, <2>3, <2>4, <2>5
<1>8. CASE releaseAuthority
  <2>1. VectorTypeOK'
      BY <1>8 DEF releaseAuthority
  <2>2. CandidateFirst'
      BY <1>8 DEF releaseAuthority
  <2>3. PendingFits'
      BY <1>8 DEF releaseAuthority
  <2>4. RemoteBehindReceipt'
      BY <1>8 DEF releaseAuthority
  <2>5. RemoteInOrder'
      BY <1>8 DEF releaseAuthority
  <2> QED
      BY <2>1, <2>2, <2>3, <2>4, <2>5
<1>9. CASE reacquireForFinish
  <2>1. VectorTypeOK'
      BY <1>9 DEF reacquireForFinish
  <2>2. CandidateFirst'
      BY <1>9 DEF reacquireForFinish
  <2>3. PendingFits'
      BY <1>9 DEF reacquireForFinish
  <2>4. RemoteBehindReceipt'
      BY <1>9 DEF reacquireForFinish
  <2>5. RemoteInOrder'
      BY <1>9 DEF reacquireForFinish
  <2> QED
      BY <2>1, <2>2, <2>3, <2>4, <2>5
<1>10. CASE startPublication
  <2>1. VectorTypeOK'
      BY <1>10 DEF startPublication, MayPublish
  <2>2. CandidateFirst'
      BY <1>10 DEF startPublication, MayPublish
  <2>3. PendingFits'
      BY <1>10 DEF startPublication, MayPublish
  <2>4. RemoteBehindReceipt'
      BY <1>10 DEF startPublication, MayPublish
  <2>5. RemoteInOrder'
      BY <1>10 DEF startPublication, MayPublish
  <2> QED
      BY <2>1, <2>2, <2>3, <2>4, <2>5
<1>11. CASE reconcileMultiRepoPublicationOnce
  <2>1. /\ UNCHANGED <<vector, targetRef, lease, localReceipt, published>>
        /\ localReceipt /\ published.state \in {"publishing", "partial"}
      BY <1>11 DEF reconcileMultiRepoPublicationOnce, MayPublish
  <2>2. CASE NextArtifact = <<0, 0>> /\ \A f \in Entries : published.recorded[f] = 3
    <3>1. pending' = Event("completed") /\ UNCHANGED remote
        BY <1>11, <2>2 DEF reconcileMultiRepoPublicationOnce, Propose
    <3> QED
        BY <2>1, <2>2, <3>1
  <2>3. ASSUME NEW k \in 1 .. 3, NEW e \in Entries, NextArtifact = <<k, e>>,
               published.recorded[e] < k, \A f \in Entries : k <= published.recorded[f] + 1
        PROVE  VectorInv'
    <3>1. k # 0 /\ NextArtifact[1] = k /\ NextArtifact[2] = e
        BY <2>3
    <3>2. \/ /\ remote' = [remote EXCEPT ![e] = k]
             /\ \/ pending' = [type |-> "recorded", entry |-> e, kind |-> k]
                \/ pending' = Event("retryable_failure")
          \/ /\ remote' = remote
             /\ pending' = Event("retryable_failure") \/ pending' = Event("recovery_required")
        BY <1>11, <3>1 DEF reconcileMultiRepoPublicationOnce, Propose
    <3>3. remote' \in [Entries -> 0 .. 3]
        BY <3>2
    <3>4. RemoteInOrder'
      <4>1. CASE remote' = remote
          BY <2>1, <4>1
      <4>2. CASE remote' = [remote EXCEPT ![e] = k]
        <5>1. \A f \in Entries : remote'[f] = IF f = e THEN k ELSE remote[f]
            BY <4>2
        <5>2. \A f \in Entries : published.recorded[f] \in 0 .. 3 /\ remote[f] \in 0 .. 3
            OBVIOUS
        <5>3. \A f \in Entries : published.recorded[f] <= remote'[f]
            BY <2>3, <5>1, <5>2
        <5>4. \A d, f \in Entries : remote'[d] <= published.recorded[f] + 1
            BY <2>3, <5>1
        <5> QED
            BY <2>1, <5>3, <5>4
      <4> QED
          BY <3>2, <4>1, <4>2
    <3>5. PendingFits'
      <4>1. CASE pending' = [type |-> "recorded", entry |-> e, kind |-> k] /\ remote'[e] = k
          BY <2>1, <2>3, <4>1
      <4>2. CASE pending' = Event("retryable_failure") \/ pending' = Event("recovery_required")
          BY <2>1, <4>2
      <4> QED
          BY <3>2, <4>1, <4>2
    <3>6. VectorTypeOK' /\ CandidateFirst' /\ RemoteBehindReceipt'
        BY <2>1, <3>3
    <3> QED
        BY <3>4, <3>5, <3>6
  <2> QED
      BY <2>2, <2>3, NextArtifactIs
<1>12. CASE appendPublicationFact
  <2>1. VectorTypeOK'
      BY <1>12 DEF appendPublicationFact, applyMultiRepoPublicationEvent
  <2>2. CandidateFirst'
      BY <1>12 DEF appendPublicationFact, applyMultiRepoPublicationEvent
  <2>3. PendingFits'
      BY <1>12 DEF appendPublicationFact, applyMultiRepoPublicationEvent
  <2>4. RemoteBehindReceipt'
      BY <1>12 DEF appendPublicationFact, applyMultiRepoPublicationEvent
  <2>5. RemoteInOrder'
      BY <1>12 DEF appendPublicationFact, applyMultiRepoPublicationEvent
  <2> QED
      BY <2>1, <2>2, <2>3, <2>4, <2>5
<1>13. CASE VectorCrash
  <2>1. VectorTypeOK'
      BY <1>13 DEF VectorCrash
  <2>2. CandidateFirst'
      BY <1>13 DEF VectorCrash
  <2>3. PendingFits'
      BY <1>13 DEF VectorCrash
  <2>4. RemoteBehindReceipt'
      BY <1>13 DEF VectorCrash
  <2>5. RemoteInOrder'
      BY <1>13 DEF VectorCrash
  <2> QED
      BY <2>1, <2>2, <2>3, <2>4, <2>5
<1>14. ASSUME NEW e \in Entries, OthersPush(e)
      PROVE  VectorInv'
  <2>1. VectorTypeOK'
      BY <1>14 DEF OthersPush
  <2>2. CandidateFirst'
      BY <1>14 DEF OthersPush
  <2>3. PendingFits'
      BY <1>14 DEF OthersPush
  <2>4. RemoteBehindReceipt'
      BY <1>14 DEF OthersPush
  <2>5. RemoteInOrder'
      BY <1>14 DEF OthersPush
  <2> QED
      BY <2>1, <2>2, <2>3, <2>4, <2>5
<1>15. CASE UNCHANGED vectorVars
  <2>1. VectorTypeOK'
      BY <1>15 DEF vectorVars
  <2>2. CandidateFirst'
      BY <1>15 DEF vectorVars
  <2>3. PendingFits'
      BY <1>15 DEF vectorVars
  <2>4. RemoteBehindReceipt'
      BY <1>15 DEF vectorVars
  <2>5. RemoteInOrder'
      BY <1>15 DEF vectorVars
  <2> QED
      BY <2>1, <2>2, <2>3, <2>4, <2>5
<1> QED
    BY <1>1, <1>2, <1>3, <1>4, <1>5, <1>6, <1>7, <1>8, <1>9, <1>10, <1>11, <1>12, <1>13, <1>14, <1>15 DEF VectorNext

LEMMA VectorImplies == VectorInv => EffectsFollowTheJournal
<1> SUFFICES ASSUME VectorInv PROVE EffectsFollowTheJournal
    OBVIOUS
<1> USE DEF VectorInv, VectorTypeOK
<1>1. (\E e \in Entries : CarriesCandidate(e)) =>
        vector.state \in {"applying", "applied", "compensating", "compensated",
                          "recovery_required"} /\ vector.candidate = Entries
    BY DEF CandidateFirst, VectorStates
<1>2. vector.state = "applied" => \A e \in Entries : CarriesCandidate(e)
    BY DEF CandidateFirst
<1>3. (\E e \in Entries : remote[e] > 0) => localReceipt /\ vector.state = "applied"
    BY DEF RemoteBehindReceipt
<1>4. \A e \in Entries : published.recorded[e] \in 0 .. 3 /\ remote[e] \in 0 .. 3
    OBVIOUS
<1>5. \A e \in Entries : remote[e] > 1 => \A f \in Entries : remote[f] >= remote[e] - 1
    BY <1>4 DEF RemoteInOrder
<1>6. published.state = "published" => \A e \in Entries : remote[e] = 3
    BY <1>4 DEF RemoteInOrder
<1> QED
    BY <1>1, <1>2, <1>3, <1>5, <1>6 DEF EffectsFollowTheJournal

\* No effect of the transaction, local or remote, is ahead of the journal that justifies it, for
\* any number of repositories (reconcileMultiRepoIntegrationOnce,
\* reconcileMultiRepoPublicationOnce).
THEOREM EffectsAlwaysFollowTheJournal == VectorSpec => []EffectsFollowTheJournal
BY VectorInitInv, VectorStep, VectorImplies, PTL DEF VectorSpec

-----------------------------------------------------------------------------
(* The worktree group.                                                     *)

Receipts == [state : GroupStates, entry : [Members -> [state : EntryStates, head : Commits]]]

GroupShape ==
  /\ receipt \in Receipts /\ draft \in Receipts
  /\ disk \in [Members -> [dir : BOOLEAN, reg : BOOLEAN, branch : Commits, dirty : BOOLEAN]]
  /\ at \in Members
  /\ caller \in {"admitted", "ready", "integrated", "released", "recovery"}
  /\ step \in {"idle", "create", "add", "created", "provision", "finish", "verify", "return",
               "remove", "detach", "unbranch", "close"}

Cleaning == {"remove", "detach", "unbranch", "close"}
Creating == {"create", "add", "created", "provision", "finish"}

\* What the receipt says while the parent is at each step.
PhaseOfReceipt ==
  /\ step \notin Cleaning => draft = receipt
  /\ step \in Creating => receipt.state = "creating"
  /\ step \in Cleaning => receipt.state = draft.state /\ draft.state \in {"rolling_back", "reclaiming"}
  /\ step = "add" => receipt.entry[at].state = "planned"
  /\ step = "unbranch" => Gone(at)

\* An entry is called reclaimed, in the file or in memory, when nothing of it is left.
ReclaimedGone ==
  \A m \in Members :
    receipt.entry[m].state = "reclaimed" \/ draft.entry[m].state = "reclaimed" =>
      Gone(m) /\ disk[m].branch = "none"

ReceiptSound ==
  /\ receipt.state = "ready" =>
       \A m \in Members : disk[m].dir /\ disk[m].reg /\ disk[m].branch # "none"
  /\ receipt.state = "reclaimed" => \A m \in Members : receipt.entry[m].state = "reclaimed"

\* Before the vector has landed every cleanup is a rollback, and no receipt names a commit of
\* the worker as one that may go.
HeadsOfCaller ==
  /\ step \in Creating \cup {"verify"} => caller = "admitted"
  /\ caller \notin {"admitted", "integrated"} => step = "idle"
  /\ caller = "admitted" =>
       \A m \in Members : receipt.entry[m].head # "work" /\ draft.entry[m].head # "work"
  /\ caller = "admitted" /\ step \in Cleaning => draft.state = "rolling_back"

GroupInv == GroupShape /\ PhaseOfReceipt /\ ReclaimedGone /\ ReceiptSound /\ HeadsOfCaller

LEMMA WithEntryIs ==
  ASSUME NEW r \in Receipts, NEW m \in Members, NEW s \in EntryStates, NEW h \in Commits
  PROVE  /\ WithEntry(r, m, s, h) \in Receipts
         /\ WithEntry(r, m, s, h).state = r.state
         /\ WithEntry(r, m, s, h).entry[m].state = s
         /\ WithEntry(r, m, s, h).entry[m].head = h
         /\ \A n \in Members : n # m => WithEntry(r, m, s, h).entry[n] = r.entry[n]
<1>1. WithEntry(r, m, s, h) = [state |-> r.state,
                               entry |-> [r.entry EXCEPT ![m] = [state |-> s, head |-> h]]]
    BY DEF WithEntry, Receipts
<1>2. [r.entry EXCEPT ![m] = [state |-> s, head |-> h]]
        \in [Members -> [state : EntryStates, head : Commits]]
    BY DEF Receipts
<1> QED
    BY <1>1, <1>2 DEF Receipts

LEMMA WithStateIs ==
  ASSUME NEW r \in Receipts, NEW s \in GroupStates
  PROVE  /\ [r EXCEPT !.state = s] \in Receipts
         /\ [r EXCEPT !.state = s].state = s
         /\ [r EXCEPT !.state = s].entry = r.entry
BY DEF Receipts

LEMMA GroupInitInv == GroupInit => GroupInv
<1> SUFFICES ASSUME GroupInit PROVE GroupInv
    OBVIOUS
<1>1. NoReceipt \in Receipts
    BY DEF NoReceipt, Receipts, GroupStates, EntryStates, Commits
<1>2. at \in Members
    BY WidthAssumption DEF GroupInit, Members
<1>3. disk \in [Members -> [dir : BOOLEAN, reg : BOOLEAN, branch : Commits, dirty : BOOLEAN]]
    BY DEF GroupInit, Absent, Commits
<1>4. GroupShape
    BY <1>1, <1>2, <1>3 DEF GroupInit, GroupShape
<1>5. PhaseOfReceipt /\ ReceiptSound /\ HeadsOfCaller
    BY DEF GroupInit, PhaseOfReceipt, ReceiptSound, HeadsOfCaller, NoReceipt, Cleaning, Creating
<1>6. ReclaimedGone
    BY DEF GroupInit, ReclaimedGone, NoReceipt
<1> QED
    BY <1>4, <1>5, <1>6 DEF GroupInv

\* The start of a cleanup.
LEMMA CleanupStarts ==
  ASSUME GroupShape, NEW rollback \in BOOLEAN, cleanupGroup(receipt, rollback)
  PROVE  /\ receipt' \in Receipts /\ draft' = receipt' /\ receipt'.entry = receipt.entry
         /\ receipt'.state = (IF rollback THEN "rolling_back" ELSE "reclaiming")
         /\ step' = "remove" /\ at' \in Members
<1> DEFINE st == IF rollback THEN "rolling_back" ELSE "reclaiming"
<1>1. st \in GroupStates
    BY DEF GroupStates
<1>2. receipt' = [receipt EXCEPT !.state = st] /\ draft' = receipt' /\ step' = "remove" /\ at' = Width
    BY DEF cleanupGroup, publishReceipt
<1>3. Width \in Members
    BY WidthAssumption DEF Members
<1> HIDE DEF st
<1>4. receipt' \in Receipts /\ receipt'.state = st /\ receipt'.entry = receipt.entry
    BY <1>1, <1>2, WithStateIs DEF GroupShape
<1> QED
    BY <1>2, <1>3, <1>4 DEF st

LEMMA CleanupKeeps ==
  ASSUME GroupInv, NEW rollback \in BOOLEAN, cleanupGroup(receipt, rollback),
         step \notin Cleaning, UNCHANGED caller,
         (caller = "admitted" /\ rollback) \/ caller = "integrated",
         disk' \in [Members -> [dir : BOOLEAN, reg : BOOLEAN, branch : Commits, dirty : BOOLEAN]],
         \A m \in Members : receipt.entry[m].state = "reclaimed" => disk'[m] = disk[m]
  PROVE  GroupInv'
<1> USE CleanupStarts DEF GroupInv
<1>1. GroupShape'
    BY DEF GroupShape
<1>2. PhaseOfReceipt'
    BY DEF GroupShape, PhaseOfReceipt, Cleaning, Creating
<1>3. ReclaimedGone'
    BY DEF GroupShape, ReclaimedGone, Gone, PhaseOfReceipt
<1>4. ReceiptSound'
    BY DEF ReceiptSound
<1>5. HeadsOfCaller'
    BY DEF HeadsOfCaller, Creating, Cleaning, PhaseOfReceipt
<1> QED
    BY <1>1, <1>2, <1>3, <1>4, <1>5

DiskStates == [dir : BOOLEAN, reg : BOOLEAN, branch : Commits, dirty : BOOLEAN]

\* A step of the preparation that records progress on the entry at hand.
LEMMA ProgressKeeps ==
  ASSUME GroupInv, step \in Creating, NEW st \in {"created", "provisioned"},
         publishReceipt(WithEntry(receipt, at, st, "anchor")),
         UNCHANGED <<disk, caller>>, at' \in Members, step' \in {"create", "provision", "finish"}
  PROVE  GroupInv'
<1> DEFINE r == WithEntry(receipt, at, st, "anchor")
<1>1. receipt' = r /\ draft' = r
    BY DEF publishReceipt
<1>2. receipt \in Receipts /\ at \in Members /\ st \in EntryStates /\ "anchor" \in Commits
    BY DEF GroupInv, GroupShape, EntryStates, Commits
<1>3. /\ r \in Receipts /\ r.state = receipt.state
      /\ r.entry[at].state = st /\ r.entry[at].head = "anchor"
      /\ \A n \in Members : n # at => r.entry[n] = receipt.entry[n]
    BY <1>2, WithEntryIs
<1> HIDE DEF r
<1>4. GroupShape'
    BY <1>1, <1>3 DEF GroupInv, GroupShape
<1>5. PhaseOfReceipt'
    BY <1>1, <1>3 DEF GroupInv, PhaseOfReceipt, Creating, Cleaning
<1>6. ReclaimedGone'
    BY <1>1, <1>3 DEF GroupInv, ReclaimedGone, Gone
<1>7. ReceiptSound'
    BY <1>1, <1>3 DEF GroupInv, PhaseOfReceipt, ReceiptSound
<1>8. HeadsOfCaller'
    BY <1>1, <1>3 DEF GroupInv, HeadsOfCaller, Creating, Cleaning
<1> QED
    BY <1>4, <1>5, <1>6, <1>7, <1>8 DEF GroupInv

LEMMA NextEntryIs ==
  ASSUME at \in Members, NextEntry
  PROVE  at' \in Members /\ step' \in {"remove", "close"}
BY WidthAssumption DEF NextEntry, Members

\* A step of the cleanup that is done with the entry at hand.
LEMMA EntryDone ==
  ASSUME GroupInv, step \in Cleaning, NextEntry, UNCHANGED <<receipt, caller>>,
         NEW st \in {"reclaimed", "preserved"},
         draft' = WithEntry(draft, at, st, draft.entry[at].head),
         disk' \in [Members -> DiskStates], \A m \in Members \ {at} : disk'[m] = disk[m],
         \/ st = "preserved" /\ disk'[at] = disk[at]
         \/ ~disk'[at].dir /\ ~disk'[at].reg /\ disk'[at].branch = "none"
  PROVE  GroupInv'
<1> DEFINE r == WithEntry(draft, at, st, draft.entry[at].head)
<1>1. draft' = r
    OBVIOUS
<1>2. draft \in Receipts /\ at \in Members /\ st \in EntryStates /\ draft.entry[at].head \in Commits
    BY DEF GroupInv, GroupShape, Receipts, EntryStates
<1>3. /\ r \in Receipts /\ r.state = draft.state
      /\ r.entry[at].state = st /\ r.entry[at].head = draft.entry[at].head
      /\ \A n \in Members : n # at => r.entry[n] = draft.entry[n]
    BY <1>2, WithEntryIs
<1>4. at' \in Members /\ step' \in {"remove", "close"}
    BY <1>2, NextEntryIs
<1> HIDE DEF r
<1>5. GroupShape'
    BY <1>1, <1>3, <1>4 DEF GroupInv, GroupShape, DiskStates
<1>6. PhaseOfReceipt'
    BY <1>1, <1>3, <1>4 DEF GroupInv, PhaseOfReceipt, Creating, Cleaning
<1>7. ReclaimedGone'
    BY <1>1, <1>2, <1>3 DEF GroupInv, ReclaimedGone, Gone
<1>8. ReceiptSound'
    BY <1>1, <1>3 DEF GroupInv, PhaseOfReceipt, ReceiptSound
<1>9. HeadsOfCaller'
    BY <1>1, <1>2, <1>3, <1>4 DEF GroupInv, HeadsOfCaller, Creating, Cleaning
<1> QED
    BY <1>5, <1>6, <1>7, <1>8, <1>9 DEF GroupInv

LEMMA GroupStep == GroupInv /\ [GroupNext]_groupVars => GroupInv'
<1> SUFFICES ASSUME GroupInv, [GroupNext]_groupVars
             PROVE  GroupInv'
    OBVIOUS
<1> USE DEF GroupInv, GroupShape, PhaseOfReceipt, ReclaimedGone, ReceiptSound, HeadsOfCaller,
           Cleaning, Creating, Gone
<1>1. CASE initialReceipt
  <2>1. /\ receipt' = [receipt EXCEPT !.state = "creating"] /\ draft' = receipt'
        /\ step' = "create" /\ at' = 1 /\ caller = "admitted" /\ step = "idle"
        /\ UNCHANGED <<disk, caller>>
      BY <1>1 DEF initialReceipt, publishReceipt
  <2>2. receipt' \in Receipts /\ receipt'.state = "creating" /\ receipt'.entry = receipt.entry
      BY <2>1, WithStateIs DEF GroupStates
  <2>3. at' \in Members
      BY <2>1, WidthAssumption DEF Members
  <2> QED
      BY <2>1, <2>2, <2>3
<1>2. CASE prepareWorktreeGroup
  <2>1. step = "idle" /\ caller = "admitted" /\ UNCHANGED <<disk, caller>>
      BY <1>2 DEF prepareWorktreeGroup
  <2>2. 1 \in Members
      BY WidthAssumption DEF Members
  <2>3. CASE receipt.state = "rolling_back" /\ cleanupGroup(receipt, TRUE)
      BY <2>1, <2>3, CleanupKeeps
  <2>4. CASE /\ \/ receipt.state = "creating" /\ step' = "create" /\ at' = 1
                \/ receipt.state = "ready" /\ step' = "verify" /\ at' = 1
                \/ step' = "return" /\ at' = at
             /\ UNCHANGED <<receipt, draft>>
      BY <2>1, <2>2, <2>4
  <2> QED
      BY <1>2, <2>3, <2>4 DEF prepareWorktreeGroup
<1>3. CASE createOrAdoptEntry
  <2>1. step = "create" /\ UNCHANGED <<disk, caller>> /\ caller = "admitted"
      BY <1>3 DEF createOrAdoptEntry
  <2>2. CASE /\ step' = "provision" \/ (step' = "add" /\ receipt.entry[at].state = "planned")
             /\ UNCHANGED <<receipt, draft, at>>
      BY <2>1, <2>2
  <2>3. CASE publishReceipt(WithEntry(receipt, at, "created", "anchor"))
               /\ step' = "provision" /\ UNCHANGED at
    <3>1. at' \in Members /\ step \in Creating
        BY <2>1, <2>3
    <3> QED
        BY <2>1, <2>3, <3>1, ProgressKeeps
  <2>4. CASE cleanupGroup(receipt, TRUE)
      BY <2>1, <2>4, CleanupKeeps
  <2> QED
      BY <1>3, <2>2, <2>3, <2>4 DEF createOrAdoptEntry
<1>4. CASE gitWorktreeAdd
  <2>1. /\ step = "add" /\ caller = "admitted" /\ UNCHANGED caller /\ draft = receipt
        /\ receipt.state = "creating" /\ receipt.entry[at].state = "planned"
      BY <1>4 DEF gitWorktreeAdd
  <2>2. CASE /\ disk' = [disk EXCEPT ![at] =
                           [dir |-> TRUE, reg |-> TRUE, branch |-> "anchor", dirty |-> FALSE]]
             /\ step' = "created" /\ UNCHANGED <<receipt, draft, at>>
    <3>1. disk' \in [Members -> DiskStates] /\ \A m \in Members : m # at => disk'[m] = disk[m]
        BY <2>2 DEF DiskStates, Commits
    <3> QED
        BY <2>1, <2>2, <3>1 DEF DiskStates
  <2>3. CASE disk' = [disk EXCEPT ![at].branch = "anchor"] /\ cleanupGroup(receipt, TRUE)
    <3>1. disk' \in [Members -> DiskStates] /\ \A m \in Members : m # at => disk'[m] = disk[m]
        BY <2>3 DEF DiskStates, Commits
    <3>2. \A m \in Members : receipt.entry[m].state = "reclaimed" => disk'[m] = disk[m]
        BY <2>1, <3>1
    <3> QED
        BY <2>1, <2>3, <3>1, <3>2, CleanupKeeps DEF DiskStates
  <2> QED
      BY <1>4, <2>2, <2>3 DEF gitWorktreeAdd
<1>5. CASE recordCreated
  <2>1. step = "created" /\ UNCHANGED <<disk, caller>> /\ caller = "admitted"
      BY <1>5 DEF recordCreated
  <2>2. CASE publishReceipt(WithEntry(receipt, at, "created", "anchor"))
               /\ step' = "provision" /\ UNCHANGED at
    <3>1. at' \in Members /\ step \in Creating
        BY <2>1, <2>2
    <3> QED
        BY <2>1, <2>2, <3>1, ProgressKeeps
  <2>3. CASE cleanupGroup(receipt, TRUE)
      BY <2>1, <2>3, CleanupKeeps
  <2> QED
      BY <1>5, <2>2, <2>3 DEF recordCreated
<1>6. CASE provisionEntry
  <2>1. step = "provision" /\ UNCHANGED <<disk, caller>> /\ caller = "admitted"
      BY <1>6 DEF provisionEntry
  <2>2. CASE /\ publishReceipt(WithEntry(receipt, at, "provisioned", "anchor"))
             /\ IF at < Width THEN step' = "create" /\ at' = at + 1
                              ELSE step' = "finish" /\ UNCHANGED at
    <3>1. at' \in Members
        BY ONLY <2>2, at \in Members, WidthAssumption DEF Members
    <3>2. step' \in {"create", "provision", "finish"} /\ step \in Creating
        BY <2>1, <2>2
    <3> QED
        BY <2>1, <2>2, <3>1, <3>2, ProgressKeeps
  <2>3. CASE cleanupGroup(receipt, TRUE)
      BY <2>1, <2>3, CleanupKeeps
  <2> QED
      BY <1>6, <2>2, <2>3 DEF provisionEntry
<1>7. CASE markReady
  <2>1. step = "finish" /\ UNCHANGED <<disk, caller>> /\ caller = "admitted"
      BY <1>7 DEF markReady
  <2>2. CASE AllExact
    <3> DEFINE r == [state |-> "ready", entry |-> [m \in Members |-> [state |-> "ready", head |-> "anchor"]]]
    <3>1. receipt' = r /\ draft' = r /\ step' = "return" /\ at' = at
        BY <1>7, <2>2 DEF markReady, publishReceipt
    <3>2. /\ r \in Receipts /\ r.state = "ready"
          /\ \A m \in Members : r.entry[m].state = "ready" /\ r.entry[m].head = "anchor"
        BY DEF Receipts, GroupStates, EntryStates, Commits
    <3>3. \A m \in Members : disk[m].dir /\ disk[m].reg /\ disk[m].branch # "none"
        BY <2>2 DEF AllExact, inspectExactMember
    <3> HIDE DEF r
    <3> QED
        BY <2>1, <3>1, <3>2, <3>3
  <2>3. CASE cleanupGroup(receipt, TRUE)
      BY <2>1, <2>3, CleanupKeeps
  <2> QED
      BY <1>7, <2>2, <2>3 DEF markReady
<1>8. CASE verifyReadyReceipt
  <2>1. /\ step = "verify" /\ step' = "return" /\ UNCHANGED <<disk, caller, at>>
        /\ draft = receipt /\ caller = "admitted"
      BY <1>8 DEF verifyReadyReceipt
  <2>2. CASE publishReceipt(receipt)
      BY <2>1, <2>2 DEF publishReceipt
  <2>3. ASSUME NEW m \in Members,
               publishReceipt([WithEntry(receipt, m, "preserved", receipt.entry[m].head)
                                 EXCEPT !.state = "recovery_required"])
        PROVE  GroupInv'
    <3> DEFINE w == WithEntry(receipt, m, "preserved", receipt.entry[m].head)
    <3>1. "preserved" \in EntryStates /\ receipt.entry[m].head \in Commits
        BY DEF EntryStates, Receipts
    <3>2. /\ w \in Receipts /\ w.entry[m].state = "preserved" /\ w.entry[m].head = receipt.entry[m].head
          /\ \A n \in Members : n # m => w.entry[n] = receipt.entry[n]
        BY <3>1, WithEntryIs
    <3>3. receipt' = [w EXCEPT !.state = "recovery_required"] /\ draft' = receipt'
        BY <2>3 DEF publishReceipt
    <3> HIDE DEF w
    <3>4. /\ receipt' \in Receipts /\ receipt'.state = "recovery_required"
          /\ receipt'.entry = w.entry
        BY <3>2, <3>3, WithStateIs DEF GroupStates
    <3> QED
        BY <2>1, <3>2, <3>3, <3>4
  <2> QED
      BY <1>8, <2>2, <2>3 DEF verifyReadyReceipt
<1>9. CASE recordWorktreeFact
    BY <1>9 DEF recordWorktreeFact
<1>10. CASE reclaimWorktreeGroup
  <2>1. step = "idle" /\ caller = "integrated" /\ UNCHANGED <<disk, caller>>
      BY <1>10 DEF reclaimWorktreeGroup
  <2>2. CASE step' = "return" /\ UNCHANGED <<receipt, draft, at>>
      BY <2>1, <2>2
  <2>3. CASE cleanupGroup(receipt, FALSE)
      BY <2>1, <2>3, CleanupKeeps
  <2> QED
      BY <1>10, <2>2, <2>3 DEF reclaimWorktreeGroup
<1>11. CASE removeOwnedEntry
  <2>1. step = "remove" /\ UNCHANGED caller
      BY <1>11 DEF removeOwnedEntry
  <2>2. CASE NextEntry /\ UNCHANGED <<receipt, draft, disk>>
    <3>1. at' \in Members /\ step' \in {"remove", "close"}
        BY <2>2, NextEntryIs
    <3> QED
        BY <2>1, <2>2, <3>1
  <2>3. CASE /\ Gone(at) /\ disk' = [disk EXCEPT ![at].branch = "none"]
             /\ draft' = WithEntry(draft, at, "reclaimed", draft.entry[at].head)
             /\ NextEntry /\ UNCHANGED receipt
    <3>1. /\ disk' \in [Members -> DiskStates] /\ \A m \in Members \ {at} : disk'[m] = disk[m]
          /\ ~disk'[at].dir /\ ~disk'[at].reg /\ disk'[at].branch = "none"
        BY <2>3 DEF DiskStates, Commits
    <3> QED
        BY <2>1, <2>3, <3>1, EntryDone
  <2>4. CASE /\ disk[at].dir /\ inspectExactMember(at, Rollback)
             /\ publishReceipt(WithEntry(draft, at, "reclaiming", disk[at].branch))
             /\ step' = "detach" /\ UNCHANGED <<disk, at>>
    <3> DEFINE r == WithEntry(draft, at, "reclaiming", disk[at].branch)
    <3>1. "reclaiming" \in EntryStates /\ disk[at].branch \in Commits
        BY DEF EntryStates
    <3>2. /\ r \in Receipts /\ r.state = draft.state
          /\ r.entry[at].state = "reclaiming" /\ r.entry[at].head = disk[at].branch
          /\ \A n \in Members : n # at => r.entry[n] = draft.entry[n]
        BY <3>1, WithEntryIs
    <3>3. receipt' = r /\ draft' = r
        BY <2>4 DEF publishReceipt
    <3>4. caller = "admitted" => disk[at].branch = "anchor"
        BY <2>1, <2>4 DEF inspectExactMember, Rollback
    <3> HIDE DEF r
    <3>5. GroupShape'
        BY <2>1, <2>4, <3>2, <3>3
    <3>6. PhaseOfReceipt' /\ ReceiptSound'
        BY <2>1, <2>4, <3>2, <3>3
    <3>7. ReclaimedGone'
        BY <2>4, <3>2, <3>3
    <3>8. HeadsOfCaller'
        BY <2>1, <2>4, <3>2, <3>3, <3>4
    <3> QED
        BY <3>5, <3>6, <3>7, <3>8
  <2>5. CASE /\ draft' = WithEntry(draft, at, "preserved", draft.entry[at].head)
             /\ NextEntry /\ UNCHANGED <<receipt, disk>>
    <3>1. /\ disk' \in [Members -> DiskStates] /\ \A m \in Members \ {at} : disk'[m] = disk[m]
          /\ disk'[at] = disk[at]
        BY <2>5 DEF DiskStates
    <3> QED
        BY <2>1, <2>5, <3>1, EntryDone
  <2> QED
      BY <1>11, <2>2, <2>3, <2>4, <2>5 DEF removeOwnedEntry
<1>12. CASE gitWorktreeRemove
  <2>1. step = "detach" /\ UNCHANGED <<caller, receipt>>
      BY <1>12 DEF gitWorktreeRemove
  <2>2. CASE /\ disk' = [disk EXCEPT ![at].dir = FALSE, ![at].reg = FALSE]
             /\ step' = "unbranch" /\ UNCHANGED <<draft, at>>
    <3>1. /\ disk' \in [Members -> DiskStates] /\ \A m \in Members \ {at} : disk'[m] = disk[m]
          /\ ~disk'[at].dir /\ ~disk'[at].reg /\ disk'[at].branch = disk[at].branch
        BY <2>2 DEF DiskStates, Commits
    <3> QED
        BY <2>1, <2>2, <3>1 DEF DiskStates
  <2>3. CASE /\ draft' = WithEntry(draft, at, "preserved", draft.entry[at].head)
             /\ NextEntry /\ UNCHANGED disk
    <3>1. /\ disk' \in [Members -> DiskStates] /\ \A m \in Members \ {at} : disk'[m] = disk[m]
          /\ disk'[at] = disk[at]
        BY <2>3 DEF DiskStates
    <3> QED
        BY <2>1, <2>3, <3>1, EntryDone
  <2> QED
      BY <1>12, <2>2, <2>3 DEF gitWorktreeRemove
<1>13. CASE deleteOwnedBranch
  <2>1. step = "unbranch" /\ UNCHANGED <<caller, receipt>> /\ NextEntry /\ Gone(at)
      BY <1>13 DEF deleteOwnedBranch
  <2>2. CASE /\ disk' = [disk EXCEPT ![at].branch = "none"]
             /\ draft' = WithEntry(draft, at, "reclaimed", draft.entry[at].head)
    <3>1. /\ disk' \in [Members -> DiskStates] /\ \A m \in Members \ {at} : disk'[m] = disk[m]
          /\ ~disk'[at].dir /\ ~disk'[at].reg /\ disk'[at].branch = "none"
        BY <2>1, <2>2 DEF DiskStates, Commits
    <3> QED
        BY <2>1, <2>2, <3>1, EntryDone
  <2>3. CASE draft' = WithEntry(draft, at, "preserved", draft.entry[at].head) /\ UNCHANGED disk
    <3>1. /\ disk' \in [Members -> DiskStates] /\ \A m \in Members \ {at} : disk'[m] = disk[m]
          /\ disk'[at] = disk[at]
        BY <2>3 DEF DiskStates
    <3> QED
        BY <2>1, <2>3, <3>1, EntryDone
  <2> QED
      BY <1>13, <2>2, <2>3 DEF deleteOwnedBranch
<1>14. CASE closeCleanup
  <2> DEFINE st == IF \A m \in Members : draft.entry[m].state = "reclaimed"
                   THEN "reclaimed" ELSE "recovery_required"
  <2>1. /\ receipt' = [draft EXCEPT !.state = st] /\ draft' = receipt' /\ step = "close"
        /\ step' = "return" /\ UNCHANGED <<disk, caller, at>>
      BY <1>14 DEF closeCleanup, publishReceipt
  <2>2. st \in {"reclaimed", "recovery_required"}
      OBVIOUS
  <2>3. st = "reclaimed" => \A m \in Members : draft.entry[m].state = "reclaimed"
      OBVIOUS
  <2> HIDE DEF st
  <2>4. receipt' \in Receipts /\ receipt'.state = st /\ receipt'.entry = draft.entry
    <3>1. draft \in Receipts /\ st \in GroupStates
        BY <2>2 DEF GroupStates
    <3> QED
        BY ONLY <2>1, <3>1, WithStateIs
  <2> QED
      BY <2>1, <2>2, <2>3, <2>4
<1>15. CASE GroupCrash
  <2>1. draft' = receipt /\ step' = "idle" /\ UNCHANGED <<receipt, caller, at>>
      BY <1>15 DEF GroupCrash
  <2>2. /\ disk' \in [Members -> DiskStates]
        /\ \A m \in Members \ {at} : disk'[m] = disk[m]
        /\ \/ disk'[at] = disk[at]
           \/ step = "add"
           \/ step = "detach" /\ ~disk'[at].dir /\ disk'[at].reg = disk[at].reg
                /\ disk'[at].branch = disk[at].branch
    <3>1. CASE UNCHANGED disk
        BY <3>1 DEF DiskStates
    <3>2. CASE step = "add" /\ disk' = [disk EXCEPT ![at].branch = "anchor"]
        BY <3>2 DEF DiskStates, Commits
    <3>3. CASE step = "add" /\ disk' = [disk EXCEPT ![at].branch = "anchor", ![at].reg = TRUE]
        BY ZenonT(40), <3>3 DEF DiskStates, Commits
    <3>4. CASE step = "add" /\ disk' = [disk EXCEPT ![at] =
                  [dir |-> TRUE, reg |-> TRUE, branch |-> "anchor", dirty |-> TRUE]]
        BY <3>4 DEF DiskStates, Commits
    <3>5. CASE step = "detach" /\ disk' = [disk EXCEPT ![at].dir = FALSE]
        BY <3>5 DEF DiskStates, Commits
    <3> QED
        BY <1>15, <3>1, <3>2, <3>3, <3>4, <3>5 DEF GroupCrash
  <2> QED
      BY <2>1, <2>2 DEF DiskStates
<1>16. CASE WorkAndIntegrate
  <2>1. /\ step = "idle" /\ caller = "ready" /\ caller' = "integrated"
        /\ UNCHANGED <<receipt, draft, step, at>>
        /\ \A m \in Members : disk[m].dir /\ disk[m].reg /\ disk[m].branch # "none"
      BY <1>16 DEF WorkAndIntegrate, inspectExactMember
  <2>2. disk' = [m \in Members |-> [disk[m] EXCEPT !.branch = "work"]]
      BY <1>16 DEF WorkAndIntegrate
  <2>3. /\ disk' \in [Members -> DiskStates]
        /\ \A m \in Members : /\ disk'[m].dir = disk[m].dir /\ disk'[m].reg = disk[m].reg
                              /\ disk'[m].branch = "work"
      BY <2>2 DEF DiskStates, Commits
  <2> QED
      BY <2>1, <2>3 DEF DiskStates
<1>17. ASSUME NEW m \in Members, OthersEdit(m)
      PROVE  GroupInv'
  <2>1. UNCHANGED <<receipt, draft, caller, step, at>>
      BY <1>17 DEF OthersEdit
  <2>2. /\ disk' \in [Members -> DiskStates]
        /\ \A n \in Members : /\ disk'[n].dir = disk[n].dir /\ disk'[n].reg = disk[n].reg
                              /\ (disk'[n].branch = "none") <=> (disk[n].branch = "none")
    <3>1. CASE disk' = [disk EXCEPT ![m].dirty = TRUE]
        BY ZenonT(40), <3>1 DEF DiskStates, Commits
    <3>2. CASE disk[m].branch # "none" /\ disk' = [disk EXCEPT ![m].branch = "work"]
        BY <3>2 DEF DiskStates, Commits
    <3>3. CASE UNCHANGED disk
        BY <3>3 DEF DiskStates
    <3> QED
        BY <1>17, <3>1, <3>2, <3>3 DEF OthersEdit
  <2> QED
      BY <2>1, <2>2 DEF DiskStates
<1>18. CASE UNCHANGED groupVars
  <2>1. GroupShape'
      BY <1>18 DEF groupVars
  <2>2. PhaseOfReceipt'
      BY <1>18 DEF groupVars
  <2>3. ReclaimedGone'
      BY <1>18 DEF groupVars
  <2>4. ReceiptSound'
      BY <1>18 DEF groupVars
  <2>5. HeadsOfCaller'
      BY <1>18 DEF groupVars
  <2> QED
      BY <2>1, <2>2, <2>3, <2>4, <2>5
<1> QED
    BY <1>1, <1>2, <1>3, <1>4, <1>5, <1>6, <1>7, <1>8, <1>9, <1>10, <1>11, <1>12, <1>13, <1>14, <1>15, <1>16, <1>17, <1>18 DEF GroupNext

\* The receipt of a worktree group never lies, whatever was interrupted or edited by others
\* (publishReceipt, removeOwnedEntry, closeCleanup).
THEOREM ReceiptAlwaysTellsTruth == GroupSpec => []ReceiptTellsTruth
<1>1. GroupInv => ReceiptTellsTruth
    BY DEF GroupInv, ReceiptSound, ReclaimedGone, ReceiptTellsTruth
<1> QED
    BY <1>1, GroupInitInv, GroupStep, PTL DEF GroupSpec

\* What a step may do to a checkout and to a branch.
WorkKept(m) ==
  /\ disk[m].dir /\ disk[m].dirty => disk'[m].dir
  /\ disk[m].branch = "work" /\ disk'[m].branch = "none" => caller = "integrated"

LEMMA GroupKeepsWork == GroupInv /\ GroupNext => \A m \in Members : WorkKept(m)
<1> SUFFICES ASSUME GroupInv, GroupNext, NEW m \in Members
             PROVE  WorkKept(m)
    OBVIOUS
<1> USE DEF GroupInv, GroupShape, WorkKept
<1>1. CASE UNCHANGED disk
    BY <1>1
<1>2. CASE gitWorktreeAdd
  <2>1. CASE disk' = [disk EXCEPT ![at] =
                        [dir |-> TRUE, reg |-> TRUE, branch |-> "anchor", dirty |-> FALSE]]
      BY <2>1
  <2>2. CASE disk' = [disk EXCEPT ![at].branch = "anchor"]
      BY <2>2
  <2> QED
      BY <1>2, <2>1, <2>2 DEF gitWorktreeAdd
<1>3. CASE removeOwnedEntry
  <2>1. CASE /\ \/ draft.entry[at].state = "planned" /\ disk[at].branch \in {"none", "anchor"}
                \/ disk[at].branch \in {"none", draft.entry[at].head}
             /\ disk' = [disk EXCEPT ![at].branch = "none"] /\ step = "remove"
      BY <2>1 DEF HeadsOfCaller, Receipts
  <2> QED
      BY <1>1, <1>3, <2>1 DEF removeOwnedEntry
<1>4. CASE gitWorktreeRemove
    BY <1>1, <1>4 DEF gitWorktreeRemove
<1>5. CASE deleteOwnedBranch
  <2>1. CASE /\ disk[at].branch \in {"none", draft.entry[at].head} /\ step = "unbranch"
             /\ disk' = [disk EXCEPT ![at].branch = "none"]
      BY <2>1 DEF HeadsOfCaller
  <2> QED
      BY <1>1, <1>5, <2>1 DEF deleteOwnedBranch
<1>6. CASE GroupCrash
    BY <1>1, <1>6 DEF GroupCrash
<1>7. CASE WorkAndIntegrate
    BY <1>7 DEF WorkAndIntegrate
<1>8. ASSUME NEW n \in Members, OthersEdit(n)
      PROVE  WorkKept(m)
    BY <1>1, <1>8 DEF OthersEdit
<1>9. CASE \/ initialReceipt \/ prepareWorktreeGroup \/ createOrAdoptEntry \/ recordCreated
           \/ provisionEntry \/ markReady \/ verifyReadyReceipt \/ recordWorktreeFact
           \/ reclaimWorktreeGroup \/ closeCleanup
    BY <1>1, <1>9 DEF initialReceipt, prepareWorktreeGroup, createOrAdoptEntry, recordCreated,
                      provisionEntry, markReady, verifyReadyReceipt, recordWorktreeFact,
                      reclaimWorktreeGroup, closeCleanup
<1> QED
    BY <1>2, <1>3, <1>4, <1>5, <1>6, <1>7, <1>8, <1>9 DEF GroupNext

\* Cleaning up destroys no work: a dirty checkout stays, and a branch that holds a commit of the
\* worker goes only after the vector has landed (removeOwnedEntry, deleteOwnedBranch).
THEOREM WorkAlwaysSurvivesCleanup == GroupSpec => WorkSurvivesCleanup
<1>1. GroupInv /\ [GroupNext]_groupVars => [\A m \in Members : WorkKept(m)]_groupVars
    BY GroupKeepsWork
<1>2. GroupSpec => []GroupInv
    BY GroupInitInv, GroupStep, PTL DEF GroupSpec
<1> QED
    BY <1>1, <1>2, PTL DEF GroupSpec, WorkSurvivesCleanup, WorkKept
============================================================================
