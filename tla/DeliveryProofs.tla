--------------------------- MODULE DeliveryProofs ---------------------------
(***************************************************************************)
(* Proofs about what a run does to a checkout, to its own records and to   *)
(* the hosting service: the provisioned trees (Provision), the integration *)
(* branch (Integration), the switch to the control store (ControlCutover), *)
(* one publication (ScmPublication), the listings of the service and their *)
(* cache (ScmProvider), the reactions to feedback (ScmObserver), and what  *)
(* the control store tells of a provider's transcript (Transcript).        *)
(***************************************************************************)
EXTENDS Provision, Integration, ControlCutover, ScmPublication, ScmProvider, ScmObserver,
        Transcript, FiniteSetTheorems, NaturalsInduction, WellFoundedInduction, TLAPS

-----------------------------------------------------------------------------
(* Provisioning.                                                           *)

Trees == {"none", "tracked", "fresh", "prior"}

ProvisionTypeOK ==
  /\ dest \in [Worktrees -> [tree : Trees, sealed : BOOLEAN]]
  /\ staging \in {"none", "partial", "whole"}
  /\ backup \in [of : Worktrees \cup {"none"}, tree : Trees]
  /\ modeMarker \in BOOLEAN /\ first \in BOOLEAN /\ stood \in BOOLEAN
  /\ prov \in [at : {"idle", "inspect", "roots", "reconcile", "copy", "aside", "publish",
                     "clean", "refused"}, target : Worktrees]
  /\ provisions \in Nat /\ provCrashes \in Nat

Integ == dest["integration"]

\* The integration worktree has been provisioned in this process and is whole.
Stands == Integ.tree = "prior" /\ Integ.sealed

\* The slot holds nothing.
SlotFree == backup = NoBackup /\ ~modeMarker

\* Other checkouts are provisioned only beside a whole integration worktree, with the slot
\* to themselves.
OneUser ==
  /\ first /\ prov.at = "idle" => SlotFree /\ Stands
  /\ prov.target # "integration" /\ prov.at # "idle" =>
       Stands /\ backup.of # "integration" /\ dest[prov.target].tree # "prior"
  /\ prov.target # "integration" /\ prov.at \in {"inspect", "roots", "reconcile"} => SlotFree

\* What the call in progress has in the slot.
SlotOfCall ==
  /\ prov.at \in {"copy", "aside"} => backup = NoBackup
  /\ prov.at = "copy" => ~modeMarker
  /\ prov.at = "aside" => staging = "whole"
  /\ prov.at = "publish" =>
       /\ backup # NoBackup => backup.of = prov.target
       /\ backup.tree = "prior" => modeMarker
       /\ backup = NoBackup /\ prov.target = "integration" => ~stood
       /\ staging = "none" => dest[prov.target].tree = "fresh"
       /\ staging # "none" => dest[prov.target].tree = "none"
  /\ prov.at = "clean" =>
       /\ dest[prov.target].tree = "fresh" /\ dest[prov.target].sealed
       /\ backup # NoBackup => backup.of = prov.target

\* What a backup tells the next process, whoever left it.
BackupSound ==
  /\ backup # NoBackup => backup.tree # "none"
  /\ backup # NoBackup /\ backup.of # "integration" => Integ.tree # "none" /\ backup.tree # "prior"
  /\ backup.tree = "prior" /\ ~modeMarker => Integ.tree # "none"

\* An unsealed prior tree is the one whose mode the marker records.
ModeKept ==
  Integ.tree = "prior" =>
    Integ.sealed \/ (modeMarker /\ backup = NoBackup /\ prov.target = "integration")

\* The tree of the integration worktree is at its path or in the slot.
TreeKept == stood => Integ.tree # "none" \/ backup.of = "integration"

ProvisionInv ==
  ProvisionTypeOK /\ OneUser /\ SlotOfCall /\ BackupSound /\ ModeKept /\ TreeKept

LEMMA ProvisionImplies == ProvisionInv => TreeNeverLost
BY DEF ProvisionInv, ProvisionTypeOK, OneUser, ModeKept, TreeKept, Integ, TreeNeverLost, Worktrees
LEMMA ProvisionInitInv == ProvisionInit => ProvisionInv
<1> SUFFICES ASSUME ProvisionInit PROVE ProvisionInv
    OBVIOUS
<1>1. dest["integration"] = Absent
    BY DEF ProvisionInit, Worktrees
<1> QED
    BY <1>1, ProvisionBounds
    DEF ProvisionInit, ProvisionInv, ProvisionTypeOK, OneUser, SlotOfCall, BackupSound, ModeKept,
    TreeKept, Integ, Stands, SlotFree, NoBackup, Absent, Trees, Worktrees

LEMMA ProvisionStep == ProvisionInv /\ [ProvisionNext]_provVars => ProvisionInv'
<1> SUFFICES ASSUME ProvisionInv, [ProvisionNext]_provVars PROVE ProvisionInv'
    OBVIOUS
<1> USE ProvisionBounds
    DEF ProvisionInv, ProvisionTypeOK, OneUser, SlotOfCall, BackupSound, ModeKept, TreeKept, Integ, Stands,
        SlotFree, NoBackup, Trees, Worktrees
<1>1. ASSUME NEW w \in Worktrees, requireProvisionedWorktree(w) PROVE ProvisionInv'
  <2>1. prov.at = "idle" /\ prov'.at = "inspect" /\ prov'.target = w /\ (w # "integration" => first)
      BY <1>1 DEF requireProvisionedWorktree
  <2>2. UNCHANGED <<staging, backup, modeMarker, first, stood, provCrashes>>
      BY <1>1 DEF requireProvisionedWorktree
  <2>3. CASE w = "integration" /\ UNCHANGED dest
      BY <1>1, <2>1, <2>2, <2>3 DEF requireProvisionedWorktree
  <2>4. ASSUME w # "integration", NEW tr \in {"none", "tracked"},
               dest' = [dest EXCEPT ![w] = [tree |-> tr, sealed |-> FALSE]]
        PROVE  ProvisionInv'
    <3>1. ProvisionTypeOK'
        BY <1>1, <2>2, <2>4 DEF requireProvisionedWorktree
    <3>2. Integ' = Integ /\ dest'[w].tree # "prior"
        BY <2>4
    <3>3. OneUser' /\ SlotOfCall' /\ BackupSound' /\ ModeKept' /\ TreeKept'
        BY <2>1, <2>2, <2>4, <3>2
    <3> QED
        BY <3>1, <3>3
  <2> QED
      BY <1>1, <2>3, <2>4 DEF requireProvisionedWorktree
<1>2. CASE inspectPlan
    BY <1>2 DEF inspectPlan, Step, Absent
<1>3. CASE provisionWorktree
    BY <1>3 DEF provisionWorktree, Step, Absent
<1>4. CASE reconcile
  <2> DEFINE t == prov.target
  <2>1. /\ prov.at = "reconcile" /\ prov' = [prov EXCEPT !.at = "copy"] /\ staging' = "none"
        /\ backup' = NoBackup /\ modeMarker' = FALSE
        /\ UNCHANGED <<first, stood, provisions, provCrashes>>
      BY <1>4 DEF reconcile, Step
  <2>2. \A w \in Worktrees : w # t => dest'[w] = dest[w]
      BY <1>4 DEF reconcile
  <2>3. dest[t].tree # "none" => /\ dest'[t].tree = dest[t].tree
                                 /\ dest[t].sealed \/ (backup = NoBackup /\ modeMarker) => dest'[t].sealed
      BY <1>4 DEF reconcile
  <2>4. dest[t].tree = "none" /\ backup # NoBackup => /\ dest'[t].tree = backup.tree
                                                      /\ dest'[t].sealed = modeMarker
      BY <1>4 DEF reconcile
  <2>5. dest[t].tree = "none" /\ backup = NoBackup => dest'[t] = dest[t]
      BY <1>4 DEF reconcile
  <2>6. dest' \in [Worktrees -> [tree : Trees, sealed : BOOLEAN]]
    <3>1. CASE dest[t].tree # "none"
      <4>1. dest' = [dest EXCEPT ![t] = [tree |-> dest[t].tree,
                       sealed |-> dest[t].sealed \/ (backup = NoBackup /\ modeMarker)]]
          BY <1>4, <3>1 DEF reconcile
      <4>2. [tree |-> dest[t].tree, sealed |-> dest[t].sealed \/ (backup = NoBackup /\ modeMarker)]
              \in [tree : Trees, sealed : BOOLEAN]
          OBVIOUS
      <4> QED
          BY <4>1, <4>2
    <3>2. CASE dest[t].tree = "none" /\ backup # NoBackup
      <4>1. dest' = [dest EXCEPT ![t] = [tree |-> backup.tree, sealed |-> modeMarker]]
          BY <1>4, <3>2 DEF reconcile
      <4> QED
          BY <4>1
    <3>3. CASE dest[t].tree = "none" /\ backup = NoBackup
        BY <1>4, <3>3 DEF reconcile
    <3> QED
        BY <3>1, <3>2, <3>3
  <2>7. ProvisionTypeOK'
      BY <2>1, <2>6
  <2>8. t # "integration" => dest'[t].tree = dest[t].tree
      BY <2>1, <2>3, <2>5
  <2>9. OneUser'
      BY <2>1, <2>2, <2>8
  <2>10. ModeKept'
      BY <2>1, <2>2, <2>3, <2>4, <2>5
  <2>11. TreeKept'
      BY <2>1, <2>2, <2>3, <2>4
  <2> QED
      BY <2>1, <2>7, <2>9, <2>10, <2>11
<1>5. CASE copyPinnedFile
    BY <1>5 DEF copyPinnedFile, Step, Absent
<1>6. CASE copyManifest
    BY <1>6 DEF copyManifest, Step, Absent
<1>7. CASE prepareReadOnlyDirectoryMove
    BY ZenonT(40), <1>7 DEF prepareReadOnlyDirectoryMove, Step, Absent
<1>8. CASE moveAside
  <2> DEFINE t == prov.target
  <2>1. /\ prov.at = "aside" /\ prov' = [prov EXCEPT !.at = "publish"] /\ backup = NoBackup
        /\ UNCHANGED <<staging, modeMarker, first, stood, provisions, provCrashes>>
      BY <1>8 DEF moveAside, Step
  <2>2. CASE /\ dest[t].tree # "none" /\ ~dest[t].sealed
             /\ backup' = [of |-> t, tree |-> dest[t].tree]
             /\ dest' = [dest EXCEPT ![t] = Absent]
    <3>1. ProvisionTypeOK'
        BY <2>1, <2>2 DEF Absent
    <3>2. dest'[t].tree = "none" /\ backup'.tree = dest[t].tree /\ backup'.of = t /\ backup' # NoBackup
        BY <2>2 DEF Absent
    <3>3. \A w \in Worktrees : w # t => dest'[w] = dest[w]
        BY <2>2
    <3>4. SlotOfCall'
        BY <2>1, <2>2, <3>2, <3>3
    <3>5. OneUser' /\ BackupSound' /\ ModeKept' /\ TreeKept'
        BY <2>1, <2>2, <3>2, <3>3
    <3> QED
        BY <3>1, <3>4, <3>5
  <2>3. CASE dest[t].tree = "none" /\ UNCHANGED <<dest, backup>>
      BY <2>1, <2>3
  <2> QED
      BY <1>8, <2>2, <2>3 DEF moveAside
<1>9. CASE publishStaging
    BY <1>9 DEF publishStaging, Step, Absent
<1>10. CASE restoreMode
  <2>1. ProvisionTypeOK'
      BY ZenonT(40), <1>10 DEF restoreMode, Step, Absent
  <2>2. OneUser'
      BY <1>10 DEF restoreMode, Step, Absent
  <2>3. SlotOfCall'
      BY <1>10 DEF restoreMode, Step, Absent
  <2>4. BackupSound'
      BY <1>10 DEF restoreMode, Step, Absent
  <2>5. ModeKept'
      BY <1>10 DEF restoreMode, Step, Absent
  <2>6. TreeKept'
      BY <1>10 DEF restoreMode, Step, Absent
  <2> QED
      BY <2>1, <2>2, <2>3, <2>4, <2>5, <2>6
<1>11. CASE restoreAfterPublishFailure
  <2> DEFINE t == prov.target
  <2>1. /\ prov.at \in {"aside", "publish"} /\ prov' = [prov EXCEPT !.at = "refused"]
        /\ backup' = NoBackup /\ modeMarker' = FALSE /\ staging' = "none"
        /\ UNCHANGED <<first, stood, provisions, provCrashes>>
      BY <1>11 DEF restoreAfterPublishFailure, Step
  <2>2. \A w \in Worktrees : w # t => dest'[w] = dest[w]
      BY <1>11 DEF restoreAfterPublishFailure
  <2>3. backup # NoBackup => dest'[t] = [tree |-> backup.tree, sealed |-> modeMarker]
      BY <1>11 DEF restoreAfterPublishFailure
  <2>4. backup = NoBackup /\ prov.at = "publish" => dest'[t] = Absent
      BY <1>11 DEF restoreAfterPublishFailure
  <2>5. backup = NoBackup /\ prov.at = "aside" =>
          dest'[t] = [tree |-> dest[t].tree, sealed |-> dest[t].sealed \/ modeMarker]
      BY <1>11, <2>1 DEF restoreAfterPublishFailure
  <2>6. dest'[t] \in [tree : Trees, sealed : BOOLEAN]
    <3>1. CASE backup # NoBackup
      <4>1. backup.tree \in Trees /\ modeMarker \in BOOLEAN
          OBVIOUS
      <4> QED
          BY <2>3, <3>1, <4>1
    <3>2. CASE backup = NoBackup /\ prov.at = "publish"
      <4>1. Absent \in [tree : Trees, sealed : BOOLEAN]
          BY DEF Absent
      <4> QED
          BY <2>4, <3>2, <4>1
    <3>3. CASE backup = NoBackup /\ prov.at = "aside"
      <4>1. dest[t].tree \in Trees /\ (dest[t].sealed \/ modeMarker) \in BOOLEAN
          OBVIOUS
      <4> QED
          BY <2>5, <3>3, <4>1
    <3> QED
        BY <2>1, <3>1, <3>2, <3>3
  <2>7. dest' \in [Worktrees -> [tree : Trees, sealed : BOOLEAN]]
      BY <1>11, <2>6 DEF restoreAfterPublishFailure
  <2>8. ProvisionTypeOK'
      BY <2>1, <2>7
  <2>9. OneUser' /\ SlotOfCall' /\ BackupSound'
      BY <2>1, <2>2, <2>3, <2>4, <2>5 DEF Absent
  <2>10. ModeKept'
      BY <2>1, <2>2, <2>3, <2>4, <2>5 DEF Absent
  <2>11. TreeKept'
      BY <2>1, <2>2, <2>3, <2>4, <2>5 DEF Absent
  <2> QED
      BY <2>8, <2>9, <2>10, <2>11
<1>12. CASE removeBackup
  <2> DEFINE t == prov.target
  <2>1. prov.at = "clean" /\ UNCHANGED <<staging, provisions, provCrashes>>
      BY <1>12 DEF removeBackup
  <2>2. CASE modeMarker /\ modeMarker' = FALSE /\ UNCHANGED <<dest, backup, prov, first, stood>>
      BY ZenonT(40), <2>1, <2>2
  <2>3. CASE ~modeMarker /\ backup # NoBackup /\ backup' = NoBackup
             /\ UNCHANGED <<dest, modeMarker, prov, first, stood>>
      BY <2>1, <2>3
  <2>4. CASE /\ ~modeMarker /\ backup = NoBackup /\ Step("idle") /\ first' = TRUE
             /\ stood' = (stood \/ prov.target = "integration")
             /\ dest' = [dest EXCEPT ![t].tree = "prior"] /\ UNCHANGED <<modeMarker, backup>>
    <3>1. dest' \in [Worktrees -> [tree : Trees, sealed : BOOLEAN]]
        BY <2>4
    <3>2. dest'[t].tree = "prior" /\ dest'[t].sealed = dest[t].sealed
        BY <2>4
    <3>3. \A w \in Worktrees : w # t => dest'[w] = dest[w]
        BY <2>4
    <3>4. ProvisionTypeOK'
        BY <2>1, <2>4, <3>1 DEF Step
    <3>5. Stands'
        BY <2>1, <3>2, <3>3
    <3>6. OneUser' /\ SlotOfCall' /\ BackupSound' /\ ModeKept' /\ TreeKept'
        BY <2>1, <2>4, <3>5 DEF Step
    <3> QED
        BY <3>4, <3>6
  <2>5. CASE Step("refused") /\ UNCHANGED <<dest, modeMarker, backup, first, stood>>
      BY <2>1, <2>5 DEF Step
  <2> QED
      BY <1>12, <2>2, <2>3, <2>4, <2>5 DEF removeBackup
<1>13. CASE nextProcess
  <2>1. /\ prov' = [at |-> "idle", target |-> "integration"] /\ first' = FALSE
        /\ dest' = [w \in Worktrees |-> IF w = "integration" THEN dest[w] ELSE Absent]
        /\ UNCHANGED <<staging, backup, modeMarker, stood, provisions>>
      BY <1>13 DEF nextProcess
  <2>2. provCrashes' \in Nat
      BY <1>13 DEF nextProcess
  <2>3. dest' \in [Worktrees -> [tree : Trees, sealed : BOOLEAN]] /\ Integ' = Integ
      BY <2>1 DEF Absent
  <2>4. ProvisionTypeOK'
      BY <2>1, <2>2, <2>3
  <2>5. OneUser' /\ SlotOfCall' /\ BackupSound' /\ ModeKept' /\ TreeKept'
      BY <2>1, <2>3
  <2> QED
      BY <2>4, <2>5
<1>14. CASE UNCHANGED provVars
    BY <1>14 DEF provVars
<1> QED
    BY <1>1, <1>2, <1>3, <1>4, <1>5, <1>6, <1>7, <1>8, <1>9, <1>10, <1>11, <1>12, <1>13, <1>14 DEF ProvisionNext

\* The tree of a provisioned integration worktree is at its path or in the slot, whatever is
\* interrupted and whichever checkout used the slot last (reconcile, moveAside, publishStaging).
THEOREM TreeNeverEverLost == ProvisionSpec => []TreeNeverLost
BY ProvisionInitInv, ProvisionStep, ProvisionImplies, PTL DEF ProvisionSpec

-----------------------------------------------------------------------------
(* The integration branch.                                                 *)

Changes == (IntTasks \cup {"outside"}) \X Nat

IntStatuses == {"open", "claimed", "needs-review", "blocked", "rejected", "escalated", "done"}

LoopSteps == {"down", "iteration", "dispatch", "review", "merge", "verify", "publish",
              "published", "check", "done", "unverified", "stopped", "cleaned"}

IntegrationTypeOK ==
  /\ tip \in SUBSET Changes
  /\ head \in [detached : BOOLEAN, at : SUBSET Changes]
  /\ board \in [IntTasks -> IntStatuses]
  /\ tries \in [IntTasks -> Nat]
  /\ attempts \in [IntTasks -> [oid : SUBSET Changes, held : BOOLEAN]]
  /\ loop \in [at : LoopSteps, task : IntTasks \cup {"none"},
               old : SUBSET Changes, candidate : SUBSET Changes]
  /\ outside \in Nat

\* The candidate extends the tip it is to replace, and was verified before it is published.
CandidateSound ==
  /\ loop.at \in {"verify", "publish"} => loop.old \subseteq loop.candidate
  /\ loop.at = "publish" /\ PostMergeVerify => loop.candidate \in green

\* A worktree is detached only for a task that is not done, and the board calls no task done
\* while it is: a run that finds every task done reads the branch.
DetachedIsUnfinished ==
  /\ loop.at \in {"merge", "verify", "publish", "published"} => loop.task \in IntTasks
  /\ loop.at \in {"merge", "verify", "publish"} => board[loop.task] # "done"
  /\ loop.at = "published" => ~head.detached
  /\ head.detached => \E t \in IntTasks : board[t] # "done"

IntegrationInv == IntegrationTypeOK /\ CandidateSound /\ DetachedIsUnfinished

LEMMA IntegrationInitInv == IntegrationInit => IntegrationInv
BY DEF IntegrationInit, IntegrationInv, IntegrationTypeOK, CandidateSound, DetachedIsUnfinished,
       At, NoAttempt, LoopSteps, IntStatuses

LEMMA TipTyped == IntegrationTypeOK => integrationTip \in SUBSET Changes
BY DEF IntegrationTypeOK, integrationTip

LEMMA IntegrationStep == IntegrationInv /\ [IntegrationNext]_integrationVars => IntegrationInv'
<1> SUFFICES ASSUME IntegrationInv, [IntegrationNext]_integrationVars
             PROVE  IntegrationInv'
    OBVIOUS
<1> USE DEF IntegrationInv, IntegrationTypeOK, CandidateSound, DetachedIsUnfinished, LoopSteps,
           IntStatuses, gitVars, boundVars
<1>1. CASE prepareExecutionTarget
    BY <1>1 DEF prepareExecutionTarget, At
<1>2. CASE selectTasks
    BY <1>2 DEF selectTasks, At
<1>3. CASE startReview
    BY <1>3 DEF startReview, At
<1>4. ASSUME NEW t \in IntTasks, createAttemptWorktree(t)
      PROVE  IntegrationInv'
    BY <1>4, TipTyped DEF createAttemptWorktree
<1>5. ASSUME NEW t \in IntTasks, dispatchTask(t)
      PROVE  IntegrationInv'
  <2>1. <<t, tries[t] + 1>> \in Changes
      BY DEF Changes
  <2>2. CASE board' = [board EXCEPT ![t] = "needs-review"] /\ commitAll(t) /\ UNCHANGED tries
      BY <1>5, <2>1, <2>2 DEF dispatchTask, commitAll
  <2>3. CASE Fails(t, "blocked") /\ removeAttempt(t)
      BY <1>5, <2>3 DEF dispatchTask, Fails, removeAttempt, NoAttempt
  <2> QED
      BY <1>5, <2>2, <2>3 DEF dispatchTask
<1>6. ASSUME NEW t \in IntTasks, reviewNoArtifact(t)
      PROVE  IntegrationInv'
    BY <1>6 DEF reviewNoArtifact, Fails
<1>7. ASSUME NEW t \in IntTasks, captureFails(t)
      PROVE  IntegrationInv'
    BY <1>7 DEF captureFails, Reviewable, Fails, removeAttempt, NoAttempt
<1>8. ASSUME NEW t \in IntTasks, runReviewAgent(t)
      PROVE  IntegrationInv'
  <2>1. CASE /\ head' = [detached |-> TRUE, at |-> integrationTip]
             /\ loop' = [at |-> "merge", task |-> t, old |-> integrationTip, candidate |-> {}]
             /\ UNCHANGED <<board, tries, attempts>>
      BY <1>8, <2>1, TipTyped DEF runReviewAgent, Reviewable
  <2>2. CASE Fails(t, "rejected") /\ removeAttempt(t) /\ UNCHANGED <<head, loop>>
      BY <1>8, <2>2 DEF runReviewAgent, Reviewable, Fails, removeAttempt, NoAttempt
  <2> QED
      BY <1>8, <2>1, <2>2 DEF runReviewAgent
<1>9. CASE buildMergeCandidate
  <2> DEFINE merged == loop.old \cup attempts[loop.task].oid
  <2>1. loop.task \in IntTasks /\ merged \in SUBSET Changes /\ board[loop.task] # "done"
      BY <1>9 DEF buildMergeCandidate
  <2>2. CASE /\ head' = [detached |-> TRUE, at |-> merged]
             /\ loop' = [loop EXCEPT !.at = "verify", !.candidate = merged]
             /\ UNCHANGED <<board, tries, attempts>>
      BY <1>9, <2>1, <2>2 DEF buildMergeCandidate
  <2>3. CASE /\ reattachIntegration /\ loop' = At("review")
             /\ Fails(loop.task, "rejected") /\ removeAttempt(loop.task)
      BY <1>9, <2>1, <2>3 DEF buildMergeCandidate, reattachIntegration, Fails, removeAttempt,
                              NoAttempt, At
  <2> QED
      BY <1>9, <2>2, <2>3 DEF buildMergeCandidate
<1>10. CASE verifyCandidate
  <2>1. loop.task \in IntTasks /\ board[loop.task] # "done"
      BY <1>10 DEF verifyCandidate
  <2>2. CASE /\ loop' = [loop EXCEPT !.at = "publish"]
             /\ IF PostMergeVerify THEN runOrderedVerify(loop.candidate) ELSE UNCHANGED green
             /\ UNCHANGED <<head, board, tries, attempts>>
      BY <1>10, <2>1, <2>2 DEF verifyCandidate, runOrderedVerify
  <2>3. CASE /\ reattachIntegration /\ loop' = At("review")
             /\ Fails(loop.task, "rejected") /\ removeAttempt(loop.task)
      BY <1>10, <2>1, <2>3 DEF verifyCandidate, reattachIntegration, Fails, removeAttempt,
                              NoAttempt, At
  <2> QED
      BY <1>10, <2>2, <2>3 DEF verifyCandidate
<1>11. CASE publishCandidate
    BY <1>11 DEF publishCandidate, reattachIntegration
<1>12. CASE abandonCandidate
    BY <1>12 DEF abandonCandidate, reattachIntegration, Fails, removeAttempt, NoAttempt, At
<1>13. CASE recordMerged
    BY <1>13 DEF recordMerged, removeAttempt, NoAttempt, At
<1>14. CASE escalateExhausted
    BY <1>14 DEF escalateExhausted, At
<1>15. CASE evaluateCompletion
    BY <1>15 DEF evaluateCompletion, At
<1>16. CASE cleanupRun
    BY <1>16 DEF cleanupRun, reattachIntegration, NoAttempt, At
<1>17. CASE processEnds
    BY <1>17 DEF processEnds, NoAttempt, At
<1>18. CASE outsideMove
  <2>1. <<"outside", outside + 1>> \in Changes
      BY DEF Changes
  <2> QED
      BY <1>18, <2>1 DEF outsideMove
<1>19. CASE UNCHANGED integrationVars
    BY <1>19 DEF integrationVars
<1> QED
    BY <1>1, <1>2, <1>3, <1>4, <1>5, <1>6, <1>7, <1>8, <1>9, <1>10, <1>11, <1>12, <1>13, <1>14,
       <1>15, <1>16, <1>17, <1>18, <1>19 DEF IntegrationNext

\* The branch as a step of the loop leaves it: only publication moves it, and a run that ends
\* finds the worktree attached.
BranchStep ==
  /\ tip' # tip /\ outside' = outside => tip \subseteq tip' /\ (PostMergeVerify => tip' \in green)
  /\ loop'.at = "done" /\ loop.at # "done" => tip \in green'

LEMMA IntegrationBranch == IntegrationInv /\ IntegrationNext => BranchStep
<1> SUFFICES ASSUME IntegrationInv, IntegrationNext
             PROVE  BranchStep
    OBVIOUS
<1> USE DEF IntegrationInv, IntegrationTypeOK, BranchStep
<1>1. CASE publishCandidate
    BY <1>1 DEF publishCandidate, CandidateSound
<1>2. CASE evaluateCompletion
  <2>1. CASE \A t \in IntTasks : board[t] = "done"
    <3>1. integrationTip = tip
        BY <2>1 DEF DetachedIsUnfinished, integrationTip
    <3> QED
        BY <1>2, <2>1, <3>1 DEF evaluateCompletion, runOrderedVerify, At
  <2>2. CASE \E t \in IntTasks : board[t] # "done"
      BY <1>2, <2>2 DEF evaluateCompletion, At
  <2> QED
      BY <2>1, <2>2
<1>3. CASE outsideMove
    BY <1>3 DEF outsideMove
<1>4. CASE prepareExecutionTarget \/ selectTasks \/ startReview \/ escalateExhausted
             \/ cleanupRun \/ processEnds \/ recordMerged
    BY <1>4 DEF prepareExecutionTarget, selectTasks, startReview, escalateExhausted, cleanupRun,
                processEnds, recordMerged, gitVars, At
<1>5. CASE buildMergeCandidate \/ verifyCandidate \/ abandonCandidate
  <2>1. tip' = tip
      BY <1>5 DEF buildMergeCandidate, verifyCandidate, abandonCandidate
  <2>2. loop'.at \in {"verify", "publish", "review"}
    <3>1. CASE buildMergeCandidate
      <4>1. CASE loop' = At("review")
          BY <4>1 DEF At
      <4>2. CASE loop' = [loop EXCEPT !.at = "verify",
                                      !.candidate = loop.old \cup attempts[loop.task].oid]
        <5>1. loop' = [at |-> "verify", task |-> loop.task, old |-> loop.old,
                       candidate |-> loop.old \cup attempts[loop.task].oid]
            BY <4>2
        <5> QED
            BY <5>1
      <4> QED
          BY <3>1, <4>1, <4>2 DEF buildMergeCandidate
    <3>2. CASE verifyCandidate
        BY <3>2 DEF verifyCandidate, At
    <3>3. CASE abandonCandidate
        BY <3>3 DEF abandonCandidate, At
    <3> QED
        BY <1>5, <3>1, <3>2, <3>3
  <2> QED
      BY <2>1, <2>2
<1>6. ASSUME NEW t \in IntTasks,
             \/ createAttemptWorktree(t) \/ dispatchTask(t) \/ reviewNoArtifact(t)
             \/ captureFails(t) \/ runReviewAgent(t)
      PROVE  BranchStep
    BY <1>6 DEF createAttemptWorktree, dispatchTask, reviewNoArtifact, captureFails,
                runReviewAgent, gitVars
<1> QED
    BY <1>1, <1>2, <1>3, <1>4, <1>5, <1>6 DEF IntegrationNext

\* The loop moves the branch only forward, onto a commit that was verified when the run asks for
\* it, and a run that ends was verified at the tip of the branch (mergeAttempt, publishCandidate,
\* the final verification of runAutonomyLoop).
THEOREM NothingEverClobbered == IntegrationSpec => NothingClobbered
<1>1. IntegrationInv /\ [IntegrationNext]_integrationVars => [BranchStep]_integrationVars
    BY IntegrationBranch
<1>2. IntegrationSpec => []IntegrationInv
    BY IntegrationInitInv, IntegrationStep, PTL DEF IntegrationSpec
<1> QED
    BY <1>1, <1>2, PTL DEF IntegrationSpec, NothingClobbered, BranchStep

-----------------------------------------------------------------------------
(* The switch to the control store.                                        *)

CutoverPhases == {"down", "initBoard", "prepared", "manifested", "proved", "opened", "planned",
                  "appended", "sync receipt", "imported", "archiving", "sync leaf",
                  "sync manifest", "archived", "finalized", "sync marker", "bound"}

CutoverTypeOK ==
  /\ leaves \in {"none", "some", "all"} /\ sources \in Nat /\ history \in Histories
  /\ torn \in BOOLEAN /\ scopes \in BOOLEAN /\ manifested \in BOOLEAN
  /\ store \in [holds : Nat, work : BOOLEAN, cursor : BOOLEAN, snapshot : BOOLEAN]
  /\ receipt \in Nat /\ archive \in [copied : Nat, listed : BOOLEAN] /\ marker \in Nat
  /\ parent \in CutoverPhases /\ plan \in Nat

\* Until the board files are complete nothing was planned, imported or published from them.
NothingYet ==
  /\ leaves = "all" => sources # 0
  /\ leaves # "all" => marker = 0 /\ receipt = 0
  /\ parent = "initBoard" => leaves # "all"
  /\ parent \notin {"down", "initBoard"} => leaves = "all"

\* Only the rename of the step in progress is not synced.
RenamesSynced ==
  /\ "receipt" \in unsynced => parent = "sync receipt"
  /\ "leaf" \in unsynced => parent = "sync leaf" /\ archive.copied # 0 /\ ~archive.listed
  /\ "manifest" \in unsynced => parent = "sync manifest"
  /\ "marker" \in unsynced => parent = "sync marker"

Planned == {"planned", "appended", "sync receipt", "imported", "archiving", "sync leaf",
            "sync manifest", "archived", "finalized"}
Receipted == {"sync receipt", "imported", "archiving", "sync leaf", "sync manifest",
              "archived", "finalized", "sync marker"}

\* What each phase of the switch has behind it.
PhaseBehind ==
  /\ parent \in Planned \cup {"opened"} => marker = 0
  /\ parent \in Planned => plan = sources /\ Appendable
  /\ parent \in Receipted \cup {"appended"} => store.holds = plan
  /\ parent \in Receipted => receipt = plan
  /\ parent \in {"sync manifest", "archived", "finalized"} => archive.listed
  /\ parent = "finalized" => store.cursor /\ store.snapshot
  /\ parent \in {"finalized", "sync marker"} => ~store.work
  /\ parent \in {"sync marker", "bound"} => marker # 0

\* The archive is listed only when it is complete.
ArchiveWhole == archive.listed => archive.copied = LegacyLeaves

\* What the marker stands for.
MarkerProven ==
  /\ marker # 0 => /\ store.holds = marker /\ store.cursor /\ store.snapshot
                   /\ receipt = marker /\ sources = marker /\ archive.listed /\ Appendable
  /\ store.work => marker # 0

CutoverInv ==
  /\ CutoverTypeOK /\ NothingYet /\ RenamesSynced /\ PhaseBehind /\ ArchiveWhole
  /\ MarkerProven

LEMMA CutoverInitInv == CutoverInit => CutoverInv
<1> SUFFICES ASSUME CutoverInit PROVE CutoverInv
    OBVIOUS
<1>1. <<>> \in Histories
  <2>1. <<>> \in [1 .. 0 -> LegacyEvents]
      OBVIOUS
  <2> QED
      BY <2>1, CutoverBounds DEF Histories
<1>2. manifested \in BOOLEAN
    BY Zenon DEF CutoverInit
<1>3. CutoverTypeOK
  <2>1. leaves \in {"none", "some", "all"} /\ sources \in Nat /\ history \in Histories
      BY <1>1 DEF CutoverInit
  <2>2. torn \in BOOLEAN /\ scopes \in BOOLEAN
      BY Zenon DEF CutoverInit
  <2>3. store \in [holds : Nat, work : BOOLEAN, cursor : BOOLEAN, snapshot : BOOLEAN]
      BY DEF CutoverInit, EmptyStore
  <2>4. /\ receipt \in Nat /\ archive \in [copied : Nat, listed : BOOLEAN] /\ marker \in Nat
        /\ parent \in CutoverPhases /\ plan \in Nat
      BY DEF CutoverInit, CutoverPhases
  <2> QED
      BY <1>2, <2>1, <2>2, <2>3, <2>4 DEF CutoverTypeOK
<1> QED
    BY <1>3 DEF CutoverInit, CutoverInv, NothingYet, RenamesSynced, PhaseBehind, ArchiveWhole,
                MarkerProven, Planned, Receipted, EmptyStore

\* The history the import was planned from never changes.
LEMMA HistoryKept ==
  ASSUME [CutoverNext]_cutoverVars
  PROVE  history' = history /\ torn' = torn /\ (Appendable' <=> Appendable)
<1>1. history' = history /\ torn' = torn
    BY DEF CutoverNext, cutoverVars, legacyVars, prepareRun, writeInitialState, assertRunManifest, reapAbandonedScopes, cutoverControlAuthority, planLegacyImport, executeLegacyImport, durableWritePrivate, receiptWritten, reopenAndVerify, copyArchiveLeaf, createAndVerifyArchive, finalizeStoreMetadata, writeCanonicalPrivate, bindCanonicalBoardAuthority, canonicalWork, CutoverCrash, disposePreparedRun
<1> QED
    BY <1>1 DEF Appendable, parseJsonl

LEMMA CutoverStep == CutoverInv /\ [CutoverNext]_cutoverVars => CutoverInv'
<1> SUFFICES ASSUME CutoverInv, [CutoverNext]_cutoverVars
             PROVE  CutoverInv'
    OBVIOUS
<1> USE CutoverBounds
    DEF CutoverInv, CutoverTypeOK, NothingYet, RenamesSynced, PhaseBehind, ArchiveWhole,
        MarkerProven, Planned, Receipted, CutoverPhases, legacyVars
<1>1. CASE prepareRun
    BY ZenonT(40), <1>1, HistoryKept DEF prepareRun
<1>2. CASE writeInitialState
    BY <1>2, HistoryKept DEF writeInitialState
<1>3. CASE assertRunManifest
  <2>1. CutoverTypeOK'
    <3>1. parent' \in CutoverPhases /\ manifested' \in BOOLEAN
        BY <1>3 DEF assertRunManifest
    <3>3. sources' \in {sources, sources + 1}
        BY <1>3 DEF assertRunManifest, saveLoopState, Saved
    <3>2. UNCHANGED <<leaves, history, torn, scopes, store, receipt, archive, marker, plan>>
        BY <1>3 DEF assertRunManifest
    <3>4. sources' \in Nat
      <4>1. sources \in Nat
          OBVIOUS
      <4> QED
          BY ONLY <3>3, <4>1
    <3> QED
        BY <3>1, <3>2, <3>4
  <2>2. NothingYet'
      BY <1>3, HistoryKept DEF assertRunManifest, saveLoopState, Saved
  <2>3. RenamesSynced'
      BY <1>3, HistoryKept DEF assertRunManifest, saveLoopState, Saved
  <2>4. PhaseBehind'
      BY <1>3, HistoryKept DEF assertRunManifest, saveLoopState, Saved
  <2>5. ArchiveWhole'
      BY <1>3, HistoryKept DEF assertRunManifest, saveLoopState, Saved
  <2>6. MarkerProven'
      BY <1>3, HistoryKept DEF assertRunManifest, saveLoopState, Saved
  <2> QED
      BY <2>1, <2>2, <2>3, <2>4, <2>5, <2>6
<1>4. CASE reapAbandonedScopes
  <2>1. CutoverTypeOK'
    <3>1. parent' \in CutoverPhases /\ scopes' \in BOOLEAN
        BY <1>4 DEF reapAbandonedScopes
    <3>3. sources' \in {sources, sources + 1}
        BY <1>4 DEF reapAbandonedScopes, saveLoopState, Saved
    <3>2. UNCHANGED <<leaves, history, torn, manifested, store, receipt, archive, marker, plan>>
        BY <1>4 DEF reapAbandonedScopes
    <3>4. sources' \in Nat
      <4>1. sources \in Nat
          OBVIOUS
      <4> QED
          BY ONLY <3>3, <4>1
    <3> QED
        BY <3>1, <3>2, <3>4
  <2>2. NothingYet'
      BY <1>4, HistoryKept DEF reapAbandonedScopes, saveLoopState, Saved
  <2>3. RenamesSynced'
      BY <1>4, HistoryKept DEF reapAbandonedScopes, saveLoopState, Saved
  <2>4. PhaseBehind'
      BY <1>4, HistoryKept DEF reapAbandonedScopes, saveLoopState, Saved
  <2>5. ArchiveWhole'
      BY <1>4, HistoryKept DEF reapAbandonedScopes, saveLoopState, Saved
  <2>6. MarkerProven'
      BY <1>4, HistoryKept DEF reapAbandonedScopes, saveLoopState, Saved
  <2> QED
      BY <2>1, <2>2, <2>3, <2>4, <2>5, <2>6
<1>5. CASE cutoverControlAuthority
    BY <1>5, HistoryKept DEF cutoverControlAuthority
<1>6. CASE planLegacyImport
    BY ZenonT(40), <1>6, HistoryKept DEF planLegacyImport, Refused
<1>7. CASE executeLegacyImport
    BY <1>7, HistoryKept DEF executeLegacyImport, Refused, assertReceiptMatchesPlan
<1>8. CASE durableWritePrivate
    BY <1>8, HistoryKept DEF durableWritePrivate
<1>9. CASE receiptWritten
    BY ZenonT(40), <1>9, HistoryKept DEF receiptWritten, syncDirectory
<1>10. CASE reopenAndVerify
    BY <1>10, HistoryKept DEF reopenAndVerify, assertReceiptMatchesPlan
<1>11. CASE copyArchiveLeaf
  <2>0. archive.copied \in Nat /\ LegacyLeaves \in Nat
      OBVIOUS
  <2>1. UNCHANGED <<leaves, sources, history, torn, scopes, manifested, store, receipt, marker, plan>>
      BY <1>11 DEF copyArchiveLeaf
  <2>2. CASE /\ parent = "archiving" /\ archive.copied < LegacyLeaves
             /\ archive' = [archive EXCEPT !.copied = @ + 1]
             /\ unsynced' = unsynced \cup {"leaf"} /\ parent' = "sync leaf"
    <3>1. archive' = [copied |-> archive.copied + 1, listed |-> archive.listed]
        BY <2>2
    <3>2. archive.copied # LegacyLeaves /\ ~archive.listed
      <4>1. archive.copied < LegacyLeaves
          BY <2>2
      <4>2. archive.copied # LegacyLeaves
          BY ONLY <2>0, <4>1
      <4> QED
          BY <4>2
    <3>3. archive' \in [copied : Nat, listed : BOOLEAN] /\ archive'.copied # 0 /\ ~archive'.listed
      <4>1. archive.listed \in BOOLEAN
          OBVIOUS
      <4> QED
          BY ONLY <2>0, <3>1, <3>2, <4>1
    <3>4. CutoverTypeOK' /\ ArchiveWhole' /\ RenamesSynced'
        BY <2>1, <2>2, <3>3
    <3>5. NothingYet' /\ PhaseBehind' /\ MarkerProven'
        BY <2>1, <2>2, <3>1, HistoryKept
    <3> QED
        BY <3>4, <3>5
  <2>3. CASE /\ parent = "sync leaf" /\ syncDirectory("leaf")
             /\ parent' = "archiving" /\ UNCHANGED archive
      BY ZenonT(40), <2>1, <2>3, HistoryKept DEF syncDirectory
  <2> QED
      BY <1>11, <2>2, <2>3 DEF copyArchiveLeaf
<1>12. CASE createAndVerifyArchive
  <2>1. CutoverTypeOK'
      BY <1>12, HistoryKept DEF createAndVerifyArchive, syncDirectory
  <2>2. NothingYet'
      BY <1>12, HistoryKept DEF createAndVerifyArchive, syncDirectory
  <2>3. RenamesSynced'
      BY <1>12, HistoryKept DEF createAndVerifyArchive, syncDirectory
  <2>4. PhaseBehind'
      BY <1>12, HistoryKept DEF createAndVerifyArchive, syncDirectory
  <2>5. ArchiveWhole'
      BY <1>12, HistoryKept DEF createAndVerifyArchive, syncDirectory
  <2>6. MarkerProven'
      BY <1>12, HistoryKept DEF createAndVerifyArchive, syncDirectory
  <2> QED
      BY <2>1, <2>2, <2>3, <2>4, <2>5, <2>6
<1>13. CASE finalizeStoreMetadata
    BY <1>13, HistoryKept DEF finalizeStoreMetadata
<1>14. CASE writeCanonicalPrivate
    BY <1>14, HistoryKept DEF writeCanonicalPrivate, revalidateLegacySources
<1>15. CASE bindCanonicalBoardAuthority
    BY <1>15, HistoryKept DEF bindCanonicalBoardAuthority, syncDirectory
<1>16. CASE canonicalWork
    BY <1>16, HistoryKept DEF canonicalWork
<1>17. CASE CutoverCrash
  <2>0. archive.copied \in Nat /\ archive.listed \in BOOLEAN
      OBVIOUS
  <2>1. PICK lost \in SUBSET unsynced :
          /\ receipt' = IF "receipt" \in lost THEN 0 ELSE receipt
          /\ marker' = IF "marker" \in lost THEN 0 ELSE marker
          /\ archive' = [copied |-> archive.copied - (IF "leaf" \in lost THEN 1 ELSE 0),
                         listed |-> archive.listed /\ "manifest" \notin lost]
      BY <1>17 DEF CutoverCrash
  <2>2. /\ UNCHANGED <<leaves, sources, history, torn, scopes, manifested, store>>
        /\ parent' = "down" /\ plan' = 0 /\ unsynced' = {}
      BY <1>17 DEF CutoverCrash
  <2>3. /\ archive'.copied = archive.copied - (IF "leaf" \in lost THEN 1 ELSE 0)
        /\ archive'.listed = (archive.listed /\ "manifest" \notin lost)
        /\ archive' = [copied |-> archive'.copied, listed |-> archive'.listed]
      BY <2>1
  <2>4. "leaf" \in lost => parent = "sync leaf" /\ archive.copied # 0 /\ ~archive.listed
      OBVIOUS
  <2>5. archive'.copied \in Nat /\ archive'.listed \in BOOLEAN
    <3>1. "leaf" \in lost => archive.copied # 0
        BY <2>4
    <3>2. archive'.copied = archive.copied \/ ("leaf" \in lost /\ archive'.copied = archive.copied - 1)
        BY ONLY <2>0, <2>3
    <3>3. archive'.copied \in Nat
        BY ONLY <2>0, <3>1, <3>2
    <3>4. archive'.listed \in BOOLEAN
        BY ONLY <2>3
    <3> QED
        BY <3>3, <3>4
  <2>6. CutoverTypeOK'
      BY <2>1, <2>2, <2>3, <2>5
  <2>7. NothingYet' /\ RenamesSynced' /\ PhaseBehind'
      BY <2>1, <2>2
  <2>8. ArchiveWhole'
    <3>1. archive'.listed => archive.listed /\ "leaf" \notin lost
        BY <2>3, <2>4
    <3>2. "leaf" \notin lost => archive'.copied = archive.copied
        BY ONLY <2>0, <2>3
    <3> QED
        BY <3>1, <3>2
  <2>9. MarkerProven'
    <3>1. CASE "marker" \in lost
        BY <2>1, <2>2, <3>1
    <3>2. CASE "marker" \notin lost /\ marker # 0
      <4>1. parent \notin Planned
          BY <3>2
      <4>2. "receipt" \notin lost \/ parent = "sync receipt"
          OBVIOUS
      <4>3. "manifest" \notin lost \/ parent = "sync manifest"
          OBVIOUS
      <4> QED
          BY <2>1, <2>2, <2>3, <3>2, <4>1, <4>2, <4>3, HistoryKept
    <3>3. CASE "marker" \notin lost /\ marker = 0
        BY <2>1, <2>2, <3>3
    <3> QED
        BY <3>1, <3>2, <3>3
  <2> QED
      BY <2>6, <2>7, <2>8, <2>9
<1>18. CASE disposePreparedRun
    BY <1>18, HistoryKept DEF disposePreparedRun
<1>19. CASE UNCHANGED cutoverVars
  <2>1. CutoverTypeOK'
      BY ZenonT(40), <1>19, HistoryKept DEF cutoverVars
  <2>2. NothingYet'
      BY <1>19, HistoryKept DEF cutoverVars
  <2>3. RenamesSynced'
      BY <1>19, HistoryKept DEF cutoverVars
  <2>4. PhaseBehind'
      BY <1>19, HistoryKept DEF cutoverVars
  <2>5. ArchiveWhole'
      BY <1>19, HistoryKept DEF cutoverVars
  <2>6. MarkerProven'
      BY <1>19, HistoryKept DEF cutoverVars
  <2> QED
      BY <2>1, <2>2, <2>3, <2>4, <2>5, <2>6
<1> QED
    BY <1>1, <1>2, <1>3, <1>4, <1>5, <1>6, <1>7, <1>8, <1>9, <1>10, <1>11, <1>12, <1>13, <1>14, <1>15, <1>16, <1>17, <1>18, <1>19 DEF CutoverNext

\* A set of numbers has a least one: the form of induction the arguments below use.
LEMMA LeastOf ==
  ASSUME NEW S \in SUBSET Nat, S # {}
  PROVE  \E m \in S : \A n \in S : m <= n
<1> DEFINE R == {ss \in Nat \X Nat : ss[1] < ss[2]}
<1>1. IsWellFoundedOn(R, Nat)
    BY NatLessThanWellFounded DEF OpToRel
<1>2. \A x, y \in Nat : y < x => <<y, x>> \in R
    OBVIOUS
<1> HIDE DEF R
<1>3. \E x \in S : \A y \in S : ~ (<<y, x>> \in R)
    BY <1>1, WFMin
<1>4. \E x \in S : \A y \in S : ~(y < x)
    BY <1>2, <1>3
<1> QED
    BY <1>4

LEMMA GreatestOf ==
  ASSUME NEW N \in Nat, NEW S \in SUBSET (1 .. N), S # {}
  PROVE  \E m \in S : \A n \in S : n <= m
<1> DEFINE T == {N - n : n \in S}
<1>1. T \in SUBSET Nat /\ T # {}
  <2>1. \A n \in S : N - n \in Nat
      OBVIOUS
  <2> QED
      BY <2>1
<1>2. PICK k \in T : \A j \in T : k <= j
  <2> HIDE DEF T
  <2> QED
      BY <1>1, LeastOf
<1>3. PICK m \in S : k = N - m
    OBVIOUS
<1>4. \A n \in S : N - m <= N - n
    BY <1>2, <1>3
<1> QED
    BY <1>4

\* A history is a sequence of events.
LEMMA HistoryShape ==
  ASSUME NEW h \in Histories
  PROVE  \E N \in Nat : DOMAIN h = 1 .. N /\ \A n \in 1 .. N : h[n] \in LegacyEvents
BY CutoverBounds DEF Histories

\* Nothing follows "done": the reducer takes no other status on top of it.
LEMMA DoneIsFinal ==
  ASSUME NEW h, NEW N \in Nat, DOMAIN h = 1 .. N, characterizeAppendability(h),
         NEW d \in 1 .. N, h[d].status = "done"
  PROVE  \A k \in 1 .. N : d <= k => h[k].status = "done"
<1> DEFINE S == {k \in 1 .. N : d <= k /\ h[k].status # "done"}
<1> SUFFICES ASSUME S # {} PROVE FALSE
    OBVIOUS
<1>1. S \in SUBSET Nat
    OBVIOUS
<1>2. PICK m \in S : \A k \in S : m <= k
  <2> HIDE DEF S
  <2> QED
      BY <1>1, LeastOf
<1>3. m \in 1 .. N /\ d < m /\ m - 1 \in 1 .. N
    OBVIOUS
<1>4. h[m - 1].status = "done"
    BY <1>2, <1>3
<1>5. TakesStatus(buildEvents(h), m)
    BY <1>3 DEF characterizeAppendability, buildEvents
<1>6. buildEvents(h)[m].status = h[m].status /\ buildEvents(h)[m - 1].status = "done"
    BY <1>3, <1>4 DEF buildEvents
<1>7. StatusAt(buildEvents(h), m - 1) = "done"
    BY <1>3, <1>6 DEF StatusAt
<1>8. allowedNext("done") = {}
    BY DEF allowedNext
<1>9. h[m].status = "done"
    BY <1>5, <1>6, <1>7, <1>8 DEF TakesStatus
<1> QED
    BY <1>9

\* The board of the store means what the board of the files meant: an import that is taken
\* event by event keeps the failures and the completion of the task.
LEMMA ImportKeepsMeaning ==
  ASSUME NEW h \in Histories, characterizeAppendability(h)
  PROVE  Projected(h) = [attempts |-> foldBoard(h).attempts, done |-> foldBoard(h).status = "done"]
<1>1. PICK N \in Nat : DOMAIN h = 1 .. N /\ \A n \in 1 .. N : h[n] \in LegacyEvents
    BY HistoryShape
<1> DEFINE es == buildEvents(h)
           taken == {n \in DOMAIN es : TakesStatus(es, n)}
           told == {n \in DOMAIN h : h[n].status # "claimed" \/ \A m \in Claims(h) : n <= m}
           last == CHOOSE n \in told : \A m \in told : m <= n
<1>2. taken = DOMAIN h /\ \A n \in DOMAIN h : es[n].status = h[n].status
    BY DEF characterizeAppendability, buildEvents
<1>3. {n \in taken : es[n].status = "blocked"} = {n \in DOMAIN h : h[n].status = "blocked"}
    BY <1>2
<1>4. ASSUME told # {}
      PROVE  last \in told /\ \A m \in told : m <= last
  <2>1. told \in SUBSET (1 .. N)
      BY <1>1
  <2>2. \E n \in told : \A m \in told : m <= n
    <3> HIDE DEF told
    <3> QED
        BY <1>4, <2>1, GreatestOf
  <2> QED
      BY <2>2
<1>5. ASSUME NEW d \in taken, es[d].status = "done"
      PROVE  told # {} /\ h[last].status = "done"
  <2>1. d \in 1 .. N /\ h[d].status = "done"
      BY <1>1, <1>2, <1>5
  <2>2. d \in told
      BY <1>1, <2>1
  <2>3. last \in 1 .. N /\ d <= last
      BY <1>1, <1>4, <2>2
  <2> QED
      BY <1>1, <2>1, <2>2, <2>3, DoneIsFinal
<1>6. ASSUME told # {}, h[last].status = "done"
      PROVE  \E n \in taken : es[n].status = "done"
  <2>1. last \in DOMAIN h
      BY <1>4, <1>6
  <2> QED
      BY <1>2, <1>6, <2>1
<1>7. foldBoard(h) = [attempts |-> Cardinality({n \in DOMAIN h : h[n].status = "blocked"}),
                      status |-> IF told = {} THEN "open" ELSE h[last].status]
    BY DEF foldBoard
<1> DEFINE finished == \E n \in taken : es[n].status = "done"
<1>8. (foldBoard(h).status = "done") = finished
  <2>1. foldBoard(h).status = IF told = {} THEN "open" ELSE h[last].status
      BY <1>7
  <2>2. finished => told # {} /\ h[last].status = "done"
      BY <1>5
  <2>3. told # {} /\ h[last].status = "done" => finished
      BY <1>6
  <2> HIDE DEF finished, told, last
  <2>4. (foldBoard(h).status = "done") <=> finished
      BY <2>1, <2>2, <2>3
  <2>5. finished \in BOOLEAN
      BY DEF finished
  <2> QED
      BY <2>4, <2>5
<1>9. Projected(h) = [attempts |-> Cardinality({n \in taken : es[n].status = "blocked"}),
                      done |-> finished]
    BY DEF Projected
<1>10. foldBoard(h).attempts = Cardinality({n \in taken : es[n].status = "blocked"})
  <2>1. foldBoard(h).attempts = Cardinality({n \in DOMAIN h : h[n].status = "blocked"})
    <3> DEFINE failures == Cardinality({n \in DOMAIN h : h[n].status = "blocked"})
    <3>1. foldBoard(h) = [attempts |-> failures,
                          status |-> IF told = {} THEN "open" ELSE h[last].status]
        BY <1>7
    <3> HIDE DEF failures, told, last
    <3>2. foldBoard(h).attempts = failures
        BY <3>1
    <3> QED
        BY <3>2 DEF failures
  <2> QED
      BY <1>3, <2>1, Zenon
<1> HIDE DEF taken, es, told, last, finished
<1> QED
    BY <1>8, <1>9, <1>10

LEMMA CutoverImplies == CutoverInv => MarkerIsProof
<1> SUFFICES ASSUME CutoverInv PROVE MarkerIsProof
    OBVIOUS
<1>1. ASSUME marker # 0
      PROVE  archive = [copied |-> LegacyLeaves, listed |-> TRUE]
    BY <1>1 DEF CutoverInv, CutoverTypeOK, ArchiveWhole, MarkerProven
<1>2. ASSUME marker # 0
      PROVE  Projected(history) = [attempts |-> foldBoard(history).attempts,
                                   done |-> foldBoard(history).status = "done"]
    BY <1>2, ImportKeepsMeaning DEF CutoverInv, CutoverTypeOK, MarkerProven, Appendable
<1> QED
    BY <1>1, <1>2 DEF CutoverInv, MarkerProven, MarkerIsProof

\* Whatever a crash undoes, a marker that is found stands for a complete import, with its
\* receipt, of the files that were archived, and the board means the same in it
\* (cutoverControlAuthority, executeLegacyImport, characterizeAppendability).
THEOREM MarkerAlwaysProof == CutoverSpec => []MarkerIsProof
BY CutoverInitInv, CutoverStep, CutoverImplies, PTL DEF CutoverSpec

-----------------------------------------------------------------------------
(* Publication.                                                            *)

\* Where advance is fits the canonical state: no event comes between the two.
StepFits ==
  /\ pubStep \in {"push", "observe"} => pub = "push_intent"
  /\ pubStep = "create" => pub = "pr_intent"

\* The histories have seen what the remote shows now.
RemoteSeen ==
  /\ branch = "ours" => landed
  /\ exactPullRequest => opened

\* The canonical state claims no more than the histories have seen.
ClaimsSeen ==
  /\ pub \in {"branch_published", "pr_intent", "pr_ambiguous", "published"} => landed
  /\ pub = "published" => opened

PublicationInv == PublicationTypeOK /\ StepFits /\ RemoteSeen /\ ClaimsSeen

LEMMA PublicationInitInv == PublicationInit => PublicationInv
<1> SUFFICES ASSUME PublicationInit PROVE PublicationInv
    OBVIOUS
<1> USE DEF PublicationInit
<1>1. PublicationTypeOK
    BY DEF PublicationTypeOK, PublicationStates
<1>2. StepFits /\ RemoteSeen /\ ClaimsSeen
    BY DEF StepFits, RemoteSeen, ClaimsSeen, exactPullRequest
<1> QED
    BY <1>1, <1>2 DEF PublicationInv

LEMMA PublicationStep == PublicationInv /\ [PublicationNext]_pubVars => PublicationInv'
<1> SUFFICES ASSUME PublicationInv, [PublicationNext]_pubVars PROVE PublicationInv'
    OBVIOUS
<1> USE DEF PublicationInv, PublicationTypeOK, StepFits, RemoteSeen, ClaimsSeen,
            exactPullRequest, PublicationStates
<1>1. CASE seedPublicationTargets
    BY <1>1 DEF seedPublicationTargets
<1>2. CASE ensureRecorded
    BY <1>2 DEF ensureRecorded, Elsewhere
<1>3. CASE advance
    BY <1>3 DEF advance, transition, transitionScmPublication, Elsewhere
<1>4. CASE publishScmBranch
    BY <1>4 DEF publishScmBranch, transition, transitionScmPublication, Elsewhere,
                observeRemoteRef, reconcileObservation
<1>5. CASE push
    BY <1>5 DEF push, Applied, buildScmPushPlan
<1>6. CASE publishScmBranchAfter
    BY <1>6 DEF publishScmBranchAfter, transition, transitionScmPublication, Elsewhere,
                observeRemoteRef, reconcileObservation
<1>7. CASE lookupPullRequests
    BY <1>7 DEF lookupPullRequests, decidePullRequestRecovery, transition,
                transitionScmPublication, Elsewhere
<1>8. CASE createPullRequest
    BY ZenonT(40), <1>8 DEF createPullRequest, Open, transition, transitionScmPublication
<1>9. CASE ensureCrossLinks
    BY <1>9 DEF ensureCrossLinks
<1>10. CASE LateEffect
  <2>1. inFlight' \subseteq {"push", "create"}
      BY <1>10 DEF LateEffect
  <2>2. /\ landed' \in BOOLEAN /\ opened' \in BOOLEAN
        /\ branch' \in {"expected", "ours", "other"} /\ pull' \in {"none", "same", "differs"}
      BY <1>10 DEF LateEffect, Applied, buildScmPushPlan, Open
  <2>3. RemoteSeen' /\ ClaimsSeen'
      BY <1>10 DEF LateEffect, Applied, buildScmPushPlan, Open
  <2>4. UNCHANGED <<target, pub, pubStep, body, linked, pubCrashes, foreignMoves>>
      BY <1>10 DEF LateEffect
  <2> QED
      BY <2>1, <2>2, <2>3, <2>4
<1>11. CASE ForeignWrite
    BY <1>11 DEF ForeignWrite, Open
<1>12. CASE PublicationStops
    BY <1>12 DEF PublicationStops
<1>13. CASE UNCHANGED pubVars
    BY <1>13 DEF pubVars
<1> QED
    BY <1>1, <1>2, <1>3, <1>4, <1>5, <1>6, <1>7, <1>8, <1>9, <1>10, <1>11, <1>12, <1>13
    DEF PublicationNext

\* The saga is told nothing of the remote that did not happen (publishScmBranch, advance,
\* decidePullRequestRecovery), for any number of crashes and foreign writes.
THEOREM PublicationAlwaysTrue == PublicationSpec => []PublicationIsTrue
<1>1. PublicationInv => PublicationIsTrue
    BY DEF PublicationInv, ClaimsSeen, PublicationIsTrue, publishBranchEffect, ensurePullRequestEffect
<1> QED
    BY <1>1, PublicationInitInv, PublicationStep, PTL DEF PublicationSpec

\* A branch somebody else moved is never overwritten: the push carries its lease to the server.
THEOREM ForeignBranchAlwaysKept == PublicationSpec => ForeignBranchKept
<1>1. [PublicationNext]_pubVars => [branch = "other" => branch' = "other"]_pubVars
    BY DEF PublicationNext, pubVars, seedPublicationTargets, ensureRecorded, advance,
           publishScmBranch, push, publishScmBranchAfter, lookupPullRequests, createPullRequest,
           ensureCrossLinks, LateEffect, ForeignWrite, PublicationStops, Elsewhere, Applied,
           buildScmPushPlan
<1> QED
    BY <1>1, PTL DEF PublicationSpec, ForeignBranchKept
-----------------------------------------------------------------------------
(* Listings and their cache.                                               *)

ProviderTypeOK ==
  /\ posted \in [Listings -> [PageNumbers -> Nat]]
  /\ cache \in [Listings -> [kept : BOOLEAN, shows : SUBSET PageNumbers, at : Nat]]
  /\ listing \in [Listings -> [state : {"unread", "complete", "partial", "failed"},
                               shows : SUBSET PageNumbers]]
  /\ reading \in [Listings -> [page : 0 .. Pages, shows : SUBSET PageNumbers]]
  /\ bucket \in [state : {"none", "complete", "partial"}, at : Nat,
                 shows : [Listings -> SUBSET PageNumbers]]
  /\ clock \in 0 .. MaxTicks /\ bucket.at <= clock

\* A remembered listing shows everything posted before the tick it was read in; the clock
\* does not move while a listing is read.
CacheSound ==
  \A l \in Listings :
    /\ cache[l].at <= clock
    /\ cache[l].kept => \A p \in PageNumbers : posted[l][p] < cache[l].at => p \in cache[l].shows

\* The pages behind the one that is read next show what was posted before this tick.
ReadingSound ==
  \A l \in Listings : \A p \in PageNumbers :
    p < reading[l].page /\ posted[l][p] < clock => p \in reading[l].shows

\* A complete listing of this observation is within the age limit.
ListingSound ==
  \A l \in Listings : listing[l].state = "complete" =>
    \A p \in PageNumbers : posted[l][p] + MaxGuardAge <= clock => p \in listing[l].shows

ProviderInv == ProviderTypeOK /\ CacheSound /\ ReadingSound /\ ListingSound /\ StalenessBounded

LEMMA ProviderInitInv == ProviderInit => ProviderInv
BY ProviderBounds
DEF ProviderInit, ProviderInv, ProviderTypeOK, CacheSound, ReadingSound, ListingSound,
    StalenessBounded, Unread, NotReading, Never, PageNumbers

LEMMA ProviderStep == ProviderInv /\ [ProviderNext]_providerVars => ProviderInv'
<1> SUFFICES ASSUME ProviderInv, [ProviderNext]_providerVars PROVE ProviderInv'
    OBVIOUS
<1> USE ProviderBounds DEF ProviderInv, ProviderTypeOK, CacheSound, ReadingSound, ListingSound,
        StalenessBounded
<1>1. ASSUME NEW l \in Listings, requestFirstPage(l) PROVE ProviderInv'
  <2>1. UNCHANGED <<posted, threads, logs, bucket, clock, cache>>
      BY <1>1 DEF requestFirstPage, rememberConfirmed
  <2>3. CASE NotModified(l) /\ UNCHANGED reading
             /\ listing' = [listing EXCEPT ![l] = [state |-> "complete", shows |-> cache[l].shows]]
    <3>1. cache[l].kept /\ clock - cache[l].at < MaxGuardAge
        BY <2>3 DEF NotModified, shouldForce
    <3>2. ListingSound'
      <4>1. \A p \in PageNumbers : posted[l][p] + MaxGuardAge <= clock => posted[l][p] < cache[l].at
          BY <3>1
      <4> QED
          BY <2>1, <2>3, <3>1, <4>1
    <3>3. ProviderTypeOK'
        BY <2>1, <2>3
    <3> QED
        BY <2>1, <2>3, <3>2, <3>3
  <2>4. CASE reading' = [reading EXCEPT ![l] = [page |-> 1, shows |-> {}]] /\ UNCHANGED listing
    <3>1. reading' \in [Listings -> [page : 0 .. Pages, shows : SUBSET PageNumbers]]
        BY <2>4
    <3>2. ReadingSound'
        BY SMTT(40), <2>1, <2>4 DEF PageNumbers
    <3> QED
        BY <2>1, <2>4, <3>1, <3>2
  <2>5. CASE listing' = [listing EXCEPT ![l].state = "failed"] /\ UNCHANGED reading
      BY SMTT(40), <2>1, <2>5
  <2> QED
      BY <1>1, <2>3, <2>4, <2>5 DEF requestFirstPage
<1>2. ASSUME NEW l \in Listings, paginated(l) PROVE ProviderInv'
  <2> DEFINE page == reading[l].page
             seen == reading[l].shows \cup ({page} \cap Shown(l))
  <2>1. UNCHANGED <<posted, threads, logs, bucket, clock>> /\ page \in 1 .. Pages
      BY <1>2 DEF paginated
  <2>2. seen \in SUBSET PageNumbers
      BY DEF Shown
  <2>3. \A p \in PageNumbers : p <= page /\ posted[l][p] < clock => p \in seen
      BY <2>1 DEF Shown, Never, PageNumbers
  <2> HIDE DEF seen
  <2>4. CASE page < Pages /\ UNCHANGED <<cache, listing>>
             /\ reading' = [reading EXCEPT ![l] = [page |-> page + 1, shows |-> seen]]
    <3>1. reading' \in [Listings -> [page : 0 .. Pages, shows : SUBSET PageNumbers]]
        BY <2>1, <2>2, <2>4
    <3>2. ReadingSound'
        BY <2>1, <2>3, <2>4 DEF PageNumbers
    <3> QED
        BY <2>1, <2>4, <3>1, <3>2
  <2>5. ASSUME reading' = [reading EXCEPT ![l] = NotReading]
        PROVE  /\ reading' \in [Listings -> [page : 0 .. Pages, shows : SUBSET PageNumbers]]
               /\ ReadingSound'
    <3>1. NotReading \in [page : 0 .. Pages, shows : SUBSET PageNumbers]
        BY DEF NotReading
    <3>2. reading' \in [Listings -> [page : 0 .. Pages, shows : SUBSET PageNumbers]]
        BY <2>5, <3>1
    <3>3. reading'[l].page = 0 /\ \A k \in Listings : k # l => reading'[k] = reading[k]
        BY <2>5 DEF NotReading
    <3>4. \A p \in PageNumbers : ~(p < 0)
        BY DEF PageNumbers
    <3>5. ReadingSound'
        BY <2>1, <3>3, <3>4
    <3> QED
        BY <3>2, <3>5
  <2>6. CASE page = Pages /\ reading' = [reading EXCEPT ![l] = NotReading]
             /\ listing' = [listing EXCEPT ![l] = [state |-> "complete", shows |-> seen]]
             /\ cache' = [cache EXCEPT ![l] = rememberEndpoint(l, seen)]
    <3>1. \A p \in PageNumbers : posted[l][p] < clock => p \in seen
        BY <2>3, <2>6 DEF PageNumbers
    <3>2. CacheSound' /\ ListingSound'
        BY <2>1, <2>6, <3>1 DEF rememberEndpoint
    <3>3. ProviderTypeOK'
        BY <2>1, <2>2, <2>5, <2>6 DEF rememberEndpoint
    <3> QED
        BY <2>1, <2>5, <2>6, <3>2, <3>3
  <2>7. CASE reading' = [reading EXCEPT ![l] = NotReading] /\ UNCHANGED cache
             /\ listing' = [listing EXCEPT ![l] = [state |-> "partial", shows |-> reading[l].shows]]
      BY <2>1, <2>5, <2>7
  <2> QED
      BY <1>2, <2>4, <2>6, <2>7 DEF paginated, seen
<1>3. CASE reviewThreads \/ failureLogs
    BY <1>3 DEF reviewThreads, failureLogs
<1>4. CASE reviewBucket
    BY <1>4 DEF reviewBucket, Read, completeness, Unread
<1>5. CASE observeCancelled
  <2>1. ProviderTypeOK'
      BY <1>5 DEF observeCancelled, Unread, NotReading, PageNumbers
  <2>2. CacheSound'
      BY <1>5 DEF observeCancelled, Unread, NotReading, PageNumbers
  <2>3. ReadingSound'
      BY <1>5 DEF observeCancelled, Unread, NotReading, PageNumbers
  <2>4. ListingSound'
      BY <1>5 DEF observeCancelled, Unread, NotReading, PageNumbers
  <2>5. StalenessBounded'
      BY <1>5 DEF observeCancelled, Unread, NotReading, PageNumbers
  <2> QED
      BY <2>1, <2>2, <2>3, <2>4, <2>5
<1>6. ASSUME NEW l \in Listings, NEW p \in PageNumbers, Post(l, p) PROVE ProviderInv'
    BY <1>6 DEF Post
<1>7. CASE Tick
  <2>1. ProviderTypeOK'
      BY <1>7 DEF Tick, Unread, NotReading, PageNumbers
  <2>2. CacheSound'
      BY <1>7 DEF Tick, Unread, NotReading, PageNumbers
  <2>3. ReadingSound'
      BY <1>7 DEF Tick, Unread, NotReading, PageNumbers
  <2>4. ListingSound'
      BY <1>7 DEF Tick, Unread, NotReading, PageNumbers
  <2>5. StalenessBounded'
      BY <1>7 DEF Tick, Unread, NotReading, PageNumbers
  <2> QED
      BY <2>1, <2>2, <2>3, <2>4, <2>5
<1>8. CASE UNCHANGED providerVars
    BY <1>8 DEF providerVars
<1> QED
    BY <1>1, <1>2, <1>3, <1>4, <1>5, <1>6, <1>7, <1>8 DEF ProviderNext

\* A complete bucket shows everything posted an age limit before it, on any page, for any
\* number of listings and pages (shouldForce, rememberEndpoint).
THEOREM StalenessAlwaysBounded == ProviderSpec => []StalenessBounded
<1>1. ProviderInv => StalenessBounded
    BY DEF ProviderInv
<1> QED
    BY <1>1, ProviderInitInv, ProviderStep, PTL DEF ProviderSpec

-----------------------------------------------------------------------------
(* Reactions.                                                              *)

ReactionStates == {"absent", "pending", "command_admitted", "included", "failed_retryable"} \cup Finished

ObserverTypeOK ==
  /\ hosted \in [FactKinds -> SUBSET Items]
  /\ buckets \in [FactKinds -> [complete : BOOLEAN, open : SUBSET Items]]
  /\ reactions \in [ReactionKeys -> [state : ReactionStates, replaces : ReactionKeys \cup {NoKey}]]

\* The first two parts of FeedbackTracksFacts, from which the third follows.
ActiveIsOpen == \A r \in ReactionKeys : Active(r) => r[2] = buckets[r[1]].open

OpenHasReaction ==
  \A k \in FactKinds : buckets[k].open # {} => reactions[<<k, buckets[k].open>>].state # "absent"

ObserverInv == ObserverTypeOK /\ ActiveIsOpen /\ OpenHasReaction

LEMMA ObserverInitInv == ObserverInit => ObserverInv
BY DEF ObserverInit, ObserverInv, ObserverTypeOK, ActiveIsOpen, OpenHasReaction, ReactionStates,
       Finished, Active, Unknown, FactKinds
\* The key of a reaction is a kind and a set of evidence that is not empty.
LEMMA KeyOf == \A k \in FactKinds, s \in SUBSET Items : s # {} => <<k, s>> \in ReactionKeys
<1> TAKE k \in FactKinds, s \in SUBSET Items
<1> HAVE s # {}
<1>1. s \in (SUBSET Items) \ {{}}
    OBVIOUS
<1> QED
    BY <1>1 DEF ReactionKeys

LEMMA KeyParts == \A r \in ReactionKeys :
  r[1] \in FactKinds /\ r[2] \in SUBSET Items /\ r[2] # {} /\ r = <<r[1], r[2]>>
<1> TAKE r \in ReactionKeys
<1>1. PICK k \in FactKinds, s \in (SUBSET Items) \ {{}} : r = <<k, s>>
    BY DEF ReactionKeys
<1> QED
    BY <1>1

\* Facts stay within the items, and an answer that failed changes nothing.
LEMMA PlannedFacts ==
  ASSUME ObserverTypeOK, NEW k \in FactKinds, NEW fetched \in Fetched
  PROVE  /\ bucketPlan(k, fetched) \in [complete : BOOLEAN, open : SUBSET Items]
         /\ ~fetched.ok => bucketPlan(k, fetched) = buckets[k]
<1>1. buckets[k] \in [complete : BOOLEAN, open : SUBSET Items] /\ hosted[k] \in SUBSET Items
    BY DEF ObserverTypeOK
<1>2. CASE ~fetched.ok
  <2>1. decideBucketUpdate(buckets[k], fetched) = "preserve"
      BY <1>2 DEF decideBucketUpdate
  <2> QED
      BY <1>1, <2>1 DEF bucketPlan
<1>3. CASE fetched.ok
  <2> DEFINE seen == IF k = "ci" THEN normalizeCheckWindow(fetched.covers)
                                 ELSE normalizeReviewWindow(fetched.covers)
  <2>1. seen \in SUBSET Items
      BY <1>1 DEF normalizeCheckWindow, normalizeReviewWindow, FactKinds
  <2>2. bucketPlan(k, fetched) \in {mergedPartial(buckets[k], fetched.covers, seen),
                                   [complete |-> fetched.covers = Items, open |-> seen]}
      BY <1>3 DEF bucketPlan, decideBucketUpdate
  <2>3. mergedPartial(buckets[k], fetched.covers, seen) \in [complete : BOOLEAN, open : SUBSET Items]
      BY <1>1, <2>1 DEF mergedPartial, mergePartialFacts
  <2>4. [complete |-> fetched.covers = Items, open |-> seen] \in [complete : BOOLEAN, open : SUBSET Items]
      BY <2>1
  <2> QED
      BY <1>3, <2>2, <2>3, <2>4
<1> QED
    BY <1>2, <1>3

\* A reaction is only ever moved from an active state.
LEMMA ReconcileStep == ObserverInv /\ reconcileReactions => ObserverInv'
<1> SUFFICES ASSUME ObserverInv, reconcileReactions PROVE ObserverInv'
    OBVIOUS
<1>1. UNCHANGED <<hosted, buckets>>
    BY DEF reconcileReactions
<1>2. CASE UNCHANGED reactions
    BY <1>1, <1>2 DEF ObserverInv, ObserverTypeOK, ActiveIsOpen, OpenHasReaction, Active
<1>3. CASE ~UNCHANGED reactions
  <2>1. PICK n \in Unsettled, to \in {"included", "command_admitted", "refused", "superseded", "failed_retryable"} :
           reactions' = [reactions EXCEPT ![created[n]].state = to]
      BY <1>3 DEF reconcileReactions, reactionTransition, After
  <2>2. reactions[created[n]].state \in {"pending", "command_admitted", "failed_retryable"}
      BY DEF Unsettled
  <2>3. \A r \in ReactionKeys : Active(r)' => Active(r)
      BY <2>1, <2>2 DEF Active, Finished, ObserverInv, ObserverTypeOK
  <2>4. ObserverTypeOK'
      BY <1>1, <2>1 DEF ObserverInv, ObserverTypeOK, ReactionStates, Finished
  <2>5. \A r \in ReactionKeys : reactions[r].state # "absent" => reactions'[r].state # "absent"
      BY <2>1 DEF ObserverInv, ObserverTypeOK
  <2>6. ActiveIsOpen'
      BY <1>1, <2>3 DEF ObserverInv, ActiveIsOpen
  <2>7. \A k \in FactKinds : buckets[k].open # {} => <<k, buckets[k].open>> \in ReactionKeys
      BY KeyOf DEF ObserverInv, ObserverTypeOK
  <2>8. OpenHasReaction'
      BY <1>1, <2>5, <2>7 DEF ObserverInv, OpenHasReaction
  <2> QED
      BY <2>4, <2>6, <2>8 DEF ObserverInv
<1> QED
    BY <1>2, <1>3

\* A poll's result replaces facts and reactions together.
LEMMA CommitStep == ObserverInv /\ commitObservation => ObserverInv'
<1> SUFFICES ASSUME ObserverInv, commitObservation PROVE ObserverInv'
    OBVIOUS
<1>1. CASE UNCHANGED <<buckets, reactions>>
    BY <1>1 DEF commitObservation, ObserverInv, ObserverTypeOK, ActiveIsOpen, OpenHasReaction, Active
<1>2. CASE ~UNCHANGED <<buckets, reactions>>
  <2>1. PICK answer \in [FactKinds -> Fetched] :
          LET accepted == {k \in FactKinds : answer[k].ok}
              facts == [k \in FactKinds |-> bucketPlan(k, answer[k])]
              retired == Retired(accepted, facts)
              new == UNION {planScmReactions(k, facts[k].open) : k \in accepted}
          IN /\ buckets' = facts
             /\ reactions' = [r \in ReactionKeys |->
                  IF r \in new THEN Successor(r)
                  ELSE IF r \notin retired THEN reactions[r]
                  ELSE [reactions[r] EXCEPT !.state =
                          IF @ = "included" THEN "observation_resolved" ELSE "superseded"]]
      BY <1>2 DEF commitObservation
  <2> DEFINE accepted == {k \in FactKinds : answer[k].ok}
             facts == [k \in FactKinds |-> bucketPlan(k, answer[k])]
             retired == Retired(accepted, facts)
             new == UNION {planScmReactions(k, facts[k].open) : k \in accepted}
  <2>2. UNCHANGED hosted
      BY DEF commitObservation
  <2>3. \A k \in FactKinds : /\ facts[k] \in [complete : BOOLEAN, open : SUBSET Items]
                             /\ k \notin accepted => facts[k] = buckets[k]
      BY PlannedFacts DEF ObserverInv
  <2>5. \A r \in ReactionKeys : r \in new => /\ r[1] \in accepted /\ r[2] = facts[r[1]].open
                                           /\ reactions[r].state = "absent"
      BY DEF planScmReactions
  <2>6. \A k \in accepted : facts[k].open # {} /\ reactions[<<k, facts[k].open>>].state = "absent"
                             => <<k, facts[k].open>> \in new
      BY DEF planScmReactions
  <2>7. \A r \in retired : Active(r) /\ r[1] \in accepted /\ r[2] # facts[r[1]].open
      BY DEF Retired
  <2>8. \A r \in ReactionKeys : r[1] \in accepted /\ r[2] # facts[r[1]].open /\ Active(r) => r \in retired
      BY DEF Retired
  <2>9. \A r \in ReactionKeys : /\ Successor(r).state = "pending"
                               /\ Successor(r) \in [state : ReactionStates, replaces : ReactionKeys \cup {NoKey}]
      BY DEF Successor, Prior, ReactionStates
  <2>10. buckets' = facts /\ reactions' = [r \in ReactionKeys |->
                  IF r \in new THEN Successor(r)
                  ELSE IF r \notin retired THEN reactions[r]
                  ELSE [reactions[r] EXCEPT !.state =
                          IF @ = "included" THEN "observation_resolved" ELSE "superseded"]]
      BY <2>1
  <2> HIDE DEF accepted, facts, retired, new
  <2>11. ObserverTypeOK'
      BY <2>2, <2>3, <2>9, <2>10 DEF ObserverInv, ObserverTypeOK, ReactionStates, Finished, facts
  <2>12. \A r \in ReactionKeys :
           /\ r \in new => reactions'[r].state = "pending"
           /\ r \notin new /\ r \notin retired => reactions'[r] = reactions[r]
           /\ r \notin new /\ r \in retired => reactions'[r].state \in Finished
      BY <2>9, <2>10 DEF ObserverInv, ObserverTypeOK, Finished
  <2>13. ActiveIsOpen'
    <3> SUFFICES ASSUME NEW r \in ReactionKeys, Active(r)' PROVE r[2] = facts[r[1]].open
        BY <2>10 DEF ActiveIsOpen
    <3>1. CASE r \in new
        BY <2>5, <3>1
    <3>2. CASE r \notin new
      <4>1. r \notin retired /\ Active(r)
          BY <2>12, <3>2 DEF Active
      <4> QED
          BY <2>3, <2>8, <4>1, KeyParts DEF ObserverInv, ActiveIsOpen
    <3> QED
        BY <3>1, <3>2
  <2>14. OpenHasReaction'
    <3> SUFFICES ASSUME NEW k \in FactKinds, facts[k].open # {}
                 PROVE  reactions'[<<k, facts[k].open>>].state # "absent"
        BY <2>10 DEF OpenHasReaction
    <3> DEFINE r == <<k, facts[k].open>>
    <3>1. r \in ReactionKeys
        BY <2>3, KeyOf
    <3>2. CASE k \in accepted /\ reactions[r].state = "absent"
        BY <2>6, <2>12, <3>1, <3>2
    <3>3. CASE reactions[r].state # "absent"
        BY <2>12, <3>1, <3>3 DEF Finished
    <3>4. CASE k \notin accepted
        BY <2>3, <3>3, <3>4 DEF ObserverInv, OpenHasReaction
    <3> QED
        BY <3>2, <3>3, <3>4
  <2> QED
      BY <2>11, <2>13, <2>14 DEF ObserverInv
<1> QED
    BY <1>1, <1>2

LEMMA ObserverStep == ObserverInv /\ [ObserverNext]_obsVars => ObserverInv'
<1> SUFFICES ASSUME ObserverInv, [ObserverNext]_obsVars PROVE ObserverInv'
    OBVIOUS
<1>1. CASE reconcileReactions
    BY <1>1, ReconcileStep
<1>2. CASE commitObservation
    BY <1>2, CommitStep
<1>3. ASSUME UNCHANGED <<buckets, reactions>>, hosted' \in [FactKinds -> SUBSET Items]
      PROVE  ObserverInv'
    BY <1>3 DEF ObserverInv, ObserverTypeOK, ActiveIsOpen, OpenHasReaction, Active
<1>4. ASSUME NEW k \in FactKinds, NEW i \in Items, Feedback(k, i) PROVE ObserverInv'
    BY <1>3, <1>4 DEF Feedback, ObserverInv, ObserverTypeOK
<1>5. CASE scanPublished \/ pollStarted \/ persistPollFailure \/ ObserverRestart \/ UNCHANGED obsVars
    BY <1>3, <1>5 DEF scanPublished, pollStarted, persistPollFailure, ObserverRestart, obsVars,
                      ObserverInv, ObserverTypeOK
<1>6. ASSUME NEW r \in ReactionKeys, CommandResolved(r) PROVE ObserverInv'
    BY <1>3, <1>6 DEF CommandResolved, ObserverInv, ObserverTypeOK
<1> QED
    BY <1>1, <1>2, <1>4, <1>5, <1>6 DEF ObserverNext

\* Active reactions are about exactly the evidence known to be open, open evidence has had
\* one, and a ready pull request has none (poll, reconcileReactions, planScmReactions), for
\* any set of checks and threads.
THEOREM FeedbackAlwaysTracksFacts == ObserverSpec => []FeedbackTracksFacts
<1>1. ObserverInv => FeedbackTracksFacts
    BY KeyParts DEF ObserverInv, ActiveIsOpen, OpenHasReaction, FeedbackTracksFacts, deriveScmReadiness
<1> QED
    BY <1>1, ObserverInitInv, ObserverStep, PTL DEF ObserverSpec

-----------------------------------------------------------------------------
(* The transcript's read model.  The observations are accounted for by where *)
(* the lines of the committed prefix begin and end; the loop over the bytes  *)
(* of a poll keeps that accounting from turn to turn, which a least turn     *)
(* that lost it would contradict, and a poll commits what the loop left.     *)

(* What holds of 0 and passes from each turn to the next holds of all.       *)
LEMMA TurnByTurn ==
  ASSUME NEW n \in Nat, NEW T, 0 \in T,
         \A k \in 0 .. n : k # n /\ k \in T => k + 1 \in T
  PROVE  0 .. n \subseteq T
<1>1. SUFFICES ASSUME (0 .. n) \ T # {}
               PROVE  FALSE
  OBVIOUS
<1>2. (0 .. n) \ T \subseteq Nat
  OBVIOUS
<1>3. PICK x \in (0 .. n) \ T : \A y \in (0 .. n) \ T : x <= y
  BY <1>1, <1>2, LeastOf
<1>4. x # 0 /\ x - 1 \in 0 .. n /\ x - 1 # n
  BY <1>3
<1>5. x - 1 \in T
  BY <1>3, <1>4
<1> QED
  BY <1>3, <1>4, <1>5

(* The turns of the loop over some bytes, from a start.                      *)
Turns(bytes, start) ==
  LET after[lap \in 0 .. Len(bytes) + 1] ==
        IF lap = 0 THEN start ELSE IngestStep(after[lap - 1], bytes)
  IN after

IngestFirst(path) ==
  [pos |-> 0, out |-> <<>>, stop |-> FALSE, quiet |-> 0,
                ordinal |-> checkpoint.ordinal, discarding |-> checkpoint.discarding,
                discarded |-> checkpoint.discarded, dropped |-> checkpoint.dropped,
                droppedBytes |-> checkpoint.droppedBytes,
                integrity |-> IF path = "current" THEN checkpoint.integrity ELSE "replaced"]

(* The loop's result is the last of its turns.                               *)
LEMMA LoopIsTurns ==
  ASSUME NEW bytes, NEW path
  PROVE  IngestLoop(bytes, path) = Turns(bytes, IngestFirst(path))[Len(bytes) + 1]
  BY Zenon DEF IngestLoop, Turns, IngestFirst

(* The first k turns. *)
FirstTurns(bytes, start, k, f) ==
  /\ f = [lap \in 0 .. k |-> f[lap]]
  /\ f[0] = start
  /\ \A lap \in 1 .. k : f[lap] = IngestStep(f[lap - 1], bytes)

(* There are turns: each of the first k is the step from the one before it.  *)
LEMMA TurnsExist ==
  ASSUME NEW bytes, Len(bytes) \in Nat, NEW start
  PROVE  \E f : FirstTurns(bytes, start, Len(bytes) + 1, f)
<1> DEFINE n == Len(bytes) + 1
           T == {k \in 0 .. n : \E f : FirstTurns(bytes, start, k, f)}
<1>1. n \in Nat
  OBVIOUS
<1>2. 0 \in T
  <2> DEFINE f == [lap \in 0 .. 0 |-> start]
  <2>1. f[0] = start /\ f = [lap \in 0 .. 0 |-> f[lap]]
    OBVIOUS
  <2> HIDE DEF f
  <2>2. FirstTurns(bytes, start, 0, f)
    BY <2>1 DEF FirstTurns
  <2> QED
    BY <1>1, <2>2
<1>3. ASSUME NEW k \in 0 .. n, k # n, k \in T
      PROVE  k + 1 \in T
  <2>1. PICK f : FirstTurns(bytes, start, k, f)
    BY <1>3
  <2> DEFINE g == [lap \in 0 .. k + 1 |-> IF lap = k + 1 THEN IngestStep(f[k], bytes) ELSE f[lap]]
  <2>2. /\ g = [lap \in 0 .. k + 1 |-> g[lap]]
        /\ g[0] = f[0]
        /\ g[k + 1] = IngestStep(f[k], bytes)
        /\ \A lap \in 0 .. k : g[lap] = f[lap]
    <3>1. k \in Nat /\ k + 1 # 0
      BY <1>1
    <3> QED
      BY <3>1
  <2> HIDE DEF g
  <2>3. \A lap \in 1 .. k + 1 : g[lap] = IngestStep(g[lap - 1], bytes)
    <3> SUFFICES ASSUME NEW lap \in 1 .. k + 1
                 PROVE  g[lap] = IngestStep(g[lap - 1], bytes)
      OBVIOUS
    <3>1. CASE lap = k + 1
      <4>1. lap - 1 = k /\ k \in 0 .. k
        BY <3>1, <1>1
      <4> QED
        BY <4>1, <3>1, <2>2, Zenon
    <3>2. CASE lap # k + 1
      <4>1. lap \in 1 .. k /\ lap \in 0 .. k /\ lap - 1 \in 0 .. k
        BY <3>2, <1>1
      <4>2. g[lap] = f[lap] /\ g[lap - 1] = f[lap - 1]
        BY <4>1, <2>2
      <4>3. f[lap] = IngestStep(f[lap - 1], bytes)
        BY <4>1, <2>1 DEF FirstTurns
      <4> QED
        BY <4>2, <4>3, Zenon
    <3> QED
      BY <3>1, <3>2
  <2>4. FirstTurns(bytes, start, k + 1, g)
    BY <2>1, <2>2, <2>3 DEF FirstTurns
  <2>5. k + 1 \in 0 .. n
    BY <1>1, <1>3
  <2> QED
    BY <2>4, <2>5
<1> HIDE DEF T
<1>4. 0 .. n \subseteq T
  <2>1. \A k \in 0 .. n : k # n /\ k \in T => k + 1 \in T
    BY <1>3
  <2> QED
    BY <1>1, <1>2, <2>1, TurnByTurn
<1>5. n \in 0 .. n
  BY <1>1
<1>6. n \in T
  BY <1>4, <1>5
<1> QED
  BY <1>6 DEF T

(* The turns start at the start, and each is the step from the one before.   *)
LEMMA TurnsAre ==
  ASSUME NEW bytes, Len(bytes) \in Nat, NEW start
  PROVE  /\ Turns(bytes, start)[0] = start
         /\ \A lap \in 1 .. Len(bytes) + 1 :
              Turns(bytes, start)[lap] = IngestStep(Turns(bytes, start)[lap - 1], bytes)
<1> DEFINE n == Len(bytes) + 1
           Def(f) == f = [lap \in 0 .. n |-> IF lap = 0 THEN start ELSE IngestStep(f[lap - 1], bytes)]
<1>1. PICK f : FirstTurns(bytes, start, n, f)
  BY TurnsExist
<1>2. Def(f)
  <2>1. \A lap \in 0 .. n : f[lap] = IF lap = 0 THEN start ELSE IngestStep(f[lap - 1], bytes)
    <3> SUFFICES ASSUME NEW lap \in 0 .. n
                 PROVE  f[lap] = IF lap = 0 THEN start ELSE IngestStep(f[lap - 1], bytes)
      OBVIOUS
    <3>1. CASE lap = 0
      BY <3>1, <1>1 DEF FirstTurns
    <3>2. CASE lap # 0
      <4>1. lap \in 1 .. n
        BY <3>2
      <4> QED
        BY <4>1, <3>2, <1>1, Zenon DEF FirstTurns
    <3> QED
      BY <3>1, <3>2
  <2>2. f = [lap \in 0 .. n |-> f[lap]]
    BY <1>1 DEF FirstTurns
  <2> QED
    BY <2>1, <2>2, Zenon
<1> DEFINE t == Turns(bytes, start)
<1>3. t = CHOOSE g : Def(g)
  BY Zenon DEF Turns
<1>4. Def(t)
  <2> HIDE DEF Def, t
  <2> QED
    BY <1>2, <1>3, Zenon
<1> HIDE DEF t
<1>5. t[0] = start
  <2>1. 0 \in 0 .. n
    OBVIOUS
  <2> QED
    BY <1>4, <2>1, Zenon
<1>6. ASSUME NEW lap \in 1 .. n
      PROVE  t[lap] = IngestStep(t[lap - 1], bytes)
  <2>1. lap \in 0 .. n /\ lap # 0
    OBVIOUS
  <2> QED
    BY <1>4, <2>1, Zenon
<1> QED
  BY <1>5, <1>6 DEF t

(* What the start has and each turn keeps, the end has.                      *)
LEMMA LoopKeeps ==
  ASSUME NEW bytes, Len(bytes) \in Nat, NEW path, NEW Good, IngestFirst(path) \in Good,
         \A s \in Good : IngestStep(s, bytes) \in Good
  PROVE  IngestLoop(bytes, path) \in Good
<1> DEFINE n == Len(bytes) + 1
           f == Turns(bytes, IngestFirst(path))
           T == {k \in 0 .. n : f[k] \in Good}
<1> HIDE DEF f
<1>1. f[0] = IngestFirst(path) /\ \A lap \in 1 .. n : f[lap] = IngestStep(f[lap - 1], bytes)
  BY TurnsAre DEF f
<1>2. 0 \in T /\ n \in Nat
  BY <1>1
<1>3. ASSUME NEW k \in 0 .. n, k # n, k \in T
      PROVE  k + 1 \in T
  <2>1. k + 1 \in 1 .. n /\ k + 1 \in 0 .. n /\ k + 1 - 1 = k
    BY <1>2, <1>3
  <2>2. f[k + 1] = IngestStep(f[k], bytes)
    BY <2>1, <1>1
  <2>3. f[k] \in Good
    BY <1>3
  <2>4. f[k + 1] \in Good
    BY <2>2, <2>3
  <2> QED
    BY <2>1, <2>4
<1> HIDE DEF T
<1>4. n \in T
  <2>1. \A k \in 0 .. n : k # n /\ k \in T => k + 1 \in T
    BY <1>3
  <2>2. 0 .. n \subseteq T
    BY <1>2, <2>1, TurnByTurn
  <2> QED
    BY <1>2, <2>2
<1> QED
  BY <1>4, LoopIsTurns DEF T, f

(* The alphabet, and the span of a line: the bytes strictly between its      *)
(* two ends.                                                                 *)
Byte == {"a", "z", "r", "n"}
Span == [from : Nat, to : Nat]
SpanText(B, l) == SubSeq(B, l.from + 1, l.to - 1)

(* The position a is where the last line of the first q bytes begins.        *)
LineStart(B, q, a) ==
  /\ a \in 0 .. q /\ (a = 0 \/ B[a] = "n")
  /\ \A i \in a + 1 .. q : B[i] # "n"

(* A line within the first q bytes that has its newline and says something.  *)
ClosedLine(B, q, l) ==
  /\ l \in Span /\ l.from < l.to /\ l.to <= q
  /\ l.from = 0 \/ B[l.from] = "n"
  /\ B[l.to] = "n"
  /\ \A i \in l.from + 1 .. l.to - 1 : B[i] # "n"
  /\ Trimmed(SpanText(B, l)) # <<>>

(* The list g names the closed lines of the first q bytes in order.          *)
ListsLines(B, q, n, g) ==
  /\ g \in [1 .. n -> Span]
  /\ \A i \in 1 .. n : ClosedLine(B, q, g[i])
  /\ \A i, j \in 1 .. n : i < j => g[i].from < g[j].from
  /\ \A l : ClosedLine(B, q, l) => \E i \in 1 .. n : l = g[i]

(* Bytes without a newline leave the line where it began.                    *)
LEMMA QuietBytes ==
  ASSUME NEW B, NEW q \in Nat, NEW a, LineStart(B, q, a),
         NEW e \in Nat, q <= e, \A i \in q + 1 .. e : B[i] # "n"
  PROVE  /\ LineStart(B, e, a)
         /\ \A l : ClosedLine(B, e, l) <=> ClosedLine(B, q, l)
<1>1. LineStart(B, e, a)
  BY DEF LineStart
<1>2. ASSUME NEW l, ClosedLine(B, e, l)
      PROVE  ClosedLine(B, q, l)
  <2>1. l.to <= q
    BY <1>2 DEF ClosedLine, Span
  <2> QED
    BY <2>1, <1>2 DEF ClosedLine
<1>3. ASSUME NEW l, ClosedLine(B, q, l)
      PROVE  ClosedLine(B, e, l)
  <2>1. l.to <= e
    BY <1>3 DEF ClosedLine, Span
  <2> QED
    BY <2>1, <1>3 DEF ClosedLine
<1> QED
  BY <1>1, <1>2, <1>3

(* A newline ends no line but the one that began at a.                       *)
LEMMA OnlyThatLine ==
  ASSUME NEW B, NEW q \in Nat, NEW a, LineStart(B, q, a),
         NEW e \in Nat, q < e, \A i \in q + 1 .. e - 1 : B[i] # "n",
         NEW l, ClosedLine(B, e, l)
  PROVE  ClosedLine(B, q, l) \/ l = [from |-> a, to |-> e]
<1>1. SUFFICES ASSUME ~ClosedLine(B, q, l)
               PROVE  l = [from |-> a, to |-> e]
  OBVIOUS
<1>2. l.to > q
  BY <1>1 DEF ClosedLine, Span
<1>3. l.to = e
  BY <1>2 DEF ClosedLine, Span
<1>4. l.from = a
  BY <1>3 DEF ClosedLine, Span, LineStart
<1> QED
  BY <1>3, <1>4 DEF ClosedLine, Span

(* The next newline ends the line that began at a, and no other.             *)
LEMMA NewlineCloses ==
  ASSUME NEW B, NEW q \in Nat, NEW a, LineStart(B, q, a),
         NEW e \in Nat, q < e, \A i \in q + 1 .. e - 1 : B[i] # "n", B[e] = "n"
  PROVE  /\ LineStart(B, e, e)
         /\ \A l : ClosedLine(B, q, l) => ClosedLine(B, e, l) /\ l.from < a
         /\ \A l : ClosedLine(B, e, l) => ClosedLine(B, q, l) \/ l = [from |-> a, to |-> e]
         /\ ClosedLine(B, e, [from |-> a, to |-> e]) <=> Trimmed(SubSeq(B, a + 1, e - 1)) # <<>>
<1>1. LineStart(B, e, e)
  BY DEF LineStart
<1>2. ASSUME NEW l, ClosedLine(B, q, l)
      PROVE  ClosedLine(B, e, l) /\ l.from < a
  <2>1. l.to <= e /\ l.from < a
    BY <1>2 DEF ClosedLine, Span, LineStart
  <2> QED
    BY <2>1, <1>2 DEF ClosedLine
<1>3. ASSUME NEW l, ClosedLine(B, e, l), ~ClosedLine(B, q, l)
      PROVE  l = [from |-> a, to |-> e]
  BY <1>3, OnlyThatLine
<1>4. ClosedLine(B, e, [from |-> a, to |-> e]) <=> Trimmed(SubSeq(B, a + 1, e - 1)) # <<>>
  <2> DEFINE l == [from |-> a, to |-> e]
  <2>1. l.from = a /\ l.to = e
    OBVIOUS
  <2>2. l \in Span /\ l.from < l.to /\ l.to <= e
    BY DEF Span, LineStart
  <2> HIDE DEF l
  <2>3. /\ l.from = 0 \/ B[l.from] = "n"
        /\ B[l.to] = "n"
        /\ \A i \in l.from + 1 .. l.to - 1 : B[i] # "n"
    BY <2>1, <2>2 DEF LineStart
  <2>4. SpanText(B, l) = SubSeq(B, a + 1, e - 1)
    BY <2>1 DEF SpanText
  <2>5. ClosedLine(B, e, l) <=> Trimmed(SubSeq(B, a + 1, e - 1)) # <<>>
    BY <2>2, <2>3, <2>4, Zenon DEF ClosedLine
  <2> QED
    BY <2>5 DEF l
<1> QED
  BY <1>1, <1>2, <1>3, <1>4

(* The list of an empty prefix.                                              *)
LEMMA NothingListed ==
  ASSUME NEW B
  PROVE  ListsLines(B, 0, 0, [i \in 1 .. 0 |-> [from |-> 0, to |-> 0]]) /\ LineStart(B, 0, 0)
<1>1. ASSUME NEW l
      PROVE  ~ClosedLine(B, 0, l)
  BY DEF ClosedLine, Span
<1>2. LineStart(B, 0, 0)
  BY DEF LineStart
<1> QED
  BY <1>1, <1>2 DEF ListsLines

(* Bytes without a newline do not change the list.                           *)
LEMMA ListKept ==
  ASSUME NEW B, NEW q \in Nat, NEW a, LineStart(B, q, a), NEW n, NEW g, ListsLines(B, q, n, g),
         NEW e \in Nat, q <= e, \A i \in q + 1 .. e : B[i] # "n"
  PROVE  ListsLines(B, e, n, g)
<1>1. \A l : ClosedLine(B, e, l) <=> ClosedLine(B, q, l)
  BY QuietBytes
<1> QED
  BY <1>1, Zenon DEF ListsLines

(* An empty line does not either.                                            *)
LEMMA ListSkips ==
  ASSUME NEW B, NEW q \in Nat, NEW a, LineStart(B, q, a), NEW n, NEW g, ListsLines(B, q, n, g),
         NEW e \in Nat, q < e, \A i \in q + 1 .. e - 1 : B[i] # "n", B[e] = "n",
         Trimmed(SubSeq(B, a + 1, e - 1)) = <<>>
  PROVE  ListsLines(B, e, n, g)
<1>1. \A l : ClosedLine(B, e, l) <=> ClosedLine(B, q, l)
  <2>1. \A l : ClosedLine(B, q, l) => ClosedLine(B, e, l)
    BY NewlineCloses
  <2>2. \A l : ClosedLine(B, e, l) => ClosedLine(B, q, l) \/ l = [from |-> a, to |-> e]
    BY ZenonT(40), NewlineCloses
  <2>3. ~ClosedLine(B, e, [from |-> a, to |-> e])
    BY NewlineCloses
  <2> QED
    BY <2>1, <2>2, <2>3
<1> QED
  BY <1>1, Zenon DEF ListsLines

(* A line that says something is listed last.                                *)
LEMMA ListGrows ==
  ASSUME NEW B, NEW q \in Nat, NEW a, LineStart(B, q, a),
         NEW n \in Nat, NEW g, ListsLines(B, q, n, g),
         NEW e \in Nat, q < e, \A i \in q + 1 .. e - 1 : B[i] # "n", B[e] = "n",
         Trimmed(SubSeq(B, a + 1, e - 1)) # <<>>
  PROVE  \E h : /\ ListsLines(B, e, n + 1, h)
                /\ \A i \in 1 .. n : h[i] = g[i]
                /\ h[n + 1] = [from |-> a, to |-> e]
<1>0. /\ \A l : ClosedLine(B, q, l) => ClosedLine(B, e, l) /\ l.from < a
      /\ \A l : ClosedLine(B, e, l) => ClosedLine(B, q, l) \/ l = [from |-> a, to |-> e]
      /\ ClosedLine(B, e, [from |-> a, to |-> e])
  <2>1. \A l : ClosedLine(B, q, l) => ClosedLine(B, e, l) /\ l.from < a
    BY NewlineCloses
  <2>2. \A l : ClosedLine(B, e, l) => ClosedLine(B, q, l) \/ l = [from |-> a, to |-> e]
    <3> SUFFICES ASSUME NEW l, ClosedLine(B, e, l)
                 PROVE  ClosedLine(B, q, l) \/ l = [from |-> a, to |-> e]
      OBVIOUS
    <3> QED
      BY OnlyThatLine
  <2>3. ClosedLine(B, e, [from |-> a, to |-> e])
    BY NewlineCloses
  <2> QED
    BY <2>1, <2>2, <2>3
<1> DEFINE last == [from |-> a, to |-> e]
           h == [i \in 1 .. n + 1 |-> IF i = n + 1 THEN last ELSE g[i]]
<1>1. last \in Span /\ last.from = a
  BY DEF Span, LineStart
<1>2. /\ \A l : ClosedLine(B, q, l) => ClosedLine(B, e, l) /\ l.from < a
      /\ \A l : ClosedLine(B, e, l) => ClosedLine(B, q, l) \/ l = last
      /\ ClosedLine(B, e, last)
  BY <1>0
<1> HIDE DEF last
<1>3. g \in [1 .. n -> Span]
  BY DEF ListsLines
<1>4. /\ h \in [1 .. n + 1 -> Span]
      /\ \A i \in 1 .. n : h[i] = g[i] /\ i \in 1 .. n + 1
      /\ h[n + 1] = last /\ n + 1 \in 1 .. n + 1
  BY <1>1, <1>3
<1> HIDE DEF h
<1>5. \A i \in 1 .. n + 1 : i = n + 1 \/ i \in 1 .. n
  OBVIOUS
<1>6. ASSUME NEW i \in 1 .. n + 1
      PROVE  ClosedLine(B, e, h[i])
  <2>1. CASE i = n + 1
    BY <2>1, <1>2, <1>4
  <2>2. CASE i \in 1 .. n
    <3>1. ClosedLine(B, q, g[i])
      BY <2>2 DEF ListsLines
    <3> QED
      BY <3>1, <2>2, <1>2, <1>4
  <2> QED
    BY <2>1, <2>2, <1>5
<1>7. ASSUME NEW i \in 1 .. n + 1, NEW j \in 1 .. n + 1, i < j
      PROVE  h[i].from < h[j].from
  <2>1. i \in 1 .. n
    BY <1>7
  <2>2. CASE j = n + 1
    <3>1. ClosedLine(B, q, g[i])
      BY <2>1 DEF ListsLines
    <3> QED
      BY <3>1, <2>1, <2>2, <1>1, <1>2, <1>4
  <2>3. CASE j \in 1 .. n
    <3>1. g[i].from < g[j].from
      BY <2>1, <2>3, <1>7 DEF ListsLines
    <3> QED
      BY <3>1, <2>1, <2>3, <1>4
  <2> QED
    BY <2>2, <2>3, <1>5
<1>8. ASSUME NEW l, ClosedLine(B, e, l)
      PROVE  \E i \in 1 .. n + 1 : l = h[i]
  <2>1. CASE l = last
    BY <2>1, <1>4
  <2>2. CASE ClosedLine(B, q, l)
    <3>1. PICK i \in 1 .. n : l = g[i]
      BY <2>2 DEF ListsLines
    <3> QED
      BY <3>1, <1>4
  <2> QED
    BY <2>1, <2>2, <1>2, <1>8
<1>9. ListsLines(B, e, n + 1, h)
  BY <1>4, <1>6, <1>7, <1>8 DEF ListsLines
<1> QED
  BY <1>4, <1>9 DEF last

(* Only the first q bytes matter.                                            *)
LEMMA ClosedLocal ==
  ASSUME NEW B \in Seq(Byte), NEW C \in Seq(Byte), NEW q \in Nat, q <= Len(B), q <= Len(C),
         \A i \in 1 .. q : B[i] = C[i], NEW l, ClosedLine(B, q, l)
  PROVE  ClosedLine(C, q, l) /\ SpanText(B, l) = SpanText(C, l)
<1>1. l \in Span /\ l.from < l.to /\ l.to <= q
  BY DEF ClosedLine
<1>2. SpanText(B, l) = SpanText(C, l)
  <2> DEFINE f == l.from  t == l.to
  <2>1. f \in Nat /\ t \in Nat /\ f < t /\ t <= q
    BY <1>1 DEF Span
  <2> HIDE DEF f, t
  <2>2. SubSeq(B, f + 1, t - 1) = SubSeq(C, f + 1, t - 1)
    BY SMTT(40), <2>1
  <2> QED
    BY <2>2 DEF SpanText, f, t
<1>3. /\ l.from = 0 \/ C[l.from] = "n"
      /\ C[l.to] = "n"
      /\ \A i \in l.from + 1 .. l.to - 1 : C[i] # "n"
  BY <1>1 DEF ClosedLine, Span
<1> QED
  BY <1>1, <1>2, <1>3 DEF ClosedLine

(* Where lines begin and end depends on the first q bytes only.              *)
LEMMA ListLocal ==
  ASSUME NEW B \in Seq(Byte), NEW C \in Seq(Byte), NEW q \in Nat, q <= Len(B), q <= Len(C),
         \A i \in 1 .. q : B[i] = C[i], NEW n, NEW g, ListsLines(B, q, n, g)
  PROVE  ListsLines(C, q, n, g) /\ \A i \in 1 .. n : SpanText(B, g[i]) = SpanText(C, g[i])
<1>1. \A l : ClosedLine(B, q, l) => ClosedLine(C, q, l) /\ SpanText(B, l) = SpanText(C, l)
  BY ClosedLocal
<1>2. \A l : ClosedLine(C, q, l) => ClosedLine(B, q, l)
  <2>1. \A i \in 1 .. q : C[i] = B[i]
    OBVIOUS
  <2> QED
    BY <2>1, ClosedLocal
<1> QED
  BY <1>1, <1>2, Zenon DEF ListsLines

(* So does where the last line begins.                                       *)
LEMMA StartLocal ==
  ASSUME NEW B, NEW C, NEW q \in Nat, \A i \in 1 .. q : B[i] = C[i], NEW a, LineStart(B, q, a)
  PROVE  LineStart(C, q, a)
  BY DEF LineStart

(* A list without repetitions counts its elements.                           *)
LEMMA Enumerated ==
  ASSUME NEW n \in Nat, NEW h, NEW S, \A i \in 1 .. n : h[i] \in S,
         \A l \in S : \E i \in 1 .. n : l = h[i],
         \A i, j \in 1 .. n : i # j => h[i] # h[j]
  PROVE  Cardinality(S) = n
<1> DEFINE f == [i \in 1 .. n |-> h[i]]
<1>1. f \in Bijection(1 .. n, S)
  <2>1. f \in [1 .. n -> S] /\ \A i \in 1 .. n : f[i] = h[i]
    OBVIOUS
  <2> HIDE DEF f
  <2>2. f \in Injection(1 .. n, S)
    BY <2>1 DEF Injection, IsInjective
  <2>3. f \in Surjection(1 .. n, S)
    BY <2>1 DEF Surjection
  <2> QED
    BY <2>2, <2>3 DEF Bijection
<1>2. ExistsBijection(1 .. n, S)
  BY <1>1 DEF ExistsBijection
<1>3. IsFiniteSet(1 .. n) /\ Cardinality(1 .. n) = n
  BY FS_Interval
<1> QED
  BY <1>2, <1>3, FS_Bijection

(* The k-th of an increasing list has k - 1 before it.                       *)
LEMMA RankOf ==
  ASSUME NEW n \in Nat, NEW h \in [1 .. n -> Span], NEW T, \A i \in 1 .. n : h[i] \in T,
         \A l \in T : \E i \in 1 .. n : l = h[i],
         \A i, j \in 1 .. n : i < j => h[i].from < h[j].from,
         NEW k \in 1 .. n
  PROVE  Cardinality({y \in T : y.from < h[k].from}) = k - 1
<1> DEFINE S == {y \in T : y.from < h[k].from}
           m == k - 1
<1>1. \A i \in 1 .. n : h[i].from \in Nat
  BY DEF Span
<1>2. m \in Nat /\ \A i \in 1 .. m : i \in 1 .. n /\ i < k
  OBVIOUS
<1>3. \A i \in 1 .. m : h[i] \in S
  BY <1>2
<1>4. ASSUME NEW l \in S
      PROVE  \E i \in 1 .. m : l = h[i]
  <2>1. PICK i \in 1 .. n : l = h[i]
    OBVIOUS
  <2>2. h[i].from < h[k].from
    BY <2>1
  <2>3. ~(k < i) /\ i # k
    BY <2>2, <1>1
  <2>4. i \in 1 .. m
    BY <2>3
  <2> QED
    BY <2>1, <2>4
<1>5. \A i, j \in 1 .. m : i # j => h[i] # h[j]
  BY <1>1, <1>2
<1> HIDE DEF S, m
<1>6. Cardinality(S) = m
  BY <1>2, <1>3, <1>4, <1>5, Enumerated
<1> QED
  BY <1>6 DEF S, m

(* So does an increasing list of spans.                                      *)
LEMMA CountOf ==
  ASSUME NEW n \in Nat, NEW h \in [1 .. n -> Span], NEW T, \A i \in 1 .. n : h[i] \in T,
         \A l \in T : \E i \in 1 .. n : l = h[i],
         \A i, j \in 1 .. n : i < j => h[i].from < h[j].from
  PROVE  Cardinality(T) = n
<1>1. \A i \in 1 .. n : h[i].from \in Nat
  BY DEF Span
<1>2. \A i, j \in 1 .. n : i # j => h[i] # h[j]
  BY <1>1
<1> QED
  BY <1>2, Enumerated

(* The lines of a prefix, given as a list of spans.                          *)
LEMMA LinesFromList ==
  ASSUME NEW P, NEW n \in Nat, NEW h \in [1 .. n -> Span],
         \A i \in 1 .. n : h[i] \in TextLines(P),
         \A l \in TextLines(P) : \E i \in 1 .. n : l = h[i],
         \A i, j \in 1 .. n : i < j => h[i].from < h[j].from
  PROVE  Lines(P) = [k \in 1 .. n |-> SpanText(P, h[k])]
<1> DEFINE T == TextLines(P)
           Rank(x) == Cardinality({y \in T : y.from < x.from})
           ranked(k) == CHOOSE x \in T : Rank(x) = k - 1
<1> HIDE DEF T
<1>1. \A i \in 1 .. n : h[i] \in T
  BY DEF T
<1>2. \A l \in T : \E i \in 1 .. n : l = h[i]
  BY DEF T
<1>3. Cardinality(T) = n
  BY <1>1, <1>2, CountOf
<1>4. Lines(P) = [k \in 1 .. Cardinality(T) |-> SubSeq(P, ranked(k).from + 1, ranked(k).to - 1)]
  BY Zenon DEF Lines, T
<1>5. \A k \in 1 .. n : Rank(h[k]) = k - 1
  BY <1>1, <1>2, RankOf
<1>6. ASSUME NEW k \in 1 .. n
      PROVE  ranked(k) = h[k]
  <2> HIDE DEF Rank
  <2>1. h[k] \in T /\ Rank(h[k]) = k - 1
    BY <1>1, <1>5
  <2>2. ASSUME NEW x \in T, Rank(x) = k - 1
        PROVE  x = h[k]
    <3>1. PICK i \in 1 .. n : x = h[i]
      BY <1>2
    <3>2. Rank(h[i]) = i - 1
      BY <1>5
    <3> QED
      BY <3>1, <3>2, <2>2
  <2> QED
    BY <2>1, <2>2
<1> HIDE DEF ranked
<1> QED
  BY <1>3, <1>4, <1>6 DEF SpanText

(* The text lines of a prefix that ends with a newline are the closed ones;  *)
(* otherwise its unterminated rest is one more.                              *)
LEMMA TextLinesOf ==
  ASSUME NEW P \in Seq(Byte), NEW a, LineStart(P, Len(P), a), NEW l
  PROVE  l \in TextLines(P) <=>
           \/ ClosedLine(P, Len(P), l)
           \/ a < Len(P) /\ l = [from |-> a, to |-> Len(P) + 1]
<1> DEFINE q == Len(P)
<1>0. q \in Nat
  OBVIOUS
<1>1. ASSUME ClosedLine(P, q, l)
      PROVE  l \in TextLines(P)
  <2>1. l \in [from : 0 .. q, to : 1 .. q + 1] /\ l.to # q + 1
    BY <1>1 DEF ClosedLine, Span
  <2> QED
    BY <1>1, <2>1 DEF TextLines, ClosedLine, SpanText
<1>2. ASSUME a < q, l = [from |-> a, to |-> q + 1]
      PROVE  l \in TextLines(P)
  <2>1. l \in [from : 0 .. q, to : 1 .. q + 1] /\ l.from = a /\ l.to = q + 1
    BY <1>2 DEF LineStart
  <2>2. /\ l.from < l.to /\ l.from + 1 < l.to
        /\ \A i \in l.from + 1 .. l.to - 1 : P[i] # "n"
        /\ l.from = 0 \/ P[l.from] = "n"
    BY <1>2, <2>1 DEF LineStart
  <2> QED
    BY <2>1, <2>2 DEF TextLines
<1>3. ASSUME l \in TextLines(P), l.to # q + 1
      PROVE  ClosedLine(P, q, l)
  <2>1. /\ l \in [from : 0 .. q, to : 1 .. q + 1]
        /\ l.from < l.to /\ \A i \in l.from + 1 .. l.to - 1 : P[i] # "n"
        /\ l.from = 0 \/ P[l.from] = "n"
        /\ P[l.to] = "n"
        /\ Trimmed(SpanText(P, l)) # <<>>
    BY <1>3 DEF TextLines, SpanText
  <2>2. l \in Span /\ l.to <= q
    BY <2>1, <1>3 DEF Span
  <2> QED
    BY <2>1, <2>2 DEF ClosedLine
<1>4. ASSUME l \in TextLines(P), l.to = q + 1
      PROVE  a < q /\ l = [from |-> a, to |-> q + 1]
  <2>1. /\ l \in [from : 0 .. q, to : 1 .. q + 1]
        /\ l.from < l.to /\ \A i \in l.from + 1 .. l.to - 1 : P[i] # "n"
        /\ l.from = 0 \/ P[l.from] = "n"
        /\ Trimmed(SubSeq(P, l.from + 1, l.to - 1)) # <<>> \/ l.from + 1 < l.to
    BY <1>4 DEF TextLines
  <2>2. l.from = a
    BY <2>1, <1>4 DEF LineStart
  <2>3. l = [from |-> a, to |-> q + 1]
    BY <2>1, <2>2, <1>4
  <2>4. a # q
    <3>1. SUFFICES ASSUME a = q
                   PROVE  FALSE
      OBVIOUS
    <3>2. SubSeq(P, l.from + 1, l.to - 1) = <<>>
      BY <3>1, <2>2, <1>4
    <3>3. Trimmed(<<>>) = <<>>
      BY DEF Trimmed
    <3>4. Trimmed(SubSeq(P, l.from + 1, l.to - 1)) = <<>>
      BY <3>2, <3>3, Zenon
    <3>5. ~(l.from + 1 < l.to)
      BY <3>1, <2>2, <1>4
    <3> QED
      BY <3>4, <3>5, <2>1
  <2> QED
    BY <2>3, <2>4 DEF LineStart
<1> QED
  BY <1>1, <1>2, <1>3, <1>4 DEF TextLines

(* The lines of a prefix that is read to a line's end.                       *)
LEMMA LinesWhole ==
  ASSUME NEW P \in Seq(Byte), NEW n \in Nat, NEW g, ListsLines(P, Len(P), n, g),
         LineStart(P, Len(P), Len(P))
  PROVE  Lines(P) = [k \in 1 .. n |-> SpanText(P, g[k])]
<1>1. \A l : l \in TextLines(P) <=> ClosedLine(P, Len(P), l)
  <2> SUFFICES ASSUME NEW l
               PROVE  l \in TextLines(P) <=> ClosedLine(P, Len(P), l)
    OBVIOUS
  <2>1. ~(Len(P) < Len(P))
    OBVIOUS
  <2> QED
    BY <2>1, TextLinesOf
<1>2. /\ g \in [1 .. n -> Span]
      /\ \A i \in 1 .. n : g[i] \in TextLines(P)
      /\ \A l \in TextLines(P) : \E i \in 1 .. n : l = g[i]
      /\ \A i, j \in 1 .. n : i < j => g[i].from < g[j].from
  BY <1>1, Zenon DEF ListsLines
<1> QED
  BY ZenonT(40), <1>2, LinesFromList

(* The lines of a prefix with an unterminated rest.                          *)
LEMMA LinesRest ==
  ASSUME NEW P \in Seq(Byte), NEW n \in Nat, NEW g, ListsLines(P, Len(P), n, g),
         NEW a, LineStart(P, Len(P), a), a < Len(P)
  PROVE  \E h : /\ Lines(P) = [k \in 1 .. n + 1 |-> SpanText(P, h[k])]
                /\ \A i \in 1 .. n : h[i] = g[i]
                /\ SpanText(P, h[n + 1]) = SubSeq(P, a + 1, Len(P))
<1> DEFINE q == Len(P)
           rest == [from |-> a, to |-> q + 1]
           h == [i \in 1 .. n + 1 |-> IF i = n + 1 THEN rest ELSE g[i]]
<1>1. rest \in Span /\ rest.from = a /\ rest.to = q + 1
  BY DEF Span, LineStart
<1>2. \A l : l \in TextLines(P) <=> ClosedLine(P, q, l) \/ l = rest
  <2> SUFFICES ASSUME NEW l
               PROVE  l \in TextLines(P) <=> ClosedLine(P, Len(P), l) \/ l = [from |-> a, to |-> Len(P) + 1]
    OBVIOUS
  <2> QED
    BY TextLinesOf
<1> HIDE DEF rest
<1>3. g \in [1 .. n -> Span]
  BY DEF ListsLines
<1>4. /\ h \in [1 .. n + 1 -> Span]
      /\ \A i \in 1 .. n : h[i] = g[i] /\ i \in 1 .. n + 1
      /\ h[n + 1] = rest /\ n + 1 \in 1 .. n + 1
  BY <1>1, <1>3
<1> HIDE DEF h
<1>5. \A i \in 1 .. n + 1 : i = n + 1 \/ i \in 1 .. n
  OBVIOUS
<1>6. \A i \in 1 .. n : ClosedLine(P, q, g[i]) /\ g[i].from < a
  <2> SUFFICES ASSUME NEW i \in 1 .. n
               PROVE  ClosedLine(P, q, g[i]) /\ g[i].from < a
    OBVIOUS
  <2>1. ClosedLine(P, q, g[i])
    BY DEF ListsLines
  <2> DEFINE l == g[i]
  <2> HIDE DEF l
  <2>2. ClosedLine(P, q, l)
    BY <2>1 DEF l
  <2>3. l.from < a
    BY <2>2 DEF ClosedLine, Span, LineStart
  <2> QED
    BY <2>1, <2>3 DEF l
<1>7. \A i \in 1 .. n + 1 : h[i] \in TextLines(P)
  BY <1>2, <1>4, <1>5, <1>6
<1>8. \A l \in TextLines(P) : \E i \in 1 .. n + 1 : l = h[i]
  <2> SUFFICES ASSUME NEW l \in TextLines(P)
               PROVE  \E i \in 1 .. n + 1 : l = h[i]
    OBVIOUS
  <2>1. CASE l = rest
    BY <2>1, <1>4
  <2>2. CASE ClosedLine(P, q, l)
    <3>1. PICK i \in 1 .. n : l = g[i]
      BY <2>2 DEF ListsLines
    <3> QED
      BY <3>1, <1>4
  <2> QED
    BY <2>1, <2>2, <1>2
<1>9. ASSUME NEW i \in 1 .. n + 1, NEW j \in 1 .. n + 1, i < j
      PROVE  h[i].from < h[j].from
  <2>1. i \in 1 .. n
    BY <1>9
  <2>2. CASE j = n + 1
    BY <2>1, <2>2, <1>1, <1>4, <1>6
  <2>3. CASE j \in 1 .. n
    <3>1. g[i].from < g[j].from
      BY <2>1, <2>3, <1>9 DEF ListsLines
    <3> QED
      BY <3>1, <2>1, <2>3, <1>4
  <2> QED
    BY <2>2, <2>3, <1>5
<1>10. Lines(P) = [k \in 1 .. n + 1 |-> SpanText(P, h[k])]
  <2>1. n + 1 \in Nat
    OBVIOUS
  <2> QED
    BY ZenonT(40), <2>1, <1>4, <1>7, <1>8, <1>9, LinesFromList
<1>11. SpanText(P, h[n + 1]) = SubSeq(P, a + 1, Len(P))
  <2>1. q + 1 - 1 = Len(P)
    OBVIOUS
  <2>2. SpanText(P, rest) = SubSeq(P, a + 1, Len(P))
    <3>1. rest.from + 1 = a + 1 /\ rest.to - 1 = Len(P)
      BY <2>1, <1>1
    <3> QED
      BY <3>1, Zenon DEF SpanText
  <2> QED
    BY <2>2, <1>4
<1> QED
  BY <1>4, <1>10, <1>11

(* What is recorded of a line, and how many of the records are losses.       *)
Integrities == {"live", "degraded", "replaced", "quiescent_final"}
Observation ==
  [id : Nat, kind : Losses \cup {"record"}, bytes : Int, text : Seq(Byte), integrity : Integrities]
LossCount(obs) == Cardinality({i \in DOMAIN obs : obs[i].kind \in Losses})

(* The observations are numbered, and those of a loss counted.               *)
Numbered(obs, ordinal, dropped) ==
  /\ obs \in Seq(Observation)
  /\ ordinal = Len(obs) + 1 /\ \A i \in 1 .. Len(obs) : obs[i].id = i
  /\ dropped = LossCount(obs)

(* What is told of the line that begins at a: nothing of an empty rest or of *)
(* one being discarded, which is too long, and the rest itself at the end.   *)
RestTold(B, q, obs, a, n, discarding, final) ==
  \/ ~discarding /\ ~final /\ a = q /\ Len(obs) = n
  \/ discarding /\ ~final /\ q - a > MaximumRecordBytes /\ Len(obs) = n
  \/ ~discarding /\ final /\ a < q /\ Len(obs) = n + 1 /\ Tells(obs[n + 1], SubSeq(B, a + 1, q))

(* Each line of the first q bytes is told by an observation.                 *)
LinesTold(B, q, obs, discarding, final) ==
  \E a, g : \E n \in Nat :
    /\ LineStart(B, q, a) /\ ListsLines(B, q, n, g)
    /\ \A i \in 1 .. n : Tells(obs[i], SpanText(B, g[i]))
    /\ RestTold(B, q, obs, a, n, discarding, final)

Accounting(B, q, obs, ordinal, discarding, dropped, final) ==
  Numbered(obs, ordinal, dropped) /\ LinesTold(B, q, obs, discarding, final)

(* A record may have bytes at all.                                           *)
LEMMA Limits == MaximumRecordBytes \in Nat /\ 0 < MaximumRecordBytes
<1>1. MaximumRecordBytes \in {MaxTranscript, MaximumChunkBytes, MaximumRecordBytes, MaximumRecordsPerPoll,
                              RequiredQuietPolls, MaxFinalPolls, MaxMutations}
  OBVIOUS
<1> QED
  BY <1>1, TranscriptBounds DEF TranscriptBounds

(* What Append does to a list.                                               *)
LEMMA AppendIs ==
  ASSUME NEW S, NEW obs \in Seq(S), NEW o \in S
  PROVE  /\ Append(obs, o) \in Seq(S) /\ Len(Append(obs, o)) = Len(obs) + 1
         /\ \A i \in 1 .. Len(obs) : Append(obs, o)[i] = obs[i]
         /\ Append(obs, o)[Len(obs) + 1] = o
  OBVIOUS

(* One more observation.                                                     *)
LEMMA NumberedNext ==
  ASSUME NEW obs, NEW ordinal, NEW dropped, Numbered(obs, ordinal, dropped),
         NEW o \in Observation, o.id = ordinal
  PROVE  Numbered(Append(obs, o), ordinal + 1, dropped + (IF o.kind \in Losses THEN 1 ELSE 0))
<1> DEFINE more == Append(obs, o)
           n == Len(obs)
<1>1. /\ more \in Seq(Observation) /\ Len(more) = n + 1
      /\ \A i \in 1 .. n : more[i] = obs[i]
      /\ more[n + 1] = o /\ n \in Nat
  BY AppendIs DEF Numbered
<1>2. obs \in Seq(Observation) /\ ordinal = n + 1 /\ dropped = LossCount(obs)
  BY DEF Numbered
<1> HIDE DEF more
<1>3. \A i \in 1 .. n + 1 : more[i].id = i
  <2>1. \A i \in 1 .. n : more[i].id = i
    BY <1>1 DEF Numbered
  <2> QED
    BY <2>1, <1>1, <1>2
<1> DEFINE before == {i \in 1 .. n : obs[i].kind \in Losses}
           after == {i \in 1 .. n + 1 : more[i].kind \in Losses}
<1>4. DOMAIN obs = 1 .. n /\ DOMAIN more = 1 .. n + 1
  BY <1>1, <1>2
<1>5. LossCount(obs) = Cardinality(before) /\ LossCount(more) = Cardinality(after)
  BY <1>4 DEF LossCount
<1>6. IsFiniteSet(before) /\ Cardinality(before) \in Nat
  <2>1. IsFiniteSet(1 .. n)
    BY <1>1, FS_Interval
  <2>2. before \in SUBSET (1 .. n)
    OBVIOUS
  <2> QED
    BY <2>1, <2>2, FS_Subset, FS_CardinalityType
<1>7. after = IF o.kind \in Losses THEN before \cup {n + 1} ELSE before
  BY <1>1
<1>8. n + 1 \notin before
  BY <1>1
<1> HIDE DEF before, after
<1>9. Cardinality(after) = Cardinality(before) + (IF o.kind \in Losses THEN 1 ELSE 0)
  <2>1. CASE o.kind \in Losses
    <3>1. after = before \cup {n + 1}
      BY <2>1, <1>7
    <3> DEFINE m == n + 1
    <3> HIDE DEF m
    <3>2. after = before \cup {m} /\ m \notin before
      BY <3>1, <1>8 DEF m
    <3>3. Cardinality(after) = Cardinality(before) + 1
      BY <3>2, <1>6, FS_AddElement
    <3> QED
      BY <3>3, <2>1
  <2>2. CASE o.kind \notin Losses
    BY <2>2, <1>6, <1>7
  <2> QED
    BY <2>1, <2>2
<1>10. Numbered(more, n + 1 + 1, dropped + (IF o.kind \in Losses THEN 1 ELSE 0))
  BY <1>1, <1>2, <1>3, <1>5, <1>9 DEF Numbered
<1> QED
  BY <1>2, <1>10 DEF more

(* A long line is told by the loss of it.                                    *)
LEMMA LongLine ==
  ASSUME NEW B \in Seq(Byte), NEW a \in Nat, NEW e \in Nat, e <= Len(B), e - a > MaximumRecordBytes
  PROVE  /\ Trimmed(SubSeq(B, a + 1, e)) # <<>>
         /\ \A o : o.kind = "oversize" => Tells(o, SubSeq(B, a + 1, e))
<1> DEFINE t == SubSeq(B, a + 1, e)
<1>1. t \in Seq(Byte) /\ Len(t) = e - a /\ e - a \in Nat
  BY Limits
<1> HIDE DEF t
<1>2. Len(t) > 1 /\ Len(t) > MaximumRecordBytes /\ t # <<>>
  BY <1>1, Limits
<1>3. Front(t) # <<>>
  <2>1. Len(Front(t)) = Len(t) - 1
    BY <1>1, <1>2 DEF Front
  <2> QED
    BY <2>1, <1>1, <1>2
<1>4. Trimmed(t) # <<>>
  BY <1>2, <1>3 DEF Trimmed
<1>5. ASSUME NEW o, o.kind = "oversize"
      PROVE  Tells(o, t)
  BY <1>2, <1>5 DEF Tells
<1> QED
  BY <1>4, <1>5 DEF t

(* More bytes of a line being discarded, or of one too long to be kept.      *)
LEMMA AccountDiscard ==
  ASSUME NEW B \in Seq(Byte), NEW q \in Nat, NEW obs, NEW ordinal, NEW discarding \in BOOLEAN, NEW dropped,
         Accounting(B, q, obs, ordinal, discarding, dropped, FALSE),
         NEW e \in Nat, q <= e, e <= Len(B), \A i \in q + 1 .. e : B[i] # "n",
         discarding \/ e - q > MaximumRecordBytes
  PROVE  Accounting(B, e, obs, ordinal, TRUE, dropped, FALSE)
<1>1. PICK a, g : \E n \in Nat :
        /\ LineStart(B, q, a) /\ ListsLines(B, q, n, g)
        /\ \A i \in 1 .. n : Tells(obs[i], SpanText(B, g[i]))
        /\ RestTold(B, q, obs, a, n, discarding, FALSE)
  BY DEF Accounting, LinesTold
<1>2. PICK n \in Nat :
        /\ LineStart(B, q, a) /\ ListsLines(B, q, n, g)
        /\ \A i \in 1 .. n : Tells(obs[i], SpanText(B, g[i]))
        /\ RestTold(B, q, obs, a, n, discarding, FALSE)
  BY <1>1
<1>3. LineStart(B, e, a)
  BY <1>2, QuietBytes
<1>4. ListsLines(B, e, n, g)
  BY <1>2, ListKept
<1>5. RestTold(B, e, obs, a, n, TRUE, FALSE)
  BY <1>2, Limits DEF RestTold, LineStart
<1> QED
  BY <1>2, <1>3, <1>4, <1>5 DEF Accounting, LinesTold

(* An empty line.                                                            *)
LEMMA AccountSkip ==
  ASSUME NEW B \in Seq(Byte), NEW q \in Nat, NEW obs, NEW ordinal, NEW dropped,
         Accounting(B, q, obs, ordinal, FALSE, dropped, FALSE),
         NEW e \in Nat, q < e, \A i \in q + 1 .. e - 1 : B[i] # "n", B[e] = "n",
         Trimmed(SubSeq(B, q + 1, e - 1)) = <<>>
  PROVE  Accounting(B, e, obs, ordinal, FALSE, dropped, FALSE)
<1>1. PICK a, g : \E n \in Nat :
        /\ LineStart(B, q, a) /\ ListsLines(B, q, n, g)
        /\ \A i \in 1 .. n : Tells(obs[i], SpanText(B, g[i]))
        /\ RestTold(B, q, obs, a, n, FALSE, FALSE)
  BY DEF Accounting, LinesTold
<1>2. PICK n \in Nat :
        /\ LineStart(B, q, a) /\ ListsLines(B, q, n, g)
        /\ \A i \in 1 .. n : Tells(obs[i], SpanText(B, g[i]))
        /\ RestTold(B, q, obs, a, n, FALSE, FALSE)
  BY <1>1
<1>3. a = q /\ Len(obs) = n
  BY <1>2 DEF RestTold
<1>4. LineStart(B, e, e)
  BY DEF LineStart
<1>5. LineStart(B, q, q) /\ ListsLines(B, q, n, g)
  BY <1>2, <1>3
<1>6. ListsLines(B, e, n, g)
  BY <1>5, ListSkips
<1>7. RestTold(B, e, obs, e, n, FALSE, FALSE)
  BY <1>3 DEF RestTold
<1> QED
  BY <1>2, <1>4, <1>6, <1>7 DEF Accounting, LinesTold

(* A line with its newline is told.                                          *)
LEMMA AccountLine ==
  ASSUME NEW B \in Seq(Byte), NEW q \in Nat, NEW obs, NEW ordinal, NEW discarding \in BOOLEAN, NEW dropped,
         Accounting(B, q, obs, ordinal, discarding, dropped, FALSE),
         NEW e \in Nat, q < e, e <= Len(B), \A i \in q + 1 .. e - 1 : B[i] # "n", B[e] = "n",
         NEW o \in Observation, o.id = ordinal,
         discarding => o.kind = "oversize",
         ~discarding => /\ Trimmed(SubSeq(B, q + 1, e - 1)) # <<>>
                        /\ Tells(o, SubSeq(B, q + 1, e - 1))
  PROVE  Accounting(B, e, Append(obs, o), ordinal + 1, FALSE,
                    dropped + (IF o.kind \in Losses THEN 1 ELSE 0), FALSE)
<1>1. PICK a, g : \E n \in Nat :
        /\ LineStart(B, q, a) /\ ListsLines(B, q, n, g)
        /\ \A i \in 1 .. n : Tells(obs[i], SpanText(B, g[i]))
        /\ RestTold(B, q, obs, a, n, discarding, FALSE)
  BY DEF Accounting, LinesTold
<1>2. PICK n \in Nat :
        /\ LineStart(B, q, a) /\ ListsLines(B, q, n, g)
        /\ \A i \in 1 .. n : Tells(obs[i], SpanText(B, g[i]))
        /\ RestTold(B, q, obs, a, n, discarding, FALSE)
  BY <1>1
<1>3. Len(obs) = n /\ a \in Nat /\ obs \in Seq(Observation)
  BY <1>2 DEF RestTold, LineStart, Accounting, Numbered
<1> DEFINE line == SubSeq(B, a + 1, e - 1)
           more == Append(obs, o)
<1>4. Trimmed(line) # <<>> /\ Tells(o, line)
  <2>1. CASE discarding
    <3>1. q - a > MaximumRecordBytes
      BY <2>1, <1>2 DEF RestTold
    <3>2. e - 1 \in Nat /\ e - 1 <= Len(B) /\ (e - 1) - a > MaximumRecordBytes
      BY <3>1, <1>3, Limits
    <3>3. o.kind = "oversize"
      BY <2>1
    <3> QED
      BY <3>2, <3>3, <1>3, LongLine
  <2>2. CASE ~discarding
    <3>1. a = q
      BY <2>2, <1>2 DEF RestTold
    <3> QED
      BY <3>1, <2>2
  <2> QED
    BY <2>1, <2>2
<1>5. LineStart(B, e, e)
  BY DEF LineStart
<1>6. PICK h : /\ ListsLines(B, e, n + 1, h)
               /\ \A i \in 1 .. n : h[i] = g[i]
               /\ h[n + 1] = [from |-> a, to |-> e]
  <2>1. Trimmed(SubSeq(B, a + 1, e - 1)) # <<>> /\ LineStart(B, q, a) /\ ListsLines(B, q, n, g)
    BY <1>2, <1>4
  <2> QED
    BY <2>1, ListGrows
<1>7. SpanText(B, h[n + 1]) = line
  <2>1. h[n + 1].from + 1 = a + 1 /\ h[n + 1].to - 1 = e - 1
    BY <1>6
  <2> QED
    BY <2>1, Zenon DEF SpanText
<1> HIDE DEF line
<1>8. /\ Len(more) = n + 1
      /\ \A i \in 1 .. n : more[i] = obs[i]
      /\ more[n + 1] = o
  BY <1>3, AppendIs
<1> HIDE DEF more
<1>9. \A i \in 1 .. n + 1 : Tells(more[i], SpanText(B, h[i]))
  <2> SUFFICES ASSUME NEW i \in 1 .. n + 1
               PROVE  Tells(more[i], SpanText(B, h[i]))
    OBVIOUS
  <2>1. CASE i = n + 1
    BY <2>1, <1>4, <1>7, <1>8
  <2>2. CASE i \in 1 .. n
    <3>1. Tells(obs[i], SpanText(B, g[i])) /\ more[i] = obs[i] /\ h[i] = g[i]
      BY <2>2, <1>2, <1>6, <1>8
    <3> QED
      BY <3>1
  <2> QED
    BY <2>1, <2>2
<1>10. RestTold(B, e, more, e, n + 1, FALSE, FALSE)
  BY <1>8 DEF RestTold
<1>11. n + 1 \in Nat
  OBVIOUS
<1>12. LinesTold(B, e, more, FALSE, FALSE)
  BY <1>5, <1>6, <1>9, <1>10, <1>11 DEF LinesTold
<1>13. Numbered(more, ordinal + 1, dropped + (IF o.kind \in Losses THEN 1 ELSE 0))
  BY NumberedNext DEF Accounting, more
<1> QED
  BY <1>12, <1>13 DEF Accounting, more

(* The unterminated rest of an ended file is told.                           *)
LEMMA AccountRest ==
  ASSUME NEW B \in Seq(Byte), NEW q \in Nat, NEW obs, NEW ordinal, NEW discarding \in BOOLEAN, NEW dropped,
         Accounting(B, q, obs, ordinal, discarding, dropped, FALSE),
         NEW e \in Nat, q <= e, e <= Len(B), \A i \in q + 1 .. e : B[i] # "n",
         NEW o \in Observation, o.id = ordinal,
         discarding => o.kind = "oversize",
         ~discarding => q < e /\ Tells(o, SubSeq(B, q + 1, e))
  PROVE  Accounting(B, e, Append(obs, o), ordinal + 1, FALSE,
                    dropped + (IF o.kind \in Losses THEN 1 ELSE 0), TRUE)
<1>1. PICK a, g : \E n \in Nat :
        /\ LineStart(B, q, a) /\ ListsLines(B, q, n, g)
        /\ \A i \in 1 .. n : Tells(obs[i], SpanText(B, g[i]))
        /\ RestTold(B, q, obs, a, n, discarding, FALSE)
  BY DEF Accounting, LinesTold
<1>2. PICK n \in Nat :
        /\ LineStart(B, q, a) /\ ListsLines(B, q, n, g)
        /\ \A i \in 1 .. n : Tells(obs[i], SpanText(B, g[i]))
        /\ RestTold(B, q, obs, a, n, discarding, FALSE)
  BY <1>1
<1>3. Len(obs) = n /\ a \in Nat /\ a <= q /\ obs \in Seq(Observation)
  BY <1>2 DEF RestTold, LineStart, Accounting, Numbered
<1> DEFINE more == Append(obs, o)
<1>4. a < e /\ Tells(o, SubSeq(B, a + 1, e))
  <2>1. CASE discarding
    <3>1. q - a > MaximumRecordBytes
      BY <2>1, <1>2 DEF RestTold
    <3>2. e - a > MaximumRecordBytes /\ a < e
      BY <3>1, <1>3, Limits
    <3>3. o.kind = "oversize"
      BY <2>1
    <3> QED
      BY <3>2, <3>3, <1>3, LongLine
  <2>2. CASE ~discarding
    <3>1. a = q
      BY <2>2, <1>2 DEF RestTold
    <3> QED
      BY <3>1, <2>2
  <2> QED
    BY <2>1, <2>2
<1>5. LineStart(B, e, a)
  BY <1>2, QuietBytes
<1>6. ListsLines(B, e, n, g)
  BY <1>2, ListKept
<1>8. /\ Len(more) = n + 1
      /\ \A i \in 1 .. n : more[i] = obs[i]
      /\ more[n + 1] = o
  BY <1>3, AppendIs
<1> HIDE DEF more
<1>9. \A i \in 1 .. n : Tells(more[i], SpanText(B, g[i]))
  BY <1>2, <1>8
<1>10. RestTold(B, e, more, a, n, FALSE, TRUE)
  BY <1>4, <1>8 DEF RestTold
<1>12. LinesTold(B, e, more, FALSE, TRUE)
  BY <1>5, <1>6, <1>9, <1>10 DEF LinesTold
<1>13. Numbered(more, ordinal + 1, dropped + (IF o.kind \in Losses THEN 1 ELSE 0))
  BY NumberedNext DEF Accounting, more
<1> QED
  BY <1>12, <1>13 DEF Accounting, more

(* Only the first q bytes matter.                                            *)
LEMMA AccountLocal ==
  ASSUME NEW B \in Seq(Byte), NEW C \in Seq(Byte), NEW q \in Nat, q <= Len(B), q <= Len(C),
         \A i \in 1 .. q : B[i] = C[i],
         NEW obs, NEW ordinal, NEW discarding, NEW dropped, NEW final,
         Accounting(B, q, obs, ordinal, discarding, dropped, final)
  PROVE  Accounting(C, q, obs, ordinal, discarding, dropped, final)
<1>1. PICK a, g : \E n \in Nat :
        /\ LineStart(B, q, a) /\ ListsLines(B, q, n, g)
        /\ \A i \in 1 .. n : Tells(obs[i], SpanText(B, g[i]))
        /\ RestTold(B, q, obs, a, n, discarding, final)
  BY DEF Accounting, LinesTold
<1>2. PICK n \in Nat :
        /\ LineStart(B, q, a) /\ ListsLines(B, q, n, g)
        /\ \A i \in 1 .. n : Tells(obs[i], SpanText(B, g[i]))
        /\ RestTold(B, q, obs, a, n, discarding, final)
  BY <1>1
<1>3. LineStart(C, q, a)
  BY <1>2, StartLocal
<1>4. ListsLines(C, q, n, g)
  BY <1>2, ListLocal
<1>5. \A i \in 1 .. n : SpanText(B, g[i]) = SpanText(C, g[i])
  BY <1>2, ListLocal
<1>6. \A i \in 1 .. n : Tells(obs[i], SpanText(C, g[i]))
  <2> SUFFICES ASSUME NEW i \in 1 .. n
               PROVE  Tells(obs[i], SpanText(C, g[i]))
    OBVIOUS
  <2>1. SpanText(B, g[i]) = SpanText(C, g[i])
    BY <1>5
  <2>2. Tells(obs[i], SpanText(B, g[i]))
    BY <1>2
  <2> QED
    BY <2>1, <2>2, Zenon
<1>7. SubSeq(B, a + 1, q) = SubSeq(C, a + 1, q)
  <2>1. a \in Nat
    BY <1>2 DEF LineStart
  <2> QED
    BY <2>1
<1>8. RestTold(C, q, obs, a, n, discarding, final)
  <2> DEFINE t == SubSeq(B, a + 1, q)
             u == SubSeq(C, a + 1, q)
  <2> HIDE DEF t, u
  <2>1. t = u
    BY <1>7 DEF t, u
  <2>2. \/ ~discarding /\ ~final /\ a = q /\ Len(obs) = n
        \/ discarding /\ ~final /\ q - a > MaximumRecordBytes /\ Len(obs) = n
        \/ ~discarding /\ final /\ a < q /\ Len(obs) = n + 1 /\ Tells(obs[n + 1], t)
    BY <1>2, Zenon DEF RestTold, t
  <2> QED
    BY <2>1, <2>2, Zenon DEF RestTold, u
<1> QED
  BY <1>2, <1>3, <1>4, <1>6, <1>8 DEF Accounting, LinesTold

(* What the loop carries.                                                    *)
IngestStates(bytes) ==
  [pos : 0 .. Len(bytes), out : Seq(Observation), stop : BOOLEAN, quiet : Nat, ordinal : Nat,
   discarding : BOOLEAN, discarded : Int, dropped : Nat, droppedBytes : Int, integrity : Integrities]

(* A state of the loop whose observations, after those of before, account    *)
(* for the prefix and the bytes consumed; the rest of a file is told only    *)
(* where the file may have ended.                                            *)
Accounted(prefix, bytes, before, s, final) ==
  Accounting(prefix \o bytes, Len(prefix) + s.pos, before \o s.out, s.ordinal, s.discarding,
             s.dropped, final)
GoodStates(prefix, bytes, before, atEnd) ==
  {s \in IngestStates(bytes) :
     \E final \in BOOLEAN :
       /\ Accounted(prefix, bytes, before, s, final)
       /\ final => atEnd /\ s.pos = Len(bytes)}

(* What one more observation does to the loop's state.                       *)
LEMMA PushFields ==
  ASSUME NEW bytes, NEW s \in IngestStates(bytes), NEW o \in Observation,
         NEW next \in 0 .. Len(bytes)
  PROVE  /\ Push(s, o, next) \in IngestStates(bytes)
         /\ Push(s, o, next).pos = next
         /\ Push(s, o, next).ordinal = s.ordinal + 1
         /\ Push(s, o, next).discarding = s.discarding
         /\ Push(s, o, next).dropped = s.dropped + (IF o.kind \in Losses THEN 1 ELSE 0)
<1> DEFINE told == [o EXCEPT !.id = s.ordinal]
           more == Append(s.out, told)
           lost == s.dropped + (IF o.kind \in Losses THEN 1 ELSE 0)
           lostBytes == s.droppedBytes + (IF o.kind \in Losses THEN o.bytes ELSE 0)
           state == IF o.kind \in Losses THEN "degraded"
                    ELSE IF o.integrity = "quiescent_final" THEN "quiescent_final" ELSE s.integrity
           ord == s.ordinal + 1
<1>1. told \in Observation
  BY DEF Observation, IngestStates
<1> HIDE DEF told
<1>2. more \in Seq(Observation)
  BY <1>1 DEF IngestStates
<1>3. lost \in Nat /\ ord \in Nat
  BY DEF IngestStates
<1>4. lostBytes \in Int /\ state \in Integrities
  <2>1. /\ o.bytes \in Int /\ o.integrity \in Integrities
        /\ s.droppedBytes \in Int /\ s.integrity \in Integrities
    BY DEF IngestStates, Observation
  <2>2. lostBytes \in Int
    BY <2>1
  <2>3. state \in Integrities
    BY <2>1 DEF Integrities
  <2> QED
    BY <2>2, <2>3
<1> DEFINE r == [s EXCEPT !.out = more, !.ordinal = ord, !.pos = next, !.dropped = lost,
                          !.droppedBytes = lostBytes, !.integrity = state]
<1>5. Push(s, o, next) = r
  BY DEF Push, told, IngestStates
<1> HIDE DEF more, lost, lostBytes, state, ord
<1>6. /\ r \in IngestStates(bytes)
      /\ r.pos = next /\ r.ordinal = ord /\ r.discarding = s.discarding
      /\ r.dropped = lost
  BY <1>2, <1>3, <1>4 DEF IngestStates
<1> HIDE DEF r
<1> QED
  BY <1>5, <1>6 DEF lost, ord

(* The observation is pushed last, under the next ordinal.                   *)
LEMMA PushOut ==
  ASSUME NEW bytes, NEW s \in IngestStates(bytes), NEW o, NEW next
  PROVE  Push(s, o, next).out = Append(s.out, [o EXCEPT !.id = s.ordinal])
  BY DEF Push, IngestStates

(* Leaving the loop, or going on behind an empty line.                       *)
LEMMA MoveFields ==
  ASSUME NEW bytes, NEW s \in IngestStates(bytes), NEW to \in 0 .. Len(bytes)
  PROVE  /\ [s EXCEPT !.pos = to] \in IngestStates(bytes)
         /\ [s EXCEPT !.pos = to].pos = to /\ [s EXCEPT !.pos = to].out = s.out
         /\ [s EXCEPT !.pos = to].ordinal = s.ordinal
         /\ [s EXCEPT !.pos = to].discarding = s.discarding
         /\ [s EXCEPT !.pos = to].dropped = s.dropped
  BY DEF IngestStates

(* Leaving the loop changes nothing else.                                    *)
LEMMA StopFields ==
  ASSUME NEW bytes, NEW s \in IngestStates(bytes)
  PROVE  /\ [s EXCEPT !.stop = TRUE] \in IngestStates(bytes)
         /\ [s EXCEPT !.stop = TRUE].pos = s.pos /\ [s EXCEPT !.stop = TRUE].out = s.out
         /\ [s EXCEPT !.stop = TRUE].ordinal = s.ordinal
         /\ [s EXCEPT !.stop = TRUE].discarding = s.discarding
         /\ [s EXCEPT !.stop = TRUE].dropped = s.dropped
  BY DEF IngestStates

(* Nor does the count of quiet polls,                                        *)
LEMMA QuietFields ==
  ASSUME NEW bytes, NEW s \in IngestStates(bytes), NEW quiet \in Nat
  PROVE  /\ [s EXCEPT !.quiet = quiet] \in IngestStates(bytes)
         /\ [s EXCEPT !.quiet = quiet].pos = s.pos /\ [s EXCEPT !.quiet = quiet].out = s.out
         /\ [s EXCEPT !.quiet = quiet].ordinal = s.ordinal
         /\ [s EXCEPT !.quiet = quiet].discarding = s.discarding
         /\ [s EXCEPT !.quiet = quiet].dropped = s.dropped
  BY DEF IngestStates

(* nor the count of discarded bytes,                                         *)
LEMMA DiscardFields ==
  ASSUME NEW bytes, NEW s \in IngestStates(bytes), NEW d \in Int
  PROVE  /\ [s EXCEPT !.discarded = d] \in IngestStates(bytes)
         /\ [s EXCEPT !.discarded = d].pos = s.pos /\ [s EXCEPT !.discarded = d].out = s.out
         /\ [s EXCEPT !.discarded = d].ordinal = s.ordinal
         /\ [s EXCEPT !.discarded = d].discarding = s.discarding
         /\ [s EXCEPT !.discarded = d].dropped = s.dropped
  BY DEF IngestStates

(* and beginning or ending to discard changes nothing else either.           *)
LEMMA SwitchFields ==
  ASSUME NEW bytes, NEW s \in IngestStates(bytes), NEW on \in BOOLEAN
  PROVE  /\ [s EXCEPT !.discarding = on] \in IngestStates(bytes)
         /\ [s EXCEPT !.discarding = on].pos = s.pos /\ [s EXCEPT !.discarding = on].out = s.out
         /\ [s EXCEPT !.discarding = on].ordinal = s.ordinal
         /\ [s EXCEPT !.discarding = on].discarding = on
         /\ [s EXCEPT !.discarding = on].dropped = s.dropped
  BY DEF IngestStates

(* The accounting of one more observation.                                   *)
LEMMA ToldIs ==
  ASSUME NEW o \in Observation, NEW k \in Nat
  PROVE  /\ [o EXCEPT !.id = k] \in Observation
         /\ [o EXCEPT !.id = k].id = k /\ [o EXCEPT !.id = k].kind = o.kind
         /\ \A line : Tells(o, line) => Tells([o EXCEPT !.id = k], line)
<1> DEFINE t == [o EXCEPT !.id = k]
<1>1. t \in Observation /\ t.id = k /\ t.kind = o.kind /\ t.text = o.text
  BY DEF Observation
<1> HIDE DEF t
<1>2. ASSUME NEW line, Tells(o, line)
      PROVE  Tells(t, line)
  BY <1>1, <1>2 DEF Tells
<1> QED
  BY <1>1, <1>2 DEF t

(* Appending to the second part appends to the whole.                        *)
LEMMA MoreOut ==
  ASSUME NEW S, NEW x \in Seq(S), NEW y \in Seq(S), NEW o \in S
  PROVE  x \o Append(y, o) = Append(x \o y, o)
  OBVIOUS

(* The observations the steps push.                                          *)
LEMMA LossIs ==
  ASSUME NEW loss \in Losses, NEW n \in Int
  PROVE  lossObservation(loss, n) \in Observation /\ lossObservation(loss, n).kind = loss
<1> DEFINE o == [id |-> 0, kind |-> loss, bytes |-> n, text |-> <<>>, integrity |-> "degraded"]
<1>1. o = lossObservation(loss, n)
  BY DEF lossObservation
<1>2. /\ loss \in Losses \cup {"record"} /\ 0 \in Nat /\ <<>> \in Seq(Byte)
      /\ "degraded" \in Integrities
  BY DEF Integrities
<1>3. o \in Observation /\ o.kind = loss
  BY <1>2, Zenon DEF Observation
<1> QED
  BY <1>1, <1>3

(* A line without its carriage return is no longer, and no worse to parse.   *)
LEMMA TrimmedIs ==
  ASSUME NEW line \in Seq(Byte)
  PROVE  /\ Trimmed(line) \in Seq(Byte) /\ Len(Trimmed(line)) <= Len(line)
         /\ Malformed(Trimmed(line)) => Malformed(line)
<1> DEFINE t == Trimmed(line)
           u == Len(line) - 1
<1>1. CASE line # <<>> /\ Last(line) = "r"
  <2>1. u \in Nat /\ u < Len(line)
    BY <1>1
  <2>2. t = SubSeq(line, 1, u)
    BY <1>1 DEF Trimmed, Front
  <2> HIDE DEF t, u
  <2>3. t \in Seq(Byte) /\ Len(t) = u
    BY <2>1, <2>2
  <2>4. \A i \in 1 .. u : t[i] = line[i]
    BY <2>1, <2>2
  <2>5. Malformed(t) => Malformed(line)
    BY <2>1, <2>3, <2>4 DEF Malformed
  <2> QED
    BY <2>1, <2>3, <2>5 DEF t
<1>2. CASE ~(line # <<>> /\ Last(line) = "r")
  BY <1>2 DEF Trimmed
<1> QED
  BY <1>1, <1>2

(* What parseOne makes of a kept line tells that line.                       *)
LEMMA ParseIs ==
  ASSUME NEW line \in Seq(Byte), NEW n \in Int, NEW state \in Integrities,
         Len(Trimmed(line)) <= MaximumRecordBytes
  PROVE  /\ parseOne(Trimmed(line), n, state) \in Observation
         /\ Tells(parseOne(Trimmed(line), n, state), line)
<1> DEFINE t == Trimmed(line)
<1>1. t \in Seq(Byte) /\ (Malformed(t) => Malformed(line))
  BY TrimmedIs
<1> HIDE DEF t
<1>2. Len(t) <= MaximumRecordBytes
  BY DEF t
<1>3. CASE Malformed(t)
  <2>1. /\ parseOne(t, n, state) \in Observation
        /\ parseOne(t, n, state).kind = "malformed"
    <3>1. parseOne(t, n, state) = lossObservation("malformed", n)
      BY <1>3 DEF parseOne
    <3> QED
      BY <3>1, LossIs DEF Losses
  <2>2. Tells(parseOne(t, n, state), line)
    BY <2>1, <1>1, <1>3 DEF Tells
  <2> QED
    BY <2>1, <2>2 DEF t
<1>4. CASE ~Malformed(t)
  <2> DEFINE o == [id |-> 0, kind |-> "record", bytes |-> 0, text |-> t, integrity |-> state]
  <2>1. parseOne(t, n, state) = o
    BY <1>4 DEF parseOne
  <2>2. o \in Observation /\ o.kind = "record" /\ o.text = t
    BY <1>1 DEF Observation
  <2> HIDE DEF o
  <2>3. Tells(o, line)
    BY <2>2, <1>2 DEF Tells, t
  <2> QED
    BY <2>1, <2>2, <2>3 DEF t
<1> QED
  BY <1>3, <1>4

(* The next newline.                                                         *)
LEMMA FirstNewline ==
  ASSUME NEW bytes \in Seq(Byte), NEW pos \in Nat, Newlines(bytes, pos) # {}
  PROVE  LET nl == Newlines(bytes, pos)
             end == CHOOSE i \in nl : \A j \in nl : i <= j
         IN /\ end \in pos + 1 .. Len(bytes) /\ bytes[end] = "n"
            /\ \A i \in pos + 1 .. end - 1 : bytes[i] # "n"
<1> DEFINE nl == Newlines(bytes, pos)
           end == CHOOSE i \in nl : \A j \in nl : i <= j
<1>1. nl \subseteq pos + 1 .. Len(bytes) /\ \A i \in nl : bytes[i] = "n"
  BY DEF Newlines
<1>2. \A i \in pos + 1 .. Len(bytes) : bytes[i] = "n" => i \in nl
  BY DEF Newlines
<1> HIDE DEF nl
<1>3. nl # {} /\ nl \subseteq Nat
  BY <1>1 DEF nl
<1>4. \E i \in nl : \A j \in nl : i <= j
  BY <1>3, LeastOf
<1>5. end \in nl /\ \A j \in nl : end <= j
  BY <1>4
<1> HIDE DEF end
<1>6. end \in pos + 1 .. Len(bytes) /\ bytes[end] = "n"
  BY <1>1, <1>5
<1>7. ASSUME NEW i \in pos + 1 .. end - 1
      PROVE  bytes[i] # "n"
  <2>1. i \in pos + 1 .. Len(bytes) /\ ~(end <= i)
    BY <1>6
  <2> QED
    BY <2>1, <1>2, <1>5
<1> QED
  BY <1>6, <1>7 DEF end, nl

(* Bytes of the read as bytes of the whole.                                  *)
LEMMA WholeBytes ==
  ASSUME NEW prefix \in Seq(Byte), NEW bytes \in Seq(Byte)
  PROVE  /\ prefix \o bytes \in Seq(Byte) /\ Len(prefix \o bytes) = Len(prefix) + Len(bytes)
         /\ \A i \in 1 .. Len(bytes) : (prefix \o bytes)[Len(prefix) + i] = bytes[i]
         /\ \A i \in 1 .. Len(prefix) : (prefix \o bytes)[i] = prefix[i]
  OBVIOUS

(* A part of the bytes read is that part of the whole.                       *)
LEMMA WholeLine ==
  ASSUME NEW prefix \in Seq(Byte), NEW bytes \in Seq(Byte), NEW x \in Nat, NEW y \in Int,
         1 <= x, y <= Len(bytes)
  PROVE  SubSeq(prefix \o bytes, Len(prefix) + x, Len(prefix) + y) = SubSeq(bytes, x, y)
<1> DEFINE B == prefix \o bytes  p == Len(prefix)
<1>1. /\ B \in Seq(Byte) /\ Len(B) = p + Len(bytes) /\ p \in Nat
      /\ \A i \in 1 .. Len(bytes) : B[p + i] = bytes[i]
  BY WholeBytes
<1> HIDE DEF B, p
<1>2. SubSeq(B, p + x, p + y) = SubSeq(bytes, x, y)
  BY <1>1
<1> QED
  BY <1>2 DEF B, p

(* Bytes read without a newline are bytes of the whole without one.          *)
LEMMA WholeQuiet ==
  ASSUME NEW prefix \in Seq(Byte), NEW bytes \in Seq(Byte), NEW x \in Nat, NEW y \in Nat,
         y <= Len(bytes), \A i \in x + 1 .. y : bytes[i] # "n"
  PROVE  \A i \in Len(prefix) + x + 1 .. Len(prefix) + y : (prefix \o bytes)[i] # "n"
<1> DEFINE B == prefix \o bytes  p == Len(prefix)
<1>1. p \in Nat /\ \A i \in 1 .. Len(bytes) : B[p + i] = bytes[i]
  BY WholeBytes
<1> HIDE DEF B, p
<1>2. ASSUME NEW i \in p + x + 1 .. p + y
      PROVE  B[i] # "n"
  <2>1. i - p \in x + 1 .. y /\ i - p \in 1 .. Len(bytes) /\ p + (i - p) = i
    BY <1>1
  <2> QED
    BY <2>1, <1>1
<1> QED
  BY <1>2 DEF B, p

(* A step that moves on and keeps the accounting keeps the state good.       *)
LEMMA GoodNext ==
  ASSUME NEW prefix, NEW bytes, NEW before, NEW atEnd, NEW r \in IngestStates(bytes),
         NEW final \in BOOLEAN, Accounted(prefix, bytes, before, r, final),
         final => atEnd /\ r.pos = Len(bytes)
  PROVE  r \in GoodStates(prefix, bytes, before, atEnd)
  BY DEF GoodStates

(* A pushed observation follows the ones before.                             *)
LEMMA PushFollows ==
  ASSUME NEW bytes, NEW before \in Seq(Observation), NEW s \in IngestStates(bytes),
         NEW o \in Observation, NEW next \in 0 .. Len(bytes)
  PROVE  before \o Push(s, o, next).out = Append(before \o s.out, [o EXCEPT !.id = s.ordinal])
<1>1. s.out \in Seq(Observation) /\ s.ordinal \in Nat
  BY DEF IngestStates
<1> DEFINE t == [o EXCEPT !.id = s.ordinal]  x == s.out
<1>2. t \in Observation
  BY <1>1, ToldIs
<1>3. Push(s, o, next).out = Append(x, t)
  BY PushOut
<1>4. x \in Seq(Observation)
  BY <1>1
<1> HIDE DEF t, x
<1>5. before \o Append(x, t) = Append(before \o x, t)
  BY <1>2, <1>4, MoreOut
<1> QED
  BY <1>3, <1>5 DEF t, x

(* A turn that meets an unterminated line too long to keep discards it and   *)
(* keeps the accounting.                                                     *)
LEMMA DiscardKeeps ==
  ASSUME NEW prefix \in Seq(Byte), NEW bytes \in Seq(Byte), NEW before \in Seq(Observation), NEW atEnd,
         NEW s \in IngestStates(bytes), Accounted(prefix, bytes, before, s, FALSE),
         s.discarding, s.pos < Len(bytes)
  PROVE  DiscardMore(s, bytes, Newlines(bytes, s.pos)) \in GoodStates(prefix, bytes, before, atEnd)
<1> DEFINE nl == Newlines(bytes, s.pos)
           p == Len(prefix)
           B == prefix \o bytes
           obs == before \o s.out
           q == p + s.pos
<1>1. /\ s.pos \in 0 .. Len(bytes) /\ s.discarded \in Int /\ s.discarding = TRUE /\ s.ordinal \in Nat
      /\ s.pos \in Nat /\ Len(bytes) \in Nat /\ p \in Nat /\ q \in Nat /\ s.discarding \in BOOLEAN
  BY DEF IngestStates
<1>2. B \in Seq(Byte) /\ Len(B) = p + Len(bytes)
  BY WholeBytes
<1>3. Accounting(B, q, obs, s.ordinal, TRUE, s.dropped, FALSE)
  BY <1>1 DEF Accounted
<1>4. CASE nl = {}
  <2> DEFINE d == s.discarded + Len(bytes) - s.pos
             to == Len(bytes)
             r1 == [s EXCEPT !.discarded = d]
             r2 == [r1 EXCEPT !.pos = to]
             r == [r2 EXCEPT !.stop = TRUE]
  <2>1. DiscardMore(s, bytes, nl) = r
    BY <1>1, <1>4 DEF DiscardMore, IngestStates
  <2>2. d \in Int /\ to \in 0 .. Len(bytes)
    BY <1>1
  <2> HIDE DEF d, to, nl, B, q, obs, p
  <2>3. /\ r \in IngestStates(bytes) /\ r.pos = to /\ r.out = s.out
        /\ r.ordinal = s.ordinal /\ r.discarding = TRUE /\ r.dropped = s.dropped
    <3>1. /\ r1 \in IngestStates(bytes) /\ r1.out = s.out
          /\ r1.ordinal = s.ordinal /\ r1.discarding = TRUE /\ r1.dropped = s.dropped
      BY <2>2, DiscardFields
    <3> HIDE DEF r1
    <3>2. /\ r2 \in IngestStates(bytes) /\ r2.out = s.out /\ r2.pos = to
          /\ r2.ordinal = s.ordinal /\ r2.discarding = TRUE /\ r2.dropped = s.dropped
      BY <2>2, <3>1, MoveFields
    <3> HIDE DEF r2
    <3> QED
      BY <3>2, StopFields
  <2> USE DEF nl, B, q, obs, p, to
  <2> HIDE DEF r
  <2> DEFINE e == p + Len(bytes)
  <2>4. \A i \in s.pos + 1 .. Len(bytes) : bytes[i] # "n"
    BY <1>4 DEF Newlines
  <2>5. \A i \in q + 1 .. e : B[i] # "n"
    <3> DEFINE y == Len(bytes)
    <3>1. y \in Nat /\ y <= Len(bytes) /\ \A i \in s.pos + 1 .. y : bytes[i] # "n"
      BY <1>1, <2>4
    <3> HIDE DEF y
    <3>2. \A i \in Len(prefix) + s.pos + 1 .. Len(prefix) + y : (prefix \o bytes)[i] # "n"
      BY <1>1, <3>1, WholeQuiet
    <3> QED
      BY <3>2 DEF y
  <2>6. e \in Nat /\ q <= e /\ e <= Len(B)
    BY <1>1, <1>2
  <2> HIDE DEF B, q, e, obs, p, nl
  <2>7. Accounting(B, e, obs, s.ordinal, TRUE, s.dropped, FALSE)
    BY <1>1, <1>2, <1>3, <2>5, <2>6, AccountDiscard
  <2>8. Accounted(prefix, bytes, before, r, FALSE)
    BY <2>3, <2>7 DEF Accounted, B, e, obs, p
  <2>9. r \in GoodStates(prefix, bytes, before, atEnd)
    BY <2>3, <2>8, GoodNext
  <2> QED
    BY <2>1, <2>9 DEF nl
<1>5. CASE nl # {}
  <2> DEFINE end == CHOOSE i \in nl : \A j \in nl : i <= j
  <2>1. /\ end \in s.pos + 1 .. Len(bytes) /\ bytes[end] = "n"
        /\ \A i \in s.pos + 1 .. end - 1 : bytes[i] # "n"
    BY <1>1, <1>5, FirstNewline
  <2> DEFINE total == s.discarded + end - s.pos
             o == lossObservation("oversize", total)
             w == Push(s, o, end)
             t == [o EXCEPT !.id = s.ordinal]
             zero == 0
             off == FALSE
             w1 == [w EXCEPT !.discarded = zero]
             r == [w1 EXCEPT !.discarding = off]
  <2>0. [w EXCEPT !.discarded = zero, !.discarding = off] = r
    OBVIOUS
  <2>2. DiscardMore(s, bytes, nl) = r
    BY <1>5, <2>0 DEF DiscardMore
  <2>19. zero \in Int /\ off \in BOOLEAN /\ ~off
    OBVIOUS
  <2> HIDE DEF end, nl, zero, off
  <2>3. total \in Int /\ end \in 0 .. Len(bytes) /\ end \in Nat
    BY <1>1, <2>1
  <2> HIDE DEF total
  <2>4. o \in Observation /\ o.kind = "oversize"
    BY <2>3, LossIs DEF Losses
  <2> HIDE DEF o
  <2>5. /\ w \in IngestStates(bytes) /\ w.pos = end /\ w.ordinal = s.ordinal + 1
        /\ w.dropped = s.dropped + (IF o.kind \in Losses THEN 1 ELSE 0)
    BY <2>3, <2>4, PushFields
  <2>6. before \o w.out = Append(obs, t)
    BY SMTT(40), <2>3, <2>4, PushFollows
  <2>7. t \in Observation /\ t.id = s.ordinal /\ t.kind = "oversize"
    BY <1>1, <2>4, ToldIs
  <2> HIDE DEF w, t
  <2>8. /\ r \in IngestStates(bytes) /\ r.pos = end /\ r.out = w.out
        /\ r.ordinal = w.ordinal /\ r.discarding = FALSE /\ r.dropped = w.dropped
    <3>1. /\ w1 \in IngestStates(bytes) /\ w1.pos = end /\ w1.out = w.out
          /\ w1.ordinal = w.ordinal /\ w1.dropped = w.dropped
      BY <2>5, <2>19, DiscardFields
    <3> HIDE DEF w1
    <3> QED
      BY <3>1, <2>19, SwitchFields
  <2> HIDE DEF r
  <2> DEFINE e == p + end
  <2>9. e \in Nat /\ q < e /\ e <= Len(B)
    BY <1>1, <1>2, <2>1
  <2>10. B[e] = "n"
    BY <1>1, <2>1, WholeBytes
  <2>11. \A i \in q + 1 .. e - 1 : B[i] # "n"
    <3> DEFINE y == end - 1
    <3>1. y \in Nat /\ y <= Len(bytes) /\ \A i \in s.pos + 1 .. y : bytes[i] # "n"
      BY <1>1, <2>1
    <3> HIDE DEF y
    <3>2. \A i \in Len(prefix) + s.pos + 1 .. Len(prefix) + y : (prefix \o bytes)[i] # "n"
      BY <1>1, <3>1, WholeQuiet
    <3>3. p + y = e - 1
      BY <1>1, <2>3 DEF y
    <3> QED
      BY <3>2, <3>3
  <2> HIDE DEF B, q, e, obs, p
  <2>12. Accounting(B, e, Append(obs, t), s.ordinal + 1, FALSE,
                    s.dropped + (IF t.kind \in Losses THEN 1 ELSE 0), FALSE)
    BY <1>1, <1>2, <1>3, <2>7, <2>9, <2>10, <2>11, AccountLine
  <2>13. Accounted(prefix, bytes, before, r, FALSE)
    <3>1. t.kind = o.kind
      BY <2>4, <2>7
    <3> QED
      BY <2>5, <2>6, <2>8, <2>12, <3>1 DEF Accounted, B, e, p
  <2>14. r \in GoodStates(prefix, bytes, before, atEnd)
    BY <2>8, <2>13, GoodNext
  <2> QED
    BY <2>2, <2>14 DEF nl
<1> QED
  BY <1>4, <1>5

(* A turn that meets a newline tells the line before it, or skips it when it *)
(* is empty.                                                                 *)
LEMMA TerminatedKeeps ==
  ASSUME NEW prefix \in Seq(Byte), NEW bytes \in Seq(Byte), NEW before \in Seq(Observation), NEW atEnd,
         NEW s \in IngestStates(bytes), Accounted(prefix, bytes, before, s, FALSE),
         ~s.discarding, Newlines(bytes, s.pos) # {}
  PROVE  Terminated(s, bytes, Newlines(bytes, s.pos)) \in GoodStates(prefix, bytes, before, atEnd)
<1> DEFINE nl == Newlines(bytes, s.pos)
           end == CHOOSE i \in nl : \A j \in nl : i <= j
           raw == SubSeq(bytes, s.pos + 1, end - 1)
           p == Len(prefix)
           B == prefix \o bytes
           obs == before \o s.out
           q == p + s.pos
           e == p + end
<1>1. /\ s.pos \in 0 .. Len(bytes) /\ s.discarding = FALSE /\ s.ordinal \in Nat
      /\ s.pos \in Nat /\ Len(bytes) \in Nat /\ p \in Nat /\ q \in Nat /\ s.integrity \in Integrities
  BY DEF IngestStates
<1>2. B \in Seq(Byte) /\ Len(B) = p + Len(bytes)
  BY WholeBytes
<1>3. Accounting(B, q, obs, s.ordinal, FALSE, s.dropped, FALSE)
  BY <1>1 DEF Accounted
<1>4. /\ end \in s.pos + 1 .. Len(bytes) /\ bytes[end] = "n"
      /\ \A i \in s.pos + 1 .. end - 1 : bytes[i] # "n"
  BY <1>1, FirstNewline
<1> DEFINE line == Trimmed(raw)
           consumed == end - s.pos
<1>5. Terminated(s, bytes, nl) =
        IF line = <<>> THEN [s EXCEPT !.pos = end]
        ELSE IF Len(line) > MaximumRecordBytes
        THEN Push(s, lossObservation("oversize", consumed), end)
        ELSE Push(s, parseOne(line, consumed, s.integrity), end)
  BY DEF Terminated
<1> HIDE DEF end, nl
<1>6. end \in 0 .. Len(bytes) /\ end \in Nat /\ consumed \in Int
  BY <1>1, <1>4
<1>7. e \in Nat /\ q < e /\ e <= Len(B)
  BY <1>1, <1>2, <1>4
<1>8. B[e] = "n"
  BY <1>1, <1>4, WholeBytes
<1>9. \A i \in q + 1 .. e - 1 : B[i] # "n"
  <2> DEFINE y == end - 1
  <2>1. y \in Nat /\ y <= Len(bytes) /\ \A i \in s.pos + 1 .. y : bytes[i] # "n"
    BY <1>1, <1>4
  <2> HIDE DEF y
  <2>2. \A i \in Len(prefix) + s.pos + 1 .. Len(prefix) + y : (prefix \o bytes)[i] # "n"
    BY <1>1, <2>1, WholeQuiet
  <2>3. p + y = e - 1
    BY <1>1, <1>6 DEF y
  <2> QED
    BY <2>2, <2>3
<1>10. SubSeq(B, q + 1, e - 1) = raw /\ raw \in Seq(Byte)
  <2> DEFINE x == s.pos + 1  y == end - 1
  <2>1. x \in Nat /\ 1 <= x /\ y \in Nat /\ y <= Len(bytes)
    BY <1>1, <1>4
  <2> HIDE DEF x, y
  <2>2. SubSeq(prefix \o bytes, Len(prefix) + x, Len(prefix) + y) = SubSeq(bytes, x, y)
    BY <2>1, WholeLine
  <2>3. SubSeq(bytes, x, y) \in Seq(Byte)
    BY <2>1
  <2>4. p + x = q + 1 /\ p + y = e - 1
    BY <1>1, <1>6 DEF x, y
  <2> QED
    BY <2>2, <2>3, <2>4 DEF x, y
<1> HIDE DEF raw, consumed
<1> SUFFICES Terminated(s, bytes, nl) \in GoodStates(prefix, bytes, before, atEnd)
  BY DEF nl
<1>11. CASE line = <<>>
  <2> DEFINE r == [s EXCEPT !.pos = end]
  <2>1. /\ r \in IngestStates(bytes) /\ r.pos = end /\ r.out = s.out /\ r.ordinal = s.ordinal
        /\ r.discarding = FALSE /\ r.dropped = s.dropped
    BY <1>1, <1>6 DEF IngestStates
  <2>2. Terminated(s, bytes, nl) = r
    BY <1>5, <1>11
  <2> HIDE DEF r
  <2>3. Trimmed(SubSeq(B, q + 1, e - 1)) = <<>>
    BY <1>10, <1>11
  <2> HIDE DEF B, q, e, obs, p, line
  <2>4. Accounting(B, e, obs, s.ordinal, FALSE, s.dropped, FALSE)
    BY <1>1, <1>2, <1>3, <1>7, <1>8, <1>9, <2>3, AccountSkip
  <2>5. Accounted(prefix, bytes, before, r, FALSE)
    BY <2>1, <2>4 DEF Accounted, B, e, obs, p
  <2> QED
    BY <2>1, <2>2, <2>5, GoodNext
<1>12. ASSUME NEW o \in Observation, line # <<>>, Tells(o, raw), Terminated(s, bytes, nl) = Push(s, o, end)
       PROVE  Terminated(s, bytes, nl) \in GoodStates(prefix, bytes, before, atEnd)
  <2> DEFINE r == Push(s, o, end)
             t == [o EXCEPT !.id = s.ordinal]
  <2>1. /\ r \in IngestStates(bytes) /\ r.pos = end /\ r.ordinal = s.ordinal + 1 /\ r.discarding = FALSE
        /\ r.dropped = s.dropped + (IF o.kind \in Losses THEN 1 ELSE 0)
    BY <1>1, <1>6, PushFields
  <2>2. before \o r.out = Append(obs, t)
    <3> HIDE DEF p, q, e, B, line
    <3>1. o \in Observation /\ end \in 0 .. Len(bytes)
      BY <1>6, <1>12
    <3> QED
      BY SMTT(40), <3>1, PushFollows
  <2>3. t \in Observation /\ t.id = s.ordinal /\ t.kind = o.kind /\ Tells(t, raw)
    BY <1>1, <1>12, ToldIs
  <2> HIDE DEF r, t
  <2>4. Trimmed(SubSeq(B, q + 1, e - 1)) # <<>> /\ Tells(t, SubSeq(B, q + 1, e - 1))
    BY <1>10, <1>12, <2>3
  <2> HIDE DEF B, q, e, obs, p, line
  <2>5. Accounting(B, e, Append(obs, t), s.ordinal + 1, FALSE,
                   s.dropped + (IF t.kind \in Losses THEN 1 ELSE 0), FALSE)
    BY <1>1, <1>2, <1>3, <1>7, <1>8, <1>9, <2>3, <2>4, AccountLine
  <2>6. Accounted(prefix, bytes, before, r, FALSE)
    BY <2>1, <2>2, <2>3, <2>5 DEF Accounted, B, e, p
  <2>7. r \in GoodStates(prefix, bytes, before, atEnd)
    BY <2>1, <2>6, GoodNext
  <2> QED
    BY <2>7, <1>12 DEF r
<1>13. CASE line # <<>> /\ Len(line) > MaximumRecordBytes
  <2> DEFINE o == lossObservation("oversize", consumed)
  <2>1. o \in Observation /\ o.kind = "oversize"
    BY <1>6, LossIs DEF Losses
  <2>2. Terminated(s, bytes, nl) = Push(s, o, end)
    BY <1>5, <1>13
  <2> HIDE DEF o
  <2>3. Tells(o, raw)
    <3>1. Len(line) <= Len(raw) /\ Len(raw) \in Nat /\ Len(line) \in Nat
      BY <1>10, TrimmedIs
    <3>2. Len(raw) > MaximumRecordBytes
      BY <3>1, <1>13, Limits
    <3> QED
      BY <3>2, <2>1 DEF Tells
  <2> QED
    BY <1>12, <1>13, <2>1, <2>2, <2>3
<1>14. CASE line # <<>> /\ ~(Len(line) > MaximumRecordBytes)
  <2> DEFINE o == parseOne(line, consumed, s.integrity)
  <2>1. Len(Trimmed(raw)) <= MaximumRecordBytes
    <3>1. line \in Seq(Byte)
      BY <1>10, TrimmedIs
    <3>2. Len(line) \in Nat
      BY <3>1
    <3> QED
      BY <3>2, <1>14, Limits
  <2>2. o \in Observation /\ Tells(o, raw)
    BY <1>1, <1>6, <1>10, <2>1, ParseIs
  <2>3. Terminated(s, bytes, nl) = Push(s, o, end)
    BY <1>5, <1>14
  <2> HIDE DEF o
  <2> QED
    BY <1>12, <1>14, <2>2, <2>3
<1> QED
  BY <1>11, <1>13, <1>14

(* The rest of an ended file, pushed as an observation that tells it.        *)
LEMMA RestKeeps ==
  ASSUME NEW prefix \in Seq(Byte), NEW bytes \in Seq(Byte), NEW before \in Seq(Observation), NEW atEnd,
         NEW s \in IngestStates(bytes), Accounted(prefix, bytes, before, s, FALSE), atEnd,
         \A i \in s.pos + 1 .. Len(bytes) : bytes[i] # "n",
         NEW o \in Observation, s.discarding => o.kind = "oversize",
         ~s.discarding => s.pos < Len(bytes) /\ Tells(o, SubSeq(bytes, s.pos + 1, Len(bytes))),
         NEW r \in IngestStates(bytes), r.pos = Len(bytes), r.ordinal = s.ordinal + 1,
         r.out = Push(s, o, Len(bytes)).out, r.discarding = FALSE,
         r.dropped = s.dropped + (IF o.kind \in Losses THEN 1 ELSE 0)
  PROVE  r \in GoodStates(prefix, bytes, before, atEnd)
<1> DEFINE p == Len(prefix)
           B == prefix \o bytes
           obs == before \o s.out
           q == p + s.pos
           e == p + Len(bytes)
           t == [o EXCEPT !.id = s.ordinal]
<1>1. /\ s.pos \in 0 .. Len(bytes) /\ s.discarding \in BOOLEAN /\ s.ordinal \in Nat
      /\ s.pos \in Nat /\ Len(bytes) \in Nat /\ p \in Nat /\ q \in Nat
  <2>1. s.pos \in 0 .. Len(bytes) /\ s.discarding \in BOOLEAN /\ s.ordinal \in Nat
    BY DEF IngestStates
  <2>2. Len(bytes) \in Nat /\ Len(prefix) \in Nat
    OBVIOUS
  <2> QED
    BY <2>1, <2>2
<1>2. B \in Seq(Byte) /\ Len(B) = p + Len(bytes)
  BY WholeBytes
<1>3. Accounting(B, q, obs, s.ordinal, s.discarding, s.dropped, FALSE)
  BY DEF Accounted
<1>4. e \in Nat /\ q <= e /\ e <= Len(B) /\ (~s.discarding => q < e)
  BY <1>1, <1>2
<1>5. \A i \in q + 1 .. e : B[i] # "n"
  <2> DEFINE y == Len(bytes)
  <2>1. y \in Nat /\ y <= Len(bytes) /\ \A i \in s.pos + 1 .. y : bytes[i] # "n"
    BY <1>1
  <2> HIDE DEF y
  <2>2. \A i \in Len(prefix) + s.pos + 1 .. Len(prefix) + y : (prefix \o bytes)[i] # "n"
    BY <1>1, <2>1, WholeQuiet
  <2> QED
    BY <2>2 DEF y
<1>6. SubSeq(B, q + 1, e) = SubSeq(bytes, s.pos + 1, Len(bytes))
  <2> DEFINE x == s.pos + 1  y == Len(bytes)
  <2>1. x \in Nat /\ 1 <= x /\ y \in Nat /\ y <= Len(bytes)
    BY <1>1
  <2> HIDE DEF x, y
  <2>2. SubSeq(prefix \o bytes, Len(prefix) + x, Len(prefix) + y) = SubSeq(bytes, x, y)
    BY <2>1, WholeLine
  <2>3. p + x = q + 1 /\ p + y = e
    BY <1>1 DEF x, y
  <2> QED
    BY <2>2, <2>3 DEF x, y
<1>7. /\ t \in Observation /\ t.id = s.ordinal /\ t.kind = o.kind
      /\ \A line : Tells(o, line) => Tells(t, line)
  BY <1>1, ToldIs
<1>8. before \o r.out = Append(obs, t)
  <2> DEFINE x == s.out
  <2>1. r.out = Append(x, t)
    BY PushOut
  <2>2. x \in Seq(Observation) /\ t \in Observation
    BY <1>7 DEF IngestStates
  <2> HIDE DEF x, t
  <2>3. before \o Append(x, t) = Append(before \o x, t)
    BY <2>2, MoreOut
  <2> QED
    BY <2>1, <2>3 DEF x
<1> HIDE DEF t
<1>9. ~s.discarding => q < e /\ Tells(t, SubSeq(B, q + 1, e))
  BY <1>4, <1>6, <1>7
<1>10. s.discarding => t.kind = "oversize"
  BY <1>7
<1> HIDE DEF B, q, e, obs, p
<1>11. Accounting(B, e, Append(obs, t), s.ordinal + 1, FALSE,
                  s.dropped + (IF t.kind \in Losses THEN 1 ELSE 0), TRUE)
  BY <1>1, <1>2, <1>3, <1>4, <1>5, <1>7, <1>9, <1>10, AccountRest
<1>12. Accounted(prefix, bytes, before, r, TRUE)
  BY <1>7, <1>8, <1>11 DEF Accounted, B, e, p
<1> QED
  BY <1>12, GoodNext

(* A turn that meets no newline leaves the rest for the next poll, discards  *)
(* it, or tells it when the file has ended.                                  *)
LEMMA UnterminatedKeeps ==
  ASSUME checkpoint.prefix \in Seq(Byte), QuietPolls(polling.size) \in Nat,
         NEW bytes \in Seq(Byte), NEW before \in Seq(Observation), NEW atEnd,
         Len(checkpoint.prefix) + Len(bytes) = polling.size /\ polling.quiescent => atEnd,
         NEW s \in IngestStates(bytes), Accounted(checkpoint.prefix, bytes, before, s, FALSE),
         ~s.discarding, s.pos < Len(bytes), Newlines(bytes, s.pos) = {}
  PROVE  Unterminated(s, bytes) \in GoodStates(checkpoint.prefix, bytes, before, atEnd)
<1> DEFINE prefix == checkpoint.prefix
           rest == SubSeq(bytes, s.pos + 1, Len(bytes))
           quiet == QuietPolls(polling.size)
           left == [s EXCEPT !.stop = TRUE]
           o == parseOne(Trimmed(rest), Len(Trimmed(rest)), "quiescent_final")
           d == Len(rest)
           to == Len(bytes)
           on == TRUE
           l1 == [left EXCEPT !.discarding = on]
           l2 == [l1 EXCEPT !.discarded = d]
           l3 == [l2 EXCEPT !.pos = to]
           l4 == [left EXCEPT !.quiet = quiet]
           l5 == Push(left, o, to)
           whole == Len(checkpoint.prefix) + Len(bytes) = polling.size /\ polling.quiescent
<1>0. [left EXCEPT !.discarding = TRUE, !.discarded = Len(rest), !.pos = Len(bytes)] = l3
  OBVIOUS
<1>1. Unterminated(s, bytes) =
        IF Len(rest) > MaximumRecordBytes THEN l3
        ELSE IF ~whole THEN left ELSE IF quiet < RequiredQuietPolls THEN l4 ELSE l5
  BY <1>0, Zenon DEF Unterminated
<1>2. /\ s.pos \in 0 .. Len(bytes) /\ s.discarding = FALSE /\ s.ordinal \in Nat
      /\ s.pos \in Nat /\ Len(bytes) \in Nat
  BY DEF IngestStates
<1>3. \A i \in s.pos + 1 .. Len(bytes) : bytes[i] # "n"
  BY DEF Newlines
<1>4. rest \in Seq(Byte) /\ Len(rest) = Len(bytes) - s.pos
  BY <1>2
<1>5. d \in Int /\ to \in 0 .. Len(bytes) /\ to = Len(bytes) /\ quiet \in Nat /\ on \in BOOLEAN /\ on
  BY <1>2, <1>4
<1>6. prefix \in Seq(Byte) /\ (whole => atEnd) /\ Accounted(prefix, bytes, before, s, FALSE)
  OBVIOUS
<1>7. /\ left \in IngestStates(bytes) /\ left.pos = s.pos /\ left.out = s.out
      /\ left.ordinal = s.ordinal /\ left.discarding = s.discarding /\ left.dropped = s.dropped
  BY StopFields
<1>8. Len(rest) <= MaximumRecordBytes => o \in Observation /\ Tells(o, rest)
  <2> SUFFICES ASSUME Len(rest) <= MaximumRecordBytes
               PROVE  o \in Observation /\ Tells(o, rest)
    OBVIOUS
  <2> HIDE DEF rest
  <2> DEFINE n == Len(Trimmed(rest))  state == "quiescent_final"
  <2>1. Trimmed(rest) \in Seq(Byte) /\ Len(Trimmed(rest)) <= Len(rest)
    BY <1>4, TrimmedIs
  <2>2. n \in Int /\ n <= MaximumRecordBytes /\ state \in Integrities
    BY <2>1, <1>4, Limits DEF Integrities
  <2> HIDE DEF state
  <2>3. Len(Trimmed(rest)) <= MaximumRecordBytes
    BY <2>2
  <2> HIDE DEF n
  <2>4. parseOne(Trimmed(rest), n, state) \in Observation /\ Tells(parseOne(Trimmed(rest), n, state), rest)
    BY <1>4, <2>2, <2>3, ParseIs
  <2> QED
    BY <2>4 DEF n, state
<1> HIDE DEF left, o, quiet, to, d, on, whole, prefix
<1> SUFFICES Unterminated(s, bytes) \in GoodStates(prefix, bytes, before, atEnd)
  BY DEF prefix
<1>9. CASE Len(rest) > MaximumRecordBytes
  <2>1. /\ l1 \in IngestStates(bytes) /\ l1.pos = s.pos /\ l1.out = s.out
        /\ l1.ordinal = s.ordinal /\ l1.discarding = TRUE /\ l1.dropped = s.dropped
    <3>1. /\ l1 \in IngestStates(bytes) /\ l1.pos = left.pos /\ l1.out = left.out
          /\ l1.ordinal = left.ordinal /\ l1.discarding = on /\ l1.dropped = left.dropped
      <4>1. left \in IngestStates(bytes) /\ on \in BOOLEAN
        BY <1>5, <1>7
      <4> HIDE DEF rest
      <4> QED
        BY <4>1, SwitchFields
    <3> QED
      BY <3>1, <1>5, <1>7
  <2> HIDE DEF l1
  <2>2. /\ l2 \in IngestStates(bytes) /\ l2.pos = s.pos /\ l2.out = s.out
        /\ l2.ordinal = s.ordinal /\ l2.discarding = TRUE /\ l2.dropped = s.dropped
    BY <1>5, <2>1, DiscardFields
  <2> HIDE DEF l2
  <2>3. /\ l3 \in IngestStates(bytes) /\ l3.pos = Len(bytes) /\ l3.out = s.out
        /\ l3.ordinal = s.ordinal /\ l3.discarding = TRUE /\ l3.dropped = s.dropped
    BY SMTT(40), <1>5, <2>2, MoveFields
  <2>4. Unterminated(s, bytes) = l3
    BY <1>1, <1>9
  <2> HIDE DEF l3
  <2> DEFINE p == Len(prefix)
             B == prefix \o bytes
             obs == before \o s.out
             q == p + s.pos
             e == p + Len(bytes)
             off == FALSE
  <2>5. /\ B \in Seq(Byte) /\ Len(B) = p + Len(bytes) /\ p \in Nat /\ q \in Nat
    BY <1>2, <1>6, WholeBytes
  <2>6. Accounting(B, q, obs, s.ordinal, off, s.dropped, FALSE) /\ off \in BOOLEAN
    BY <1>2, <1>6 DEF Accounted
  <2>7. e \in Nat /\ q <= e /\ e <= Len(B) /\ e - q > MaximumRecordBytes
    BY SMTT(40), <1>2, <1>4, <1>9, <2>5
  <2>8. \A i \in q + 1 .. e : B[i] # "n"
    <3> DEFINE y == Len(bytes)
    <3>1. y \in Nat /\ y <= Len(bytes) /\ \A i \in s.pos + 1 .. y : bytes[i] # "n"
      BY <1>2, <1>3
    <3> HIDE DEF y
    <3>2. \A i \in Len(prefix) + s.pos + 1 .. Len(prefix) + y : (prefix \o bytes)[i] # "n"
      BY <1>2, <1>6, <3>1, WholeQuiet
    <3> QED
      BY <3>2 DEF y
  <2> HIDE DEF B, q, e, obs, p, off
  <2>9. Accounting(B, e, obs, s.ordinal, TRUE, s.dropped, FALSE)
    BY <2>5, <2>6, <2>7, <2>8, AccountDiscard
  <2>10. Accounted(prefix, bytes, before, l3, FALSE)
    BY <2>3, <2>9 DEF Accounted, B, e, obs, p
  <2> QED
    BY <2>3, <2>4, <2>10, GoodNext
<1>10. ASSUME NEW r \in IngestStates(bytes), r.pos = s.pos, r.out = s.out, r.ordinal = s.ordinal,
              r.discarding = s.discarding, r.dropped = s.dropped
       PROVE  r \in GoodStates(prefix, bytes, before, atEnd)
  <2>1. Accounted(prefix, bytes, before, r, FALSE)
    BY <1>6, <1>10 DEF Accounted
  <2> QED
    BY <2>1, <1>10, GoodNext
<1>11. CASE Len(rest) <= MaximumRecordBytes /\ ~whole
  <2>1. Unterminated(s, bytes) = left
    BY <1>1, <1>4, <1>2, <1>11, Limits
  <2> QED
    BY <2>1, <1>7, <1>10
<1>12. CASE Len(rest) <= MaximumRecordBytes /\ whole /\ quiet < RequiredQuietPolls
  <2>1. Unterminated(s, bytes) = l4
    BY <1>1, <1>4, <1>2, <1>12, Limits
  <2>2. /\ l4 \in IngestStates(bytes) /\ l4.pos = s.pos /\ l4.out = s.out
        /\ l4.ordinal = s.ordinal /\ l4.discarding = s.discarding /\ l4.dropped = s.dropped
    BY <1>5, <1>7, QuietFields
  <2> HIDE DEF l4
  <2> QED
    BY <2>1, <2>2, <1>10
<1>13. CASE Len(rest) <= MaximumRecordBytes /\ whole /\ ~(quiet < RequiredQuietPolls)
  <2>1. Unterminated(s, bytes) = l5
    BY <1>1, <1>4, <1>2, <1>13, Limits
  <2>2. o \in Observation /\ Tells(o, rest)
    BY <1>8, <1>13
  <2>3. /\ l5 \in IngestStates(bytes) /\ l5.pos = to /\ l5.ordinal = left.ordinal + 1
        /\ l5.discarding = left.discarding
        /\ l5.dropped = left.dropped + (IF o.kind \in Losses THEN 1 ELSE 0)
    BY <1>5, <1>7, <2>2, PushFields
  <2>4. l5.out = Push(left, o, Len(bytes)).out
    BY <1>5
  <2> HIDE DEF l5
  <2>5. Accounted(prefix, bytes, before, left, FALSE)
    BY <1>6, <1>7 DEF Accounted
  <2>6. /\ \A i \in left.pos + 1 .. Len(bytes) : bytes[i] # "n"
        /\ left.discarding = FALSE /\ left.pos < Len(bytes)
        /\ Tells(o, SubSeq(bytes, left.pos + 1, Len(bytes)))
    BY <1>2, <1>3, <1>7, <2>2
  <2> HIDE DEF rest
  <2>7. l5 \in GoodStates(prefix, bytes, before, atEnd)
    BY <1>5, <1>6, <1>7, <1>13, <2>2, <2>3, <2>4, <2>5, <2>6, RestKeeps
  <2> QED
    BY <2>1, <2>7
<1> QED
  BY <1>2, <1>4, <1>9, <1>11, <1>12, <1>13, Limits

(* One turn of the loop.                                                     *)
LEMMA StepKeeps ==
  ASSUME checkpoint.prefix \in Seq(Byte), QuietPolls(polling.size) \in Nat,
         NEW bytes \in Seq(Byte), NEW before \in Seq(Observation), NEW atEnd,
         Len(checkpoint.prefix) + Len(bytes) = polling.size /\ polling.quiescent => atEnd,
         NEW s \in GoodStates(checkpoint.prefix, bytes, before, atEnd)
  PROVE  IngestStep(s, bytes) \in GoodStates(checkpoint.prefix, bytes, before, atEnd)
<1>1. s \in IngestStates(bytes)
  BY DEF GoodStates
<1>2. CASE s.stop \/ s.pos >= Len(bytes) \/ Len(s.out) >= MaximumRecordsPerPoll
  <2>1. IngestStep(s, bytes) = s
    BY <1>2 DEF IngestStep
  <2> QED
    BY <2>1
<1>3. CASE ~(s.stop \/ s.pos >= Len(bytes) \/ Len(s.out) >= MaximumRecordsPerPoll)
  <2>1. IngestStep(s, bytes) =
          IF s.discarding THEN DiscardMore(s, bytes, Newlines(bytes, s.pos))
          ELSE IF Newlines(bytes, s.pos) = {} THEN Unterminated(s, bytes)
          ELSE Terminated(s, bytes, Newlines(bytes, s.pos))
    BY <1>3, Zenon DEF IngestStep
  <2>2. s.pos < Len(bytes) /\ s.pos # Len(bytes)
    BY <1>1, <1>3 DEF IngestStates
  <2>3. Accounted(checkpoint.prefix, bytes, before, s, FALSE)
    <3>1. PICK final \in BOOLEAN : /\ Accounted(checkpoint.prefix, bytes, before, s, final)
                                   /\ final => atEnd /\ s.pos = Len(bytes)
      BY DEF GoodStates
    <3>2. final = FALSE
      BY <3>1, <2>2
    <3> QED
      BY <3>1, <3>2
  <2>4. CASE s.discarding
    BY <2>1, <2>2, <2>3, <2>4, <1>1, DiscardKeeps
  <2>5. CASE ~s.discarding /\ Newlines(bytes, s.pos) = {}
    BY <2>1, <2>2, <2>3, <2>5, <1>1, UnterminatedKeeps
  <2>6. CASE ~s.discarding /\ Newlines(bytes, s.pos) # {}
    BY <2>1, <2>3, <2>6, <1>1, TerminatedKeeps
  <2> QED
    BY <2>4, <2>5, <2>6
<1> QED
  BY <1>2, <1>3

(* Closing a discarded record.                                               *)
LEMMA CloseKeeps ==
  ASSUME checkpoint.prefix \in Seq(Byte), QuietPolls(polling.size) \in Nat,
         NEW bytes \in Seq(Byte), NEW before \in Seq(Observation), NEW atEnd,
         polling.quiescent => (Len(checkpoint.prefix) + Len(bytes) <= polling.size)
                              /\ (Len(checkpoint.prefix) + Len(bytes) = polling.size => atEnd),
         polling.size \in Nat,
         NEW s \in GoodStates(checkpoint.prefix, bytes, before, atEnd)
  PROVE  CloseDiscarded(s, polling.size) \in GoodStates(checkpoint.prefix, bytes, before, atEnd)
<1> DEFINE prefix == checkpoint.prefix
           quiet == QuietPolls(polling.size)
           closes == /\ s.discarding /\ Len(checkpoint.prefix) + s.pos = polling.size /\ polling.quiescent
                     /\ Len(s.out) < MaximumRecordsPerPoll
           o == lossObservation("oversize", s.discarded)
           w == Push(s, o, s.pos)
           zero == 0
           off == FALSE
           none == 0
           w1 == [w EXCEPT !.discarded = zero]
           w2 == [w1 EXCEPT !.discarding = off]
           r == [w2 EXCEPT !.quiet = none]
           r1 == [s EXCEPT !.quiet = quiet]
<1>1. [w EXCEPT !.discarded = 0, !.discarding = FALSE, !.quiet = 0] = r
  OBVIOUS
<1>2. CloseDiscarded(s, polling.size) = IF ~closes THEN s ELSE IF quiet < RequiredQuietPolls THEN r1 ELSE r
  BY <1>1, Zenon DEF CloseDiscarded
<1>3. /\ s \in IngestStates(bytes) /\ s.pos \in 0 .. Len(bytes) /\ s.pos \in Nat /\ s.discarded \in Int
      /\ Len(bytes) \in Nat
  BY DEF GoodStates, IngestStates
<1>4. zero \in Int /\ off \in BOOLEAN /\ off = FALSE /\ none \in Nat /\ quiet \in Nat
  OBVIOUS
<1>5. o \in Observation /\ o.kind = "oversize"
  BY <1>3, LossIs DEF Losses
<1> HIDE DEF o, zero, off, none, quiet
<1>6. CASE ~closes
  BY <1>2, <1>6
<1>7. ASSUME closes
      PROVE  Accounted(prefix, bytes, before, s, FALSE) /\ s.discarding = TRUE
  <2>1. s.discarding = TRUE
    BY <1>3, <1>7 DEF IngestStates
  <2>2. PICK final \in BOOLEAN : Accounted(prefix, bytes, before, s, final)
    BY DEF GoodStates
  <2>3. final = FALSE
    BY <2>1, <2>2 DEF Accounted, Accounting, LinesTold, RestTold
  <2> QED
    BY <2>1, <2>2, <2>3
<1>8. CASE closes /\ quiet < RequiredQuietPolls
  <2>1. /\ r1 \in IngestStates(bytes) /\ r1.pos = s.pos /\ r1.out = s.out
        /\ r1.ordinal = s.ordinal /\ r1.discarding = s.discarding /\ r1.dropped = s.dropped
    BY <1>3, <1>4, QuietFields
  <2>2. CloseDiscarded(s, polling.size) = r1
    BY <1>2, <1>8
  <2> HIDE DEF r1
  <2>3. Accounted(prefix, bytes, before, r1, FALSE)
    BY <2>1, <1>7, <1>8 DEF Accounted
  <2> QED
    BY <2>1, <2>2, <2>3, GoodNext
<1>9. CASE closes /\ ~(quiet < RequiredQuietPolls)
  <2>1. /\ w \in IngestStates(bytes) /\ w.pos = s.pos /\ w.ordinal = s.ordinal + 1
        /\ w.dropped = s.dropped + (IF o.kind \in Losses THEN 1 ELSE 0)
    BY <1>3, <1>5, PushFields
  <2>2. CloseDiscarded(s, polling.size) = r
    BY <1>2, <1>9
  <2>3. s.pos = Len(bytes) /\ atEnd
    BY <1>3, <1>9
  <2>4. w.out = Push(s, o, Len(bytes)).out
    BY <2>3
  <2> HIDE DEF w
  <2>5. /\ w1 \in IngestStates(bytes) /\ w1.pos = w.pos /\ w1.out = w.out
        /\ w1.ordinal = w.ordinal /\ w1.dropped = w.dropped
    BY <2>1, <1>4, DiscardFields
  <2> HIDE DEF w1
  <2>6. /\ w2 \in IngestStates(bytes) /\ w2.pos = w.pos /\ w2.out = w.out
        /\ w2.ordinal = w.ordinal /\ w2.dropped = w.dropped /\ w2.discarding = FALSE
    BY <2>5, <1>4, SwitchFields
  <2> HIDE DEF w2
  <2>7. /\ r \in IngestStates(bytes) /\ r.pos = w.pos /\ r.out = w.out
        /\ r.ordinal = w.ordinal /\ r.dropped = w.dropped /\ r.discarding = FALSE
    BY <2>6, <1>4, QuietFields
  <2> HIDE DEF r
  <2>8. \A i \in s.pos + 1 .. Len(bytes) : bytes[i] # "n"
    BY <1>3, <2>3
  <2>9. s.discarding = TRUE /\ Accounted(prefix, bytes, before, s, FALSE)
    BY <1>7, <1>9
  <2>10. r \in GoodStates(prefix, bytes, before, atEnd)
    BY ZenonT(40), <1>3, <1>5, <2>1, <2>3, <2>4, <2>7, <2>8, <2>9, RestKeeps
  <2> QED
    BY <2>2, <2>10
<1> QED
  BY <1>6, <1>8, <1>9

(* What the checkpoints and the rest of the state are made of.               *)
Checkpoints ==
  [prefix : Seq(Byte), ordinal : Nat, discarding : BOOLEAN, discarded : Int, quiet : Nat,
   size : Nat, dropped : Nat, droppedBytes : Int, integrity : Integrities]

TranscriptTyped ==
  /\ transcript \in Seq(Byte) /\ writing \in {"yes", "durable", "torn"}
  /\ checkpoint \in Checkpoints /\ observed \in Seq(Observation)
  /\ degraded \in BOOLEAN /\ mutations \in Nat

(* The checkpoint is accounted for; its unterminated rest was told only when *)
(* nobody writes any more and nothing is behind it.                          *)
CheckpointTold ==
  \E final \in BOOLEAN :
    /\ Accounting(checkpoint.prefix, Len(checkpoint.prefix), observed, checkpoint.ordinal,
                  checkpoint.discarding, checkpoint.dropped, final)
    /\ final => writing # "yes" /\ Len(transcript) <= Len(checkpoint.prefix)

(* A poll works on bytes behind the checkpoint and within the size it found; *)
(* one of a finalization found the size of a file nobody writes any more.    *)
PollSound ==
  \/ polling.step \in {"none", "failed"}
  \/ /\ polling.step \in {"read", "commit"}
     /\ polling.size \in Nat /\ Len(checkpoint.prefix) <= polling.size
     /\ polling.quiescent => Len(transcript) <= polling.size
     /\ polling.step = "commit" =>
          /\ polling.bytes \in Seq(Byte)
          /\ Len(checkpoint.prefix) + Len(polling.bytes) <= polling.size

(* A poll of a finalization runs when nobody writes any more.                *)
QuietPollSound ==
  /\ polling.step \in {"none", "failed", "read", "commit"}
  /\ polling.step # "none" /\ polling.quiescent => writing # "yes"
  /\ polling = NoPoll \/ polling.step # "none"

(* A closed handle has no poll under way; without a failure or a change of   *)
(* the file it closed at the end of the transcript.                          *)
ClosedRead ==
  handle = "closed" =>
    /\ polling = NoPoll /\ writing # "yes"
    /\ (writing = "durable" /\ ~degraded /\ mutations = 0) =>
         checkpoint.prefix = transcript /\ ~checkpoint.discarding

(* The inductive invariant.                                                  *)
TranscriptInv ==
  TranscriptTyped /\ CheckpointTold /\ PollSound /\ QuietPollSound /\ ClosedRead

(* The observations tell the given lines in order.                           *)
ToldInOrder(told, obs, ordinal, dropped) ==
  /\ Len(obs) = Len(told)
  /\ ordinal = Len(obs) + 1
  /\ \A i \in DOMAIN obs : obs[i].id = i /\ Tells(obs[i], told[i])
  /\ dropped = Cardinality({i \in DOMAIN obs : obs[i].kind \in Losses})

(* The accounting by spans is the one the property asks for, line by line.   *)
LEMMA AccountingTells ==
  ASSUME NEW P \in Seq(Byte), NEW obs, NEW ordinal, NEW discarding \in BOOLEAN, NEW dropped,
         NEW final \in BOOLEAN, Accounting(P, Len(P), obs, ordinal, discarding, dropped, final)
  PROVE  ToldInOrder(IF discarding THEN Front(Lines(P)) ELSE Lines(P), obs, ordinal, dropped)
<1> DEFINE all == Lines(P)
           told == IF discarding THEN Front(all) ELSE all
           q == Len(P)
<1>1. PICK a, g : \E n \in Nat :
        /\ LineStart(P, q, a) /\ ListsLines(P, q, n, g)
        /\ \A i \in 1 .. n : Tells(obs[i], SpanText(P, g[i]))
        /\ RestTold(P, q, obs, a, n, discarding, final)
  BY DEF Accounting, LinesTold
<1>2. PICK n \in Nat :
        /\ LineStart(P, q, a) /\ ListsLines(P, q, n, g)
        /\ \A i \in 1 .. n : Tells(obs[i], SpanText(P, g[i]))
        /\ RestTold(P, q, obs, a, n, discarding, final)
  BY <1>1
<1>3. /\ obs \in Seq(Observation) /\ ordinal = Len(obs) + 1 /\ \A i \in 1 .. Len(obs) : obs[i].id = i
      /\ DOMAIN obs = 1 .. Len(obs)
      /\ dropped = Cardinality({i \in DOMAIN obs : obs[i].kind \in Losses})
  BY DEF Accounting, Numbered, LossCount
<1>4. Len(obs) = Len(told) /\ \A i \in 1 .. Len(obs) : Tells(obs[i], told[i])
  <2>1. CASE ~discarding /\ ~final /\ a = q /\ Len(obs) = n
    <3>1. all = [k \in 1 .. n |-> SpanText(P, g[k])]
      BY <1>2, <2>1, LinesWhole
    <3> HIDE DEF all
    <3>2. Len(all) = n /\ \A i \in 1 .. n : all[i] = SpanText(P, g[i])
      BY <3>1
    <3>3. told = all
      BY <2>1
    <3> HIDE DEF told
    <3>4. \A i \in 1 .. n : Tells(obs[i], all[i])
      BY <3>2, <1>2
    <3> QED
      BY <2>1, <3>2, <3>3, <3>4
  <2>2. CASE discarding /\ ~final /\ q - a > MaximumRecordBytes /\ Len(obs) = n
    <3>0. a < Len(P)
      BY <1>2, <2>2, Limits DEF LineStart
    <3>1. PICK h : /\ all = [k \in 1 .. n + 1 |-> SpanText(P, h[k])]
                   /\ \A i \in 1 .. n : h[i] = g[i]
      BY <3>0, <1>2, LinesRest
    <3> HIDE DEF all
    <3>2. Len(all) = n + 1 /\ \A i \in 1 .. n + 1 : all[i] = SpanText(P, h[i])
      BY <3>1
    <3>3. told = SubSeq(all, 1, n)
      <4>1. told = Front(all)
        BY <2>2
      <4>2. Len(all) - 1 = n
        BY <3>2
      <4> QED
        BY <4>1, <4>2, Zenon DEF Front
    <3> HIDE DEF told
    <3>4. Len(told) = n /\ \A i \in 1 .. n : told[i] = all[i]
      <4>1. all \in Seq({all[i] : i \in 1 .. n + 1})
        BY <3>1, <3>2
      <4> QED
        BY <3>2, <3>3, <4>1
    <3>5. \A i \in 1 .. n : Tells(obs[i], told[i])
      <4> SUFFICES ASSUME NEW i \in 1 .. n
                   PROVE  Tells(obs[i], told[i])
        OBVIOUS
      <4>1. told[i] = SpanText(P, g[i])
        <5>1. i \in 1 .. n + 1
          OBVIOUS
        <5> QED
          BY <5>1, <3>1, <3>2, <3>4
      <4> QED
        BY <4>1, <1>2
    <3> QED
      BY <2>2, <3>4, <3>5
  <2>3. CASE ~discarding /\ final /\ a < q /\ Len(obs) = n + 1 /\ Tells(obs[n + 1], SubSeq(P, a + 1, q))
    <3>1. PICK h : /\ all = [k \in 1 .. n + 1 |-> SpanText(P, h[k])]
                   /\ \A i \in 1 .. n : h[i] = g[i]
                   /\ SpanText(P, h[n + 1]) = SubSeq(P, a + 1, Len(P))
      BY <2>3, <1>2, LinesRest
    <3> HIDE DEF all
    <3>2. Len(all) = n + 1 /\ \A i \in 1 .. n + 1 : all[i] = SpanText(P, h[i])
      BY <3>1
    <3>3. told = all
      BY <2>3
    <3> HIDE DEF told
    <3>4. \A i \in 1 .. n + 1 : Tells(obs[i], all[i])
      <4> SUFFICES ASSUME NEW i \in 1 .. n + 1
                   PROVE  Tells(obs[i], all[i])
        OBVIOUS
      <4>1. CASE i = n + 1
        <5>1. all[i] = SubSeq(P, a + 1, q)
          BY <4>1, <3>1, <3>2
        <5> QED
          BY <5>1, <4>1, <2>3
      <4>2. CASE i \in 1 .. n
        <5>1. all[i] = SpanText(P, g[i])
          BY <4>2, <3>1, <3>2
        <5> QED
          BY <5>1, <4>2, <1>2
      <4> QED
        BY <4>1, <4>2
    <3> QED
      BY <2>3, <3>2, <3>3, <3>4
  <2> QED
    BY <2>1, <2>2, <2>3, <1>2 DEF RestTold
<1> HIDE DEF told
<1>5. /\ Len(obs) = Len(told) /\ ordinal = Len(obs) + 1
      /\ \A i \in DOMAIN obs : obs[i].id = i /\ Tells(obs[i], told[i])
      /\ dropped = Cardinality({i \in DOMAIN obs : obs[i].kind \in Losses})
  BY <1>3, <1>4
<1> QED
  BY <1>5, Zenon DEF told, ToldInOrder

(* The inductive invariant implies the property.                             *)
LEMMA TranscriptInvImplies ==
  ASSUME TranscriptInv
  PROVE  TranscriptAccountedFor
<1>1. PICK final \in BOOLEAN :
        Accounting(checkpoint.prefix, Len(checkpoint.prefix), observed, checkpoint.ordinal,
                   checkpoint.discarding, checkpoint.dropped, final)
  BY DEF TranscriptInv, CheckpointTold
<1> DEFINE P == checkpoint.prefix  d == checkpoint.discarding  o == checkpoint.ordinal
           l == checkpoint.dropped
           told == IF d THEN Front(Lines(P)) ELSE Lines(P)
<1>2. P \in Seq(Byte) /\ d \in BOOLEAN /\ Accounting(P, Len(P), observed, o, d, l, final)
  BY <1>1 DEF TranscriptInv, TranscriptTyped, Checkpoints
<1> HIDE DEF P, d, o, l
<1>3. ToldInOrder(told, observed, o, l)
  BY <1>2, AccountingTells
<1>4. (handle = "closed" /\ writing = "durable" /\ ~degraded /\ mutations = 0) =>
        checkpoint.prefix = transcript /\ ~checkpoint.discarding
  BY DEF TranscriptInv, ClosedRead
<1> QED
  BY <1>3, <1>4, Zenon DEF TranscriptAccountedFor, ToldInOrder, P, d, o, l

(***************************************************************************)
(* The loop as a whole                                                     *)
(***************************************************************************)
LEMMA QuietPollsType ==
  ASSUME NEW size, checkpoint \in Checkpoints
  PROVE  QuietPolls(size) \in Nat
<1>1. RequiredQuietPolls \in Nat
  <2>1. RequiredQuietPolls \in {MaxTranscript, MaximumChunkBytes, MaximumRecordBytes,
                                MaximumRecordsPerPoll, RequiredQuietPolls, MaxFinalPolls, MaxMutations}
    OBVIOUS
  <2> QED
    BY <2>1, TranscriptBounds DEF TranscriptBounds
<1>2. checkpoint.quiet \in Nat
  BY DEF Checkpoints
<1> QED
  BY <1>1, <1>2 DEF QuietPolls

(* The loop starts from a state that accounts for the committed prefix.      *)
LEMMA FirstGood ==
  ASSUME checkpoint \in Checkpoints, observed \in Seq(Observation), NEW bytes \in Seq(Byte), NEW path,
         NEW atEnd, NEW final \in BOOLEAN,
         Accounting(checkpoint.prefix, Len(checkpoint.prefix), observed, checkpoint.ordinal,
                    checkpoint.discarding, checkpoint.dropped, final),
         final => atEnd /\ Len(bytes) = 0
  PROVE  IngestFirst(path) \in GoodStates(checkpoint.prefix, bytes, observed, atEnd)
<1> DEFINE s == IngestFirst(path)
           P == checkpoint.prefix
           B == P \o bytes
<1>1. /\ P \in Seq(Byte) /\ checkpoint.ordinal \in Nat /\ checkpoint.discarding \in BOOLEAN
      /\ checkpoint.discarded \in Int /\ checkpoint.dropped \in Nat
      /\ checkpoint.droppedBytes \in Int /\ checkpoint.integrity \in Integrities
  BY DEF Checkpoints
<1>2. (IF path = "current" THEN checkpoint.integrity ELSE "replaced") \in Integrities
  BY <1>1 DEF Integrities
<1>3. Len(bytes) \in Nat /\ 0 \in 0 .. Len(bytes) /\ <<>> \in Seq(Observation)
  OBVIOUS
<1>4. /\ s.pos = 0 /\ s.out = <<>> /\ s.ordinal = checkpoint.ordinal
      /\ s.discarding = checkpoint.discarding /\ s.dropped = checkpoint.dropped
  BY DEF IngestFirst
<1>5. s \in IngestStates(bytes)
  BY <1>1, <1>2, <1>3 DEF IngestStates, IngestFirst
<1> HIDE DEF s
<1>6. observed \o s.out = observed
  BY <1>4
<1>7. /\ B \in Seq(Byte) /\ Len(P) <= Len(B) /\ Len(P) \in Nat
      /\ \A i \in 1 .. Len(P) : P[i] = B[i]
  BY <1>1, WholeBytes
<1>8. Accounting(P, Len(P), observed, s.ordinal, s.discarding, s.dropped, final)
  BY <1>4
<1> HIDE DEF B, P
<1>9. Accounting(B, Len(P), observed, s.ordinal, s.discarding, s.dropped, final)
  <2> DEFINE q == Len(P)
  <2>1. /\ q \in Nat /\ q <= Len(B) /\ q <= Len(P) /\ \A i \in 1 .. q : P[i] = B[i]
        /\ Accounting(P, q, observed, s.ordinal, s.discarding, s.dropped, final)
    BY <1>7, <1>8
  <2> HIDE DEF q
  <2>2. Accounting(B, q, observed, s.ordinal, s.discarding, s.dropped, final)
    BY <1>1, <1>7, <2>1, AccountLocal
  <2> QED
    BY <2>2 DEF q
<1>10. Len(P) + s.pos = Len(P)
  BY <1>4, <1>7
<1>11. Accounted(P, bytes, observed, s, final)
  BY <1>6, <1>9, <1>10 DEF Accounted, B
<1>12. s \in GoodStates(P, bytes, observed, atEnd)
  BY <1>4, <1>5, <1>11, GoodNext
<1> QED
  BY <1>12 DEF s, P

(* So the loop ends in one that accounts for the prefix it moves to.         *)
LEMMA LoopGood ==
  ASSUME checkpoint \in Checkpoints, observed \in Seq(Observation), NEW bytes \in Seq(Byte), NEW path,
         NEW atEnd, NEW final \in BOOLEAN,
         Accounting(checkpoint.prefix, Len(checkpoint.prefix), observed, checkpoint.ordinal,
                    checkpoint.discarding, checkpoint.dropped, final),
         final => atEnd /\ Len(bytes) = 0,
         polling.quiescent => (Len(checkpoint.prefix) + Len(bytes) <= polling.size)
                              /\ (Len(checkpoint.prefix) + Len(bytes) = polling.size => atEnd),
         polling.size \in Nat
  PROVE  CloseDiscarded(IngestLoop(bytes, path), polling.size)
           \in GoodStates(checkpoint.prefix, bytes, observed, atEnd)
<1> DEFINE Good == GoodStates(checkpoint.prefix, bytes, observed, atEnd)
           s == IngestLoop(bytes, path)
<1>1. checkpoint.prefix \in Seq(Byte) /\ QuietPolls(polling.size) \in Nat /\ Len(bytes) \in Nat
  BY QuietPollsType DEF Checkpoints
<1>2. IngestFirst(path) \in Good
  BY FirstGood
<1>3. ASSUME NEW r \in Good
      PROVE  IngestStep(r, bytes) \in Good
  BY <1>1, StepKeeps
<1> HIDE DEF Good
<1>4. s \in Good
  BY <1>1, <1>2, <1>3, LoopKeeps
<1> HIDE DEF s
<1>5. s \in GoodStates(checkpoint.prefix, bytes, observed, atEnd)
  BY <1>4 DEF Good
<1>6. CloseDiscarded(s, polling.size) \in GoodStates(checkpoint.prefix, bytes, observed, atEnd)
  BY <1>1, <1>5, CloseKeeps
<1> QED
  BY <1>6 DEF s

(* The checkpoint made of the end of the loop.                               *)
LEMMA NextGood ==
  ASSUME checkpoint \in Checkpoints, observed \in Seq(Observation), NEW bytes \in Seq(Byte),
         NEW atEnd, NEW size \in Nat,
         NEW s \in GoodStates(checkpoint.prefix, bytes, observed, atEnd)
  PROVE  LET next == nextState(s, bytes, size)
         IN /\ next \in Checkpoints /\ s.out \in Seq(Observation)
            /\ s.pos \in 0 .. Len(bytes) /\ next.prefix = checkpoint.prefix \o SubSeq(bytes, 1, s.pos)
            /\ \E final \in BOOLEAN :
                 /\ Accounting(next.prefix, Len(next.prefix), observed \o s.out, next.ordinal,
                               next.discarding, next.dropped, final)
                 /\ final => atEnd /\ Len(next.prefix) = Len(checkpoint.prefix) + Len(bytes)
<1> DEFINE next == nextState(s, bytes, size)
           P == checkpoint.prefix
           N == P \o SubSeq(bytes, 1, s.pos)
           B == P \o bytes
           q == Len(P) + s.pos
<1>1. /\ s \in IngestStates(bytes) /\ s.pos \in 0 .. Len(bytes) /\ s.pos \in Nat
      /\ s.out \in Seq(Observation) /\ s.ordinal \in Nat /\ s.discarding \in BOOLEAN
      /\ s.discarded \in Int /\ s.quiet \in Nat /\ s.dropped \in Nat /\ s.droppedBytes \in Int
      /\ s.integrity \in Integrities
  BY DEF GoodStates, IngestStates
<1>2. PICK final \in BOOLEAN : /\ Accounted(P, bytes, observed, s, final)
                               /\ final => atEnd /\ s.pos = Len(bytes)
  BY DEF GoodStates
<1>3. P \in Seq(Byte) /\ Len(P) \in Nat /\ Len(bytes) \in Nat /\ q \in Nat
  <2>1. P \in Seq(Byte)
    BY DEF Checkpoints
  <2> HIDE DEF P
  <2>2. Len(P) \in Nat /\ Len(bytes) \in Nat
    BY <2>1
  <2> QED
    BY <1>1, <2>1, <2>2
<1>4. /\ N \in Seq(Byte) /\ Len(N) = q
      /\ \A i \in 1 .. q : B[i] = N[i]
  <2> DEFINE u == s.pos  part == SubSeq(bytes, 1, u)
  <2>1. u \in Nat /\ u <= Len(bytes)
    BY <1>1, <1>3
  <2> HIDE DEF u
  <2>2. part \in Seq(Byte) /\ Len(part) = u /\ \A i \in 1 .. u : part[i] = bytes[i]
    BY <2>1
  <2> HIDE DEF part, P
  <2>3. /\ P \o part \in Seq(Byte) /\ Len(P \o part) = Len(P) + u
        /\ \A i \in 1 .. Len(P) + u : (P \o bytes)[i] = (P \o part)[i]
    BY SMTT(40), <2>1, <2>2, <1>3
  <2> QED
    BY <2>3 DEF u, part
<1>5. B \in Seq(Byte) /\ Len(B) = Len(P) + Len(bytes) /\ q <= Len(B)
  BY <1>1, <1>3, WholeBytes
<1> HIDE DEF N
<1>6. /\ next.prefix = N /\ next.ordinal = s.ordinal /\ next.discarding = s.discarding
      /\ next.dropped = s.dropped
  BY DEF nextState, N
<1>7. next \in Checkpoints
  <2>1. next = [prefix |-> N, ordinal |-> s.ordinal,
                discarding |-> s.discarding, discarded |-> s.discarded, quiet |-> s.quiet, size |-> size,
                dropped |-> s.dropped, droppedBytes |-> s.droppedBytes, integrity |-> s.integrity]
    BY Zenon DEF nextState, N
  <2> QED
    BY <1>1, <1>4, <2>1 DEF Checkpoints
<1> HIDE DEF next
<1> DEFINE obs == observed \o s.out
<1>8. Accounting(B, q, obs, s.ordinal, s.discarding, s.dropped, final)
  BY <1>2 DEF Accounted
<1> HIDE DEF B, q, obs, P
<1>9. Accounting(N, q, obs, s.ordinal, s.discarding, s.dropped, final)
  <2>1. q <= Len(N)
    BY <1>3, <1>4
  <2> QED
    BY <2>1, <1>3, <1>4, <1>5, <1>8, AccountLocal
<1>10. Accounting(next.prefix, Len(next.prefix), obs, next.ordinal, next.discarding, next.dropped, final)
  BY <1>4, <1>6, <1>9
<1>11. final => atEnd /\ Len(next.prefix) = Len(P) + Len(bytes)
  BY <1>2, <1>4, <1>6 DEF q
<1>12. next.prefix = P \o SubSeq(bytes, 1, s.pos)
  BY <1>6 DEF N
<1> QED
  BY <1>1, <1>7, <1>10, <1>11, <1>12 DEF next, obs, P

(* Nothing is written, read or told at the start.                            *)
LEMMA TranscriptStarts ==
  ASSUME TranscriptInit
  PROVE  TranscriptInv
<1> DEFINE fresh == createTranscriptIngestorState
           none == <<>>
<1>1. /\ fresh \in Checkpoints /\ fresh.prefix = <<>> /\ fresh.ordinal = 1 /\ fresh.discarding = FALSE
      /\ fresh.dropped = 0
  BY DEF createTranscriptIngestorState, Checkpoints, Integrities
<1>2. Numbered(<<>>, 1, 0)
  <2>1. {i \in DOMAIN <<>> : none[i].kind \in Losses} = {}
    OBVIOUS
  <2>2. LossCount(<<>>) = 0
    BY <2>1, FS_EmptySet DEF LossCount
  <2> QED
    BY <2>2 DEF Numbered
<1>3. LinesTold(<<>>, 0, <<>>, FALSE, FALSE)
  <2> DEFINE g == [i \in 1 .. 0 |-> [from |-> 0, to |-> 0]]
  <2>1. ListsLines(<<>>, 0, 0, g) /\ LineStart(<<>>, 0, 0)
    BY NothingListed
  <2> HIDE DEF g
  <2>2. RestTold(<<>>, 0, <<>>, 0, 0, FALSE, FALSE)
    BY DEF RestTold
  <2>3. \A i \in 1 .. 0 : Tells(none[i], SpanText(<<>>, g[i]))
    OBVIOUS
  <2> QED
    BY <2>1, <2>2, <2>3 DEF LinesTold
<1>4. Accounting(<<>>, 0, <<>>, 1, FALSE, 0, FALSE)
  BY <1>2, <1>3 DEF Accounting
<1> HIDE DEF fresh
<1>5. checkpoint = fresh /\ observed = <<>> /\ transcript = <<>>
  BY DEF TranscriptInit, fresh
<1>6. CheckpointTold
  <2>1. Len(checkpoint.prefix) = 0
    BY <1>1, <1>5
  <2>2. Accounting(checkpoint.prefix, Len(checkpoint.prefix), observed, checkpoint.ordinal,
                   checkpoint.discarding, checkpoint.dropped, FALSE)
    BY <1>1, <1>4, <1>5, <2>1
  <2> QED
    BY <2>2 DEF CheckpointTold
<1>7. TranscriptTyped
  <2>1. checkpoint \in Checkpoints
    BY <1>1, <1>5
  <2>2. transcript \in Seq(Byte) /\ observed \in Seq(Observation)
    BY <1>5
  <2>3. writing \in {"yes", "durable", "torn"} /\ degraded \in BOOLEAN /\ mutations \in Nat
    BY DEF TranscriptInit
  <2> QED
    BY <2>1, <2>2, <2>3 DEF TranscriptTyped
<1>8. PollSound /\ QuietPollSound
  BY DEF PollSound, QuietPollSound, TranscriptInit, NoPoll
<1>9. ClosedRead
  BY DEF ClosedRead, TranscriptInit
<1> QED
  BY <1>6, <1>7, <1>8, <1>9 DEF TranscriptInv

(* The bytes written, committed and observed have lengths.                   *)
LEMMA LengthsAre ==
  ASSUME TranscriptTyped
  PROVE  /\ checkpoint.prefix \in Seq(Byte) /\ Len(checkpoint.prefix) \in Nat
         /\ Len(transcript) \in Nat /\ checkpoint.discarding \in BOOLEAN
  BY DEF TranscriptTyped, Checkpoints

(* A step that touches neither checkpoint nor observations, and after which  *)
(* nothing more is written, nor was anything when the writing had ended.     *)
LEMMA CheckpointTellsOn ==
  ASSUME TranscriptInv, UNCHANGED <<checkpoint, observed>>,
         writing # "yes" => writing' # "yes" /\ Len(transcript') <= Len(transcript),
         Len(transcript') \in Nat
  PROVE  CheckpointTold'
<1>1. PICK final \in BOOLEAN :
        /\ Accounting(checkpoint.prefix, Len(checkpoint.prefix), observed, checkpoint.ordinal,
                      checkpoint.discarding, checkpoint.dropped, final)
        /\ final => writing # "yes" /\ Len(transcript) <= Len(checkpoint.prefix)
  BY DEF TranscriptInv, CheckpointTold
<1>2. Len(checkpoint.prefix) \in Nat /\ Len(transcript) \in Nat
  BY LengthsAre DEF TranscriptInv
<1>3. final => writing' # "yes" /\ Len(transcript') <= Len(checkpoint.prefix)
  BY <1>1, <1>2
<1>4. checkpoint' = checkpoint /\ observed' = observed
  OBVIOUS
<1>5. /\ Accounting(checkpoint'.prefix, Len(checkpoint'.prefix), observed', checkpoint'.ordinal,
                    checkpoint'.discarding, checkpoint'.dropped, final)
      /\ final => writing' # "yes" /\ Len(transcript') <= Len(checkpoint'.prefix)
  BY <1>1, <1>3, <1>4
<1> QED
  BY <1>5 DEF CheckpointTold

(* The provider writes a byte.                                               *)
LEMMA WriteKeeps ==
  ASSUME TranscriptInv, NEW b \in Byte, onTranscriptProgress(b)
  PROVE  TranscriptInv'
<1> USE DEF onTranscriptProgress
<1>1. transcript' \in Seq(Byte) /\ Len(transcript') \in Nat
  BY DEF TranscriptInv, TranscriptTyped
<1>2. TranscriptTyped'
  BY <1>1 DEF TranscriptInv, TranscriptTyped
<1>3. CheckpointTold'
  BY <1>1, CheckpointTellsOn
<1>4. PollSound' /\ QuietPollSound'
  BY DEF PollSound, QuietPollSound, NoPoll
<1>5. ClosedRead'
  BY DEF TranscriptInv, ClosedRead
<1> QED
  BY <1>2, <1>3, <1>4, <1>5 DEF TranscriptInv

(* The transport ends, with the transcript durable or torn.                  *)
LEMMA EndKeeps ==
  ASSUME TranscriptInv, transportEnds
  PROVE  TranscriptInv'
<1> USE DEF transportEnds
<1>1. Len(transcript) \in Nat
  BY LengthsAre DEF TranscriptInv
<1>2. TranscriptTyped'
  BY DEF TranscriptInv, TranscriptTyped
<1>3. CheckpointTold'
  BY <1>1, CheckpointTellsOn
<1>4. PollSound' /\ QuietPollSound'
  BY DEF PollSound, QuietPollSound, NoPoll
<1>5. ClosedRead'
  BY DEF TranscriptInv, ClosedRead
<1> QED
  BY <1>2, <1>3, <1>4, <1>5 DEF TranscriptInv

(* The handle of a torn transcript, or of a run that ends, is closed.        *)
LEMMA ForceKeeps ==
  ASSUME TranscriptInv, forceClose
  PROVE  TranscriptInv'
<1> USE DEF forceClose
<1>1. Len(transcript) \in Nat
  BY LengthsAre DEF TranscriptInv
<1>2. TranscriptTyped'
  BY DEF TranscriptInv, TranscriptTyped
<1>3. CheckpointTold'
  BY <1>1, CheckpointTellsOn
<1>4. PollSound' /\ QuietPollSound'
  BY DEF PollSound, QuietPollSound, NoPoll
<1>5. ClosedRead'
  BY DEF TranscriptInv, ClosedRead
<1> QED
  BY <1>2, <1>3, <1>4, <1>5 DEF TranscriptInv

(* The parent dies: the checkpoint and the observations stay.                *)
LEMMA CrashKeeps ==
  ASSUME TranscriptInv, parentCrash
  PROVE  TranscriptInv'
<1> USE DEF parentCrash
<1>1. Len(transcript) \in Nat
  BY LengthsAre DEF TranscriptInv
<1>2. TranscriptTyped'
  BY DEF TranscriptInv, TranscriptTyped
<1>3. CheckpointTold'
  BY <1>1, CheckpointTellsOn
<1>4. PollSound' /\ QuietPollSound'
  BY DEF PollSound, QuietPollSound, NoPoll
<1>5. ClosedRead'
  BY DEF ClosedRead
<1> QED
  BY <1>2, <1>3, <1>4, <1>5 DEF TranscriptInv

(* A restarted parent opens the source at its checkpoint.                    *)
LEMMA ReopenKeeps ==
  ASSUME TranscriptInv, reopen
  PROVE  TranscriptInv'
<1> USE DEF reopen
<1>1. Len(transcript) \in Nat /\ checkpoint \in Checkpoints
  BY LengthsAre DEF TranscriptInv, TranscriptTyped
<1>2. /\ checkpoint' \in Checkpoints /\ checkpoint'.prefix = checkpoint.prefix
      /\ checkpoint'.ordinal = checkpoint.ordinal /\ checkpoint'.discarding = checkpoint.discarding
      /\ checkpoint'.dropped = checkpoint.dropped
  <2> DEFINE n == Len(transcript)
             c == [checkpoint EXCEPT !.size = n]
  <2>1. n \in Nat
    BY <1>1
  <2>2. checkpoint' = IF checkpoint = createTranscriptIngestorState THEN c ELSE checkpoint
    OBVIOUS
  <2> HIDE DEF n
  <2>3. /\ c \in Checkpoints /\ c.prefix = checkpoint.prefix
        /\ c.ordinal = checkpoint.ordinal /\ c.discarding = checkpoint.discarding
        /\ c.dropped = checkpoint.dropped
    BY <1>1, <2>1 DEF Checkpoints
  <2> HIDE DEF c
  <2> QED
    BY <1>1, <2>2, <2>3
<1>3. TranscriptTyped'
  BY <1>2 DEF TranscriptInv, TranscriptTyped
<1>4. CheckpointTold'
  <2>1. PICK final \in BOOLEAN :
          /\ Accounting(checkpoint.prefix, Len(checkpoint.prefix), observed, checkpoint.ordinal,
                        checkpoint.discarding, checkpoint.dropped, final)
          /\ final => writing # "yes" /\ Len(transcript) <= Len(checkpoint.prefix)
    BY DEF TranscriptInv, CheckpointTold
  <2>2. transcript' = transcript /\ writing' = writing /\ observed' = observed
    OBVIOUS
  <2>3. /\ Accounting(checkpoint'.prefix, Len(checkpoint'.prefix), observed', checkpoint'.ordinal,
                      checkpoint'.discarding, checkpoint'.dropped, final)
        /\ final => writing' # "yes" /\ Len(transcript') <= Len(checkpoint'.prefix)
    BY <1>2, <2>1, <2>2
  <2> QED
    BY <2>3 DEF CheckpointTold
<1>5. PollSound'
  BY <1>2 DEF TranscriptInv, PollSound
<1>6. QuietPollSound'
  BY DEF TranscriptInv, QuietPollSound, NoPoll
<1>7. ClosedRead'
  BY DEF ClosedRead
<1> QED
  BY <1>3, <1>4, <1>5, <1>6, <1>7 DEF TranscriptInv

(* A newer attempt, which the accounting does not depend on.                 *)
LEMMA AttemptKeeps ==
  ASSUME TranscriptInv,
         UNCHANGED <<transcript, writing, checkpoint, observed, handle, polling, degraded, mutations>>
  PROVE  TranscriptInv'
<1>1. Len(transcript) \in Nat
  BY LengthsAre DEF TranscriptInv
<1>2. TranscriptTyped'
  BY DEF TranscriptInv, TranscriptTyped
<1>3. CheckpointTold'
  BY <1>1, CheckpointTellsOn
<1>4. PollSound' /\ QuietPollSound'
  BY DEF TranscriptInv, PollSound, QuietPollSound, NoPoll
<1>5. ClosedRead'
  BY DEF TranscriptInv, ClosedRead, NoPoll
<1> QED
  BY <1>2, <1>3, <1>4, <1>5 DEF TranscriptInv

(* Somebody else changes the file: the readers may miss what it said.        *)
LEMMA MutateKeeps ==
  ASSUME TranscriptInv, mutateSource
  PROVE  TranscriptInv'
<1>1. transcript \in Seq(Byte) /\ Len(transcript) \in Nat /\ mutations \in Nat
  BY DEF TranscriptInv, TranscriptTyped
<1>2. transcript' \in Seq(Byte) /\ Len(transcript') <= Len(transcript) /\ Len(transcript') \in Nat
  <2>1. CASE transcript # <<>> /\ transcript' = Front(transcript)
    <3> DEFINE u == Len(transcript) - 1
    <3>1. u \in Nat /\ u <= Len(transcript)
      BY <1>1, <2>1
    <3>2. transcript' = SubSeq(transcript, 1, u)
      BY <2>1 DEF Front
    <3> HIDE DEF u
    <3> QED
      BY <1>1, <3>1, <3>2
  <2>2. CASE \E i \in DOMAIN transcript, b \in {"a", "n"} :
               transcript[i] # b /\ transcript' = [transcript EXCEPT ![i] = b]
    <3>1. PICK i \in DOMAIN transcript, b \in {"a", "n"} : transcript' = [transcript EXCEPT ![i] = b]
      BY <2>2
    <3>2. b \in Byte
      BY DEF Byte
    <3> QED
      BY <1>1, <3>1, <3>2
  <2>3. CASE transcript' = transcript
    BY <2>3, <1>1
  <2> QED
    BY <2>1, <2>2, <2>3 DEF mutateSource
<1>3. /\ UNCHANGED <<writing, checkpoint, observed, handle, polling, degraded>>
      /\ mutations' = mutations + 1
  BY DEF mutateSource
<1>4. TranscriptTyped'
  BY <1>1, <1>2, <1>3 DEF TranscriptInv, TranscriptTyped
<1>5. CheckpointTold'
  BY <1>2, <1>3, CheckpointTellsOn
<1>6. PollSound'
  <2>1. checkpoint' = checkpoint /\ polling' = polling
    BY <1>3
  <2>2. CASE polling.step \in {"none", "failed"}
    BY <2>1, <2>2 DEF PollSound
  <2>3. CASE polling.step \notin {"none", "failed"}
    <3>1. /\ polling.step \in {"read", "commit"}
          /\ polling.size \in Nat /\ Len(checkpoint.prefix) <= polling.size
          /\ polling.quiescent => Len(transcript) <= polling.size
          /\ polling.step = "commit" =>
               /\ polling.bytes \in Seq(Byte)
               /\ Len(checkpoint.prefix) + Len(polling.bytes) <= polling.size
      BY <2>3 DEF TranscriptInv, PollSound
    <3>2. polling.quiescent => Len(transcript') <= polling.size
      BY <1>1, <1>2, <3>1
    <3> QED
      BY <2>1, <3>1, <3>2 DEF PollSound
  <2> QED
    BY <2>2, <2>3
<1>7. QuietPollSound'
  BY <1>3 DEF TranscriptInv, QuietPollSound, NoPoll
<1>8. ClosedRead'
  BY <1>1, <1>3 DEF TranscriptInv, ClosedRead, NoPoll
<1> QED
  BY <1>4, <1>5, <1>6, <1>7, <1>8 DEF TranscriptInv

(* A poll starts.                                                            *)
LEMMA PollKeeps ==
  ASSUME TranscriptInv, NEW quiescent \in BOOLEAN, pollTranscript(quiescent),
         quiescent => writing # "yes", handle \in {"open", "finishing"}
  PROVE  TranscriptInv'
<1>1. UNCHANGED <<transcript, writing, checkpoint, observed, handle, degraded, mutations>>
  BY DEF pollTranscript
<1>2. Len(transcript) \in Nat /\ Len(checkpoint.prefix) \in Nat
  BY LengthsAre DEF TranscriptInv
<1>3. TranscriptTyped'
  BY <1>1 DEF TranscriptInv, TranscriptTyped
<1>4. CheckpointTold'
  BY <1>1, <1>2, CheckpointTellsOn
<1>5. \/ /\ polling' = [step |-> "read", quiescent |-> quiescent, size |-> Len(transcript)]
         /\ Len(checkpoint.prefix) <= Len(transcript)
      \/ polling' = [step |-> "failed", quiescent |-> quiescent]
  BY DEF pollTranscript, hashPrefix, IsPrefix
<1>6. PollSound'
  <2>1. CASE /\ polling' = [step |-> "read", quiescent |-> quiescent, size |-> Len(transcript)]
             /\ Len(checkpoint.prefix) <= Len(transcript)
    <3>1. /\ polling'.step = "read" /\ polling'.size = Len(transcript)
          /\ transcript' = transcript /\ checkpoint' = checkpoint
      BY <1>1, <2>1
    <3>2. /\ polling'.size \in Nat /\ Len(checkpoint'.prefix) <= polling'.size
          /\ Len(transcript') <= polling'.size /\ polling'.step # "commit"
      BY <1>2, <2>1, <3>1
    <3> QED
      BY <3>1, <3>2 DEF PollSound
  <2>2. CASE polling' = [step |-> "failed", quiescent |-> quiescent]
    BY <2>2 DEF PollSound
  <2> QED
    BY <1>5, <2>1, <2>2
<1>7. QuietPollSound'
  BY <1>1, <1>5 DEF QuietPollSound, NoPoll
<1>8. ClosedRead'
  BY <1>1 DEF ClosedRead
<1> QED
  BY <1>3, <1>4, <1>6, <1>7, <1>8 DEF TranscriptInv

(* The bytes behind the checkpoint, within the size found and the file.      *)
LEMMA ReadKeeps ==
  ASSUME TranscriptInv, readSource
  PROVE  TranscriptInv'
<1> DEFINE from == Len(checkpoint.prefix)
           room == polling.size - from
           there == Len(transcript) - from
           count == Min({MaximumChunkBytes, room, there})
           bytes == SubSeq(transcript, from + 1, from + count)
<1>1. UNCHANGED <<transcript, writing, checkpoint, observed, handle, degraded, mutations>>
  BY DEF readSource, Unmoved
<1>2. Len(transcript) \in Nat /\ from \in Nat /\ transcript \in Seq(Byte)
  BY LengthsAre DEF TranscriptInv, TranscriptTyped
<1>3. polling.step = "read"
  BY DEF readSource
<1>4. /\ polling.size \in Nat /\ from <= polling.size
      /\ polling.quiescent => Len(transcript) <= polling.size
  BY <1>3 DEF TranscriptInv, PollSound
<1>5. polling.quiescent => writing # "yes"
  BY <1>3 DEF TranscriptInv, QuietPollSound
<1>6. polling' = IF Len(transcript) < from
                 THEN [step |-> "failed", quiescent |-> polling.quiescent]
                 ELSE [step |-> "commit", quiescent |-> polling.quiescent, size |-> polling.size,
                       bytes |-> bytes]
  BY DEF readSource
<1>7. from <= Len(transcript) =>
        bytes \in Seq(Byte) /\ from + Len(bytes) <= polling.size
  <2> SUFFICES ASSUME from <= Len(transcript)
               PROVE  bytes \in Seq(Byte) /\ from + Len(bytes) <= polling.size
    OBVIOUS
  <2>1. MaximumChunkBytes \in Nat
    <3>1. MaximumChunkBytes \in {MaxTranscript, MaximumChunkBytes, MaximumRecordBytes,
                                 MaximumRecordsPerPoll, RequiredQuietPolls, MaxFinalPolls, MaxMutations}
      OBVIOUS
    <3> QED
      BY <3>1, TranscriptBounds DEF TranscriptBounds
  <2>2. room \in Nat /\ there \in Nat
    BY <1>2, <1>4
  <2> DEFINE S == {MaximumChunkBytes, room, there}
  <2>3. count \in S /\ \A y \in S : count <= y
    <3>1. S \subseteq Nat /\ S # {}
      BY <2>1, <2>2
    <3>2. \E x \in S : \A y \in S : x <= y
      <4> HIDE DEF S
      <4> QED
        BY <3>1, LeastOf
    <3>3. count = CHOOSE x \in S : \A y \in S : x <= y
      BY DEF Min
    <3> HIDE DEF S, count
    <3> QED
      BY <3>2, <3>3
  <2>4. count \in Nat /\ count <= room /\ count <= there
    <3> HIDE DEF count, room, there
    <3> QED
      BY <2>1, <2>2, <2>3
  <2> HIDE DEF count
  <2> DEFINE lo == from + 1  hi == from + count
  <2>5. lo \in Nat /\ hi \in Nat /\ 1 <= lo /\ hi <= Len(transcript) /\ hi <= polling.size /\ lo = from + 1
        /\ from <= hi
    BY <1>2, <1>4, <2>4
  <2> HIDE DEF lo, hi, from
  <2>6. SubSeq(transcript, lo, hi) \in Seq(Byte) /\ Len(SubSeq(transcript, lo, hi)) = hi - from
    BY <1>2, <2>5
  <2> QED
    BY SMTT(40), <1>2, <2>5, <2>6 DEF lo, hi
<1> HIDE DEF bytes
<1>8. TranscriptTyped'
  BY <1>1 DEF TranscriptInv, TranscriptTyped
<1>9. CheckpointTold'
  BY <1>1, <1>2, CheckpointTellsOn
<1>10. CASE Len(transcript) < from
  <2>1. polling' = [step |-> "failed", quiescent |-> polling.quiescent]
    BY <1>6, <1>10
  <2>2. PollSound' /\ QuietPollSound'
    BY <1>1, <1>5, <2>1 DEF PollSound, QuietPollSound, NoPoll
  <2>3. ClosedRead'
    BY <1>1, <1>3 DEF TranscriptInv, ClosedRead, NoPoll
  <2> QED
    BY <1>8, <1>9, <2>2, <2>3 DEF TranscriptInv
<1>11. CASE ~(Len(transcript) < from)
  <2>1. polling' = [step |-> "commit", quiescent |-> polling.quiescent, size |-> polling.size, bytes |-> bytes]
    BY <1>6, <1>11
  <2>2. bytes \in Seq(Byte) /\ from + Len(bytes) <= polling.size
    BY <1>2, <1>7, <1>11
  <2>3. /\ polling'.step = "commit" /\ polling'.size = polling.size /\ polling'.bytes = bytes
        /\ polling'.quiescent = polling.quiescent
    BY <2>1
  <2>4. PollSound'
    BY <1>1, <1>4, <2>2, <2>3 DEF PollSound
  <2>5. QuietPollSound'
    BY <1>1, <1>5, <2>3 DEF QuietPollSound
  <2>6. ClosedRead'
    BY <1>1, <1>3 DEF TranscriptInv, ClosedRead, NoPoll
  <2> QED
    BY <1>8, <1>9, <2>4, <2>5, <2>6 DEF TranscriptInv
<1> QED
  BY <1>10, <1>11

(* The end of a poll without progress of the checkpoint.                     *)
LEMMA RefuseKeeps ==
  ASSUME TranscriptInv, UNCHANGED <<transcript, writing, checkpoint, observed, mutations>>,
         degraded' = TRUE, polling' = NoPoll, polling.step # "none",
         handle' = handle \/ (polling.quiescent /\ handle' = "closed")
  PROVE  TranscriptInv'
<1>1. Len(transcript) \in Nat
  BY LengthsAre DEF TranscriptInv
<1>2. TranscriptTyped'
  BY DEF TranscriptInv, TranscriptTyped
<1>3. CheckpointTold'
  BY <1>1, CheckpointTellsOn
<1>4. PollSound' /\ QuietPollSound'
  BY DEF PollSound, QuietPollSound, NoPoll
<1>5. handle # "closed"
  BY DEF TranscriptInv, ClosedRead, NoPoll
<1>6. polling.quiescent => writing # "yes"
  BY DEF TranscriptInv, QuietPollSound
<1>7. ClosedRead'
  BY <1>5, <1>6 DEF ClosedRead
<1> QED
  BY <1>2, <1>3, <1>4, <1>7 DEF TranscriptInv

(* A poll that ends with the checkpoint it began with.                       *)
LEMMA EndsMoves ==
  ASSUME NEW complete \in BOOLEAN, NEW ok \in BOOLEAN, PollEnds(complete, ok)
  PROVE  /\ polling' = NoPoll
         /\ handle' = handle \/ (polling.quiescent /\ handle' = "closed")
         /\ handle' = "closed" => handle = "closed" \/ ~ok \/ complete \/ Exhausted
  BY DEF PollEnds

(* A poll fails.                                                             *)
LEMMA FailKeeps ==
  ASSUME TranscriptInv, PollFails
  PROVE  TranscriptInv'
<1>1. /\ UNCHANGED <<transcript, writing, checkpoint, observed, mutations>> /\ degraded' = TRUE
      /\ PollEnds(FALSE, FALSE) /\ polling.step # "none"
  BY DEF PollFails, Refuse, Unmoved
<1>2. polling' = NoPoll /\ (handle' = handle \/ (polling.quiescent /\ handle' = "closed"))
  <2> DEFINE off == FALSE
  <2>1. off \in BOOLEAN /\ PollEnds(off, off)
    BY <1>1
  <2> HIDE DEF off
  <2> QED
    BY <2>1, EndsMoves
<1> QED
  BY <1>1, <1>2, RefuseKeeps

(* A whole prefix of the same length is the file.                            *)
LEMMA WholeFile ==
  ASSUME NEW P \in Seq(Byte), NEW bytes \in Seq(Byte), NEW file \in Seq(Byte), NEW k \in 0 .. Len(bytes),
         IsPrefix(P \o bytes, file), Len(P \o SubSeq(bytes, 1, k)) = Len(file)
  PROVE  P \o SubSeq(bytes, 1, k) = file
<1> DEFINE part == SubSeq(bytes, 1, k)
           B == P \o bytes
<1>1. k \in Nat /\ k <= Len(bytes) /\ Len(P) \in Nat /\ Len(bytes) \in Nat /\ Len(file) \in Nat
  OBVIOUS
<1>2. part \in Seq(Byte) /\ Len(part) = k
  BY <1>1
<1>3. B \in Seq(Byte) /\ Len(B) = Len(P) + Len(bytes)
  OBVIOUS
<1>4. Len(B) <= Len(file) /\ SubSeq(B, 1, Len(B)) = SubSeq(file, 1, Len(B))
  BY DEF IsPrefix
<1>5. Len(P \o part) = Len(P) + k
  BY <1>2
<1>6. k = Len(bytes) /\ Len(B) = Len(file)
  BY <1>1, <1>3, <1>4, <1>5
<1>7. part = bytes
  BY <1>6
<1>8. B = file
  <2> HIDE DEF B
  <2>1. SubSeq(B, 1, Len(B)) = B /\ SubSeq(file, 1, Len(file)) = file
    BY <1>3
  <2> QED
    BY <2>1, <1>4, <1>6
<1> QED
  BY <1>7, <1>8

(* A poll commits its observations together with the checkpoint that         *)
(* accounts for them, or finds that the store refuses it.                    *)
LEMMA CommitKeeps ==
  ASSUME TranscriptInv, pollCommits
  PROVE  TranscriptInv'
<1> DEFINE P == checkpoint.prefix
           bytes == polling.bytes
           size == polling.size
           s == CloseDiscarded(IngestLoop(bytes, pathState), size)
           next == nextState(s, bytes, size)
           atEnd == writing # "yes" /\ Len(transcript) <= Len(P) + Len(bytes)
           verified == verifyExtension(P, bytes)
           refused == ~verified \/ pathState # "current"
           whole == Len(next.prefix) = Len(transcript) /\ ~next.discarding
<1>1. /\ polling.step = "commit" /\ UNCHANGED <<transcript, writing, mutations>>
      /\ \/ refused /\ Refuse /\ PollEnds(FALSE, FALSE)
         \/ ~refused /\ next = checkpoint /\ PollSucceeds(next) /\ UNCHANGED <<checkpoint, observed>>
         \/ ~refused /\ ~currentTarget /\ Refuse /\ PollEnds(FALSE, FALSE)
         \/ ~refused /\ next # checkpoint /\ currentTarget /\ Transact(next, s.out)
  BY Zenon DEF pollCommits, Unmoved
<1>2. /\ bytes \in Seq(Byte) /\ size \in Nat /\ Len(P) + Len(bytes) <= size
      /\ polling.quiescent => Len(transcript) <= size
  BY <1>1 DEF TranscriptInv, PollSound
<1>3. polling.quiescent => writing # "yes"
  BY <1>1 DEF TranscriptInv, QuietPollSound
<1>4. /\ checkpoint \in Checkpoints /\ observed \in Seq(Observation) /\ transcript \in Seq(Byte)
      /\ P \in Seq(Byte) /\ Len(P) \in Nat /\ Len(bytes) \in Nat /\ Len(transcript) \in Nat
      /\ degraded \in BOOLEAN
  <2>1. Len(bytes) \in Nat
    BY <1>2
  <2> QED
    BY <2>1, LengthsAre DEF TranscriptInv, TranscriptTyped
<1>5. handle # "closed"
  BY <1>1 DEF TranscriptInv, ClosedRead, NoPoll
<1> HIDE DEF refused
<1>6. ASSUME Refuse, PollEnds(FALSE, FALSE)
      PROVE  TranscriptInv'
  <2> DEFINE off == FALSE
  <2>1. off \in BOOLEAN /\ PollEnds(off, off)
    BY <1>6
  <2> HIDE DEF off
  <2>2. polling' = NoPoll /\ (handle' = handle \/ (polling.quiescent /\ handle' = "closed"))
    BY <2>1, EndsMoves
  <2>3. UNCHANGED <<transcript, writing, checkpoint, observed, mutations>> /\ degraded' = TRUE
    BY <1>1, <1>6 DEF Refuse
  <2> QED
    BY <1>1, <2>2, <2>3, RefuseKeeps
<1> SUFFICES ASSUME ~refused
             PROVE  TranscriptInv'
  BY <1>1, <1>6
<1>7. verified /\ Len(P) + Len(bytes) <= Len(transcript)
  <2>1. verified
    BY DEF refused
  <2>2. Len(P \o bytes) <= Len(transcript)
    BY <2>1 DEF verifyExtension, IsPrefix
  <2>3. Len(P \o bytes) = Len(P) + Len(bytes)
    BY <1>2, <1>4, WholeBytes
  <2> QED
    BY <2>1, <2>2, <2>3
<1>8. s \in GoodStates(P, bytes, observed, atEnd)
  <2>1. PICK final \in BOOLEAN :
          /\ Accounting(checkpoint.prefix, Len(checkpoint.prefix), observed, checkpoint.ordinal,
                        checkpoint.discarding, checkpoint.dropped, final)
          /\ final => writing # "yes" /\ Len(transcript) <= Len(checkpoint.prefix)
    BY DEF TranscriptInv, CheckpointTold
  <2>2. final => atEnd /\ Len(bytes) = 0
    <3> DEFINE x == Len(P)  y == Len(bytes)  z == Len(transcript)
    <3>1. x \in Nat /\ y \in Nat /\ z \in Nat /\ x + y <= z /\ (final => writing # "yes" /\ z <= x)
      BY <2>1, <1>4, <1>7
    <3> HIDE DEF x, y, z
    <3>2. final => writing # "yes" /\ z <= x + y /\ y = 0
      BY <3>1
    <3> QED
      BY <3>2 DEF x, y, z
  <2>3. polling.quiescent => (Len(checkpoint.prefix) + Len(bytes) <= size)
                             /\ (Len(checkpoint.prefix) + Len(bytes) = size => atEnd)
    BY <1>2, <1>3, <1>4
  <2> HIDE DEF atEnd, bytes
  <2> QED
    BY <1>2, <1>4, <2>1, <2>2, <2>3, LoopGood
<1> HIDE DEF s, atEnd, bytes, size
<1>9. /\ next \in Checkpoints /\ s.out \in Seq(Observation)
      /\ s.pos \in 0 .. Len(bytes) /\ next.prefix = P \o SubSeq(bytes, 1, s.pos)
      /\ \E final \in BOOLEAN :
           /\ Accounting(next.prefix, Len(next.prefix), observed \o s.out, next.ordinal,
                         next.discarding, next.dropped, final)
           /\ final => atEnd /\ Len(next.prefix) = Len(P) + Len(bytes)
  BY <1>2, <1>4, <1>8, NextGood
<1> HIDE DEF next
<1>10. PICK final \in BOOLEAN :
         /\ Accounting(next.prefix, Len(next.prefix), observed \o s.out, next.ordinal,
                       next.discarding, next.dropped, final)
         /\ final => atEnd /\ Len(next.prefix) = Len(P) + Len(bytes)
  BY <1>9
<1>11. whole => next.prefix = transcript
  <2> SUFFICES ASSUME whole
               PROVE  next.prefix = transcript
    OBVIOUS
  <2> DEFINE k == s.pos
  <2>1. /\ k \in 0 .. Len(bytes) /\ next.prefix = P \o SubSeq(bytes, 1, k)
        /\ IsPrefix(P \o bytes, transcript)
    BY <1>7, <1>9 DEF verifyExtension
  <2>2. Len(P \o SubSeq(bytes, 1, k)) = Len(transcript)
    BY <2>1
  <2> HIDE DEF k, P
  <2>3. P \o SubSeq(bytes, 1, k) = transcript
    BY <1>2, <1>4, <2>1, <2>2, WholeFile
  <2> QED
    BY <2>1, <2>3
<1>12. next.discarding \in BOOLEAN
  BY <1>9 DEF Checkpoints
<1>13. ASSUME PollSucceeds(next)
       PROVE  /\ polling' = NoPoll /\ degraded' \in BOOLEAN
              /\ handle' = "closed" => writing # "yes"
              /\ handle' = "closed" /\ ~degraded' => whole
  <2> DEFINE ok == TRUE
  <2>1. /\ whole \in BOOLEAN /\ ok \in BOOLEAN /\ ok
        /\ PollEnds(whole, ok) /\ degraded' = (degraded \/ (Exhausted /\ ~whole))
    BY <1>13 DEF PollSucceeds
  <2> HIDE DEF whole, ok
  <2>2. /\ polling' = NoPoll
        /\ handle' = handle \/ (polling.quiescent /\ handle' = "closed")
        /\ handle' = "closed" => handle = "closed" \/ ~ok \/ whole \/ Exhausted
    BY <2>1, EndsMoves
  <2>3. degraded' \in BOOLEAN
    BY <2>1, <1>4 DEF Exhausted
  <2>4. handle' = "closed" => writing # "yes"
    BY <2>2, <1>3, <1>5
  <2>5. handle' = "closed" /\ ~degraded' => whole
    BY <2>1, <2>2, <1>5
  <2> QED
    BY <2>2, <2>3, <2>4, <2>5
<1>14. ASSUME checkpoint' = next, observed' = observed \o s.out
       PROVE  /\ CheckpointTold' /\ checkpoint' \in Checkpoints /\ observed' \in Seq(Observation)
  <2>1. final => writing # "yes" /\ Len(transcript) <= Len(next.prefix)
    BY <1>10 DEF atEnd
  <2>2. transcript' = transcript /\ writing' = writing
    BY <1>1
  <2>3. /\ Accounting(checkpoint'.prefix, Len(checkpoint'.prefix), observed', checkpoint'.ordinal,
                      checkpoint'.discarding, checkpoint'.dropped, final)
        /\ final => writing' # "yes" /\ Len(transcript') <= Len(checkpoint'.prefix)
    BY <1>10, <1>14, <2>1, <2>2
  <2>4. observed' \in Seq(Observation)
    BY <1>4, <1>9, <1>14
  <2> QED
    BY <2>3, <2>4, <1>9, <1>14 DEF CheckpointTold
<1>15. ASSUME UNCHANGED <<checkpoint, observed>>
       PROVE  /\ CheckpointTold' /\ checkpoint' \in Checkpoints /\ observed' \in Seq(Observation)
  <2>1. CheckpointTold'
    BY <1>1, <1>4, <1>15, CheckpointTellsOn
  <2> QED
    BY <2>1, <1>4, <1>15
<1>16. ASSUME CheckpointTold', checkpoint' \in Checkpoints, observed' \in Seq(Observation),
              polling' = NoPoll, degraded' \in BOOLEAN,
              handle' = "closed" => writing # "yes",
              handle' = "closed" /\ ~degraded' => whole /\ checkpoint' = next
       PROVE  TranscriptInv'
  <2>1. TranscriptTyped'
    BY <1>1, <1>16 DEF TranscriptInv, TranscriptTyped
  <2>2. PollSound' /\ QuietPollSound'
    BY <1>16 DEF PollSound, QuietPollSound, NoPoll
  <2>3. ClosedRead'
    <3>1. transcript' = transcript /\ writing' = writing
      BY <1>1
    <3>2. handle' = "closed" /\ ~degraded' =>
            checkpoint'.prefix = transcript' /\ ~checkpoint'.discarding
      BY <3>1, <1>11, <1>16
    <3> QED
      BY <3>1, <3>2, <1>16 DEF ClosedRead
  <2> QED
    BY <2>1, <2>2, <2>3, <1>16 DEF TranscriptInv
<1>17. CASE next = checkpoint /\ PollSucceeds(next) /\ UNCHANGED <<checkpoint, observed>>
  <2>1. CheckpointTold' /\ checkpoint' \in Checkpoints /\ observed' \in Seq(Observation) /\ checkpoint' = next
    BY <1>15, <1>17
  <2> HIDE DEF whole
  <2>2. /\ polling' = NoPoll /\ degraded' \in BOOLEAN
        /\ handle' = "closed" => writing # "yes"
        /\ handle' = "closed" /\ ~degraded' => whole
    BY <1>13, <1>17
  <2> QED
    BY <2>1, <2>2, <1>16
<1>18. CASE next # checkpoint /\ currentTarget /\ Transact(next, s.out)
  <2>1. \/ checkpoint' = next /\ observed' = observed \o s.out
        \/ UNCHANGED <<checkpoint, observed>>
    BY <1>18 DEF Transact, appendBatchIf
  <2>2. \/ checkpoint' = next /\ PollSucceeds(next)
        \/ degraded' = TRUE /\ PollEnds(FALSE, FALSE)
    BY <1>18 DEF Transact
  <2>3. CheckpointTold' /\ checkpoint' \in Checkpoints /\ observed' \in Seq(Observation)
    BY <2>1, <1>14, <1>15
  <2> HIDE DEF whole
  <2>4. CASE checkpoint' = next /\ PollSucceeds(next)
    <3>1. /\ polling' = NoPoll /\ degraded' \in BOOLEAN
          /\ handle' = "closed" => writing # "yes"
          /\ handle' = "closed" /\ ~degraded' => whole
      BY <1>13, <2>4
    <3> QED
      BY <2>3, <2>4, <3>1, <1>16
  <2>5. CASE degraded' = TRUE /\ PollEnds(FALSE, FALSE)
    <3> DEFINE off == FALSE
    <3>1. off \in BOOLEAN /\ PollEnds(off, off)
      BY <2>5
    <3> HIDE DEF off
    <3>2. polling' = NoPoll /\ (handle' = handle \/ (polling.quiescent /\ handle' = "closed"))
      BY <3>1, EndsMoves
    <3>3. handle' = "closed" => writing # "yes"
      BY <3>2, <1>3, <1>5
    <3> QED
      BY <2>3, <2>5, <3>2, <3>3, <1>16
  <2> QED
    BY <2>2, <2>4, <2>5
<1> QED
  BY <1>1, <1>6, <1>17, <1>18

(* Every step keeps the invariant, one lemma for each action.                *)
LEMMA TranscriptInvIsInductive ==
  TranscriptInv /\ [TranscriptNext]_transcriptVars => TranscriptInv'
<1> SUFFICES ASSUME TranscriptInv, [TranscriptNext]_transcriptVars
             PROVE  TranscriptInv'
  OBVIOUS
<1>1. ASSUME NEW b \in {"a", "z", "r", "n"}, onTranscriptProgress(b)
      PROVE  TranscriptInv'
  <2>1. b \in Byte
    BY DEF Byte
  <2> QED
    BY <2>1, <1>1, WriteKeeps
<1>2. CASE transportEnds
  BY <1>2, EndKeeps
<1>3. CASE forceClose
  BY <1>3, ForceKeeps
<1>4. CASE parentCrash
  BY <1>4, CrashKeeps
<1>5. CASE reopen
  BY <1>5, ReopenKeeps
<1>6. CASE newAttempt
  <2>1. UNCHANGED <<transcript, writing, checkpoint, observed, handle, polling, degraded, mutations>>
    BY <1>6 DEF newAttempt
  <2> QED
    BY <2>1, AttemptKeeps
<1>7. CASE mutateSource
  BY <1>7, MutateKeeps
<1>8. CASE pollProgress
  <2>1. pollTranscript(FALSE) /\ handle \in {"open", "finishing"}
    BY <1>8 DEF pollProgress
  <2> DEFINE q == FALSE
  <2>2. q \in BOOLEAN /\ pollTranscript(q) /\ (q => writing # "yes")
    BY <2>1
  <2> HIDE DEF q
  <2> QED
    BY <2>1, <2>2, PollKeeps
<1>9. CASE finalizePoll
  <2>1. pollTranscript(TRUE) /\ handle \in {"open", "finishing"} /\ writing # "yes"
    BY <1>9 DEF finalizePoll
  <2> DEFINE q == TRUE
  <2>2. q \in BOOLEAN /\ pollTranscript(q) /\ (q => writing # "yes")
    BY <2>1
  <2> HIDE DEF q
  <2> QED
    BY <2>1, <2>2, PollKeeps
<1>10. CASE PollFails
  BY <1>10, FailKeeps
<1>11. CASE readSource
  BY <1>11, ReadKeeps
<1>12. CASE pollCommits
  BY <1>12, CommitKeeps
<1>13. CASE UNCHANGED transcriptVars
  BY <1>13, AttemptKeeps DEF transcriptVars
<1> QED
  BY <1>1, <1>2, <1>3, <1>4, <1>5, <1>6, <1>7, <1>8, <1>9, <1>10, <1>11, <1>12, <1>13 DEF TranscriptNext

(* TranscriptAccountedFor: after any polls, crashes of the parent and        *)
(* changes of the file, the observations in the control store tell each line *)
(* of the committed prefix once and in order, with every dropped record      *)
(* counted, and a transcript closed without a failure was read to its end    *)
(* (pollTranscript, appendBatchIf and the finalization, for transcripts and  *)
(* polls of any length).                                                     *)
THEOREM TranscriptAlwaysAccountedFor == TranscriptSpec => []TranscriptAccountedFor
<1>1. TranscriptInit => TranscriptInv
  BY TranscriptStarts
<1>2. TranscriptInv /\ [TranscriptNext]_transcriptVars => TranscriptInv'
  BY TranscriptInvIsInductive
<1>3. TranscriptInv => TranscriptAccountedFor
  BY TranscriptInvImplies
<1> QED
  BY <1>1, <1>2, <1>3, PTL DEF TranscriptSpec
=============================================================================
