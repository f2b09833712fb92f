---------------------------- MODULE Integration ----------------------------
(* Attempts, review and the integration branch (worktree.ts, git.ts and the *)
(* review pass of orchestrator.ts).  A commit is the set of changes its tree *)
(* holds; a change is <<task, attempt>> or <<"outside", n>>.  The worktree of *)
(* the integration branch is attached to it, or detached at a candidate that *)
(* is not published yet.  The parent's board survives it; its map of attempts *)
(* does not.  External: git, and whoever else moves the branch.              *)
EXTENDS Integers, FiniteSets

CONSTANTS IntTasks,          \* the tasks of the board, each of its own role
          MaxRepairs,        \* loop.maxRepairs
          PostMergeVerify,   \* loop.postMergeVerify with a verifier configured
          MaxOutside,        \* moves of the branch by somebody else
          MaxIntCrashes      \* processes that end before the run does

ASSUME IntegrationBounds ==
  /\ IsFiniteSet(IntTasks) /\ "outside" \notin IntTasks
  /\ MaxRepairs \in Nat /\ PostMergeVerify \in BOOLEAN
  /\ MaxOutside \in Nat /\ MaxIntCrashes \in Nat

VARIABLES
  tip,        \* refs/heads/loop/<project>/<run>/integration
  head,       \* the integration worktree: [detached, at]
  board,      \* [IntTasks -> status]
  tries,      \* [IntTasks -> failed attempts], foldBoard's attempts
  attempts,   \* [IntTasks -> [oid, held]], in memory
  pending,    \* tasks selected in this iteration whose dispatch is not over
  loop,       \* where the parent is: [at, task, old, candidate]
  intents,    \* merge_intent lines of the attempt journal
  green,      \* commits the verifier passed as a whole
  outside,    \* moves by others so far
  ended       \* processes that ended early so far

integrationVars == <<tip, head, board, tries, attempts, pending, loop, intents,
                     green, outside, ended>>
gitVars == <<tip, head, green, intents>>
boundVars == <<outside, ended>>

NoAttempt == [oid |-> {}, held |-> FALSE]

At(step) == [at |-> step, task |-> "none", old |-> {}, candidate |-> {}]

IntegrationInit ==
  /\ tip = {} /\ head = [detached |-> FALSE, at |-> {}]
  /\ board = [t \in IntTasks |-> "open"] /\ tries = [t \in IntTasks |-> 0]
  /\ attempts = [t \in IntTasks |-> NoAttempt] /\ pending = {}
  /\ loop = At("down") /\ intents = {} /\ green = {}
  /\ outside = 0 /\ ended = 0

(* rev-parse HEAD in the integration worktree. *)
integrationTip == IF head.detached THEN head.at ELSE tip

reattachIntegration == head' = [detached |-> FALSE, at |-> {}]

(* A status of blocked or rejected counts one attempt. *)
Fails(t, status) ==
  /\ board' = [board EXCEPT ![t] = status]
  /\ tries' = [tries EXCEPT ![t] = @ + 1]

(* The attempt's worktree is removed and its entry deleted. *)
removeAttempt(t) == attempts' = [attempts EXCEPT ![t] = NoAttempt]

(* prepareExecutionTarget finds the worktree of an earlier process and uses  *)
(* it as it is; then every claim of that process is given back.              *)
prepareExecutionTarget ==
  /\ loop.at = "down" /\ loop' = At("iteration")
  /\ LET abandoned == {t \in IntTasks : board[t] = "claimed"} IN
       /\ board' = [t \in IntTasks |-> IF t \in abandoned THEN "blocked" ELSE board[t]]
       /\ tries' = [t \in IntTasks |-> IF t \in abandoned THEN tries[t] + 1 ELSE tries[t]]
  /\ UNCHANGED <<gitVars, attempts, pending, boundVars>>

Selectable(t) ==
  \/ board[t] = "open"
  \/ board[t] \in {"blocked", "rejected"} /\ tries[t] <= MaxRepairs

selectTasks ==
  /\ loop.at = "iteration" /\ loop' = At("dispatch")
  /\ pending' = {t \in IntTasks : Selectable(t)}
  /\ UNCHANGED <<gitVars, board, tries, attempts, boundVars>>

createAttemptWorktree(t) ==
  /\ loop.at = "dispatch" /\ t \in pending /\ board[t] # "claimed"
  /\ board' = [board EXCEPT ![t] = "claimed"]
  /\ attempts' = [attempts EXCEPT ![t] =
       [oid |-> integrationTip, held |-> TRUE]]
  /\ UNCHANGED <<gitVars, tries, pending, loop, boundVars>>

(* What the agent left is committed: its change, and everything it was based *)
(* on.                                                                       *)
commitAll(t) ==
  attempts' = [attempts EXCEPT ![t].oid = @ \cup {<<t, tries[t] + 1>>}]

(* dispatchTask after the turn: the change is committed and verified, or the *)
(* grader was touched, the agent failed, nothing changed, the checks are red. *)
dispatchTask(t) ==
  /\ loop.at = "dispatch" /\ t \in pending /\ board[t] = "claimed"
  /\ pending' = pending \ {t}
  /\ \/ board' = [board EXCEPT ![t] = "needs-review"] /\ commitAll(t) /\ UNCHANGED tries
     \/ Fails(t, "blocked") /\ removeAttempt(t)
  /\ UNCHANGED <<gitVars, loop, boundVars>>

startReview ==
  /\ loop.at = "dispatch" /\ pending = {} /\ loop' = At("review")
  /\ UNCHANGED <<gitVars, board, tries, attempts, pending, boundVars>>

(* A task that needs review and has no attempt in this process is rejected.  *)
reviewNoArtifact(t) ==
  /\ loop.at = "review" /\ board[t] = "needs-review" /\ ~attempts[t].held
  /\ Fails(t, "rejected")
  /\ UNCHANGED <<gitVars, attempts, pending, loop, boundVars>>

Reviewable(t) ==
  loop.at = "review" /\ board[t] = "needs-review" /\ attempts[t].held

(* The patch base..HEAD must be captured whole before anybody reads it.      *)
captureFails(t) ==
  /\ Reviewable(t) /\ Fails(t, "rejected") /\ removeAttempt(t)
  /\ UNCHANGED <<gitVars, pending, loop, boundVars>>

(* What a reviewer's turn may leave: an answer that is exactly a verdict, a  *)
(* verdict quoted inside prose, a torn or failed turn.                       *)
ReviewerOutputs == {"accept", "reject", "quoted accept", "torn"}

parseVerdict(output) == IF output = "accept" THEN "accept" ELSE "reject"

(* The reviewer reads a checkout of the commit, detached from the attempt.   *)
(* An accepted attempt whose commit is still the one that was reviewed goes  *)
(* on: the worktree is detached at the tip that is to be replaced.           *)
runReviewAgent(t) ==
  /\ Reviewable(t)
  /\ \E output \in ReviewerOutputs, sameOid \in BOOLEAN :
       \/ /\ parseVerdict(output) = "accept" /\ sameOid
          /\ head' = [detached |-> TRUE, at |-> integrationTip]
          /\ loop' = [at |-> "merge", task |-> t, old |-> integrationTip, candidate |-> {}]
          /\ UNCHANGED <<board, tries, attempts>>
       \/ /\ parseVerdict(output) = "reject" \/ ~sameOid
          /\ Fails(t, "rejected") /\ removeAttempt(t) /\ UNCHANGED <<head, loop>>
  /\ UNCHANGED <<tip, green, intents, pending, boundVars>>

buildMergeCandidate ==
  /\ loop.at = "merge"
  /\ LET merged == loop.old \cup attempts[loop.task].oid IN
       \/ /\ head' = [detached |-> TRUE, at |-> merged]
          /\ loop' = [loop EXCEPT !.at = "verify", !.candidate = merged]
          /\ UNCHANGED <<board, tries, attempts>>
       \/ /\ reattachIntegration /\ loop' = At("review")
          /\ Fails(loop.task, "rejected") /\ removeAttempt(loop.task)
  /\ UNCHANGED <<tip, green, intents, pending, boundVars>>

(* The ordered commands, each in its sandbox, its transport and its scope    *)
(* proven: green only if every one is.                                       *)
runOrderedVerify(commit) == green' = green \cup {commit}

(* The candidate is verified while it is checked out, then the intent is     *)
(* journalled; a red candidate is abandoned.                                 *)
verifyCandidate ==
  /\ loop.at = "verify"
  /\ \/ /\ loop' = [loop EXCEPT !.at = "publish"]
        /\ IF PostMergeVerify THEN runOrderedVerify(loop.candidate) ELSE UNCHANGED green
        /\ intents' = intents \cup {<<loop.task, loop.candidate>>}
        /\ UNCHANGED <<head, board, tries, attempts>>
     \/ /\ PostMergeVerify /\ reattachIntegration /\ loop' = At("review")
        /\ Fails(loop.task, "rejected") /\ removeAttempt(loop.task)
        /\ UNCHANGED <<green, intents>>
  /\ UNCHANGED <<tip, pending, boundVars>>

(* git update-ref <candidate> <expectedOld>.                                 *)
(* Variant: the reference is moved whatever it is at.                        *)
publishCandidate_Forced ==
  /\ loop.at = "publish" /\ tip' = loop.candidate
  /\ reattachIntegration /\ loop' = [loop EXCEPT !.at = "published"]
  /\ UNCHANGED <<green, intents, board, tries, attempts, pending, boundVars>>

publishCandidate ==
  /\ loop.at = "publish" /\ tip = loop.old /\ tip' = loop.candidate
  /\ reattachIntegration /\ loop' = [loop EXCEPT !.at = "published"]
  /\ UNCHANGED <<green, intents, board, tries, attempts, pending, boundVars>>

(* The branch is elsewhere: nothing is clobbered and the task goes back.     *)
abandonCandidate ==
  /\ loop.at = "publish" /\ tip # loop.old
  /\ reattachIntegration /\ loop' = At("review")
  /\ Fails(loop.task, "rejected") /\ removeAttempt(loop.task)
  /\ UNCHANGED <<tip, green, intents, pending, boundVars>>

recordMerged ==
  /\ loop.at = "published" /\ loop' = At("review")
  /\ board' = [board EXCEPT ![loop.task] = "done"] /\ removeAttempt(loop.task)
  /\ UNCHANGED <<gitVars, tries, pending, boundVars>>

escalateExhausted ==
  /\ loop.at = "review" /\ \A t \in IntTasks : board[t] # "needs-review"
  /\ board' = [t \in IntTasks |->
       IF board[t] \in {"blocked", "rejected"} /\ tries[t] > MaxRepairs
         THEN "escalated" ELSE board[t]]
  /\ loop' = At("check")
  /\ UNCHANGED <<gitVars, tries, attempts, pending, boundVars>>

(* All accepted: the final verifier runs on what the worktree has checked    *)
(* out; otherwise another iteration follows if there is work left.           *)
evaluateCompletion ==
  /\ loop.at = "check"
  /\ \/ /\ \A t \in IntTasks : board[t] = "done"
        /\ \/ loop' = At("done") /\ runOrderedVerify(integrationTip)
           \/ loop' = At("unverified") /\ UNCHANGED green
     \/ /\ \E t \in IntTasks : board[t] # "done"
        /\ loop' = IF \E t \in IntTasks : Selectable(t)
                     THEN At("iteration") ELSE At("stopped")
        /\ UNCHANGED green
  /\ UNCHANGED <<tip, head, intents, board, tries, attempts, pending, boundVars>>

(* finalize after a verified success: every worktree and attempt branch goes, *)
(* the integration branch stays.                                             *)
cleanupRun ==
  /\ loop.at = "done" /\ loop' = At("cleaned") /\ reattachIntegration
  /\ attempts' = [t \in IntTasks |-> NoAttempt]
  /\ UNCHANGED <<tip, green, intents, board, tries, pending, boundVars>>

(* A crash, a cancellation or a limit: the process ends where it is.         *)
processEnds ==
  /\ loop.at \notin {"down", "done", "cleaned"} /\ ended < MaxIntCrashes /\ ended' = ended + 1
  /\ loop' = At("down") /\ pending' = {} /\ attempts' = [t \in IntTasks |-> NoAttempt]
  /\ UNCHANGED <<gitVars, board, tries, outside>>

(* Somebody else advances the branch, or takes it back to where it began.    *)
outsideMove ==
  /\ outside < MaxOutside /\ outside' = outside + 1
  /\ tip' \in {tip \cup {<<"outside", outside + 1>>}, {}}
  /\ UNCHANGED <<head, green, intents, board, tries, attempts, pending, loop, ended>>

IntegrationNext ==
  \/ prepareExecutionTarget \/ selectTasks \/ startReview
  \/ \E t \in IntTasks : \/ createAttemptWorktree(t) \/ dispatchTask(t)
                         \/ reviewNoArtifact(t) \/ captureFails(t) \/ runReviewAgent(t)
  \/ buildMergeCandidate \/ verifyCandidate \/ publishCandidate
  \/ abandonCandidate \/ recordMerged \/ escalateExhausted
  \/ evaluateCompletion \/ cleanupRun \/ processEnds \/ outsideMove

IntegrationSpec == IntegrationInit /\ [][IntegrationNext]_integrationVars

(* What the loop may do to the branch: the new tip holds everything the old  *)
(* one held, whoever put it there, and the verifier passed that very commit, *)
(* even when an earlier process left the worktree detached at a candidate    *)
(* nobody verified or others moved the branch in between.  And a run that   *)
(* finishes was verified at the tip the reader of the branch gets, not at a  *)
(* candidate an earlier process left checked out.                            *)
NothingClobbered ==
  [][/\ tip' # tip /\ outside' = outside =>
          tip \subseteq tip' /\ (PostMergeVerify => tip' \in green)
     /\ loop'.at = "done" /\ loop.at # "done" => tip \in green']_integrationVars

(* The merge intent is journalled "so a crash mid-publish is reconcilable on *)
(* restart": an attempt the board counts as failed is not on the branch.     *)
RejectedNeverShips ==
  \A t \in IntTasks : \A n \in 1..tries[t] : <<t, n>> \notin tip
============================================================================
