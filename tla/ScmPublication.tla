--------------------------- MODULE ScmPublication ---------------------------
(***************************************************************************)
(* The life of one publication: a reviewed commit is pushed to a remote    *)
(* branch, a pull request is opened for it, and its body is linked to the  *)
(* pull requests of the other repositories (src/scm/lifecycle.ts,          *)
(* publish.ts, reconcile.ts, multirepo-bridge.ts, github-crosslinks.ts).   *)
(*                                                                         *)
(* Each remote call is separate from the control event that records its    *)
(* outcome.  A call that was given up on may still take effect later       *)
(* (inFlight), other people write to the same branch and pull request, and *)
(* the parent may die or be cancelled anywhere.  The remote branch shows   *)
(* "expected" (the observed or absent commit the intent names), "ours" or  *)
(* "other".                                                                *)
(***************************************************************************)
EXTENDS Naturals

CONSTANTS
  MaxPubCrashes,    \* bound: deaths or cancellations of the parent
  MaxForeignMoves   \* bound: writes by other people

ASSUME PublicationBounds == MaxPubCrashes \in Nat /\ MaxForeignMoves \in Nat

VARIABLES
  target,       \* the task and runtime facts a publication hangs on
  pub,          \* the canonical publication state, or "absent"
  pubStep,      \* where advance is between two events
  branch,       \* the commit of the remote ref
  inFlight,     \* remote calls given up on that may still take effect
  pull,         \* the open pull request: "none", "same" or "differs" (draft flag)
  body,         \* its body: "planned", "linked" or "edited"
  linked,       \* the cross-link receipt was returned
  landed,       \* history: the remote ref has shown our commit
  opened,       \* history: an open pull request has shown our commit
  pubCrashes,
  foreignMoves

pubVars == <<target, pub, pubStep, branch, inFlight, pull, body, linked, landed, opened,
             pubCrashes, foreignMoves>>

PublicationStates ==
  {"unpublished", "push_intent", "push_ambiguous", "branch_published", "pr_intent",
   "pr_ambiguous", "published", "refused"}

transitionScmPublication ==
  [ unpublished      |-> {"push_intent", "refused"},
    push_intent      |-> {"push_ambiguous", "branch_published", "refused"},
    push_ambiguous   |-> {"push_intent", "branch_published", "refused"},
    branch_published |-> {"pr_intent", "refused"},
    pr_intent        |-> {"pr_ambiguous", "published", "refused"},
    pr_ambiguous     |-> {"pr_intent", "published", "refused"},
    published        |-> {},
    refused          |-> {} ]

PublicationInit ==
  /\ target = "none" /\ pub = "absent" /\ pubStep = "idle"
  /\ branch = "expected" /\ inFlight = {}
  /\ pull = "none" /\ body = "planned" /\ linked = FALSE
  /\ landed = FALSE /\ opened = FALSE
  /\ pubCrashes = 0 /\ foreignMoves = 0

(* A state event is appended against the captured head and version; when    *)
(* the head has moved on, advance starts over from the canonical state.     *)
transition(to) ==
  /\ to \in transitionScmPublication[pub]
  /\ pub' \in {pub, to}
  /\ pubStep' = "idle"

Elsewhere == UNCHANGED <<target, branch, inFlight, pull, body, linked, landed, opened,
                         pubCrashes, foreignMoves>>

(* The tasks are seeded in one batch and their runtimes in a second; a       *)
(* restart finds what is missing.                                            *)
seedPublicationTargets ==
  /\ \/ target = "none" /\ target' = "task"
     \/ target = "task" /\ target' = "bound"
  /\ UNCHANGED <<pub, pubStep, branch, inFlight, pull, body, linked, landed, opened,
                 pubCrashes, foreignMoves>>

ensureRecorded ==
  /\ target = "bound" /\ pub = "absent"
  /\ pub' \in {"absent", "unpublished"}
  /\ UNCHANGED pubStep /\ Elsewhere

advance ==
  /\ pubStep = "idle"
  /\ \/ pub \in {"unpublished", "push_ambiguous"} /\ transition("push_intent")
     \/ pub = "branch_published" /\ transition("pr_intent")
  /\ Elsewhere

-----------------------------------------------------------------------------
(* What a read of the remote ref decides, before or after a push.           *)
(* Variant: a push whose outcome cannot be read is taken for done.          *)
reconcileObservation_Optimistic(seen, context) ==
  CASE seen = "unknown" -> IF context = "after" THEN "branch_published" ELSE "push_ambiguous"
    [] seen = "ours" -> "branch_published"
    [] seen = "other" -> "refused"
    [] OTHER -> IF context = "before" THEN "push" ELSE "push_ambiguous"

reconcileObservation(seen, context) ==
  CASE seen = "unknown" -> "push_ambiguous"
    [] seen = "ours" -> "branch_published"
    [] seen = "other" -> "refused"
    [] OTHER -> IF context = "before" THEN "push" ELSE "push_ambiguous"

observeRemoteRef == {branch, "unknown"}

(* The repository, remote, local ref and object are proved first, else the  *)
(* publication is refused.                                                  *)
publishScmBranch ==
  /\ pub = "push_intent" /\ pubStep = "idle"
  /\ \/ transition("refused")
     \/ \E seen \in observeRemoteRef :
          LET decision == reconcileObservation(seen, "before")
          IN IF decision = "push" THEN pubStep' = "push" /\ UNCHANGED pub
                                  ELSE transition(decision)
  /\ Elsewhere

(* The push names our commit, never a local ref, and carries a lease on the *)
(* expected commit, which the server checks when it applies the update.     *)
(* Variant: a plain forced push.                                            *)
buildScmPushPlan_Forced(ref) == "ours"

buildScmPushPlan(ref) == IF ref = "expected" THEN "ours" ELSE ref

Applied(ref) ==
  /\ branch' = buildScmPushPlan(ref)
  /\ landed' = (landed \/ branch' = "ours")
  /\ opened' = (opened \/ (branch' = "ours" /\ pull # "none"))

push ==
  /\ pubStep = "push" /\ pubStep' = "observe"
  /\ \/ Applied(branch) /\ UNCHANGED inFlight
     \/ inFlight' = inFlight \cup {"push"} /\ UNCHANGED <<branch, landed, opened>>
     \/ UNCHANGED <<branch, landed, opened, inFlight>>
  /\ UNCHANGED <<target, pub, pull, body, linked, pubCrashes, foreignMoves>>

publishScmBranchAfter ==
  /\ pubStep = "observe"
  /\ \E seen \in observeRemoteRef : transition(reconcileObservation(seen, "after"))
  /\ Elsewhere

-----------------------------------------------------------------------------
(* Only a complete lookup may authorise adoption or creation.  The head of  *)
(* an open pull request follows the branch.                                 *)
exactPullRequest == pull = "same" /\ branch = "ours"

decidePullRequestRecovery(complete) ==
  IF ~complete THEN "wait"
  ELSE IF exactPullRequest THEN "adopt"
  ELSE IF pull # "none" THEN "refuse"
  ELSE "retry_create"

lookupPullRequests ==
  /\ pub \in {"pr_intent", "pr_ambiguous"} /\ pubStep = "idle"
  /\ \E complete \in BOOLEAN :
       LET decision == decidePullRequestRecovery(complete)
       IN \/ decision = "adopt" /\ transition("published")
          \/ decision = "refuse" /\ transition("refused")
          \/ decision = "wait" /\ pub = "pr_intent" /\ transition("pr_ambiguous")
          \/ decision = "wait" /\ pub = "pr_ambiguous" /\ UNCHANGED <<pub, pubStep>>
          \/ decision = "retry_create" /\ pub = "pr_ambiguous" /\ transition("pr_intent")
          \/ /\ decision = "retry_create" /\ pub = "pr_intent"
             /\ pubStep' = "create" /\ UNCHANGED pub
  /\ Elsewhere

Open == pull' = "same" /\ opened' = (opened \/ branch = "ours")

(* The provider refuses a second open pull request.  A lost or late answer  *)
(* and a pull request that is not exact are ambiguous; a definite failure   *)
(* refuses, and so does an unreadable answer to a creation that happened.   *)
createPullRequest ==
  /\ pubStep = "create"
  /\ \/ pull = "none" /\ Open /\ branch = "ours" /\ transition("published") /\ UNCHANGED inFlight
     \/ pull = "none" /\ Open /\ transition("pr_ambiguous") /\ UNCHANGED inFlight
     \/ pull = "none" /\ Open /\ transition("refused") /\ UNCHANGED inFlight
     \/ inFlight' = inFlight \cup {"create"} /\ transition("pr_ambiguous") /\ UNCHANGED <<pull, opened>>
     \/ transition("pr_ambiguous") /\ UNCHANGED <<pull, opened, inFlight>>
     \/ transition("refused") /\ UNCHANGED <<pull, opened, inFlight>>
  /\ UNCHANGED <<target, branch, body, linked, landed, pubCrashes, foreignMoves>>

(* The body is read, replaced by the planned body with the link block, and  *)
(* read back when the replacement was not confirmed.                        *)
ensureCrossLinks ==
  /\ pub = "published" /\ pubStep = "idle" /\ ~linked
  /\ exactPullRequest
  /\ \/ body = "linked" /\ linked' = TRUE /\ UNCHANGED body
     \/ body # "linked" /\ body' = "linked" /\ linked' \in BOOLEAN
     \/ UNCHANGED <<body, linked>>
  /\ UNCHANGED <<target, pub, pubStep, branch, inFlight, pull, landed, opened,
                 pubCrashes, foreignMoves>>

-----------------------------------------------------------------------------
LateEffect ==
  /\ \/ /\ "push" \in inFlight /\ inFlight' = inFlight \ {"push"}
        /\ Applied(branch) /\ UNCHANGED pull
     \/ /\ "create" \in inFlight /\ inFlight' = inFlight \ {"create"}
        /\ IF pull = "none" THEN Open ELSE UNCHANGED <<pull, opened>>
        /\ UNCHANGED <<branch, landed>>
  /\ UNCHANGED <<target, pub, pubStep, body, linked, pubCrashes, foreignMoves>>

ForeignWrite ==
  /\ foreignMoves < MaxForeignMoves /\ foreignMoves' = foreignMoves + 1
  /\ \/ branch' = "other" /\ UNCHANGED <<pull, body, opened>>
     \/ pull # "none" /\ pull' = "none" /\ body' = "planned" /\ UNCHANGED <<branch, opened>>
     \/ pull = "none" /\ pull' = "differs" /\ UNCHANGED <<branch, body, opened>>
     \/ pull = "none" /\ Open /\ UNCHANGED <<branch, body>>
     \/ pull # "none" /\ body' = "edited" /\ UNCHANGED <<branch, pull, opened>>
  /\ UNCHANGED <<target, pub, pubStep, inFlight, linked, landed, pubCrashes>>

PublicationStops ==
  /\ pubStep # "idle" /\ pubCrashes < MaxPubCrashes
  /\ pubStep' = "idle" /\ pubCrashes' = pubCrashes + 1
  /\ UNCHANGED <<target, pub, branch, inFlight, pull, body, linked, landed, opened,
                 foreignMoves>>

PublicationNext ==
  \/ seedPublicationTargets \/ ensureRecorded \/ advance \/ publishScmBranch \/ push \/ publishScmBranchAfter
  \/ lookupPullRequests \/ createPullRequest \/ ensureCrossLinks
  \/ LateEffect \/ ForeignWrite \/ PublicationStops

PublicationSpec == PublicationInit /\ [][PublicationNext]_pubVars

-----------------------------------------------------------------------------
PublicationTypeOK ==
  /\ target \in {"none", "task", "bound"}
  /\ pub \in PublicationStates \cup {"absent"}
  /\ pubStep \in {"idle", "push", "observe", "create"}
  /\ branch \in {"expected", "ours", "other"} /\ inFlight \subseteq {"push", "create"}
  /\ pull \in {"none", "same", "differs"} /\ body \in {"planned", "linked", "edited"}
  /\ {linked, landed, opened} \subseteq BOOLEAN
  /\ pubCrashes \in Nat /\ foreignMoves \in Nat

(* What the bridge tells the multi-repository saga about a branch and about  *)
(* a pull request.                                                           *)
publishBranchEffect ==
  CASE pub \in {"branch_published", "pr_intent", "pr_ambiguous", "published"} -> "completed"
    [] pub = "refused" -> "recovery_required"
    [] OTHER -> "retry"

ensurePullRequestEffect ==
  CASE pub = "published" -> "completed"
    [] pub = "refused" -> "recovery_required"
    [] OTHER -> "retry"

(* A commit somebody else put on the branch is never overwritten, neither by *)
(* a push that was delayed past its observation nor by a retry after a crash *)
(* (publishScmBranch, "a divergent branch is never overwritten").            *)
ForeignBranchKept == [][branch = "other" => branch' = "other"]_pubVars

(* What the saga is told of the remote happened: a completed branch was seen *)
(* at the reviewed commit, and a completed pull request was open at it       *)
(* (advance, decidePullRequestRecovery), whatever calls were lost or late.   *)
PublicationIsTrue ==
  /\ publishBranchEffect = "completed" => landed
  /\ ensurePullRequestEffect = "completed" => opened
=============================================================================
