---------------------------- MODULE WorktreeGroup ----------------------------
(***************************************************************************)
(* The worktree group of one multi-repository attempt                      *)
(* (src/multirepo/worktrees.ts): one private worktree and branch per       *)
(* member repository, described by a receipt file that is replaced         *)
(* atomically before every destructive Git command, so that a restart can  *)
(* adopt, roll back or reclaim what a crash left behind.                   *)
(*                                                                         *)
(* A member is abstracted to what the code inspects of it: the directory,  *)
(* Git's registration, the commit of the branch ("none" when the branch is *)
(* absent) and whether the checkout is dirty.                              *)
(***************************************************************************)
EXTENDS Naturals

CONSTANTS
  Width,         \* number of member repositories
  MaxGroupCrashes,    \* bound: crashes of the parent
  MaxGroupEdits       \* bound: changes made by others

ASSUME WidthAssumption == Width \in Nat \ {0}

Members == 1 .. Width

GroupStates == {"none", "creating", "ready", "rolling_back", "reclaiming",
                "recovery_required", "reclaimed"}

EntryStates == {"planned", "created", "provisioned", "ready", "reclaiming",
                "preserved", "reclaimed"}

Commits == {"none", "anchor", "work"}

VARIABLES
  receipt,    \* the durable receipt
  draft,      \* the parent's copy of it
  disk,       \* [Members -> member state in the file system and in Git]
  moved,      \* members whose default branch moved off the anchor
  caller,     \* how far the caller's own journal has come with this group
  step,       \* where the parent is
  at,         \* the member it is at
  groupCrashes,
  groupEdits

groupVars ==
  <<receipt, draft, disk, moved, caller, step, at, groupCrashes, groupEdits>>

-----------------------------------------------------------------------------
Absent == [dir |-> FALSE, reg |-> FALSE, branch |-> "none", dirty |-> FALSE]

NoReceipt ==
  [state |-> "none", entry |-> [m \in Members |-> [state |-> "planned", head |-> "none"]]]

GroupInit ==
  /\ receipt = NoReceipt
  /\ draft = NoReceipt
  /\ disk = [m \in Members |-> Absent]
  /\ moved = {}
  /\ caller = "admitted"
  /\ step = "idle"
  /\ at = 1
  /\ groupCrashes = 0
  /\ groupEdits = 0

publishReceipt(r) == receipt' = r /\ draft' = r

WithEntry(r, m, s, head) == [r EXCEPT !.entry[m] = [state |-> s, head |-> head]]

(* Variant: any commit on the branch is accepted.                           *)
inspectExactMember_AnyCommit(m, requireAnchor) ==
  disk[m].dir /\ disk[m].reg /\ disk[m].branch # "none" /\ ~disk[m].dirty

(* Every part of the member agrees and, for a rollback or before readiness, *)
(* the branch is still at the anchor.                                       *)
inspectExactMember(m, requireAnchor) ==
  /\ disk[m].dir /\ disk[m].reg
  /\ disk[m].branch # "none"
  /\ requireAnchor => disk[m].branch = "anchor"
  /\ ~disk[m].dirty

(* The intent to clean up is durable before the first destructive command. *)
cleanupGroup(from, rollback) ==
  /\ publishReceipt([from EXCEPT !.state = IF rollback THEN "rolling_back" ELSE "reclaiming"])
  /\ step' = "remove"
  /\ at' = Width

-----------------------------------------------------------------------------
(* The first preparation refuses branches that exist and records the plan. *)
initialReceipt ==
  /\ step = "idle" /\ caller = "admitted" /\ receipt.state = "none"
  /\ \A m \in Members : disk[m].branch = "none"
  /\ publishReceipt([receipt EXCEPT !.state = "creating"])
  /\ step' = "create" /\ at' = 1
  /\ UNCHANGED <<disk, moved, caller, groupCrashes, groupEdits>>

(* A later preparation continues from the state of the receipt. (A group   *)
(* being reclaimed has a caller past preparation.)                          *)
prepareWorktreeGroup ==
  /\ step = "idle" /\ caller = "admitted"
  /\ \/ /\ receipt.state = "creating"
        /\ step' = "create" /\ at' = 1
        /\ UNCHANGED <<receipt, draft>>
     \/ /\ receipt.state = "ready"
        /\ step' = "verify" /\ at' = 1
        /\ UNCHANGED <<receipt, draft>>
     \/ receipt.state = "rolling_back" /\ cleanupGroup(receipt, TRUE)
     \/ /\ receipt.state \in {"reclaimed", "recovery_required"}
        /\ step' = "return"
        /\ UNCHANGED <<receipt, draft, at>>
  /\ UNCHANGED <<disk, moved, caller, groupCrashes, groupEdits>>

(* What an interrupted creation left is adopted when it is exact; anything  *)
(* else, and a default branch that moved, undoes the group.                 *)
createOrAdoptEntry ==
  LET entry == receipt.entry[at]
      residue == disk[at].dir \/ disk[at].reg \/ disk[at].branch # "none"
  IN /\ step = "create"
     /\ \/ /\ entry.state # "planned"
           /\ step' = "provision"
           /\ UNCHANGED <<receipt, draft, at>>
        \/ /\ entry.state = "planned" /\ residue /\ inspectExactMember(at, TRUE)
           /\ publishReceipt(WithEntry(receipt, at, "created", "anchor"))
           /\ step' = "provision" /\ UNCHANGED at
        \/ /\ entry.state = "planned" /\ ~residue /\ at \notin moved
           /\ step' = "add"
           /\ UNCHANGED <<receipt, draft, at>>
        \/ /\ entry.state = "planned"
           /\ \/ residue /\ ~inspectExactMember(at, TRUE)
              \/ ~residue /\ at \in moved
           /\ cleanupGroup(receipt, TRUE)
     /\ UNCHANGED <<disk, moved, caller, groupCrashes, groupEdits>>

(* git worktree add -b: a failure may leave the branch it made first. *)
gitWorktreeAdd ==
  /\ step = "add"
  /\ \/ /\ disk' = [disk EXCEPT ![at] =
                      [dir |-> TRUE, reg |-> TRUE, branch |-> "anchor", dirty |-> FALSE]]
        /\ step' = "created"
        /\ UNCHANGED <<receipt, draft, at>>
     \/ /\ disk' = [disk EXCEPT ![at].branch = "anchor"]
        /\ cleanupGroup(receipt, TRUE)
  /\ UNCHANGED <<moved, caller, groupCrashes, groupEdits>>

recordCreated ==
  /\ step = "created"
  /\ IF inspectExactMember(at, TRUE)
     THEN /\ publishReceipt(WithEntry(receipt, at, "created", "anchor"))
          /\ step' = "provision" /\ UNCHANGED at
     ELSE cleanupGroup(receipt, TRUE)
  /\ UNCHANGED <<disk, moved, caller, groupCrashes, groupEdits>>

(* Provisioning may fail; the member is inspected before and after it. *)
provisionEntry ==
  /\ step = "provision"
  /\ \/ /\ receipt.entry[at].state \in {"created", "provisioned"}
        /\ inspectExactMember(at, TRUE)
        /\ publishReceipt(WithEntry(receipt, at, "provisioned", "anchor"))
        /\ IF at < Width THEN step' = "create" /\ at' = at + 1
                         ELSE step' = "finish" /\ UNCHANGED at
     \/ cleanupGroup(receipt, TRUE)
  /\ UNCHANGED <<disk, moved, caller, groupCrashes, groupEdits>>

AllExact == moved = {} /\ \A m \in Members : inspectExactMember(m, TRUE)

markReady ==
  /\ step = "finish"
  /\ IF AllExact
     THEN /\ publishReceipt([state |-> "ready",
                             entry |-> [m \in Members |-> [state |-> "ready", head |-> "anchor"]]])
          /\ step' = "return" /\ UNCHANGED at
     ELSE cleanupGroup(receipt, TRUE)
  /\ UNCHANGED <<disk, moved, caller, groupCrashes, groupEdits>>

(* A ready receipt found after a restart is proved again or set aside. *)
verifyReadyReceipt ==
  /\ step = "verify"
  /\ step' = "return"
  /\ \/ AllExact /\ publishReceipt(receipt)
     \/ /\ ~AllExact
        /\ \E m \in Members :
             publishReceipt([WithEntry(receipt, m, "preserved", receipt.entry[m].head)
                               EXCEPT !.state = "recovery_required"])
  /\ UNCHANGED <<disk, moved, caller, at, groupCrashes, groupEdits>>

(* The result reaches the caller's journal; only a ready group is handed    *)
(* to a provider, and everything else ends the attempt.                     *)
recordWorktreeFact ==
  /\ step = "return"
  /\ caller' = CASE caller = "admitted" /\ receipt.state = "ready" -> "ready"
                 [] caller = "integrated" /\ receipt.state = "reclaimed" -> "released"
                 [] OTHER -> "recovery"
  /\ step' = "idle"
  /\ UNCHANGED <<receipt, draft, disk, moved, at, groupCrashes, groupEdits>>

(* After the candidate vector is receipted the group is reclaimed. *)
reclaimWorktreeGroup ==
  /\ step = "idle" /\ caller = "integrated"
  /\ \/ /\ receipt.state = "reclaimed"
        /\ step' = "return"
        /\ UNCHANGED <<receipt, draft, at>>
     \/ /\ receipt.state \in {"ready", "reclaiming", "recovery_required"}
        /\ cleanupGroup(receipt, FALSE)
  /\ UNCHANGED <<disk, moved, caller, groupCrashes, groupEdits>>

-----------------------------------------------------------------------------
Rollback == draft.state = "rolling_back"

NextEntry == IF at > 1 THEN at' = at - 1 /\ step' = "remove"
                       ELSE step' = "close" /\ UNCHANGED at

Gone(m) == ~disk[m].dir /\ ~disk[m].reg

(* The first half of removeOwnedEntry: what is already gone is accepted     *)
(* only in the states that explain it; a member that is there is inspected  *)
(* and the receipt says so before the worktree is removed.                  *)
removeOwnedEntry ==
  LET entry == draft.entry[at]
      explained == \/ entry.state = "planned" /\ disk[at].branch \in {"none", "anchor"}
                   \/ entry.state = "reclaiming" /\ disk[at].branch \in {"none", entry.head}
  IN /\ step = "remove"
     /\ \/ /\ entry.state = "reclaimed"
           /\ NextEntry
           /\ UNCHANGED <<receipt, draft, disk>>
        \/ /\ entry.state # "reclaimed"
           /\ Gone(at) /\ explained
           /\ disk' = [disk EXCEPT ![at].branch = "none"]
           /\ draft' = WithEntry(draft, at, "reclaimed", entry.head)
           /\ NextEntry
           /\ UNCHANGED receipt
        \/ /\ entry.state # "reclaimed"
           /\ disk[at].dir /\ inspectExactMember(at, Rollback)
           /\ publishReceipt(WithEntry(draft, at, "reclaiming", disk[at].branch))
           /\ step' = "detach"
           /\ UNCHANGED <<disk, at>>
        \/ /\ entry.state # "reclaimed"
           /\ ~(Gone(at) /\ explained)
           /\ ~(disk[at].dir /\ inspectExactMember(at, Rollback))
           /\ draft' = WithEntry(draft, at, "preserved", entry.head)
           /\ NextEntry
           /\ UNCHANGED <<receipt, disk>>
     /\ UNCHANGED <<moved, caller, groupCrashes, groupEdits>>

(* git worktree remove, never forced: Git itself refuses a dirty checkout. *)
gitWorktreeRemove ==
  /\ step = "detach"
  /\ \/ /\ ~disk[at].dirty
        /\ disk' = [disk EXCEPT ![at].dir = FALSE, ![at].reg = FALSE]
        /\ step' = "unbranch"
        /\ UNCHANGED <<draft, at>>
     \/ /\ disk[at].dirty
        /\ draft' = WithEntry(draft, at, "preserved", draft.entry[at].head)
        /\ NextEntry
        /\ UNCHANGED disk
  /\ UNCHANGED <<receipt, moved, caller, groupCrashes, groupEdits>>

(* Variant: a branch that moved is taken for deleted.                       *)
deleteOwnedBranch_Trusting ==
  /\ step = "unbranch"
  /\ IF disk[at].branch = draft.entry[at].head
     THEN disk' = [disk EXCEPT ![at].branch = "none"] ELSE UNCHANGED disk
  /\ draft' = WithEntry(draft, at, "reclaimed", draft.entry[at].head)
  /\ NextEntry
  /\ UNCHANGED <<receipt, moved, caller, groupCrashes, groupEdits>>

(* The branch is deleted by compare-and-delete at the inspected commit. *)
deleteOwnedBranch ==
  LET head == draft.entry[at].head
  IN /\ step = "unbranch"
     /\ IF disk[at].branch \in {"none", head}
        THEN /\ disk' = [disk EXCEPT ![at].branch = "none"]
             /\ draft' = WithEntry(draft, at, "reclaimed", head)
        ELSE /\ draft' = WithEntry(draft, at, "preserved", head)
             /\ UNCHANGED disk
     /\ NextEntry
     /\ UNCHANGED <<receipt, moved, caller, groupCrashes, groupEdits>>

closeCleanup ==
  /\ step = "close"
  /\ publishReceipt([draft EXCEPT !.state =
        IF \A m \in Members : draft.entry[m].state = "reclaimed"
        THEN "reclaimed" ELSE "recovery_required"])
  /\ step' = "return"
  /\ UNCHANGED <<disk, moved, caller, at, groupCrashes, groupEdits>>

-----------------------------------------------------------------------------
(* The parent may stop anywhere; inside a Git command it leaves a part of   *)
(* the effect behind.                                                       *)
GroupCrash ==
  /\ step # "idle" /\ groupCrashes < MaxGroupCrashes
  /\ \/ UNCHANGED disk
     \/ step = "add" /\ disk' = [disk EXCEPT ![at].branch = "anchor"]
     \/ step = "add" /\ disk' = [disk EXCEPT ![at].branch = "anchor", ![at].reg = TRUE]
     \/ step = "add" /\ disk' = [disk EXCEPT ![at] =
           [dir |-> TRUE, reg |-> TRUE, branch |-> "anchor", dirty |-> TRUE]]
     \/ step = "detach" /\ ~disk[at].dirty /\ disk' = [disk EXCEPT ![at].dir = FALSE]
  /\ draft' = receipt
  /\ step' = "idle"
  /\ groupCrashes' = groupCrashes + 1
  /\ UNCHANGED <<receipt, moved, caller, at, groupEdits>>

(* The worker dirties its checkouts, the parent commits them and lands the  *)
(* vector: the work of the rest of executeTask on this group.               *)
WorkAndIntegrate ==
  /\ step = "idle" /\ caller = "ready"
  /\ \A m \in Members : inspectExactMember(m, TRUE)
  /\ disk' = [m \in Members |-> [disk[m] EXCEPT !.branch = "work"]]
  /\ caller' = "integrated"
  /\ UNCHANGED <<receipt, draft, moved, step, at, groupCrashes, groupEdits>>

(* Anything else on the host: a file in a checkout, a commit on a member's  *)
(* branch, a commit on the default branch.                                  *)
OthersEdit(m) ==
  /\ groupEdits < MaxGroupEdits
  /\ \/ disk[m].dir /\ disk' = [disk EXCEPT ![m].dirty = TRUE] /\ UNCHANGED moved
     \/ /\ disk[m].branch # "none" /\ disk' = [disk EXCEPT ![m].branch = "work"]
        /\ UNCHANGED moved
     \/ moved' = moved \cup {m} /\ UNCHANGED disk
  /\ groupEdits' = groupEdits + 1
  /\ UNCHANGED <<receipt, draft, caller, step, at, groupCrashes>>

GroupNext ==
  \/ initialReceipt \/ prepareWorktreeGroup \/ createOrAdoptEntry
  \/ gitWorktreeAdd \/ recordCreated \/ provisionEntry
  \/ markReady \/ verifyReadyReceipt \/ recordWorktreeFact
  \/ reclaimWorktreeGroup \/ removeOwnedEntry \/ gitWorktreeRemove
  \/ deleteOwnedBranch \/ closeCleanup
  \/ GroupCrash \/ WorkAndIntegrate
  \/ \E m \in Members : OthersEdit(m)

GroupSpec == GroupInit /\ [][GroupNext]_groupVars

-----------------------------------------------------------------------------
GroupTypeOK ==
  /\ receipt.state \in GroupStates /\ draft.state \in GroupStates
  /\ \A m \in Members : /\ receipt.entry[m].state \in EntryStates
                        /\ draft.entry[m].state \in EntryStates
                        /\ disk[m].branch \in Commits
  /\ at \in Members

(* The durable receipt never lies: "ready" means that every member is there, *)
(* and "reclaimed" that neither directory, registration nor branch of any    *)
(* member is left, whatever crash, failure or foreign edit came in between   *)
(* (publishReceipt before the commands, removeOwnedEntry, worktrees.ts).     *)
ReceiptTellsTruth ==
  /\ receipt.state = "ready" =>
       \A m \in Members : disk[m].dir /\ disk[m].reg /\ disk[m].branch # "none"
  /\ receipt.state = "reclaimed" =>
       \A m \in Members : Gone(m) /\ disk[m].branch = "none"

(* Cleaning up destroys no work: a dirty checkout is never removed, and a    *)
(* branch that holds a commit is deleted only after the caller has landed    *)
(* the vector, through any sequence of crashes and resumed cleanups          *)
(* (removeOwnedEntry and cleanupGroup, worktrees.ts).                        *)
WorkSurvivesCleanup ==
  [][\A m \in Members :
       /\ disk[m].dir /\ disk[m].dirty => disk'[m].dir
       /\ disk[m].branch = "work" /\ disk'[m].branch = "none" => caller = "integrated"
    ]_groupVars
=============================================================================
