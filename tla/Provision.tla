----------------------------- MODULE Provision -----------------------------
(* Copying the files a loop provisions into its worktrees (provision.ts and *)
(* requireProvisionedWorktree).  Every worktree of a run shares one private  *)
(* transaction slot per path: a staged copy, the tree that was replaced, and *)
(* the mode that tree had.  The integration worktree outlives a crash, the   *)
(* worktrees of attempts and reviews are made anew; a process provisions the *)
(* integration worktree first.                                               *)
EXTENDS Integers

CONSTANTS Checkouts,        \* worktrees of attempts and reviews
          MaxProvisions,    \* worktrees provisioned in one behaviour
          MaxProvCrashes    \* crashes

ASSUME ProvisionBounds == /\ "integration" \notin Checkouts
                          /\ MaxProvisions \in Nat /\ MaxProvCrashes \in Nat

Worktrees == {"integration"} \cup Checkouts

VARIABLES
  dest,       \* [Worktrees -> [tree, sealed]]: the path, and is it read-only
  staging,    \* "none", "partial" or "whole"
  backup,     \* NoBackup or [of, tree]: the tree moved aside
  modeMarker, \* the mode of the tree that is moved was recorded
  prov,       \* the call in progress: [at, target]
  first,      \* this process has provisioned the integration worktree
  stood,      \* the integration worktree was once provisioned whole (history)
  provisions, \* calls so far
  provCrashes

provVars == <<dest, staging, backup, modeMarker, prov, first, stood,
              provisions, provCrashes>>

NoBackup == [of |-> "none", tree |-> "none"]
Absent == [tree |-> "none", sealed |-> TRUE]

ProvisionInit ==
  /\ dest = [w \in Worktrees |-> Absent] /\ staging = "none" /\ backup = NoBackup
  /\ modeMarker = FALSE /\ prov = [at |-> "idle", target |-> "integration"]
  /\ first = FALSE /\ stood = FALSE /\ provisions = 0 /\ provCrashes = 0

Step(at) == prov' = [prov EXCEPT !.at = at]

(* A checkout is new, with or without a tracked tree at the path.            *)
requireProvisionedWorktree(w) ==
  /\ prov.at = "idle" /\ (w # "integration" => first)
  /\ provisions < MaxProvisions /\ provisions' = provisions + 1
  /\ prov' = [at |-> "inspect", target |-> w]
  /\ \/ w = "integration" /\ UNCHANGED dest
     \/ w # "integration" /\ \E t \in {"none", "tracked"} :
          dest' = [dest EXCEPT ![w] = [tree |-> t, sealed |-> FALSE]]
  /\ UNCHANGED <<staging, backup, modeMarker, first, stood, provCrashes>>

(* Every source and every root is inspected before anything is touched.      *)
inspectPlan ==
  /\ prov.at = "inspect" /\ \E next \in {"roots", "refused"} : Step(next)
  /\ UNCHANGED <<dest, staging, backup, modeMarker, first, stood, provisions,
                 provCrashes>>

provisionWorktree ==
  /\ prov.at = "roots" /\ \E next \in {"reconcile", "refused"} : Step(next)
  /\ UNCHANGED <<dest, staging, backup, modeMarker, first, stood, provisions,
                 provCrashes>>

(* reconcile: what an interrupted call left in the slot.                     *)
(* Variant: a backup is thrown away even if nothing stands at the path.      *)
reconcile_Discards ==
  /\ prov.at = "reconcile" /\ Step("copy")
  /\ staging' = "none" /\ backup' = NoBackup /\ modeMarker' = FALSE
  /\ UNCHANGED <<dest, first, stood, provisions, provCrashes>>

reconcile ==
  /\ prov.at = "reconcile" /\ Step("copy")
  /\ LET here == dest[prov.target] IN
       \/ /\ here.tree # "none"
          /\ dest' = [dest EXCEPT ![prov.target] =
               [tree |-> here.tree, sealed |-> here.sealed \/ (backup = NoBackup /\ modeMarker)]]
       \/ /\ here.tree = "none" /\ backup # NoBackup
          /\ dest' = [dest EXCEPT ![prov.target] =
               [tree |-> backup.tree, sealed |-> modeMarker]]
       \/ here.tree = "none" /\ backup = NoBackup /\ UNCHANGED dest
  /\ staging' = "none" /\ backup' = NoBackup /\ modeMarker' = FALSE
  /\ UNCHANGED <<first, stood, provisions, provCrashes>>

(* The copy is made entry by entry and walked again; a source that changed   *)
(* meanwhile refuses it.                                                     *)
copyPinnedFile ==
  /\ prov.at = "copy" /\ staging = "none" /\ staging' = "partial"
  /\ UNCHANGED <<dest, backup, modeMarker, prov, first, stood, provisions, provCrashes>>

copyManifest ==
  /\ prov.at = "copy" /\ staging = "partial"
  /\ \/ staging' = "whole" /\ Step("aside")
     \/ staging' = "none" /\ Step("refused")
  /\ UNCHANGED <<dest, backup, modeMarker, first, stood, provisions, provCrashes>>

(* A read-only root is made writable before it is moved, its mode recorded.  *)
prepareReadOnlyDirectoryMove ==
  /\ prov.at = "aside" /\ dest[prov.target].tree # "none" /\ dest[prov.target].sealed
  /\ modeMarker' = TRUE /\ dest' = [dest EXCEPT ![prov.target].sealed = FALSE]
  /\ UNCHANGED <<staging, backup, prov, first, stood, provisions, provCrashes>>

moveAside ==
  /\ prov.at = "aside" /\ Step("publish")
  /\ \/ /\ dest[prov.target].tree # "none" /\ ~dest[prov.target].sealed
        /\ backup' = [of |-> prov.target, tree |-> dest[prov.target].tree]
        /\ dest' = [dest EXCEPT ![prov.target] = Absent]
     \/ dest[prov.target].tree = "none" /\ UNCHANGED <<dest, backup>>
  /\ UNCHANGED <<staging, modeMarker, first, stood, provisions, provCrashes>>

publishStaging ==
  /\ prov.at = "publish" /\ staging = "whole" /\ staging' = "none"
  /\ dest' = [dest EXCEPT ![prov.target] = [tree |-> "fresh", sealed |-> FALSE]]
  /\ UNCHANGED <<backup, modeMarker, prov, first, stood, provisions, provCrashes>>

restoreMode ==
  /\ prov.at = "publish" /\ staging = "none" /\ Step("clean")
  /\ dest' = [dest EXCEPT ![prov.target].sealed = TRUE]
  /\ UNCHANGED <<staging, backup, modeMarker, first, stood, provisions, provCrashes>>

(* Anything that throws between the backup and the final mode.               *)
restoreAfterPublishFailure ==
  /\ prov.at \in {"aside", "publish"} /\ Step("refused")
  /\ dest' = [dest EXCEPT ![prov.target] =
       IF backup # NoBackup THEN [tree |-> backup.tree, sealed |-> modeMarker]
       ELSE IF prov.at = "publish" THEN Absent
       ELSE [tree |-> @.tree, sealed |-> @.sealed \/ modeMarker]]
  /\ backup' = NoBackup /\ staging' = "none" /\ modeMarker' = FALSE
  /\ UNCHANGED <<first, stood, provisions, provCrashes>>

removeBackup ==
  /\ prov.at = "clean"
  /\ \/ /\ modeMarker /\ modeMarker' = FALSE
        /\ UNCHANGED <<dest, backup, prov, first, stood>>
     \/ /\ ~modeMarker /\ backup # NoBackup /\ backup' = NoBackup
        /\ UNCHANGED <<dest, modeMarker, prov, first, stood>>
     \/ /\ ~modeMarker /\ backup = NoBackup /\ Step("idle") /\ first' = TRUE
        /\ stood' = (stood \/ prov.target = "integration")
        /\ dest' = [dest EXCEPT ![prov.target].tree = "prior"]
        /\ UNCHANGED <<modeMarker, backup>>
     \/ Step("refused") /\ UNCHANGED <<dest, modeMarker, backup, first, stood>>
  /\ UNCHANGED <<staging, provisions, provCrashes>>

(* A refusal ends the run; a crash ends the process.  The next one begins    *)
(* with the integration worktree and abandons the other checkouts.           *)
nextProcess ==
  /\ \/ prov.at = "refused" /\ UNCHANGED provCrashes
     \/ /\ prov.at # "refused" /\ provCrashes < MaxProvCrashes
        /\ provCrashes' = provCrashes + 1
  /\ prov' = [at |-> "idle", target |-> "integration"] /\ first' = FALSE
  /\ dest' = [w \in Worktrees |-> IF w = "integration" THEN dest[w] ELSE Absent]
  /\ UNCHANGED <<staging, backup, modeMarker, stood, provisions>>

ProvisionNext ==
  \/ \E w \in Worktrees : requireProvisionedWorktree(w)
  \/ inspectPlan \/ provisionWorktree \/ reconcile \/ copyPinnedFile \/ copyManifest
  \/ prepareReadOnlyDirectoryMove \/ moveAside \/ publishStaging \/ restoreMode \/ restoreAfterPublishFailure
  \/ removeBackup \/ nextProcess

ProvisionSpec == ProvisionInit /\ [][ProvisionNext]_provVars

(* Whatever is interrupted, and whichever worktree last used the slot, the   *)
(* tree of a provisioned integration worktree stands at its path or waits in *)
(* the slot; and a refused call leaves the prior tree with the mode it had,  *)
(* or that mode on record.                                                   *)
TreeNeverLost ==
  /\ stood => dest["integration"].tree # "none" \/ backup.of = "integration"
  /\ prov.at = "refused" /\ dest[prov.target].tree = "prior" =>
       dest[prov.target].sealed \/ modeMarker
============================================================================
