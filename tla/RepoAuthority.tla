---------------------------- MODULE RepoAuthority ----------------------------
(***************************************************************************)
(* The integration lock of one repository (src/multirepo/authority.ts): a  *)
(* directory below the Git common directory, claimed by renaming a staged  *)
(* directory that already holds the owner's receipt onto the live name,    *)
(* and taken from a dead owner by renaming the live directory away.        *)
(* Nothing serialises the contenders: each pins an inode, acts on a name,  *)
(* and looks at what it moved.                                             *)
(*                                                                         *)
(* A claim is identified with the process that staged it (a nonce per      *)
(* claim); Nobody stands for no directory.                                 *)
(***************************************************************************)
EXTENDS FiniteSets

CONSTANTS
  Claimants,   \* the processes that want the lock, one claim each
  Nobody       \* no claim

ASSUME ClaimantAssumption == Nobody \notin Claimants /\ IsFiniteSet(Claimants)

VARIABLES
  liveLeaf,   \* the claim under the live name
  staging,    \* [Claimants -> "none", "empty" or "full": the staged directory]
  archive,    \* [Claimants -> the claim this process renamed away]
  pinned,     \* [Claimants -> the claim it saw under the live name]
  claimPc,    \* [Claimants -> where it is in acquire or release]
  alive       \* processes that still run

lockVars == <<liveLeaf, staging, archive, pinned, claimPc, alive>>

ClaimPcs == {"idle", "staged", "written", "preserve", "check", "publish",
             "verify", "held", "withdrawn", "done", "failed"}

LockInit ==
  /\ liveLeaf = Nobody
  /\ staging = [p \in Claimants |-> "none"]
  /\ archive = [p \in Claimants |-> Nobody]
  /\ pinned = [p \in Claimants |-> Nobody]
  /\ claimPc = [p \in Claimants |-> "idle"]
  /\ alive = Claimants

At(p, pc) == p \in alive /\ claimPc[p] = pc

To(p, pc) == claimPc' = [claimPc EXCEPT ![p] = pc]

-----------------------------------------------------------------------------
(* A staged directory without a receipt, or with the receipt of a dead     *)
(* owner, is moved aside before the contender stages its own.              *)
reconcileAbandonedStagingClaims(p) ==
  /\ At(p, "idle")
  /\ \E q \in Claimants \ {p} :
       /\ staging[q] = "empty" \/ (staging[q] = "full" /\ q \notin alive)
       /\ staging' = [staging EXCEPT ![q] = "none"]
  /\ UNCHANGED <<liveLeaf, archive, pinned, claimPc, alive>>

stageClaim(p) ==
  /\ At(p, "idle")
  /\ staging' = [staging EXCEPT ![p] = "empty"]
  /\ To(p, "staged")
  /\ UNCHANGED <<liveLeaf, archive, pinned, alive>>

(* The receipt cannot be written once the directory was moved aside.       *)
durableExclusiveReceipt(p) ==
  /\ At(p, "staged")
  /\ IF staging[p] = "empty"
     THEN staging' = [staging EXCEPT ![p] = "full"] /\ To(p, "written")
     ELSE To(p, "failed") /\ UNCHANGED staging
  /\ UNCHANGED <<liveLeaf, archive, pinned, alive>>

(* Cleanup of a claim that was not published.                              *)
cleanupStagingDirectory(p) == staging' = [staging EXCEPT ![p] = "none"]

(* The owner found under the live name must be proven dead.                *)
prepareLiveLeaf(p) ==
  /\ At(p, "written")
  /\ UNCHANGED <<liveLeaf, archive, alive>>
  /\ \/ /\ liveLeaf = Nobody
        /\ To(p, "publish") /\ UNCHANGED <<staging, pinned>>
     \/ /\ liveLeaf \in alive
        /\ To(p, "failed") /\ cleanupStagingDirectory(p) /\ UNCHANGED pinned
     \/ /\ liveLeaf \in Claimants \ alive
        /\ pinned' = [pinned EXCEPT ![p] = liveLeaf]
        /\ To(p, "preserve") /\ UNCHANGED staging

(* Rename whatever is under the live name now.                             *)
moveLiveDirectoryExact(p) ==
  /\ At(p, "preserve")
  /\ IF liveLeaf = Nobody
     THEN /\ To(p, "failed") /\ cleanupStagingDirectory(p)
          /\ UNCHANGED <<liveLeaf, archive>>
     ELSE /\ archive' = [archive EXCEPT ![p] = liveLeaf]
          /\ liveLeaf' = Nobody
          /\ To(p, "check") /\ UNCHANGED staging
  /\ UNCHANGED <<pinned, alive>>

(* Variant: what was moved is not compared with what was pinned.           *)
preserveLiveDirectory_Blind(p) ==
  /\ At(p, "check")
  /\ To(p, "publish")
  /\ UNCHANGED <<liveLeaf, staging, archive, pinned, alive>>

(* Another claim was moved: put it back when the name is free, and give up *)
(* in either case.                                                         *)
preserveLiveDirectory(p) ==
  /\ At(p, "check")
  /\ IF archive[p] = pinned[p]
     THEN To(p, "publish") /\ UNCHANGED <<liveLeaf, archive, staging>>
     ELSE /\ IF liveLeaf = Nobody
             THEN /\ liveLeaf' = archive[p]
                  /\ archive' = [archive EXCEPT ![p] = Nobody]
             ELSE UNCHANGED <<liveLeaf, archive>>
          /\ To(p, "failed")
          /\ cleanupStagingDirectory(p)
  /\ UNCHANGED <<pinned, alive>>

(* Renaming onto a claimed live name fails (the directory is not empty).   *)
publishClaim(p) ==
  /\ At(p, "publish")
  /\ IF liveLeaf = Nobody /\ staging[p] = "full"
     THEN liveLeaf' = p /\ To(p, "verify")
     ELSE To(p, "failed") /\ UNCHANGED liveLeaf
  /\ cleanupStagingDirectory(p)
  /\ UNCHANGED <<archive, pinned, alive>>

(* The published claim is re-read; a claim moved meanwhile is left where   *)
(* it is and reported.                                                     *)
acquireOne(p) ==
  /\ At(p, "verify")
  /\ To(p, IF liveLeaf = p THEN "held" ELSE "failed")
  /\ UNCHANGED <<liveLeaf, staging, archive, pinned, alive>>

(* Release withdraws the live name first, then removes the archived claim. *)
releaseOne(p) ==
  /\ \/ /\ At(p, "held")
        /\ IF liveLeaf = p
           THEN /\ liveLeaf' = Nobody /\ archive' = [archive EXCEPT ![p] = p]
                /\ To(p, "withdrawn")
           ELSE To(p, "failed") /\ UNCHANGED <<liveLeaf, archive>>
     \/ /\ At(p, "withdrawn")
        /\ archive' = [archive EXCEPT ![p] = Nobody]
        /\ To(p, "done") /\ UNCHANGED liveLeaf
  /\ UNCHANGED <<staging, pinned, alive>>

ClaimantDies(p) ==
  /\ p \in alive
  /\ claimPc[p] \notin {"idle", "done", "failed"}
  /\ alive' = alive \ {p}
  /\ UNCHANGED <<liveLeaf, staging, archive, pinned, claimPc>>

LockNext ==
  \E p \in Claimants :
    \/ reconcileAbandonedStagingClaims(p) \/ stageClaim(p)
    \/ durableExclusiveReceipt(p) \/ prepareLiveLeaf(p)
    \/ moveLiveDirectoryExact(p) \/ preserveLiveDirectory(p)
    \/ publishClaim(p) \/ acquireOne(p) \/ releaseOne(p) \/ ClaimantDies(p)

LockSpec == LockInit /\ [][LockNext]_lockVars

-----------------------------------------------------------------------------
LockTypeOK ==
  /\ liveLeaf \in Claimants \cup {Nobody}
  /\ staging \in [Claimants -> {"none", "empty", "full"}]
  /\ archive \in [Claimants -> Claimants \cup {Nobody}]
  /\ pinned \in [Claimants -> Claimants \cup {Nobody}]
  /\ claimPc \in [Claimants -> ClaimPcs]
  /\ alive \subseteq Claimants

(* A contender that renamed away a claim it had not pinned dead never      *)
(* holds the lock itself, and the claim it displaced is never destroyed:   *)
(* the directory of a living holder is under the live name or in the       *)
(* archive of exactly such a contender (moveLiveDirectoryExact).           *)
DisplacerNeverHolds ==
  \A p \in Claimants :
    /\ claimPc[p] \in {"publish", "verify", "held"} => archive[p] \notin alive
    /\ At(p, "held") /\ liveLeaf # p =>
         Cardinality({q \in Claimants \ {p} : archive[q] = p
                        /\ claimPc[q] \in {"check", "failed"}}) = 1
=============================================================================
