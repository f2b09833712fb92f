----------------------------- MODULE LedgerOpen -----------------------------
(***************************************************************************)
(* Establishing a ledger generation (openLedger, initLedger,               *)
(* ensureAttestKey) and migrating a legacy v1 journal into one             *)
(* (migrateLegacyV1) in src/ledger.ts.  Several processes work on one      *)
(* directory; all of their steps are directory operations whose durability *)
(* only fsyncDir establishes, so the directory is kept as the entries seen *)
(* now (cur) and, for each name, what a power loss may leave of it (may):  *)
(* operations that no fsyncDir has settled are lost or kept independently  *)
(* of each other.                                                          *)
(*                                                                         *)
(* Every artifact is published by link(): a private temporary file is      *)
(* linked to its name (EEXIST when somebody was first) and then unlinked;  *)
(* between the two the published inode has a second name ("debris").       *)
(*                                                                         *)
(* The journal's own transactions are module Ledger's: here a reservation  *)
(* is atomic and durable (the transaction ends with an fsyncDir of its     *)
(* own, which also settles what was pending).  The legacy balance fills    *)
(* the whole budget, so a call may be admitted only by a ledger that has   *)
(* forgotten it.                                                           *)
(***************************************************************************)
EXTENDS Naturals, FiniteSets

CONSTANTS
  Openers,      \* runs that call openLedger
  Migrators,    \* operators that call migrateLegacyV1
  Overlap,      \* an open may already be under way when a migration begins
  MaxCrashes    \* bound: process crashes and power losses

None == "none"

ASSUME ProcsAssumption == Openers \cap Migrators = {} /\ None \notin Openers \cup Migrators
ASSUME OpenBounds == Overlap \in BOOLEAN /\ MaxCrashes \in Nat

Procs == Openers \cup Migrators

VARIABLES
  dir,       \* the directory: [cur, may]
  recs,      \* reservations in the v2 journal: "carry" and "call"
  legacy,    \* the board held a v1 journal with a positive balance
  pc,
  gen,       \* the generation (its creator) each process opened or published
  key,       \* the attestation key (its creator) each process holds
  mlock,     \* holder of reservations.v1.migration.lock
  archiving, \* the migrator saw a non-empty legacy leaf
  crashes

vars == <<dir, recs, legacy, pc, gen, key, mlock, archiving, crashes>>

Artifacts == {"key", "manifest", "intent", "receipt"}

Dirs == [leaf     : {None, "v1", "new"},
         archive  : BOOLEAN,
         key      : Procs \cup {None},
         manifest : Procs \cup {None},
         intent   : BOOLEAN,
         receipt  : BOOLEAN,
         debris   : SUBSET Artifacts]

\* What a power loss may make of the directory.
Outcomes(may) ==
  [leaf : may.leaf, archive : may.archive, key : may.key, manifest : may.manifest,
   intent : may.intent, receipt : may.receipt, debris : may.debris]

Settled(d) ==
  [leaf |-> {d.leaf}, archive |-> {d.archive}, key |-> {d.key}, manifest |-> {d.manifest},
   intent |-> {d.intent}, receipt |-> {d.receipt}, debris |-> {d.debris}]

Pending(may, d) ==
  [leaf |-> may.leaf \cup {d.leaf}, archive |-> may.archive \cup {d.archive},
   key |-> may.key \cup {d.key}, manifest |-> may.manifest \cup {d.manifest},
   intent |-> may.intent \cup {d.intent}, receipt |-> may.receipt \cup {d.receipt},
   debris |-> may.debris \cup {d.debris}]

\* The directory now and after every power loss that could strike now.
Possible == Outcomes(dir.may)

OpenSteps == {"manifest", "key", "keyLink", "keyTidy", "leaf", "leafSync",
              "publish", "publishTidy"}

PCs == {"start", "open"} \cup OpenSteps \cup
       {"intent", "intentTidy", "archive", "unlink", "unlinkSync", "proveArchive",
        "carry", "receipt", "receiptTidy", "done"}

\* The types; and the migration lock is held exactly while a migration runs:
\* migrateLegacyV1 closes its descriptor on every return and throw.
TypeOK ==
  /\ dir.cur \in Dirs /\ Outcomes(dir.may) \subseteq Dirs
  /\ recs \subseteq {"carry", "call"}
  /\ legacy \in BOOLEAN
  /\ pc \in [Procs -> PCs]
  /\ gen \in [Procs -> Procs \cup {None}]
  /\ key \in [Procs -> Procs \cup {None}]
  /\ mlock \in Migrators \cup {None}
  /\ \A p \in Migrators : mlock = p <=> pc[p] \notin {"start", "done"}
  /\ archiving \in [Migrators -> BOOLEAN]
  /\ crashes \in 0..MaxCrashes

\* A fresh board, or one with a durable v1 journal.
Init ==
  /\ legacy \in BOOLEAN
  /\ LET d == [leaf |-> IF legacy THEN "v1" ELSE None, archive |-> FALSE,
               key |-> None, manifest |-> None, intent |-> FALSE,
               receipt |-> FALSE, debris |-> {}]
     IN  dir = [cur |-> d, may |-> Settled(d)]
  /\ recs = {}
  /\ pc = [p \in Procs |-> "start"]
  /\ gen = [p \in Procs |-> None]
  /\ key = [p \in Procs |-> None]
  /\ mlock = None
  /\ archiving = [p \in Migrators |-> FALSE]
  /\ crashes = 0

Goto(p, step) == pc' = [pc EXCEPT ![p] = step]

\* A directory operation that no fsyncDir has made durable yet, and one that is.
Dirty(d) == dir' = [cur |-> d, may |-> Pending(dir.may, d)]
Durable(d) == dir' = [cur |-> d, may |-> Settled(d)]

\* A throw: the caller may try again; a migrator's lock file is closed.
Throw(p) ==
  /\ Goto(p, "start")
  /\ mlock' = IF mlock = p THEN None ELSE mlock

\* The writer unlinks the temporary it linked into place.
Tidied(names) == [dir.cur EXCEPT !.debris = @ \ names]

\* Mutant: debris is left where it is.
Swept_Nothing(names) == dir.cur

\* statPublished and sweepPublishDebris: a reader removes the second name of the
\* very inode it holds open.
Swept(names) == [dir.cur EXCEPT !.debris = @ \ names]

\* assertPrivateRegularFd insists that what was swept now has a single link.
ReadPublished(names) ==
  /\ Swept(names).debris \cap names = {}
  /\ Dirty(Swept(names))

-----------------------------------------------------------------------------
(* openLedgerInternal, shared by the runs and by the migration.            *)

pendingMigrationReason(d) == d.intent /\ ~d.receipt

\* Mutant: an unfinished migration is not noticed.
CheckPending_Skipped(p) ==
  /\ pc[p] = "start"
  /\ p \in Openers
  /\ Goto(p, "manifest")
  /\ UNCHANGED <<dir, recs, legacy, gen, key, mlock, archiving, crashes>>

CheckPending(p) ==
  /\ pc[p] = "start"
  /\ p \in Openers
  /\ Overlap \/ \A m \in Migrators : pc[m] # "intent"
  /\ ReadPublished({"intent", "receipt"})
  /\ ~pendingMigrationReason(dir.cur)
  /\ Goto(p, "manifest")
  /\ UNCHANGED <<recs, legacy, gen, key, mlock, archiving, crashes>>

\* An opener is done; the migration goes on to carry the balance.
Opened(p, g, k) ==
  /\ gen' = [gen EXCEPT ![p] = g]
  /\ key' = [key EXCEPT ![p] = k]
  /\ Goto(p, IF p \in Openers THEN "open" ELSE "carry")
  /\ UNCHANGED mlock

\* readManifest, then verifyManifest and ensureAttestKey(create = false).
ReadManifest(p) ==
  /\ pc[p] = "manifest"
  /\ ReadPublished({"manifest", "key"})
  /\ \/ /\ dir.cur.manifest = None
        /\ Goto(p, "key")
        /\ UNCHANGED <<gen, key, mlock>>
     \/ /\ dir.cur.manifest # None
        /\ dir.cur.leaf = "new" /\ dir.cur.key # None
        /\ Opened(p, dir.cur.manifest, dir.cur.key)
     \/ /\ dir.cur.manifest # None
        /\ dir.cur.leaf # "new" \/ dir.cur.key = None
        /\ Throw(p)
        /\ UNCHANGED <<gen, key>>
  /\ UNCHANGED <<recs, legacy, archiving, crashes>>

\* ensureAttestKey(create = true): adopt a key that is there.
ReadKey(p) ==
  /\ pc[p] = "key"
  /\ ReadPublished({"key"})
  /\ \/ /\ dir.cur.key # None
        /\ key' = [key EXCEPT ![p] = dir.cur.key]
        /\ Goto(p, "leaf")
     \/ /\ dir.cur.key = None
        /\ Goto(p, "keyLink")
        /\ UNCHANGED key
  /\ UNCHANGED <<recs, legacy, gen, mlock, archiving, crashes>>

\* The whole, fsynced temporary is linked to the key's name, or EEXIST.
KeyLink(p) ==
  /\ pc[p] = "keyLink"
  /\ \/ /\ dir.cur.key = None
        /\ Dirty([dir.cur EXCEPT !.key = p, !.debris = @ \cup {"key"}])
     \/ /\ dir.cur.key # None
        /\ UNCHANGED dir
  /\ Goto(p, "keyTidy")
  /\ UNCHANGED <<recs, legacy, gen, key, mlock, archiving, crashes>>

\* unlink the temporary, fsyncDir, and read back what actually landed.
KeyTidy(p) ==
  /\ pc[p] = "keyTidy"
  /\ Durable(Tidied({"key"}))
  /\ key' = [key EXCEPT ![p] = dir.cur.key]
  /\ Goto(p, "leaf")
  /\ UNCHANGED <<recs, legacy, gen, mlock, archiving, crashes>>

\* initLedger: the leaf is created, or adopted when empty; unowned bytes are refused.
CreateLeaf(p) ==
  /\ pc[p] = "leaf"
  /\ \/ /\ dir.cur.leaf # "v1" /\ recs = {}
        /\ Dirty([dir.cur EXCEPT !.leaf = "new"])
        /\ Goto(p, "leafSync")
        /\ UNCHANGED mlock
     \/ /\ dir.cur.leaf = "v1" \/ recs # {}
        /\ Throw(p)
        /\ UNCHANGED dir
  /\ UNCHANGED <<recs, legacy, gen, key, archiving, crashes>>

\* The write-ahead log is created beside the leaf, then both entries are made durable.
SyncLeaf(p) ==
  /\ pc[p] = "leafSync"
  /\ Durable(dir.cur)
  /\ Goto(p, "publish")
  /\ UNCHANGED <<recs, legacy, gen, key, mlock, archiving, crashes>>

PublishManifest(p) ==
  /\ pc[p] = "publish"
  /\ \/ /\ dir.cur.manifest = None
        /\ Dirty([dir.cur EXCEPT !.manifest = p, !.debris = @ \cup {"manifest"}])
     \/ /\ dir.cur.manifest # None
        /\ UNCHANGED dir
  /\ gen' = [gen EXCEPT ![p] = IF dir.cur.manifest = None THEN p ELSE None]
  /\ Goto(p, "publishTidy")
  /\ UNCHANGED <<recs, legacy, key, mlock, archiving, crashes>>

\* Mutant: the loser of the race keeps the generation it failed to publish.
TidyManifest_KeepsOwn(p) ==
  /\ pc[p] = "publishTidy"
  /\ Durable(Tidied({"manifest"}))
  /\ Opened(p, p, key[p])
  /\ UNCHANGED <<recs, legacy, archiving, crashes>>

\* unlink, fsyncDir; whoever lost the race adopts and verifies the winner.
TidyManifest(p) ==
  /\ pc[p] = "publishTidy"
  /\ Durable(Tidied({"manifest"}))
  /\ \/ /\ gen[p] = p
        /\ Opened(p, p, key[p])
     \/ /\ gen[p] = None /\ dir.cur.leaf = "new"
        /\ Opened(p, dir.cur.manifest, key[p])
     \/ /\ gen[p] = None /\ dir.cur.leaf # "new"
        /\ Throw(p)
        /\ UNCHANGED <<gen, key>>
  /\ UNCHANGED <<recs, legacy, archiving, crashes>>

\* A run reserves a call; the budget is exactly the legacy balance.
ReserveCall(p) ==
  /\ pc[p] = "open"
  /\ recs = {}
  /\ recs' = {"call"}
  /\ Durable(dir.cur)
  /\ UNCHANGED <<legacy, pc, gen, key, mlock, archiving, crashes>>

-----------------------------------------------------------------------------
(* migrateLegacyV1.                                                        *)

\* Lock, refuse what is not a candidate, find and fold the source strictly.
BeginMigration(p) ==
  /\ pc[p] = "start"
  /\ p \in Migrators
  /\ mlock = None
  /\ ReadPublished({"intent", "receipt", "manifest"})
  /\ LET d == dir.cur
         fromLeaf == d.manifest = None /\ d.leaf = "v1"
     IN  /\ ~d.receipt
         /\ d.intent \/ d.manifest = None
         /\ fromLeaf \/ d.archive
         /\ archiving' = [archiving EXCEPT ![p] = fromLeaf]
         /\ Goto(p, IF d.intent THEN (IF fromLeaf THEN "archive" ELSE "proveArchive")
                               ELSE "intent")
  /\ mlock' = p
  /\ UNCHANGED <<recs, legacy, gen, key, crashes>>

\* writeJsonArtifact(V1_INTENT): from here the ledger must not open.
PublishIntent(p) ==
  /\ pc[p] = "intent"
  /\ Overlap \/ \A o \in Openers : pc[o] \in {"start", "open"}
  /\ Dirty([dir.cur EXCEPT !.intent = TRUE, !.debris = @ \cup {"intent"}])
  /\ Goto(p, "intentTidy")
  /\ UNCHANGED <<recs, legacy, gen, key, mlock, archiving, crashes>>

TidyIntent(p) ==
  /\ pc[p] = "intentTidy"
  /\ Durable(Tidied({"intent"}))
  /\ Goto(p, IF archiving[p] THEN "archive" ELSE "proveArchive")
  /\ UNCHANGED <<recs, legacy, gen, key, mlock, archiving, crashes>>

\* link LEAF to V1_ARCHIVE and fsyncDir; EEXIST means it was done before.
Archive(p) ==
  /\ pc[p] = "archive"
  /\ Durable([dir.cur EXCEPT !.archive = TRUE])
  /\ Goto(p, "unlink")
  /\ UNCHANGED <<recs, legacy, gen, key, mlock, archiving, crashes>>

\* The two names must be one inode before the first is removed.
UnlinkLeaf(p) ==
  /\ pc[p] = "unlink"
  /\ \/ /\ dir.cur.leaf = "v1"
        /\ Dirty([dir.cur EXCEPT !.leaf = None])
        /\ Goto(p, "unlinkSync")
        /\ UNCHANGED mlock
     \/ /\ dir.cur.leaf # "v1"
        /\ Throw(p)
        /\ UNCHANGED dir
  /\ UNCHANGED <<recs, legacy, gen, key, archiving, crashes>>

SyncUnlink(p) ==
  /\ pc[p] = "unlinkSync"
  /\ Durable(dir.cur)
  /\ Goto(p, "proveArchive")
  /\ UNCHANGED <<recs, legacy, gen, key, mlock, archiving, crashes>>

\* The archive holds exactly the bytes the intent pins; then open the generation.
ProveArchive(p) ==
  /\ pc[p] = "proveArchive"
  /\ dir.cur.archive
  /\ Goto(p, "manifest")
  /\ UNCHANGED <<dir, recs, legacy, gen, key, mlock, archiving, crashes>>

\* hasReservation, else reserve(carried, carried): admitted only into an empty journal.
Carry(p) ==
  /\ pc[p] = "carry"
  /\ \/ /\ "carry" \in recs \/ recs = {}
        /\ recs' = recs \cup {"carry"}
        /\ Durable(dir.cur)
        /\ Goto(p, "receipt")
        /\ UNCHANGED mlock
     \/ /\ recs = {"call"}
        /\ Throw(p)
        /\ UNCHANGED <<recs, dir>>
  /\ UNCHANGED <<legacy, gen, key, archiving, crashes>>

PublishReceipt(p) ==
  /\ pc[p] = "receipt"
  /\ Dirty([dir.cur EXCEPT !.receipt = TRUE, !.debris = @ \cup {"receipt"}])
  /\ Goto(p, "receiptTidy")
  /\ UNCHANGED <<recs, legacy, gen, key, mlock, archiving, crashes>>

TidyReceipt(p) ==
  /\ pc[p] = "receiptTidy"
  /\ Durable(Tidied({"receipt"}))
  /\ Goto(p, "done")
  /\ mlock' = None
  /\ UNCHANGED <<recs, legacy, gen, key, archiving, crashes>>

-----------------------------------------------------------------------------
Forget(ps) ==
  /\ pc' = [p \in Procs |-> IF p \in ps THEN "start" ELSE pc[p]]
  /\ gen' = [p \in Procs |-> IF p \in ps THEN None ELSE gen[p]]
  /\ key' = [p \in Procs |-> IF p \in ps THEN None ELSE key[p]]
  /\ mlock' = IF mlock \in ps THEN None ELSE mlock

ProcessCrash(p) ==
  /\ crashes < MaxCrashes
  /\ crashes' = crashes + 1
  /\ Forget({p})
  /\ UNCHANGED <<dir, recs, legacy, archiving>>

PowerLoss ==
  /\ crashes < MaxCrashes
  /\ crashes' = crashes + 1
  /\ \E d \in Possible : Durable(d)
  /\ Forget(Procs)
  /\ UNCHANGED <<recs, legacy, archiving>>

OpenStep(p) ==
  \/ CheckPending(p) \/ ReadManifest(p) \/ ReadKey(p) \/ KeyLink(p) \/ KeyTidy(p)
  \/ CreateLeaf(p) \/ SyncLeaf(p) \/ PublishManifest(p) \/ TidyManifest(p)

MigrateStep(p) ==
  \/ BeginMigration(p) \/ PublishIntent(p) \/ TidyIntent(p) \/ Archive(p)
  \/ UnlinkLeaf(p) \/ SyncUnlink(p) \/ ProveArchive(p) \/ Carry(p)
  \/ PublishReceipt(p) \/ TidyReceipt(p)

Next ==
  \/ \E p \in Procs : OpenStep(p) \/ MigrateStep(p) \/ ReserveCall(p) \/ ProcessCrash(p)
  \/ PowerLoss

\* Runs are retried after a refusal, and an operator re-runs a migration until it is done.
Fairness == \A p \in Procs : WF_vars(OpenStep(p)) /\ SF_vars(MigrateStep(p))

Spec == Init /\ [][Next]_vars /\ Fairness

-----------------------------------------------------------------------------
\* A generation never exists without the key that authenticates it and the
\* leaf it was published to, whatever a crash leaves: the key is published
\* before the manifest, the leaf is durable before it.
GenerationComplete ==
  \A d \in Possible : d.manifest # None => d.key # None /\ d.leaf = "new"

\* Two processes that both opened the ledger hold the same generation and key,
\* though both may have created one: the loser of a link() adopts the winner.
OneGeneration ==
  \A p, q \in Procs :
    pc[p] \in {"open", "carry", "receipt", "receiptTidy", "done"}
      /\ pc[q] \in {"open", "carry", "receipt", "receiptTidy", "done"}
      => gen[p] = gen[q] /\ key[p] = key[q]

\* The legacy bytes always have a name: no crash between archiving and
\* unlinking loses them.
LegacyKept ==
  legacy => \A d \in Possible : d.leaf = "v1" \/ d.archive

\* A migration that completed carried the balance.
CompletionMeansCarried ==
  \A d \in Possible : d.receipt => "carry" \in recs

\* Whatever ran at once and whatever was cut short, a published generation is
\* complete, is the only one anybody uses, and neither the legacy bytes nor
\* the carried balance is lost on the way to it (initLedger, migrateLedger).
GenerationsSound ==
  GenerationComplete /\ OneGeneration /\ LegacyKept /\ CompletionMeansCarried

\* "every window it opens is one where nothing else can proceed": no run is
\* admitted against a budget that has forgotten the legacy balance.
BalanceNeverForgotten == legacy => "call" \notin recs

\* A legacy board is migrated in the end, however often the migration crashed.
MigrationCompletes == legacy => <>dir.cur.receipt

\* No crash leaves a directory that can never be opened again.
EventuallyOpens == \A p \in Openers : <>(pc[p] = "open")

\* No crash between two publications leaves a directory that cannot be
\* finished: the migration completes and every run opens in the end.
RecoveryCompletes == MigrationCompletes /\ EventuallyOpens

=============================================================================
