--------------------------- MODULE ControlCutover ---------------------------
(***************************************************************************)
(* The one-way switch of a run from the legacy board files to the control  *)
(* store (src/control/cutover.ts, src/control/legacy.ts), with the start   *)
(* of the run that leads to it (prepareRun and runAutonomyLoop).           *)
(*                                                                         *)
(* The legacy files are their version, which stands for their bytes and    *)
(* inodes, and the status history of one task; what an import carries over *)
(* is that history.  A file is published by a rename and made durable by a *)
(* sync of its directory; a crash undoes any of the renames that were not  *)
(* synced (a killed process whose renames are lost later is not told apart *)
(* from one killed by the power failure).  initializeFreshStore is left    *)
(* out: prepareRun creates the board files first, so no run reaches it.    *)
(***************************************************************************)
EXTENDS Integers, FiniteSets

CONSTANTS
  LegacyLeaves,        \* legacy files that are archived
  LegacyRoles,         \* roles of the events of the board
  MaxHistory,          \* bound: events of the legacy history
  MaxLegacyWrites,     \* bound: versions of the legacy files
  MaxCutoverCrashes    \* bound: crashes

ASSUME CutoverBounds ==
  /\ LegacyLeaves \in Nat \ {0} /\ MaxHistory \in Nat
  /\ MaxLegacyWrites \in Nat \ {0} /\ MaxCutoverCrashes \in Nat

VARIABLES
  leaves,       \* how much of the legacy file set exists: "none", "some", "all"
  sources,      \* the version of the legacy files
  history,      \* the status events of the task in the legacy board
  torn,         \* whether a crash left a fragment at the end of it
  scopes,       \* whether the scope journal still names a predecessor
  manifested,   \* the identity of the run is recorded
  store,        \* what the control store holds
  receipt,      \* the version the import receipt names, 0 for none
  archive,      \* the copied files and whether the manifest lists them
  marker,       \* the version the authority marker names, 0 for none
  unsynced,     \* renames whose directory was not synced
  parent,       \* where the run parent is
  plan,         \* the version it planned to import
  cutCrashes

legacyVars == <<leaves, sources, history, torn>>

cutoverVars == <<legacyVars, scopes, manifested, store, receipt,
                 archive, marker, unsynced, parent, plan, cutCrashes>>

LegacyStatuses == {"claimed", "blocked", "needs-review", "done"}
LegacyEvents == [role : LegacyRoles, status : LegacyStatuses]
Histories == UNION {[1 .. n -> LegacyEvents] : n \in 0 .. MaxHistory}

EmptyStore == [holds |-> 0, work |-> FALSE, cursor |-> FALSE, snapshot |-> FALSE]

(* A fresh run, or one that an older version left behind. *)
CutoverInit ==
  /\ \/ /\ leaves = "none" /\ sources = 0 /\ history = <<>>
        /\ torn = FALSE /\ scopes = FALSE
     \/ /\ leaves = "all" /\ sources = 1 /\ history \in Histories
        /\ torn \in BOOLEAN /\ scopes \in BOOLEAN
  /\ manifested = (leaves = "all")
  /\ store = EmptyStore /\ receipt = 0 /\ archive = [copied |-> 0, listed |-> FALSE]
  /\ marker = 0 /\ unsynced = {} /\ parent = "down" /\ plan = 0 /\ cutCrashes = 0

-----------------------------------------------------------------------------
(* What the board files say of the task: the first claim holds, any other    *)
(* status is taken from whoever wrote it, and failures are counted.          *)
Claims(h) == {n \in DOMAIN h : h[n].status = "claimed"}

foldBoard(h) ==
  LET told == {n \in DOMAIN h :
                 h[n].status # "claimed" \/ \A m \in Claims(h) : n <= m}
  IN [attempts |-> Cardinality({n \in DOMAIN h : h[n].status = "blocked"}),
      status   |-> IF told = {} THEN "open"
                   ELSE h[CHOOSE n \in told : \A m \in told : m <= n].status]

(* Every complete line must be a record; a fragment at the end is classified *)
(* as torn and makes the history unsupported.                                *)
parseJsonl == ~torn

(* Two claimants contradict each other, and work without a claim shows that  *)
(* the history was compacted.                                                *)
validateLegacyConsistency(h) == \A m, n \in Claims(h) : h[m].role = h[n].role

CompactionLoss(h) ==
  \E n \in DOMAIN h : h[n].status \in {"needs-review", "done"}
                        /\ \A m \in Claims(h) : m > n

(* Every record becomes one event, in the order of its file. *)
buildEvents(h) == [n \in DOMAIN h |-> [type |-> "task.status_changed", role |-> h[n].role,
                                       status |-> h[n].status]]

allowedNext(s) ==
  CASE s = "open" -> {"claimed", "blocked"}
    [] s = "claimed" -> {"needs-review", "blocked"}
    [] s = "needs-review" -> {"done", "blocked"}
    [] s = "blocked" -> {"claimed"}
    [] OTHER -> {}

StatusAt(es, n) == IF n = 0 THEN "open" ELSE es[n].status

Claimant(es, n) == {es[m].role : m \in {m \in 1 .. n : es[m].status = "claimed"}}

(* The reducer takes the event on top of those before it. *)
TakesStatus(es, n) ==
  /\ es[n].status \in allowedNext(StatusAt(es, n - 1)) \cup {StatusAt(es, n - 1)}
  /\ es[n].status = "blocked" \/ Claimant(es, n - 1) \subseteq {es[n].role}

characterizeAppendability(h) ==
  /\ ~CompactionLoss(h)
  /\ LET es == buildEvents(h) IN \A n \in DOMAIN es : TakesStatus(es, n)

(* What the projection says of the task once the events it takes are in.    *)
Projected(h) ==
  LET es == buildEvents(h)
      taken == {n \in DOMAIN es : TakesStatus(es, n)}
  IN [attempts |-> Cardinality({n \in taken : es[n].status = "blocked"}),
      done     |-> \E n \in taken : es[n].status = "done"]

-----------------------------------------------------------------------------
Saved == /\ sources < MaxLegacyWrites /\ sources' = sources + 1

(* saveLoopState rewrites the legacy loop state unless a marker forbids it.  *)
saveLoopState == IF marker = 0 THEN Saved ELSE UNCHANGED sources

(* prepareRun: under the control lease and the run lease, a complete set of  *)
(* legacy files is adopted, an absent one created, a partial one refused.    *)
prepareRun ==
  /\ parent = "down"
  /\ \/ /\ marker = 0 /\ leaves = "none"
        /\ leaves' = "some" /\ parent' = "initBoard"
     \/ /\ marker # 0 \/ leaves = "all"
        /\ parent' = "prepared" /\ UNCHANGED leaves
  /\ UNCHANGED <<sources, history, torn, scopes, manifested, store, receipt,
                 archive, marker, unsynced, plan, cutCrashes>>

writeInitialState ==
  /\ parent = "initBoard"
  /\ leaves' = "all" /\ sources' = 1 /\ parent' = "prepared"
  /\ UNCHANGED <<history, torn, scopes, manifested, store, receipt, archive,
                 marker, unsynced, plan, cutCrashes>>

(* The start is refused when the run was bound to another goal or            *)
(* configuration; the refusal is saved as the state of the run.              *)
assertRunManifest ==
  /\ parent = "prepared"
  /\ \/ /\ parent' = "manifested" /\ manifested' = TRUE /\ UNCHANGED sources
     \/ /\ manifested /\ saveLoopState
        /\ parent' = "down" /\ UNCHANGED manifested
  /\ UNCHANGED <<leaves, history, torn, scopes, store, receipt, archive,
                 marker, unsynced, plan, cutCrashes>>

(* Scopes of an earlier incarnation are proven empty, or the run stops.      *)
reapAbandonedScopes ==
  /\ parent = "manifested"
  /\ \/ parent' = "proved" /\ scopes' = FALSE /\ UNCHANGED sources
     \/ /\ scopes /\ saveLoopState
        /\ parent' = "down" /\ UNCHANGED scopes
  /\ UNCHANGED <<leaves, history, torn, manifested, store, receipt, archive,
                 marker, unsynced, plan, cutCrashes>>

Refused == parent' = "down"

(* openEstablished: the marker's store, snapshot, cursor and archive are     *)
(* proved again before the board is bound to the store.                      *)
Established ==
  /\ store.holds = marker /\ store.snapshot /\ store.cursor
  /\ archive.listed /\ archive.copied = LegacyLeaves

(* A scope journal that is not empty is evidence of a live writer. *)
assertLegacyWritersStopped == ~scopes

cutoverControlAuthority ==
  /\ parent = "proved" /\ assertLegacyWritersStopped
  /\ \/ marker # 0 /\ Established /\ parent' = "bound"
     \/ marker = 0 /\ parent' = "opened"
  /\ UNCHANGED <<legacyVars, scopes, manifested, store, receipt, archive,
                 marker, unsynced, plan, cutCrashes>>

Appendable == /\ parseJsonl /\ validateLegacyConsistency(history)
              /\ characterizeAppendability(history)

planLegacyImport ==
  /\ parent = "opened"
  /\ \/ Appendable /\ plan' = sources /\ parent' = "planned"
     \/ ~Appendable /\ Refused /\ UNCHANGED plan
  /\ UNCHANGED <<legacyVars, scopes, manifested, store, receipt, archive,
                 marker, unsynced, cutCrashes>>

(* The files are read again by identity and digest before each use. *)
revalidateLegacySources == sources = plan

assertReceiptMatchesPlan == receipt = plan /\ store.holds = plan

(* executeLegacyImport: a receipt is proved and nothing is appended again;   *)
(* otherwise the events are appended once, their names being derived from    *)
(* the sources.                                                              *)
executeLegacyImport ==
  /\ parent = "planned"
  /\ \/ receipt # 0 /\ assertReceiptMatchesPlan /\ parent' = "imported" /\ UNCHANGED store
     \/ receipt = 0 /\ store.holds \in {0, plan} /\ parent' = "appended"
          /\ store' = [store EXCEPT !.holds = plan]
     \/ /\ IF receipt # 0 THEN ~assertReceiptMatchesPlan ELSE store.holds \notin {0, plan}
        /\ Refused /\ UNCHANGED store
  /\ UNCHANGED <<legacyVars, scopes, manifested, receipt, archive, marker,
                 unsynced, plan, cutCrashes>>

durableWritePrivate ==
  /\ parent = "appended" /\ revalidateLegacySources
  /\ receipt' = plan /\ unsynced' = unsynced \cup {"receipt"} /\ parent' = "sync receipt"
  /\ UNCHANGED <<legacyVars, scopes, manifested, store, archive, marker, plan,
                 cutCrashes>>

(* The sync that follows a rename, before anything else is done.             *)
(* Variant: the next step does not wait for it.                              *)
syncDirectory_Later(file) == UNCHANGED unsynced

syncDirectory(file) == unsynced' = unsynced \ {file}

receiptWritten ==
  /\ parent = "sync receipt" /\ syncDirectory("receipt") /\ parent' = "imported"
  /\ UNCHANGED <<legacyVars, scopes, manifested, store, receipt, archive,
                 marker, plan, cutCrashes>>

(* The store is reopened and the import repeated: only its receipt may be    *)
(* found.                                                                    *)
reopenAndVerify ==
  /\ parent = "imported" /\ revalidateLegacySources /\ assertReceiptMatchesPlan
  /\ parent' = "archiving"
  /\ UNCHANGED <<legacyVars, scopes, manifested, store, receipt, archive,
                 marker, unsynced, plan, cutCrashes>>

(* A file already in the archive is proved, the next one copied and synced.  *)
copyArchiveLeaf ==
  /\ \/ /\ parent = "archiving" /\ archive.copied < LegacyLeaves
        /\ revalidateLegacySources
        /\ archive' = [archive EXCEPT !.copied = @ + 1]
        /\ unsynced' = unsynced \cup {"leaf"} /\ parent' = "sync leaf"
     \/ /\ parent = "sync leaf" /\ syncDirectory("leaf")
        /\ parent' = "archiving" /\ UNCHANGED archive
  /\ UNCHANGED <<legacyVars, scopes, manifested, store, receipt, marker, plan,
                 cutCrashes>>

createAndVerifyArchive ==
  /\ \/ /\ parent = "archiving" /\ archive.copied = LegacyLeaves /\ ~archive.listed
        /\ archive' = [archive EXCEPT !.listed = TRUE]
        /\ unsynced' = unsynced \cup {"manifest"} /\ parent' = "sync manifest"
     \/ /\ parent = "archiving" /\ archive.copied = LegacyLeaves /\ archive.listed
        /\ parent' = "archived" /\ UNCHANGED <<archive, unsynced>>
     \/ /\ parent = "sync manifest" /\ syncDirectory("manifest")
        /\ parent' = "archived" /\ UNCHANGED archive
  /\ UNCHANGED <<legacyVars, scopes, manifested, store, receipt, marker, plan,
                 cutCrashes>>

(* The cursor is placed once, and must then cover exactly the imported head. *)
finalizeStoreMetadata ==
  /\ parent = "archived" /\ ~store.work
  /\ store' = [store EXCEPT !.cursor = TRUE, !.snapshot = TRUE]
  /\ parent' = "finalized"
  /\ UNCHANGED <<legacyVars, scopes, manifested, receipt, archive, marker,
                 unsynced, plan, cutCrashes>>

writeCanonicalPrivate ==
  /\ parent = "finalized"
  /\ marker' = plan /\ unsynced' = unsynced \cup {"marker"} /\ parent' = "sync marker"
  /\ UNCHANGED <<legacyVars, scopes, manifested, store, receipt, archive, plan,
                 cutCrashes>>

bindCanonicalBoardAuthority ==
  /\ parent = "sync marker" /\ syncDirectory("marker") /\ parent' = "bound"
  /\ UNCHANGED <<legacyVars, scopes, manifested, store, receipt, archive,
                 marker, plan, cutCrashes>>

(* The bound board writes to the store, and scopes are launched.             *)
canonicalWork ==
  /\ parent = "bound" /\ ~store.work
  /\ store' = [store EXCEPT !.work = TRUE] /\ scopes' \in BOOLEAN
  /\ UNCHANGED <<legacyVars, manifested, receipt, archive, marker, unsynced,
                 parent, plan, cutCrashes>>

(* Power fails: any rename that was not synced may be undone.                *)
CutoverCrash ==
  /\ parent # "down" /\ cutCrashes < MaxCutoverCrashes
  /\ cutCrashes' = cutCrashes + 1 /\ parent' = "down" /\ plan' = 0 /\ unsynced' = {}
  /\ \E lost \in SUBSET unsynced :
       /\ receipt' = IF "receipt" \in lost THEN 0 ELSE receipt
       /\ marker' = IF "marker" \in lost THEN 0 ELSE marker
       /\ archive' = [copied |-> archive.copied - (IF "leaf" \in lost THEN 1 ELSE 0),
                      listed |-> archive.listed /\ "manifest" \notin lost]
  /\ UNCHANGED <<legacyVars, scopes, manifested, store>>

(* disposePreparedRun: the store is closed before the leases are released.   *)
disposePreparedRun ==
  /\ parent = "bound" /\ parent' = "down" /\ plan' = 0
  /\ UNCHANGED <<legacyVars, scopes, manifested, store, receipt, archive,
                 marker, unsynced, cutCrashes>>

CutoverNext ==
  \/ prepareRun \/ writeInitialState \/ assertRunManifest \/ reapAbandonedScopes
  \/ cutoverControlAuthority \/ planLegacyImport \/ executeLegacyImport
  \/ durableWritePrivate \/ receiptWritten \/ reopenAndVerify \/ copyArchiveLeaf
  \/ createAndVerifyArchive \/ finalizeStoreMetadata \/ writeCanonicalPrivate
  \/ bindCanonicalBoardAuthority \/ canonicalWork \/ CutoverCrash \/ disposePreparedRun

CutoverSpec == CutoverInit /\ [][CutoverNext]_cutoverVars

-----------------------------------------------------------------------------
(* The marker is the proof it claims to be: wherever a crash fell, the store *)
(* it names holds the import of the very files that were archived, complete  *)
(* and with its receipt, the board means the same in it, and once the store  *)
(* was worked on the marker is there (cutoverControlAuthority).              *)
MarkerIsProof ==
  /\ marker # 0 =>
       /\ store.holds = marker /\ store.cursor /\ store.snapshot
       /\ receipt = marker /\ sources = marker
       /\ archive = [copied |-> LegacyLeaves, listed |-> TRUE]
       /\ Projected(history) = [attempts |-> foldBoard(history).attempts,
                                done |-> foldBoard(history).status = "done"]
  /\ store.work => marker # 0

(* "A failed pre-marker import may already have a committed receipt. Never   *)
(* mutate its legacy source": as long as an import waits for its marker, the *)
(* files it was made from are unchanged and a retry can finish it            *)
(* (runAutonomyLoop).                                                        *)
RetryStaysPossible == store.holds # 0 /\ marker = 0 => sources = store.holds
=============================================================================
