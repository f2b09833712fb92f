-------------------------- MODULE LedgerOpenProofs --------------------------
(***************************************************************************)
(* Theorems about establishing a ledger generation and migrating a legacy  *)
(* journal, for any number of runs, operators and crashes.                 *)
(***************************************************************************)
EXTENDS LedgerOpen, TLAPS

-----------------------------------------------------------------------------
(* The inductive invariant.                                                *)

Mays == [leaf     : SUBSET {None, "v1", "new"},
         archive  : SUBSET BOOLEAN,
         key      : SUBSET (Procs \cup {None}),
         manifest : SUBSET (Procs \cup {None}),
         intent   : SUBSET BOOLEAN,
         receipt  : SUBSET BOOLEAN,
         debris   : SUBSET (SUBSET Artifacts)]

\* Every entry of the directory may be kept as it is.
CurrentMayStay ==
  /\ dir.cur.leaf \in dir.may.leaf /\ dir.cur.archive \in dir.may.archive
  /\ dir.cur.key \in dir.may.key /\ dir.cur.manifest \in dir.may.manifest
  /\ dir.cur.intent \in dir.may.intent /\ dir.cur.receipt \in dir.may.receipt
  /\ dir.cur.debris \in dir.may.debris

DirTyped == dir \in [cur : Dirs, may : Mays] /\ CurrentMayStay

ProcsTyped ==
  /\ recs \subseteq {"carry", "call"} /\ legacy \in BOOLEAN
  /\ pc \in [Procs -> PCs]
  /\ gen \in [Procs -> Procs \cup {None}] /\ key \in [Procs -> Procs \cup {None}]
  /\ mlock \in Migrators \cup {None}
  /\ \A p \in Migrators : mlock = p <=> pc[p] \notin {"start", "done"}
  /\ archiving \in [Migrators -> BOOLEAN] /\ crashes \in 0..MaxCrashes

Roles ==
  /\ \A p \in Openers : pc[p] \in {"start", "open"} \cup OpenSteps
  /\ \A p \in Migrators : pc[p] # "open"

Typed == DirTyped /\ ProcsTyped /\ Roles

\* No power loss takes the leaf or the key away any more.
Sealed == dir.may.leaf = {"new"} /\ dir.may.key = {dir.cur.key} /\ dir.cur.key # None

\* A manifest is published only over a leaf and a key that are durable.
Sealing ==
  /\ \A m \in dir.may.manifest : m # None => Sealed
  /\ \A p \in Procs : pc[p] \in {"publish", "publishTidy"} => Sealed
  /\ \A p \in Procs : pc[p] = "leafSync" => dir.cur.leaf = "new"
  /\ \A p \in Procs : pc[p] = "keyTidy" => dir.cur.key # None
  /\ \A p \in Procs : pc[p] \in {"leaf", "leafSync", "publish", "publishTidy"}
                        => dir.cur.key # None /\ key[p] = dir.cur.key

Holders == {"open", "carry", "receipt", "receiptTidy", "done"}

\* Whoever holds a generation holds the one the directory names.
Publishing ==
  /\ \A p \in Procs : pc[p] = "publishTidy" =>
       /\ dir.cur.manifest # None /\ gen[p] \in {p, None}
       /\ gen[p] = p => dir.cur.manifest = p
  /\ \A p \in Procs : pc[p] \in Holders =>
       /\ dir.cur.manifest # None
       /\ gen[p] = dir.cur.manifest /\ key[p] = dir.cur.key

\* No power loss takes the archive or the intent away; or may leave a receipt.
ArchiveSure == FALSE \notin dir.may.archive
IntentSure == FALSE \notin dir.may.intent
ReceiptPossible == TRUE \in dir.may.receipt

\* The leaf of a legacy board is unlinked only when its archive is durable.
Archiving ==
  /\ legacy => dir.may.leaf = {"v1"} \/ ArchiveSure
  /\ \A p \in Procs : pc[p] = "unlink" => ArchiveSure

\* A receipt is published only over a carried balance.
Carrying ==
  /\ ReceiptPossible => "carry" \in recs
  /\ \A p \in Procs : pc[p] \in {"receipt", "receiptTidy"} => "carry" \in recs

IInv == Typed /\ Sealing /\ Publishing /\ Archiving /\ Carrying

\* Where an intent may be missing the legacy leaf is still in its place, and
\* a run that is opening the ledger then will be refused it.
Holding ==
  legacy =>
    /\ recs \in {{}, {"carry"}}
    /\ ~IntentSure => dir.may.leaf = {"v1"}
    /\ \A p \in Migrators : pc[p] \in {"intentTidy", "archive"} => dir.cur.intent
    /\ \A p \in Migrators : pc[p] = "unlink" => IntentSure
    /\ "carry" \notin recs => \A p \in Openers : pc[p] # "start" =>
         /\ pc[p] \in {"manifest", "key", "keyLink", "keyTidy", "leaf"}
         /\ dir.cur.leaf = "v1" /\ ~dir.cur.intent

-----------------------------------------------------------------------------
(* What the operations on the directory do to it, entry by entry.          *)

\* A directory a power loss may leave takes each entry from what may be left of it.
LEMMA OutcomesShape ==
  ASSUME DirTyped, NEW d
  PROVE  d \in Possible <=>
           /\ d \in Dirs
           /\ d.leaf \in dir.may.leaf
           /\ d.archive \in dir.may.archive
           /\ d.key \in dir.may.key
           /\ d.manifest \in dir.may.manifest
           /\ d.intent \in dir.may.intent
           /\ d.receipt \in dir.may.receipt
           /\ d.debris \in dir.may.debris
  BY DEF DirTyped, Possible, Outcomes, Dirs, Mays

\* An operation that no fsyncDir has settled: each entry may be what it was or what it is.
LEMMA DirtyShape ==
  ASSUME DirTyped, NEW d \in Dirs, Dirty(d)
  PROVE  /\ DirTyped' /\ dir'.cur = d
         /\ dir'.may.leaf = dir.may.leaf \cup {d.leaf}
         /\ dir'.may.archive = dir.may.archive \cup {d.archive}
         /\ dir'.may.key = dir.may.key \cup {d.key}
         /\ dir'.may.manifest = dir.may.manifest \cup {d.manifest}
         /\ dir'.may.intent = dir.may.intent \cup {d.intent}
         /\ dir'.may.receipt = dir.may.receipt \cup {d.receipt}
         /\ dir'.may.debris = dir.may.debris \cup {d.debris}
<1>1. /\ dir' = [cur |-> d, may |-> Pending(dir.may, d)]
      /\ dir.may \in Mays
  BY DEF Dirty, DirTyped
<1>2. Pending(dir.may, d) \in Mays
  BY <1>1 DEF Pending, Mays, Dirs
<1> QED
  BY <1>1, <1>2 DEF Pending, DirTyped, CurrentMayStay

\* An operation with its fsyncDir: each entry is what it is.
LEMMA DurableShape ==
  ASSUME DirTyped, NEW d \in Dirs, Durable(d)
  PROVE  /\ DirTyped' /\ dir'.cur = d
         /\ dir'.may.leaf = {d.leaf}
         /\ dir'.may.archive = {d.archive}
         /\ dir'.may.key = {d.key}
         /\ dir'.may.manifest = {d.manifest}
         /\ dir'.may.intent = {d.intent}
         /\ dir'.may.receipt = {d.receipt}
         /\ dir'.may.debris = {d.debris}
<1>1. dir' = [cur |-> d, may |-> Settled(d)]
  BY DEF Durable
<1>2. Settled(d) \in Mays
  BY DEF Settled, Mays, Dirs
<1> QED
  BY <1>1, <1>2 DEF Settled, DirTyped, CurrentMayStay

\* Tidying removes second names and nothing else.
LEMMA SweptShape ==
  ASSUME DirTyped, NEW names
  PROVE  /\ Swept(names) \in Dirs /\ Tidied(names) \in Dirs
         /\ Swept(names).leaf = dir.cur.leaf
         /\ Swept(names).archive = dir.cur.archive
         /\ Swept(names).key = dir.cur.key
         /\ Swept(names).manifest = dir.cur.manifest
         /\ Swept(names).intent = dir.cur.intent
         /\ Swept(names).receipt = dir.cur.receipt
         /\ Tidied(names).leaf = dir.cur.leaf
         /\ Tidied(names).archive = dir.cur.archive
         /\ Tidied(names).key = dir.cur.key
         /\ Tidied(names).manifest = dir.cur.manifest
         /\ Tidied(names).intent = dir.cur.intent
         /\ Tidied(names).receipt = dir.cur.receipt
  BY DEF DirTyped, Swept, Tidied, Dirs

\* What changing the leaf's entry changes.
LEMMA LeafShape ==
  ASSUME DirTyped, NEW l \in {None, "v1", "new"}, NEW d, d = [dir.cur EXCEPT !.leaf = l]
  PROVE  /\ d \in Dirs /\ d.leaf = l
         /\ d.archive = dir.cur.archive
         /\ d.key = dir.cur.key
         /\ d.manifest = dir.cur.manifest
         /\ d.intent = dir.cur.intent
         /\ d.receipt = dir.cur.receipt
         /\ d.debris = dir.cur.debris
  BY DEF DirTyped, Dirs

\* What linking the archive changes.
LEMMA ArchiveShape ==
  ASSUME DirTyped, NEW d, d = [dir.cur EXCEPT !.archive = TRUE]
  PROVE  /\ d \in Dirs /\ d.archive = TRUE
         /\ d.leaf = dir.cur.leaf
         /\ d.key = dir.cur.key
         /\ d.manifest = dir.cur.manifest
         /\ d.intent = dir.cur.intent
         /\ d.receipt = dir.cur.receipt
         /\ d.debris = dir.cur.debris
  BY DEF DirTyped, Dirs

\* What publishing the intent changes.
LEMMA IntentShape ==
  ASSUME DirTyped, NEW p \in Procs, NEW d,
         d = [dir.cur EXCEPT !.intent = TRUE, !.debris = @ \cup {"intent"}]
  PROVE  /\ d \in Dirs /\ d.intent = TRUE
         /\ d.leaf = dir.cur.leaf
         /\ d.archive = dir.cur.archive
         /\ d.key = dir.cur.key
         /\ d.manifest = dir.cur.manifest
         /\ d.receipt = dir.cur.receipt
<1> DEFINE e == [dir.cur EXCEPT !.intent = TRUE]
<1>1. /\ e \in Dirs /\ e.intent = TRUE
         /\ e.leaf = dir.cur.leaf
         /\ e.archive = dir.cur.archive
         /\ e.key = dir.cur.key
         /\ e.manifest = dir.cur.manifest
         /\ e.receipt = dir.cur.receipt
         /\ e.debris = dir.cur.debris
  BY DEF DirTyped, Dirs
<1>2. d = [e EXCEPT !.debris = @ \cup {"intent"}]
  OBVIOUS
<1> HIDE DEF e
<1> QED
  BY <1>1, <1>2 DEF Dirs, Artifacts

\* What publishing the receipt changes.
LEMMA ReceiptShape ==
  ASSUME DirTyped, NEW p \in Procs, NEW d,
         d = [dir.cur EXCEPT !.receipt = TRUE, !.debris = @ \cup {"receipt"}]
  PROVE  /\ d \in Dirs /\ d.receipt = TRUE
         /\ d.leaf = dir.cur.leaf
         /\ d.archive = dir.cur.archive
         /\ d.key = dir.cur.key
         /\ d.manifest = dir.cur.manifest
         /\ d.intent = dir.cur.intent
<1> DEFINE e == [dir.cur EXCEPT !.receipt = TRUE]
<1>1. /\ e \in Dirs /\ e.receipt = TRUE
         /\ e.leaf = dir.cur.leaf
         /\ e.archive = dir.cur.archive
         /\ e.key = dir.cur.key
         /\ e.manifest = dir.cur.manifest
         /\ e.intent = dir.cur.intent
         /\ e.debris = dir.cur.debris
  BY DEF DirTyped, Dirs
<1>2. d = [e EXCEPT !.debris = @ \cup {"receipt"}]
  OBVIOUS
<1> HIDE DEF e
<1> QED
  BY <1>1, <1>2 DEF Dirs, Artifacts

-----------------------------------------------------------------------------
(* What a step of one process does to each entry.                          *)

Step(p) == OpenStep(p) \/ MigrateStep(p) \/ ReserveCall(p) \/ ProcessCrash(p)

\* The step may leave an entry unsettled, and puts nothing but what is there now
\* beside what might have been there before.
MayGrow ==
  /\ dir'.may.leaf \subseteq dir.may.leaf \cup {dir'.cur.leaf}
  /\ dir'.may.archive \subseteq dir.may.archive \cup {dir'.cur.archive}
  /\ dir'.may.key \subseteq dir.may.key \cup {dir'.cur.key}
  /\ dir'.may.manifest \subseteq dir.may.manifest \cup {dir'.cur.manifest}
  /\ dir'.may.intent \subseteq dir.may.intent \cup {dir'.cur.intent}
  /\ dir'.may.receipt \subseteq dir.may.receipt \cup {dir'.cur.receipt}

MayIsCurrent ==
  /\ dir.may.leaf = {dir.cur.leaf}
  /\ dir.may.archive = {dir.cur.archive}
  /\ dir.may.key = {dir.cur.key}
  /\ dir.may.manifest = {dir.cur.manifest}
  /\ dir.may.intent = {dir.cur.intent}
  /\ dir.may.receipt = {dir.cur.receipt}

Moves(p) ==
  /\ DirTyped' /\ MayGrow
  /\ \/ dir'.cur.leaf = dir.cur.leaf
     \/ pc[p] = "leaf" /\ dir.cur.leaf # "v1" /\ recs = {} /\ dir'.cur.leaf = "new"
     \/ pc[p] = "unlink" /\ dir.cur.leaf = "v1" /\ dir'.cur.leaf = None
  /\ pc'[p] = "keyTidy" => dir'.cur.key # None
  /\ pc'[p] = "publishTidy" => dir'.cur.manifest # None
  /\ pc'[p] = "leafSync" => dir'.cur.leaf = "new"
  /\ dir'.cur.archive = dir.cur.archive \/ dir'.cur.archive = TRUE
  /\ dir'.cur.key = dir.cur.key \/ (pc[p] = "keyLink" /\ dir.cur.key = None /\ dir'.cur.key = p)
  /\ \/ dir'.cur.manifest = dir.cur.manifest
     \/ pc[p] = "publish" /\ dir.cur.manifest = None /\ dir'.cur.manifest = p
  /\ dir'.cur.intent = dir.cur.intent \/ (pc[p] = "intent" /\ dir'.cur.intent = TRUE /\ PublishIntent(p))
  /\ dir'.cur.receipt = dir.cur.receipt \/ (pc[p] = "receipt" /\ dir'.cur.receipt = TRUE /\ PublishReceipt(p))
  /\ \A q \in Procs : q # p => pc'[q] = pc[q] /\ gen'[q] = gen[q] /\ key'[q] = key[q]

\* Every step of a process moves the entries as Moves says.
LEMMA StepMoves ==
  ASSUME Typed, NEW p \in Procs, Step(p)
  PROVE  Moves(p)
<1> USE DEF Typed, ProcsTyped
<1>0. /\ \A q \in Procs : q # p => pc'[q] = pc[q] /\ gen'[q] = gen[q] /\ key'[q] = key[q]
  <2>1. CASE CheckPending(p)
    BY <2>1 DEF CheckPending, Goto, Opened, Throw, Forget
  <2>2. CASE ReadManifest(p)
    BY <2>2 DEF ReadManifest, Goto, Opened, Throw, Forget
  <2>3. CASE ReadKey(p)
    BY <2>3 DEF ReadKey, Goto, Opened, Throw, Forget
  <2>4. CASE KeyLink(p)
    BY <2>4 DEF KeyLink, Goto, Opened, Throw, Forget
  <2>5. CASE KeyTidy(p)
    BY <2>5 DEF KeyTidy, Goto, Opened, Throw, Forget
  <2>6. CASE CreateLeaf(p)
    BY <2>6 DEF CreateLeaf, Goto, Opened, Throw, Forget
  <2>7. CASE SyncLeaf(p)
    BY <2>7 DEF SyncLeaf, Goto, Opened, Throw, Forget
  <2>8. CASE PublishManifest(p)
    BY <2>8 DEF PublishManifest, Goto, Opened, Throw, Forget
  <2>9. CASE TidyManifest(p)
    BY <2>9 DEF TidyManifest, Goto, Opened, Throw, Forget
  <2>10. CASE BeginMigration(p)
    BY <2>10 DEF BeginMigration, Goto, Opened, Throw, Forget
  <2>11. CASE PublishIntent(p)
    BY <2>11 DEF PublishIntent, Goto, Opened, Throw, Forget
  <2>12. CASE TidyIntent(p)
    BY <2>12 DEF TidyIntent, Goto, Opened, Throw, Forget
  <2>13. CASE Archive(p)
    BY <2>13 DEF Archive, Goto, Opened, Throw, Forget
  <2>14. CASE UnlinkLeaf(p)
    BY <2>14 DEF UnlinkLeaf, Goto, Opened, Throw, Forget
  <2>15. CASE SyncUnlink(p)
    BY <2>15 DEF SyncUnlink, Goto, Opened, Throw, Forget
  <2>16. CASE ProveArchive(p)
    BY <2>16 DEF ProveArchive, Goto, Opened, Throw, Forget
  <2>17. CASE Carry(p)
    BY <2>17 DEF Carry, Goto, Opened, Throw, Forget
  <2>18. CASE PublishReceipt(p)
    BY <2>18 DEF PublishReceipt, Goto, Opened, Throw, Forget
  <2>19. CASE TidyReceipt(p)
    BY <2>19 DEF TidyReceipt, Goto, Opened, Throw, Forget
  <2>20. CASE ReserveCall(p)
    BY <2>20 DEF ReserveCall, Goto, Opened, Throw, Forget
  <2>21. CASE ProcessCrash(p)
    BY <2>21 DEF ProcessCrash, Goto, Opened, Throw, Forget
  <2> QED
    BY <2>1, <2>2, <2>3, <2>4, <2>5, <2>6, <2>7, <2>8, <2>9, <2>10, <2>11, <2>12, <2>13,
       <2>14, <2>15, <2>16, <2>17, <2>18, <2>19, <2>20, <2>21
       DEF Step, OpenStep, MigrateStep
<1>00. ASSUME UNCHANGED dir
       PROVE  DirTyped' /\ MayGrow
  BY <1>00 DEF MayGrow, DirTyped, CurrentMayStay
<1>01. dir.cur \in Dirs
  BY DEF DirTyped
<1>1. CASE CheckPending(p)
  BY <1>0, <1>00, <1>01, <1>1, SweptShape, DirtyShape, DurableShape
     DEF CheckPending, Goto, Opened, Throw, ReadPublished, Moves, MayGrow
<1>2. CASE ReadManifest(p)
  BY <1>0, <1>00, <1>01, <1>2, SweptShape, DirtyShape, DurableShape
     DEF ReadManifest, Goto, Opened, Throw, ReadPublished, Moves, MayGrow
<1>3. CASE ReadKey(p)
  BY <1>0, <1>00, <1>01, <1>3, SweptShape, DirtyShape, DurableShape
     DEF ReadKey, Goto, Opened, Throw, ReadPublished, Moves, MayGrow
<1>4. CASE KeyLink(p)
  <2>1. PICK d : d = [dir.cur EXCEPT !.key = p, !.debris = @ \cup {"key"}]
    OBVIOUS
  <2>2. /\ d \in Dirs /\ d.key = p
        /\ d.leaf = dir.cur.leaf
        /\ d.archive = dir.cur.archive
        /\ d.manifest = dir.cur.manifest
        /\ d.intent = dir.cur.intent
        /\ d.receipt = dir.cur.receipt
    <3>1. PICK e : e = [dir.cur EXCEPT !.key = p]
      OBVIOUS
    <3>2. /\ e \in Dirs /\ e.key = p
          /\ e.leaf = dir.cur.leaf
          /\ e.archive = dir.cur.archive
          /\ e.manifest = dir.cur.manifest
          /\ e.intent = dir.cur.intent
          /\ e.receipt = dir.cur.receipt
          /\ e.debris = dir.cur.debris
      BY <1>01, <3>1 DEF Dirs
    <3>3. d = [e EXCEPT !.debris = @ \cup {"key"}]
      BY <2>1, <3>1
    <3> QED
      BY <3>2, <3>3 DEF Dirs, Artifacts
  <2>3. \/ dir.cur.key = None /\ Dirty(d)
        \/ dir.cur.key # None /\ UNCHANGED dir
    BY <1>4, <2>1 DEF KeyLink
  <2>4. DirTyped' /\ MayGrow
    BY <1>00, <2>2, <2>3, DirtyShape, DurableShape DEF MayGrow
  <2>5. p # None
    BY ProcsAssumption DEF Procs
  <2>6. pc[p] = "keyLink" /\ pc'[p] = "keyTidy" /\ recs' = recs
    BY <1>4 DEF KeyLink, Goto
  <2> QED
    BY <1>0, <1>01, <1>4, <2>2, <2>3, <2>4, <2>5, <2>6, DirtyShape, DurableShape DEF Moves
<1>5. CASE KeyTidy(p)
  BY <1>0, <1>00, <1>01, <1>5, SweptShape, DirtyShape, DurableShape
     DEF KeyTidy, Goto, Opened, Throw, ReadPublished, Moves, MayGrow
<1>6. CASE CreateLeaf(p)
  BY <1>0, <1>00, <1>01, <1>6, LeafShape, DirtyShape, DurableShape
     DEF CreateLeaf, Goto, Opened, Throw, ReadPublished, Moves, MayGrow
<1>7. CASE SyncLeaf(p)
  BY <1>0, <1>00, <1>01, <1>7, DirtyShape, DurableShape
     DEF SyncLeaf, Goto, Throw, Moves, MayGrow
<1>8. CASE PublishManifest(p)
  <2>1. PICK d : d = [dir.cur EXCEPT !.manifest = p, !.debris = @ \cup {"manifest"}]
    OBVIOUS
  <2>2. /\ d \in Dirs /\ d.manifest = p
        /\ d.leaf = dir.cur.leaf
        /\ d.archive = dir.cur.archive
        /\ d.key = dir.cur.key
        /\ d.intent = dir.cur.intent
        /\ d.receipt = dir.cur.receipt
    <3>1. PICK e : e = [dir.cur EXCEPT !.manifest = p]
      OBVIOUS
    <3>2. /\ e \in Dirs /\ e.manifest = p
          /\ e.leaf = dir.cur.leaf
          /\ e.archive = dir.cur.archive
          /\ e.key = dir.cur.key
          /\ e.intent = dir.cur.intent
          /\ e.receipt = dir.cur.receipt
          /\ e.debris = dir.cur.debris
      BY <1>01, <3>1 DEF Dirs
    <3>3. d = [e EXCEPT !.debris = @ \cup {"manifest"}]
      BY <2>1, <3>1
    <3> QED
      BY <3>2, <3>3 DEF Dirs, Artifacts
  <2>3. \/ dir.cur.manifest = None /\ Dirty(d)
        \/ dir.cur.manifest # None /\ UNCHANGED dir
    BY <1>8, <2>1 DEF PublishManifest
  <2>4. DirTyped' /\ MayGrow
    BY <1>00, <2>2, <2>3, DirtyShape, DurableShape DEF MayGrow
  <2>5. p # None
    BY ProcsAssumption DEF Procs
  <2>6. pc[p] = "publish" /\ pc'[p] = "publishTidy" /\ recs' = recs
    BY <1>8 DEF PublishManifest, Goto
  <2> QED
    BY <1>0, <1>01, <1>8, <2>2, <2>3, <2>4, <2>5, <2>6, DirtyShape, DurableShape DEF Moves
<1>9. CASE TidyManifest(p)
  BY <1>0, <1>00, <1>01, <1>9, SweptShape, DirtyShape, DurableShape
     DEF TidyManifest, Goto, Opened, Throw, ReadPublished, Moves, MayGrow
<1>10. CASE BeginMigration(p)
  BY <1>0, <1>00, <1>01, <1>10, SweptShape, DirtyShape, DurableShape
     DEF BeginMigration, Goto, Opened, Throw, ReadPublished, Moves, MayGrow
<1>11. CASE PublishIntent(p)
  <2>1. PICK d : d = [dir.cur EXCEPT !.intent = TRUE, !.debris = @ \cup {"intent"}]
    OBVIOUS
  <2>2. /\ d \in Dirs /\ d.intent = TRUE
        /\ d.leaf = dir.cur.leaf
        /\ d.archive = dir.cur.archive
        /\ d.key = dir.cur.key
        /\ d.manifest = dir.cur.manifest
        /\ d.receipt = dir.cur.receipt
    BY <2>1, IntentShape
  <2>3. Dirty(d)
    BY <1>11, <2>1 DEF PublishIntent
  <2>4. DirTyped' /\ MayGrow
    BY <1>00, <2>2, <2>3, DirtyShape, DurableShape DEF MayGrow
  <2>5. p # None
    BY ProcsAssumption DEF Procs
  <2>6. pc[p] = "intent" /\ pc'[p] = "intentTidy" /\ recs' = recs
    BY <1>11 DEF PublishIntent, Goto
  <2> QED
    BY <1>0, <1>01, <1>11, <2>2, <2>3, <2>4, <2>5, <2>6, DirtyShape, DurableShape DEF Moves
<1>12. CASE TidyIntent(p)
  BY <1>0, <1>00, <1>01, <1>12, SweptShape, DirtyShape, DurableShape
     DEF TidyIntent, Goto, Opened, Throw, ReadPublished, Moves, MayGrow
<1>13. CASE Archive(p)
  <2>1. PICK d : d = [dir.cur EXCEPT !.archive = TRUE]
    OBVIOUS
  <2>2. /\ d \in Dirs /\ d.archive = TRUE
        /\ d.leaf = dir.cur.leaf
        /\ d.key = dir.cur.key
        /\ d.manifest = dir.cur.manifest
        /\ d.intent = dir.cur.intent
        /\ d.receipt = dir.cur.receipt
    BY <2>1, ArchiveShape
  <2>3. Durable(d)
    BY <1>13, <2>1 DEF Archive
  <2>4. DirTyped' /\ MayGrow
    BY <1>00, <2>2, <2>3, DirtyShape, DurableShape DEF MayGrow
  <2>5. p # None
    BY ProcsAssumption DEF Procs
  <2>6. pc[p] = "archive" /\ pc'[p] = "unlink" /\ recs' = recs
    BY <1>13 DEF Archive, Goto
  <2> QED
    BY <1>0, <1>01, <1>13, <2>2, <2>3, <2>4, <2>5, <2>6, DirtyShape, DurableShape DEF Moves
<1>14. CASE UnlinkLeaf(p)
  BY <1>0, <1>00, <1>01, <1>14, LeafShape, DirtyShape, DurableShape
     DEF UnlinkLeaf, Goto, Opened, Throw, ReadPublished, Moves, MayGrow
<1>15. CASE SyncUnlink(p)
  BY <1>0, <1>00, <1>01, <1>15, DirtyShape, DurableShape
     DEF SyncUnlink, Goto, Throw, Moves, MayGrow
<1>16. CASE ProveArchive(p)
  BY <1>0, <1>00, <1>16 DEF ProveArchive, Forget, Goto, Moves
<1>17. CASE Carry(p)
  BY <1>0, <1>00, <1>01, <1>17, DirtyShape, DurableShape DEF Carry, Goto, Throw, Moves, MayGrow
<1>18. CASE PublishReceipt(p)
  <2>1. PICK d : d = [dir.cur EXCEPT !.receipt = TRUE, !.debris = @ \cup {"receipt"}]
    OBVIOUS
  <2>2. /\ d \in Dirs /\ d.receipt = TRUE
        /\ d.leaf = dir.cur.leaf
        /\ d.archive = dir.cur.archive
        /\ d.key = dir.cur.key
        /\ d.manifest = dir.cur.manifest
        /\ d.intent = dir.cur.intent
    BY <2>1, ReceiptShape
  <2>3. Dirty(d)
    BY <1>18, <2>1 DEF PublishReceipt
  <2>4. DirTyped' /\ MayGrow
    BY <1>00, <2>2, <2>3, DirtyShape, DurableShape DEF MayGrow
  <2>5. p # None
    BY ProcsAssumption DEF Procs
  <2>6. pc[p] = "receipt" /\ pc'[p] = "receiptTidy" /\ recs' = recs
    BY <1>18 DEF PublishReceipt, Goto
  <2> QED
    BY <1>0, <1>01, <1>18, <2>2, <2>3, <2>4, <2>5, <2>6, DirtyShape, DurableShape DEF Moves
<1>19. CASE TidyReceipt(p)
  BY <1>0, <1>00, <1>01, <1>19, SweptShape, DirtyShape, DurableShape
     DEF TidyReceipt, Goto, Opened, Throw, ReadPublished, Moves, MayGrow
<1>20. CASE ReserveCall(p)
  BY <1>0, <1>00, <1>01, <1>20, DirtyShape, DurableShape
     DEF ReserveCall, Goto, Throw, Moves, MayGrow
<1>21. CASE ProcessCrash(p)
  BY <1>0, <1>00, <1>21 DEF ProcessCrash, Forget, Goto, Moves
<1> QED
  BY <1>1, <1>2, <1>3, <1>4, <1>5, <1>6, <1>7, <1>8, <1>9, <1>10, <1>11, <1>12, <1>13,
     <1>14, <1>15, <1>16, <1>17, <1>18, <1>19, <1>20, <1>21
     DEF Step, OpenStep, MigrateStep

-----------------------------------------------------------------------------
(* The steps of a process keep each part of the invariant.                 *)

\* Every step of a process keeps the types, the roles and the migration lock.
LEMMA StepKeepsTypes ==
  ASSUME Typed, NEW p \in Procs, Step(p)
  PROVE  Typed'
<1>0. /\ DirTyped'
      /\ dir.cur.key \in Procs \cup {None} /\ dir.cur.manifest \in Procs \cup {None}
      /\ dir'.cur.key \in Procs \cup {None} /\ dir'.cur.manifest \in Procs \cup {None}
  BY StepMoves DEF Moves, Typed, DirTyped, Dirs
<1> USE DEF Typed
<1>1. CASE CheckPending(p)
  BY <1>1, <1>0, ProcsAssumption, OpenBounds
     DEF CheckPending, Goto, Opened, Throw, Forget, ProcsTyped, Roles, PCs, OpenSteps,
         Procs
<1>2. CASE ReadManifest(p)
  BY <1>2, <1>0, ProcsAssumption, OpenBounds
     DEF ReadManifest, Goto, Opened, Throw, Forget, ProcsTyped, Roles, PCs, OpenSteps,
         Procs
<1>3. CASE ReadKey(p)
  BY <1>3, <1>0, ProcsAssumption, OpenBounds
     DEF ReadKey, Goto, Opened, Throw, Forget, ProcsTyped, Roles, PCs, OpenSteps, Procs
<1>4. CASE KeyLink(p)
  BY <1>4, <1>0, ProcsAssumption, OpenBounds
     DEF KeyLink, Goto, Opened, Throw, Forget, ProcsTyped, Roles, PCs, OpenSteps, Procs
<1>5. CASE KeyTidy(p)
  BY <1>5, <1>0, ProcsAssumption, OpenBounds
     DEF KeyTidy, Goto, Opened, Throw, Forget, ProcsTyped, Roles, PCs, OpenSteps, Procs
<1>6. CASE CreateLeaf(p)
  BY <1>6, <1>0, ProcsAssumption, OpenBounds
     DEF CreateLeaf, Goto, Opened, Throw, Forget, ProcsTyped, Roles, PCs, OpenSteps, Procs
<1>7. CASE SyncLeaf(p)
  BY <1>7, <1>0, ProcsAssumption, OpenBounds
     DEF SyncLeaf, Goto, Opened, Throw, Forget, ProcsTyped, Roles, PCs, OpenSteps, Procs
<1>8. CASE PublishManifest(p)
  BY <1>8, <1>0, ProcsAssumption, OpenBounds
     DEF PublishManifest, Goto, Opened, Throw, Forget, ProcsTyped, Roles, PCs, OpenSteps,
         Procs
<1>9. CASE TidyManifest(p)
  BY <1>9, <1>0, ProcsAssumption, OpenBounds
     DEF TidyManifest, Goto, Opened, Throw, Forget, ProcsTyped, Roles, PCs, OpenSteps,
         Procs
<1>10. CASE BeginMigration(p)
  BY <1>10, <1>0, ProcsAssumption, OpenBounds
     DEF BeginMigration, Goto, Opened, Throw, Forget, ProcsTyped, Roles, PCs, OpenSteps,
         Procs
<1>11. CASE PublishIntent(p)
  BY <1>11, <1>0, ProcsAssumption, OpenBounds
     DEF PublishIntent, Goto, Opened, Throw, Forget, ProcsTyped, Roles, PCs, OpenSteps,
         Procs
<1>12. CASE TidyIntent(p)
  BY <1>12, <1>0, ProcsAssumption, OpenBounds
     DEF TidyIntent, Goto, Opened, Throw, Forget, ProcsTyped, Roles, PCs, OpenSteps, Procs
<1>13. CASE Archive(p)
  BY <1>13, <1>0, ProcsAssumption, OpenBounds
     DEF Archive, Goto, Opened, Throw, Forget, ProcsTyped, Roles, PCs, OpenSteps, Procs
<1>14. CASE UnlinkLeaf(p)
  BY <1>14, <1>0, ProcsAssumption, OpenBounds
     DEF UnlinkLeaf, Goto, Opened, Throw, Forget, ProcsTyped, Roles, PCs, OpenSteps, Procs
<1>15. CASE SyncUnlink(p)
  BY <1>15, <1>0, ProcsAssumption, OpenBounds
     DEF SyncUnlink, Goto, Opened, Throw, Forget, ProcsTyped, Roles, PCs, OpenSteps, Procs
<1>16. CASE ProveArchive(p)
  BY <1>16, <1>0, ProcsAssumption, OpenBounds
     DEF ProveArchive, Goto, Opened, Throw, Forget, ProcsTyped, Roles, PCs, OpenSteps,
         Procs
<1>17. CASE Carry(p)
  <2>1. recs' \subseteq {"carry", "call"}
    BY <1>17 DEF Carry, ProcsTyped
  <2> QED
    BY <1>17, <2>1, <1>0, <1>0, ProcsAssumption, OpenBounds
       DEF Carry, Goto, Throw, ProcsTyped, Roles, PCs, OpenSteps, Procs
<1>18. CASE PublishReceipt(p)
  BY <1>18, <1>0, ProcsAssumption, OpenBounds
     DEF PublishReceipt, Goto, Opened, Throw, Forget, ProcsTyped, Roles, PCs, OpenSteps,
         Procs
<1>19. CASE TidyReceipt(p)
  BY <1>19, <1>0, ProcsAssumption, OpenBounds
     DEF TidyReceipt, Goto, Opened, Throw, Forget, ProcsTyped, Roles, PCs, OpenSteps,
         Procs
<1>20. CASE ReserveCall(p)
  BY <1>20, <1>0, ProcsAssumption, OpenBounds
     DEF ReserveCall, Goto, Opened, Throw, Forget, ProcsTyped, Roles, PCs, OpenSteps,
         Procs
<1>21. CASE ProcessCrash(p)
  BY <1>21, <1>0, ProcsAssumption, OpenBounds
     DEF ProcessCrash, Goto, Opened, Throw, Forget, ProcsTyped, Roles, PCs, OpenSteps,
         Procs
<1> QED
  BY <1>1, <1>2, <1>3, <1>4, <1>5, <1>6, <1>7, <1>8, <1>9, <1>10, <1>11, <1>12, <1>13,
     <1>14, <1>15, <1>16, <1>17, <1>18, <1>19, <1>20, <1>21
     DEF Step, OpenStep, MigrateStep

\* What is sealed stays sealed: nobody unlinks a new leaf or replaces a key.
LEMMA StepKeepsSealed ==
  ASSUME Typed, NEW p \in Procs, Step(p), Sealed
  PROVE  Sealed'
<1>1. Moves(p) /\ CurrentMayStay /\ CurrentMayStay'
  BY StepMoves DEF Moves, Typed, DirTyped
<1>2. dir'.cur.key = dir.cur.key /\ dir'.may.key = dir.may.key
  BY <1>1 DEF Moves, MayGrow, CurrentMayStay, Sealed
<1>3. pc[p] # "unlink" \/ dir'.cur.leaf = dir.cur.leaf
  BY StepMoves, <1>1
     DEF Moves, CurrentMayStay, Sealed, Step, OpenStep, MigrateStep, CheckPending,
         UnlinkLeaf, ProcessCrash, ReadManifest, ReadKey, KeyLink, KeyTidy, CreateLeaf,
         SyncLeaf, PublishManifest, TidyManifest, BeginMigration, PublishIntent,
         TidyIntent, Archive, SyncUnlink, ProveArchive, Carry, PublishReceipt,
         TidyReceipt, ReserveCall
<1> QED
  BY <1>1, <1>2, <1>3 DEF Moves, MayGrow, CurrentMayStay, Sealed

\* What a step does to the entries that only say whether a file is there.
Sureties(p) ==
  /\ ArchiveSure => ArchiveSure'
  /\ IntentSure => IntentSure'
  /\ ReceiptPossible' => ReceiptPossible \/ pc[p] = "receipt"
  /\ Archive(p) => ArchiveSure' /\ (dir.cur.intent => IntentSure')
  /\ dir.cur.intent => dir'.cur.intent
  /\ dir'.cur.intent => dir.cur.intent \/ PublishIntent(p)
  /\ PublishIntent(p) => dir'.cur.intent
  /\ dir.cur.receipt => ReceiptPossible
  /\ IntentSure => dir.cur.intent

\* An archive or an intent that is durable stays so, and only PublishReceipt writes a receipt.
LEMMA StepSureties ==
  ASSUME Typed, NEW p \in Procs, Step(p)
  PROVE  Sureties(p)
<1>1. Moves(p) /\ CurrentMayStay /\ CurrentMayStay' /\ DirTyped
  BY StepMoves DEF Moves, Typed, DirTyped
<1>2. ArchiveSure => ArchiveSure'
  BY <1>1 DEF Moves, MayGrow, CurrentMayStay, ArchiveSure
<1>3. IntentSure => IntentSure'
  BY <1>1 DEF Moves, MayGrow, CurrentMayStay, IntentSure
<1>4. ReceiptPossible' => ReceiptPossible \/ pc[p] = "receipt"
  BY <1>1 DEF Moves, MayGrow, CurrentMayStay, ReceiptPossible
<1>5. ASSUME Archive(p) PROVE ArchiveSure' /\ (dir.cur.intent => IntentSure')
  <2>1. PICK d : d = [dir.cur EXCEPT !.archive = TRUE]
    OBVIOUS
  <2>2. d \in Dirs /\ d.archive = TRUE /\ d.intent = dir.cur.intent
    BY <1>1, <2>1, ArchiveShape
  <2>3. Durable(d)
    BY <1>5, <2>1 DEF Archive
  <2>4. dir'.may.archive = {d.archive} /\ dir'.may.intent = {d.intent}
    BY <1>1, <2>2, <2>3, DurableShape
  <2> QED
    BY <2>2, <2>4 DEF ArchiveSure, IntentSure
<1>6. dir.cur.intent => dir'.cur.intent
  BY <1>1 DEF Moves
<1>7. dir'.cur.intent => dir.cur.intent \/ PublishIntent(p)
  BY <1>1 DEF Moves
<1>8. ASSUME PublishIntent(p) PROVE dir'.cur.intent
  <2>1. PICK d : d = [dir.cur EXCEPT !.intent = TRUE, !.debris = @ \cup {"intent"}]
    OBVIOUS
  <2>2. d \in Dirs /\ d.intent
    BY <1>1, <2>1, IntentShape
  <2>3. Dirty(d)
    BY <1>8, <2>1 DEF PublishIntent
  <2> QED
    BY <1>1, <2>2, <2>3, DirtyShape
<1>9. /\ dir.cur.receipt \in BOOLEAN /\ dir.cur.intent \in BOOLEAN
      /\ dir.cur.receipt \in dir.may.receipt /\ dir.cur.intent \in dir.may.intent
  BY <1>1 DEF DirTyped, Dirs, CurrentMayStay
<1>10. dir.cur.receipt => ReceiptPossible
  BY <1>9 DEF ReceiptPossible
<1>11. IntentSure => dir.cur.intent
  BY <1>9 DEF IntentSure
<1> QED
  BY <1>2, <1>3, <1>4, <1>5, <1>6, <1>7, <1>8, <1>10, <1>11 DEF Sureties

\* Every step keeps a manifest behind a durable leaf and key.
LEMMA StepKeepsSealing ==
  ASSUME Typed, Sealing, NEW p \in Procs, Step(p)
  PROVE  Sealing'
<1>moves. Moves(p) /\ Typed'
  BY StepMoves, StepKeepsTypes
<1>now. CurrentMayStay /\ CurrentMayStay' /\ (Sealed => Sealed') /\ Sureties(p)
  BY <1>moves, StepSureties, StepKeepsSealed DEF Typed, DirTyped
<1>1. CASE CheckPending(p)
  BY <1>1, <1>moves, <1>now, ProcsAssumption
     DEF CheckPending, Goto, Opened, Throw, Forget, Typed, ProcsTyped, Sealing, Sealed,
         Moves, MayGrow, CurrentMayStay, Procs
<1>2. CASE ReadManifest(p)
  BY <1>2, <1>moves, <1>now, ProcsAssumption
     DEF ReadManifest, Goto, Opened, Throw, Forget, Typed, ProcsTyped, Sealing, Sealed,
         Moves, MayGrow, CurrentMayStay, Procs
<1>3. CASE ReadKey(p)
  BY <1>3, <1>moves, <1>now, ProcsAssumption
     DEF ReadKey, Goto, Opened, Throw, Forget, Typed, ProcsTyped, Sealing, Sealed, Moves,
         MayGrow, CurrentMayStay, Procs
<1>4. CASE KeyLink(p)
  <2>1. /\ pc[p] = "keyLink" /\ pc' = [pc EXCEPT ![p] = "keyTidy"]
        /\ UNCHANGED <<recs, legacy, gen, key>> /\ (dir.cur.key # None => dir' = dir)
    BY <1>4 DEF KeyLink, Goto
  <2>2. dir'.cur.key # None
    BY <2>1, <1>moves DEF Moves, Typed, ProcsTyped
  <2>3. dir'.cur.manifest = dir.cur.manifest /\ dir'.cur.leaf = dir.cur.leaf
    BY <2>1, <1>moves DEF Moves
  <2> QED
    BY <2>1, <2>2, <2>3, <1>moves, <1>now, ProcsAssumption
       DEF Typed, ProcsTyped, Sealing, Sealed, Moves, MayGrow, CurrentMayStay
<1>5. CASE KeyTidy(p)
  BY <1>5, <1>moves, <1>now, ProcsAssumption
     DEF KeyTidy, Goto, Opened, Throw, Forget, Typed, ProcsTyped, Sealing, Sealed, Moves,
         MayGrow, CurrentMayStay, Procs
<1>6. CASE CreateLeaf(p)
  BY <1>6, <1>moves, <1>now, ProcsAssumption
     DEF CreateLeaf, Goto, Opened, Throw, Forget, Typed, ProcsTyped, Sealing, Sealed,
         Moves, MayGrow, CurrentMayStay, Procs
<1>7. CASE SyncLeaf(p)
  <2>1. dir'.cur = dir.cur /\ dir'.may.leaf = {dir.cur.leaf} /\ dir'.may.key = {dir.cur.key}
    BY <1>7, DurableShape DEF SyncLeaf, Typed, DirTyped
  <2> QED
    BY <1>7, <2>1, <1>moves, <1>now
       DEF SyncLeaf, Goto, Typed, ProcsTyped, Sealing, Sealed, Moves, MayGrow,
           CurrentMayStay
<1>8. CASE PublishManifest(p)
  BY <1>8, <1>moves, <1>now, ProcsAssumption
     DEF PublishManifest, Goto, Opened, Throw, Forget, Typed, ProcsTyped, Sealing, Sealed,
         Moves, MayGrow, CurrentMayStay, Procs
<1>9. CASE TidyManifest(p)
  BY <1>9, <1>moves, <1>now, ProcsAssumption
     DEF TidyManifest, Goto, Opened, Throw, Forget, Typed, ProcsTyped, Sealing, Sealed,
         Moves, MayGrow, CurrentMayStay, Procs
<1>10. CASE BeginMigration(p)
  BY <1>10, <1>moves, <1>now, ProcsAssumption
     DEF BeginMigration, Goto, Opened, Throw, Forget, Typed, ProcsTyped, Sealing, Sealed,
         Moves, MayGrow, CurrentMayStay, Procs
<1>11. CASE PublishIntent(p)
  BY <1>11, <1>moves, <1>now, ProcsAssumption
     DEF PublishIntent, Goto, Opened, Throw, Forget, Typed, ProcsTyped, Sealing, Sealed,
         Moves, MayGrow, CurrentMayStay, Procs
<1>12. CASE TidyIntent(p)
  BY <1>12, <1>moves, <1>now, ProcsAssumption
     DEF TidyIntent, Goto, Opened, Throw, Forget, Typed, ProcsTyped, Sealing, Sealed,
         Moves, MayGrow, CurrentMayStay, Procs
<1>13. CASE Archive(p)
  BY <1>13, <1>moves, <1>now, ProcsAssumption
     DEF Archive, Goto, Opened, Throw, Forget, Typed, ProcsTyped, Sealing, Sealed, Moves,
         MayGrow, CurrentMayStay, Procs
<1>14. CASE UnlinkLeaf(p)
  BY <1>14, <1>moves, <1>now, ProcsAssumption
     DEF UnlinkLeaf, Goto, Opened, Throw, Forget, Typed, ProcsTyped, Sealing, Sealed,
         Moves, MayGrow, CurrentMayStay, Procs
<1>15. CASE SyncUnlink(p)
  BY <1>15, <1>moves, <1>now, ProcsAssumption
     DEF SyncUnlink, Goto, Opened, Throw, Forget, Typed, ProcsTyped, Sealing, Sealed,
         Moves, MayGrow, CurrentMayStay, Procs
<1>16. CASE ProveArchive(p)
  BY <1>16, <1>moves, <1>now, ProcsAssumption
     DEF ProveArchive, Goto, Opened, Throw, Forget, Typed, ProcsTyped, Sealing, Sealed,
         Moves, MayGrow, CurrentMayStay, Procs
<1>17. CASE Carry(p)
  BY <1>17, <1>moves, <1>now, ProcsAssumption
     DEF Carry, Goto, Opened, Throw, Forget, Typed, ProcsTyped, Sealing, Sealed, Moves,
         MayGrow, CurrentMayStay, Procs
<1>18. CASE PublishReceipt(p)
  BY <1>18, <1>moves, <1>now, ProcsAssumption
     DEF PublishReceipt, Goto, Opened, Throw, Forget, Typed, ProcsTyped, Sealing, Sealed,
         Moves, MayGrow, CurrentMayStay, Procs
<1>19. CASE TidyReceipt(p)
  BY <1>19, <1>moves, <1>now, ProcsAssumption
     DEF TidyReceipt, Goto, Opened, Throw, Forget, Typed, ProcsTyped, Sealing, Sealed,
         Moves, MayGrow, CurrentMayStay, Procs
<1>20. CASE ReserveCall(p)
  BY <1>20, <1>moves, <1>now, ProcsAssumption
     DEF ReserveCall, Goto, Opened, Throw, Forget, Typed, ProcsTyped, Sealing, Sealed,
         Moves, MayGrow, CurrentMayStay, Procs
<1>21. CASE ProcessCrash(p)
  BY <1>21, <1>moves, <1>now, ProcsAssumption
     DEF ProcessCrash, Goto, Opened, Throw, Forget, Typed, ProcsTyped, Sealing, Sealed,
         Moves, MayGrow, CurrentMayStay, Procs
<1> QED
  BY <1>1, <1>2, <1>3, <1>4, <1>5, <1>6, <1>7, <1>8, <1>9, <1>10, <1>11, <1>12, <1>13,
     <1>14, <1>15, <1>16, <1>17, <1>18, <1>19, <1>20, <1>21
     DEF Step, OpenStep, MigrateStep

\* Every step keeps what the processes hold the one generation of the directory.
LEMMA StepKeepsPublishing ==
  ASSUME Typed, Sealing, Publishing, NEW p \in Procs, Step(p)
  PROVE  Publishing'
<1>moves. Moves(p) /\ Typed'
  BY StepMoves, StepKeepsTypes
<1>now. CurrentMayStay /\ CurrentMayStay' /\ (Sealed => Sealed') /\ Sureties(p)
  BY <1>moves, StepSureties, StepKeepsSealed DEF Typed, DirTyped
<1>1. CASE CheckPending(p)
  BY <1>1, <1>moves, <1>now, ProcsAssumption
     DEF CheckPending, Goto, Opened, Throw, Forget, Typed, ProcsTyped, Sealing,
         Publishing, Holders, Procs, Moves, MayGrow, CurrentMayStay
<1>2. CASE ReadManifest(p)
  BY <1>2, <1>moves, <1>now, ProcsAssumption
     DEF ReadManifest, Goto, Opened, Throw, Forget, Typed, ProcsTyped, Sealing,
         Publishing, Holders, Procs, Moves, MayGrow, CurrentMayStay
<1>3. CASE ReadKey(p)
  BY <1>3, <1>moves, <1>now, ProcsAssumption
     DEF ReadKey, Goto, Opened, Throw, Forget, Typed, ProcsTyped, Sealing, Publishing,
         Holders, Procs, Moves, MayGrow, CurrentMayStay
<1>4. CASE KeyLink(p)
  <2>1. /\ pc[p] = "keyLink" /\ pc' = [pc EXCEPT ![p] = "keyTidy"]
        /\ UNCHANGED <<recs, legacy, gen, key>> /\ (dir.cur.key # None => dir' = dir)
    BY <1>4 DEF KeyLink, Goto
  <2>2. dir'.cur.key # None
    BY <2>1, <1>moves DEF Moves, Typed, ProcsTyped
  <2>3. dir'.cur.manifest = dir.cur.manifest /\ dir'.cur.leaf = dir.cur.leaf
    BY <2>1, <1>moves DEF Moves
  <2>4. CASE dir.cur.key # None
    BY <2>1, <2>4 DEF Typed, ProcsTyped, Publishing, Holders
  <2>5. CASE dir.cur.key = None
    <3>1. dir.cur.manifest = None
      BY <2>5, <1>now DEF Sealing, Sealed, CurrentMayStay
    <3> QED
      BY <2>1, <3>1 DEF Typed, ProcsTyped, Publishing, Holders
  <2> QED
    BY <2>4, <2>5
<1>5. CASE KeyTidy(p)
  BY <1>5, <1>moves, <1>now, ProcsAssumption
     DEF KeyTidy, Goto, Opened, Throw, Forget, Typed, ProcsTyped, Sealing, Publishing,
         Holders, Procs, Moves, MayGrow, CurrentMayStay
<1>6. CASE CreateLeaf(p)
  BY <1>6, <1>moves, <1>now, ProcsAssumption
     DEF CreateLeaf, Goto, Opened, Throw, Forget, Typed, ProcsTyped, Sealing, Publishing,
         Holders, Procs, Moves, MayGrow, CurrentMayStay
<1>7. CASE SyncLeaf(p)
  BY <1>7, <1>moves, <1>now, ProcsAssumption
     DEF SyncLeaf, Goto, Opened, Throw, Forget, Typed, ProcsTyped, Sealing, Publishing,
         Holders, Procs, Moves, MayGrow, CurrentMayStay
<1>8. CASE PublishManifest(p)
  <2>1. /\ pc[p] = "publish" /\ pc' = [pc EXCEPT ![p] = "publishTidy"]
        /\ gen' = [gen EXCEPT ![p] = IF dir.cur.manifest = None THEN p ELSE None]
        /\ UNCHANGED <<recs, legacy, key>> /\ (dir.cur.manifest # None => dir' = dir)
    BY <1>8 DEF PublishManifest, Goto
  <2>2. /\ dir'.cur.key = dir.cur.key /\ dir'.cur.leaf = dir.cur.leaf
        /\ dir'.cur.manifest = (IF dir.cur.manifest = None THEN p ELSE dir.cur.manifest)
    <3>1. CASE dir.cur.manifest # None
      BY <2>1, <3>1
    <3>2. CASE dir.cur.manifest = None
      <4>1. PICK d : d = [dir.cur EXCEPT !.manifest = p, !.debris = @ \cup {"manifest"}]
        OBVIOUS
      <4>2. PICK e : e = [dir.cur EXCEPT !.manifest = p]
        OBVIOUS
      <4>3. DirTyped
        BY DEF Typed
      <4>4. e \in Dirs /\ e.manifest = p /\ e.key = dir.cur.key /\ e.leaf = dir.cur.leaf
        BY <4>2, <4>3 DEF DirTyped, Dirs
      <4>5. d = [e EXCEPT !.debris = @ \cup {"manifest"}]
        BY <4>1, <4>2
      <4>6. d \in Dirs /\ d.manifest = p /\ d.key = dir.cur.key /\ d.leaf = dir.cur.leaf
        BY <4>4, <4>5 DEF Dirs, Artifacts
      <4>7. Dirty(d)
        BY <1>8, <3>2, <4>1 DEF PublishManifest
      <4> QED
        BY <3>2, <4>3, <4>6, <4>7, DirtyShape
    <3> QED
      BY <3>1, <3>2
  <2>3. p # None /\ \A q \in Procs : q # p => pc'[q] = pc[q] /\ gen'[q] = gen[q] /\ key'[q] = key[q]
    BY <1>moves, ProcsAssumption DEF Moves, Procs
  <2> QED
    BY <2>1, <2>2, <2>3 DEF Typed, ProcsTyped, Publishing, Holders
<1>9. CASE TidyManifest(p)
  BY <1>9, <1>moves, <1>now, ProcsAssumption
     DEF TidyManifest, Goto, Opened, Throw, Forget, Typed, ProcsTyped, Sealing,
         Publishing, Holders, Procs, Moves, MayGrow, CurrentMayStay
<1>10. CASE BeginMigration(p)
  BY <1>10, <1>moves, <1>now, ProcsAssumption
     DEF BeginMigration, Goto, Opened, Throw, Forget, Typed, ProcsTyped, Sealing,
         Publishing, Holders, Procs, Moves, MayGrow, CurrentMayStay
<1>11. CASE PublishIntent(p)
  BY <1>11, <1>moves, <1>now, ProcsAssumption
     DEF PublishIntent, Goto, Opened, Throw, Forget, Typed, ProcsTyped, Sealing,
         Publishing, Holders, Procs, Moves, MayGrow, CurrentMayStay
<1>12. CASE TidyIntent(p)
  BY <1>12, <1>moves, <1>now, ProcsAssumption
     DEF TidyIntent, Goto, Opened, Throw, Forget, Typed, ProcsTyped, Sealing, Publishing,
         Holders, Procs, Moves, MayGrow, CurrentMayStay
<1>13. CASE Archive(p)
  BY <1>13, <1>moves, <1>now, ProcsAssumption
     DEF Archive, Goto, Opened, Throw, Forget, Typed, ProcsTyped, Sealing, Publishing,
         Holders, Procs, Moves, MayGrow, CurrentMayStay
<1>14. CASE UnlinkLeaf(p)
  BY <1>14, <1>moves, <1>now, ProcsAssumption
     DEF UnlinkLeaf, Goto, Opened, Throw, Forget, Typed, ProcsTyped, Sealing, Publishing,
         Holders, Procs, Moves, MayGrow, CurrentMayStay
<1>15. CASE SyncUnlink(p)
  BY <1>15, <1>moves, <1>now, ProcsAssumption
     DEF SyncUnlink, Goto, Opened, Throw, Forget, Typed, ProcsTyped, Sealing, Publishing,
         Holders, Procs, Moves, MayGrow, CurrentMayStay
<1>16. CASE ProveArchive(p)
  BY <1>16, <1>moves, <1>now, ProcsAssumption
     DEF ProveArchive, Goto, Opened, Throw, Forget, Typed, ProcsTyped, Sealing,
         Publishing, Holders, Procs, Moves, MayGrow, CurrentMayStay
<1>17. CASE Carry(p)
  BY <1>17, <1>moves, <1>now, ProcsAssumption
     DEF Carry, Goto, Opened, Throw, Forget, Typed, ProcsTyped, Sealing, Publishing,
         Holders, Procs, Moves, MayGrow, CurrentMayStay
<1>18. CASE PublishReceipt(p)
  BY <1>18, <1>moves, <1>now, ProcsAssumption
     DEF PublishReceipt, Goto, Opened, Throw, Forget, Typed, ProcsTyped, Sealing,
         Publishing, Holders, Procs, Moves, MayGrow, CurrentMayStay
<1>19. CASE TidyReceipt(p)
  BY <1>19, <1>moves, <1>now, ProcsAssumption
     DEF TidyReceipt, Goto, Opened, Throw, Forget, Typed, ProcsTyped, Sealing, Publishing,
         Holders, Procs, Moves, MayGrow, CurrentMayStay
<1>20. CASE ReserveCall(p)
  BY <1>20, <1>moves, <1>now, ProcsAssumption
     DEF ReserveCall, Goto, Opened, Throw, Forget, Typed, ProcsTyped, Sealing, Publishing,
         Holders, Procs, Moves, MayGrow, CurrentMayStay
<1>21. CASE ProcessCrash(p)
  BY <1>21, <1>moves, <1>now, ProcsAssumption
     DEF ProcessCrash, Goto, Opened, Throw, Forget, Typed, ProcsTyped, Sealing,
         Publishing, Holders, Procs, Moves, MayGrow, CurrentMayStay
<1> QED
  BY <1>1, <1>2, <1>3, <1>4, <1>5, <1>6, <1>7, <1>8, <1>9, <1>10, <1>11, <1>12, <1>13,
     <1>14, <1>15, <1>16, <1>17, <1>18, <1>19, <1>20, <1>21
     DEF Step, OpenStep, MigrateStep

\* Every step keeps a name for the legacy bytes.
LEMMA StepKeepsArchiving ==
  ASSUME Typed, Archiving, NEW p \in Procs, Step(p)
  PROVE  Archiving'
<1>moves. Moves(p) /\ Typed'
  BY StepMoves, StepKeepsTypes
<1>now. CurrentMayStay /\ CurrentMayStay' /\ (Sealed => Sealed') /\ Sureties(p)
  BY <1>moves, StepSureties, StepKeepsSealed DEF Typed, DirTyped
<1>1. CASE CheckPending(p)
  BY <1>1, <1>moves, <1>now, ProcsAssumption
     DEF CheckPending, Goto, Opened, Throw, Forget, Typed, ProcsTyped, Archiving,
         Sureties, Moves, MayGrow, CurrentMayStay
<1>2. CASE ReadManifest(p)
  BY <1>2, <1>moves, <1>now, ProcsAssumption
     DEF ReadManifest, Goto, Opened, Throw, Forget, Typed, ProcsTyped, Archiving,
         Sureties, Moves, MayGrow, CurrentMayStay
<1>3. CASE ReadKey(p)
  BY <1>3, <1>moves, <1>now, ProcsAssumption
     DEF ReadKey, Goto, Opened, Throw, Forget, Typed, ProcsTyped, Archiving, Sureties,
         Moves, MayGrow, CurrentMayStay
<1>4. CASE KeyLink(p)
  BY <1>4, <1>moves, <1>now, ProcsAssumption
     DEF KeyLink, Goto, Opened, Throw, Forget, Typed, ProcsTyped, Archiving, Sureties,
         Moves, MayGrow, CurrentMayStay
<1>5. CASE KeyTidy(p)
  BY <1>5, <1>moves, <1>now, ProcsAssumption
     DEF KeyTidy, Goto, Opened, Throw, Forget, Typed, ProcsTyped, Archiving, Sureties,
         Moves, MayGrow, CurrentMayStay
<1>6. CASE CreateLeaf(p)
  BY <1>6, <1>moves, <1>now, ProcsAssumption
     DEF CreateLeaf, Goto, Opened, Throw, Forget, Typed, ProcsTyped, Archiving, Sureties,
         Moves, MayGrow, CurrentMayStay
<1>7. CASE SyncLeaf(p)
  BY <1>7, <1>moves, <1>now, ProcsAssumption
     DEF SyncLeaf, Goto, Opened, Throw, Forget, Typed, ProcsTyped, Archiving, Sureties,
         Moves, MayGrow, CurrentMayStay
<1>8. CASE PublishManifest(p)
  BY <1>8, <1>moves, <1>now, ProcsAssumption
     DEF PublishManifest, Goto, Opened, Throw, Forget, Typed, ProcsTyped, Archiving,
         Sureties, Moves, MayGrow, CurrentMayStay
<1>9. CASE TidyManifest(p)
  BY <1>9, <1>moves, <1>now, ProcsAssumption
     DEF TidyManifest, Goto, Opened, Throw, Forget, Typed, ProcsTyped, Archiving,
         Sureties, Moves, MayGrow, CurrentMayStay
<1>10. CASE BeginMigration(p)
  BY <1>10, <1>moves, <1>now, ProcsAssumption
     DEF BeginMigration, Goto, Opened, Throw, Forget, Typed, ProcsTyped, Archiving,
         Sureties, Moves, MayGrow, CurrentMayStay
<1>11. CASE PublishIntent(p)
  BY <1>11, <1>moves, <1>now, ProcsAssumption
     DEF PublishIntent, Goto, Opened, Throw, Forget, Typed, ProcsTyped, Archiving,
         Sureties, Moves, MayGrow, CurrentMayStay
<1>12. CASE TidyIntent(p)
  BY <1>12, <1>moves, <1>now, ProcsAssumption
     DEF TidyIntent, Goto, Opened, Throw, Forget, Typed, ProcsTyped, Archiving, Sureties,
         Moves, MayGrow, CurrentMayStay
<1>13. CASE Archive(p)
  BY <1>13, <1>moves, <1>now, ProcsAssumption
     DEF Archive, Goto, Opened, Throw, Forget, Typed, ProcsTyped, Archiving, Sureties,
         Moves, MayGrow, CurrentMayStay
<1>14. CASE UnlinkLeaf(p)
  BY <1>14, <1>moves, <1>now, ProcsAssumption
     DEF UnlinkLeaf, Goto, Opened, Throw, Forget, Typed, ProcsTyped, Archiving, Sureties,
         Moves, MayGrow, CurrentMayStay
<1>15. CASE SyncUnlink(p)
  BY <1>15, <1>moves, <1>now, ProcsAssumption
     DEF SyncUnlink, Goto, Opened, Throw, Forget, Typed, ProcsTyped, Archiving, Sureties,
         Moves, MayGrow, CurrentMayStay
<1>16. CASE ProveArchive(p)
  BY <1>16, <1>moves, <1>now, ProcsAssumption
     DEF ProveArchive, Goto, Opened, Throw, Forget, Typed, ProcsTyped, Archiving,
         Sureties, Moves, MayGrow, CurrentMayStay
<1>17. CASE Carry(p)
  BY <1>17, <1>moves, <1>now, ProcsAssumption
     DEF Carry, Goto, Opened, Throw, Forget, Typed, ProcsTyped, Archiving, Sureties,
         Moves, MayGrow, CurrentMayStay
<1>18. CASE PublishReceipt(p)
  BY <1>18, <1>moves, <1>now, ProcsAssumption
     DEF PublishReceipt, Goto, Opened, Throw, Forget, Typed, ProcsTyped, Archiving,
         Sureties, Moves, MayGrow, CurrentMayStay
<1>19. CASE TidyReceipt(p)
  BY <1>19, <1>moves, <1>now, ProcsAssumption
     DEF TidyReceipt, Goto, Opened, Throw, Forget, Typed, ProcsTyped, Archiving, Sureties,
         Moves, MayGrow, CurrentMayStay
<1>20. CASE ReserveCall(p)
  BY <1>20, <1>moves, <1>now, ProcsAssumption
     DEF ReserveCall, Goto, Opened, Throw, Forget, Typed, ProcsTyped, Archiving, Sureties,
         Moves, MayGrow, CurrentMayStay
<1>21. CASE ProcessCrash(p)
  BY <1>21, <1>moves, <1>now, ProcsAssumption
     DEF ProcessCrash, Goto, Opened, Throw, Forget, Typed, ProcsTyped, Archiving,
         Sureties, Moves, MayGrow, CurrentMayStay
<1> QED
  BY <1>1, <1>2, <1>3, <1>4, <1>5, <1>6, <1>7, <1>8, <1>9, <1>10, <1>11, <1>12, <1>13,
     <1>14, <1>15, <1>16, <1>17, <1>18, <1>19, <1>20, <1>21
     DEF Step, OpenStep, MigrateStep

\* Every step keeps the receipt behind the carried balance.
LEMMA StepKeepsCarrying ==
  ASSUME Typed, Carrying, NEW p \in Procs, Step(p)
  PROVE  Carrying'
<1>moves. Moves(p) /\ Typed'
  BY StepMoves, StepKeepsTypes
<1>now. CurrentMayStay /\ CurrentMayStay' /\ (Sealed => Sealed') /\ Sureties(p)
  BY <1>moves, StepSureties, StepKeepsSealed DEF Typed, DirTyped
<1>1. CASE CheckPending(p)
  BY <1>1, <1>moves, <1>now, ProcsAssumption
     DEF CheckPending, Goto, Opened, Throw, Forget, Typed, ProcsTyped, Carrying, Sureties
<1>2. CASE ReadManifest(p)
  BY <1>2, <1>moves, <1>now, ProcsAssumption
     DEF ReadManifest, Goto, Opened, Throw, Forget, Typed, ProcsTyped, Carrying, Sureties
<1>3. CASE ReadKey(p)
  BY <1>3, <1>moves, <1>now, ProcsAssumption
     DEF ReadKey, Goto, Opened, Throw, Forget, Typed, ProcsTyped, Carrying, Sureties
<1>4. CASE KeyLink(p)
  BY <1>4, <1>moves, <1>now, ProcsAssumption
     DEF KeyLink, Goto, Opened, Throw, Forget, Typed, ProcsTyped, Carrying, Sureties
<1>5. CASE KeyTidy(p)
  BY <1>5, <1>moves, <1>now, ProcsAssumption
     DEF KeyTidy, Goto, Opened, Throw, Forget, Typed, ProcsTyped, Carrying, Sureties
<1>6. CASE CreateLeaf(p)
  BY <1>6, <1>moves, <1>now, ProcsAssumption
     DEF CreateLeaf, Goto, Opened, Throw, Forget, Typed, ProcsTyped, Carrying, Sureties
<1>7. CASE SyncLeaf(p)
  BY <1>7, <1>moves, <1>now, ProcsAssumption
     DEF SyncLeaf, Goto, Opened, Throw, Forget, Typed, ProcsTyped, Carrying, Sureties
<1>8. CASE PublishManifest(p)
  BY <1>8, <1>moves, <1>now, ProcsAssumption
     DEF PublishManifest, Goto, Opened, Throw, Forget, Typed, ProcsTyped, Carrying,
         Sureties
<1>9. CASE TidyManifest(p)
  BY <1>9, <1>moves, <1>now, ProcsAssumption
     DEF TidyManifest, Goto, Opened, Throw, Forget, Typed, ProcsTyped, Carrying, Sureties
<1>10. CASE BeginMigration(p)
  BY <1>10, <1>moves, <1>now, ProcsAssumption
     DEF BeginMigration, Goto, Opened, Throw, Forget, Typed, ProcsTyped, Carrying,
         Sureties
<1>11. CASE PublishIntent(p)
  BY <1>11, <1>moves, <1>now, ProcsAssumption
     DEF PublishIntent, Goto, Opened, Throw, Forget, Typed, ProcsTyped, Carrying, Sureties
<1>12. CASE TidyIntent(p)
  BY <1>12, <1>moves, <1>now, ProcsAssumption
     DEF TidyIntent, Goto, Opened, Throw, Forget, Typed, ProcsTyped, Carrying, Sureties
<1>13. CASE Archive(p)
  BY <1>13, <1>moves, <1>now, ProcsAssumption
     DEF Archive, Goto, Opened, Throw, Forget, Typed, ProcsTyped, Carrying, Sureties
<1>14. CASE UnlinkLeaf(p)
  BY <1>14, <1>moves, <1>now, ProcsAssumption
     DEF UnlinkLeaf, Goto, Opened, Throw, Forget, Typed, ProcsTyped, Carrying, Sureties
<1>15. CASE SyncUnlink(p)
  BY <1>15, <1>moves, <1>now, ProcsAssumption
     DEF SyncUnlink, Goto, Opened, Throw, Forget, Typed, ProcsTyped, Carrying, Sureties
<1>16. CASE ProveArchive(p)
  BY <1>16, <1>moves, <1>now, ProcsAssumption
     DEF ProveArchive, Goto, Opened, Throw, Forget, Typed, ProcsTyped, Carrying, Sureties
<1>17. CASE Carry(p)
  <2>1. "carry" \in recs => "carry" \in recs'
    BY <1>17 DEF Carry
  <2>2. pc[p] = "carry" /\ pc'[p] = "receipt" => "carry" \in recs'
    BY <1>17, ProcsAssumption DEF Carry, Throw, Goto, Typed, ProcsTyped
  <2>3. pc[p] = "carry" /\ pc'[p] \in {"receipt", "start"}
    BY <1>17 DEF Carry, Throw, Goto, Typed, ProcsTyped
  <2>4. \A q \in Procs : q # p => pc'[q] = pc[q]
    BY <1>moves DEF Moves
  <2> QED
    BY <2>1, <2>2, <2>3, <2>4, <1>now DEF Carrying, Sureties
<1>18. CASE PublishReceipt(p)
  BY <1>18, <1>moves, <1>now, ProcsAssumption
     DEF PublishReceipt, Goto, Opened, Throw, Forget, Typed, ProcsTyped, Carrying,
         Sureties
<1>19. CASE TidyReceipt(p)
  BY <1>19, <1>moves, <1>now, ProcsAssumption
     DEF TidyReceipt, Goto, Opened, Throw, Forget, Typed, ProcsTyped, Carrying, Sureties
<1>20. CASE ReserveCall(p)
  BY <1>20, <1>moves, <1>now, ProcsAssumption
     DEF ReserveCall, Goto, Opened, Throw, Forget, Typed, ProcsTyped, Carrying, Sureties
<1>21. CASE ProcessCrash(p)
  BY <1>21, <1>moves, <1>now, ProcsAssumption
     DEF ProcessCrash, Goto, Opened, Throw, Forget, Typed, ProcsTyped, Carrying, Sureties
<1> QED
  BY <1>1, <1>2, <1>3, <1>4, <1>5, <1>6, <1>7, <1>8, <1>9, <1>10, <1>11, <1>12, <1>13,
     <1>14, <1>15, <1>16, <1>17, <1>18, <1>19, <1>20, <1>21
     DEF Step, OpenStep, MigrateStep

\* Without overlap, every step keeps runs away from a budget without the balance.
LEMMA StepKeepsHolding ==
  ASSUME Typed, Sealing, Publishing, Carrying, Overlap = FALSE, Holding, NEW p \in Procs, Step(p)
  PROVE  Holding'
<1>moves. Moves(p) /\ Typed'
  BY StepMoves, StepKeepsTypes
<1>now. CurrentMayStay /\ CurrentMayStay' /\ (Sealed => Sealed') /\ Sureties(p)
  BY <1>moves, StepSureties, StepKeepsSealed DEF Typed, DirTyped
<1>1. CASE CheckPending(p)
  BY <1>1, <1>moves, <1>now, ProcsAssumption
     DEF CheckPending, Goto, Opened, Throw, Forget, Typed, ProcsTyped, Roles, Sealing,
         Publishing, Holders, Holding, Carrying, Sureties, Moves, MayGrow, CurrentMayStay,
         OpenSteps, Procs, pendingMigrationReason
<1>2. CASE ReadManifest(p)
  BY <1>2, <1>moves, <1>now, ProcsAssumption
     DEF ReadManifest, Goto, Opened, Throw, Forget, Typed, ProcsTyped, Roles, Sealing,
         Publishing, Holders, Holding, Carrying, Sureties, Moves, MayGrow, CurrentMayStay,
         OpenSteps, Procs, pendingMigrationReason
<1>3. CASE ReadKey(p)
  BY <1>3, <1>moves, <1>now, ProcsAssumption
     DEF ReadKey, Goto, Opened, Throw, Forget, Typed, ProcsTyped, Roles, Sealing,
         Publishing, Holders, Holding, Carrying, Sureties, Moves, MayGrow, CurrentMayStay,
         OpenSteps, Procs, pendingMigrationReason
<1>4. CASE KeyLink(p)
  BY <1>4, <1>moves, <1>now, ProcsAssumption
     DEF KeyLink, Goto, Opened, Throw, Forget, Typed, ProcsTyped, Roles, Sealing,
         Publishing, Holders, Holding, Carrying, Sureties, Moves, MayGrow, CurrentMayStay,
         OpenSteps, Procs, pendingMigrationReason
<1>5. CASE KeyTidy(p)
  BY <1>5, <1>moves, <1>now, ProcsAssumption
     DEF KeyTidy, Goto, Opened, Throw, Forget, Typed, ProcsTyped, Roles, Sealing,
         Publishing, Holders, Holding, Carrying, Sureties, Moves, MayGrow, CurrentMayStay,
         OpenSteps, Procs, pendingMigrationReason
<1>6. CASE CreateLeaf(p)
  BY <1>6, <1>moves, <1>now, ProcsAssumption
     DEF CreateLeaf, Goto, Opened, Throw, Forget, Typed, ProcsTyped, Roles, Sealing,
         Publishing, Holders, Holding, Carrying, Sureties, Moves, MayGrow, CurrentMayStay,
         OpenSteps, Procs, pendingMigrationReason
<1>7. CASE SyncLeaf(p)
  BY <1>7, <1>moves, <1>now, ProcsAssumption
     DEF SyncLeaf, Goto, Opened, Throw, Forget, Typed, ProcsTyped, Roles, Sealing,
         Publishing, Holders, Holding, Carrying, Sureties, Moves, MayGrow, CurrentMayStay,
         OpenSteps, Procs, pendingMigrationReason
<1>8. CASE PublishManifest(p)
  BY <1>8, <1>moves, <1>now, ProcsAssumption
     DEF PublishManifest, Goto, Opened, Throw, Forget, Typed, ProcsTyped, Roles, Sealing,
         Publishing, Holders, Holding, Carrying, Sureties, Moves, MayGrow, CurrentMayStay,
         OpenSteps, Procs, pendingMigrationReason
<1>9. CASE TidyManifest(p)
  BY <1>9, <1>moves, <1>now, ProcsAssumption
     DEF TidyManifest, Goto, Opened, Throw, Forget, Typed, ProcsTyped, Roles, Sealing,
         Publishing, Holders, Holding, Carrying, Sureties, Moves, MayGrow, CurrentMayStay,
         OpenSteps, Procs, pendingMigrationReason
<1>10. CASE BeginMigration(p)
  BY <1>10, <1>moves, <1>now, ProcsAssumption
     DEF BeginMigration, Goto, Opened, Throw, Forget, Typed, ProcsTyped, Roles, Sealing,
         Publishing, Holders, Holding, Carrying, Sureties, Moves, MayGrow, CurrentMayStay,
         OpenSteps, Procs, pendingMigrationReason
<1>11. CASE PublishIntent(p)
  BY <1>11, <1>moves, <1>now, ProcsAssumption
     DEF PublishIntent, Goto, Opened, Throw, Forget, Typed, ProcsTyped, Roles, Sealing,
         Publishing, Holders, Holding, Carrying, Sureties, Moves, MayGrow, CurrentMayStay,
         OpenSteps, Procs, pendingMigrationReason
<1>12. CASE TidyIntent(p)
  BY <1>12, <1>moves, <1>now, ProcsAssumption
     DEF TidyIntent, Goto, Opened, Throw, Forget, Typed, ProcsTyped, Roles, Sealing,
         Publishing, Holders, Holding, Carrying, Sureties, Moves, MayGrow, CurrentMayStay,
         OpenSteps, Procs, pendingMigrationReason
<1>13. CASE Archive(p)
  BY <1>13, <1>moves, <1>now, ProcsAssumption
     DEF Archive, Goto, Opened, Throw, Forget, Typed, ProcsTyped, Roles, Sealing,
         Publishing, Holders, Holding, Carrying, Sureties, Moves, MayGrow, CurrentMayStay,
         OpenSteps, Procs, pendingMigrationReason
<1>14. CASE UnlinkLeaf(p)
  BY <1>14, <1>moves, <1>now, ProcsAssumption
     DEF UnlinkLeaf, Goto, Opened, Throw, Forget, Typed, ProcsTyped, Roles, Sealing,
         Publishing, Holders, Holding, Carrying, Sureties, Moves, MayGrow, CurrentMayStay,
         OpenSteps, Procs, pendingMigrationReason
<1>15. CASE SyncUnlink(p)
  BY <1>15, <1>moves, <1>now, ProcsAssumption
     DEF SyncUnlink, Goto, Opened, Throw, Forget, Typed, ProcsTyped, Roles, Sealing,
         Publishing, Holders, Holding, Carrying, Sureties, Moves, MayGrow, CurrentMayStay,
         OpenSteps, Procs, pendingMigrationReason
<1>16. CASE ProveArchive(p)
  BY <1>16, <1>moves, <1>now, ProcsAssumption
     DEF ProveArchive, Goto, Opened, Throw, Forget, Typed, ProcsTyped, Roles, Sealing,
         Publishing, Holders, Holding, Carrying, Sureties, Moves, MayGrow, CurrentMayStay,
         OpenSteps, Procs, pendingMigrationReason
<1>17. CASE Carry(p)
  <2>1. legacy' = legacy /\ dir'.cur.leaf = dir.cur.leaf /\ pc[p] = "carry"
    BY <1>17, <1>moves DEF Carry, Moves
  <2> SUFFICES ASSUME legacy PROVE Holding'
    BY <2>1 DEF Holding
  <2>2. recs \in {{}, {"carry"}}
    BY DEF Holding
  <2>3. \/ recs' = {"carry"} /\ Durable(dir.cur) /\ pc' = [pc EXCEPT ![p] = "receipt"]
        \/ recs' = recs /\ dir' = dir /\ pc' = [pc EXCEPT ![p] = "start"]
    <3>1. CASE "carry" \in recs \/ recs = {}
      BY <1>17, <2>2, <3>1 DEF Carry, Goto, Throw
    <3>2. CASE recs = {"call"}
      BY <2>2, <3>2
    <3> QED
      BY <2>2, <3>1, <3>2
  <2>4. dir'.may.leaf = dir.may.leaf \/ dir'.may.leaf = {dir.cur.leaf}
    BY <2>3, DurableShape DEF Typed, DirTyped
  <2>5. ~IntentSure' => dir'.may.leaf = {"v1"}
    BY <2>4, <1>now DEF Sureties, Holding, CurrentMayStay
  <2>6. dir.cur.intent => dir'.cur.intent
    BY <1>now DEF Sureties
  <2>7. \A q \in Migrators : pc'[q] \in {"intentTidy", "archive", "unlink"} => pc[q] = pc'[q]
    BY <2>3 DEF Typed, ProcsTyped, Procs
  <2>8. \A q \in Openers : pc'[q] = pc[q]
    BY <2>1, <2>3 DEF Typed, ProcsTyped, Roles, OpenSteps, Procs
  <2>9. dir'.cur.intent => dir.cur.intent
    BY <1>17, <2>3, DurableShape DEF Typed, DirTyped
  <2> QED
    BY <2>1, <2>2, <2>3, <2>5, <2>6, <2>7, <2>8, <2>9, <1>now DEF Holding, Sureties
<1>18. CASE PublishReceipt(p)
  BY <1>18, <1>moves, <1>now, ProcsAssumption
     DEF PublishReceipt, Goto, Opened, Throw, Forget, Typed, ProcsTyped, Roles, Sealing,
         Publishing, Holders, Holding, Carrying, Sureties, Moves, MayGrow, CurrentMayStay,
         OpenSteps, Procs, pendingMigrationReason
<1>19. CASE TidyReceipt(p)
  BY <1>19, <1>moves, <1>now, ProcsAssumption
     DEF TidyReceipt, Goto, Opened, Throw, Forget, Typed, ProcsTyped, Roles, Sealing,
         Publishing, Holders, Holding, Carrying, Sureties, Moves, MayGrow, CurrentMayStay,
         OpenSteps, Procs, pendingMigrationReason
<1>20. CASE ReserveCall(p)
  BY <1>20, <1>moves, <1>now, ProcsAssumption
     DEF ReserveCall, Goto, Opened, Throw, Forget, Typed, ProcsTyped, Roles, Sealing,
         Publishing, Holders, Holding, Carrying, Sureties, Moves, MayGrow, CurrentMayStay,
         OpenSteps, Procs, pendingMigrationReason
<1>21. CASE ProcessCrash(p)
  BY <1>21, <1>moves, <1>now, ProcsAssumption
     DEF ProcessCrash, Goto, Opened, Throw, Forget, Typed, ProcsTyped, Roles, Sealing,
         Publishing, Holders, Holding, Carrying, Sureties, Moves, MayGrow, CurrentMayStay,
         OpenSteps, Procs, pendingMigrationReason
<1> QED
  BY <1>1, <1>2, <1>3, <1>4, <1>5, <1>6, <1>7, <1>8, <1>9, <1>10, <1>11, <1>12, <1>13,
     <1>14, <1>15, <1>16, <1>17, <1>18, <1>19, <1>20, <1>21
     DEF Step, OpenStep, MigrateStep

-----------------------------------------------------------------------------
(* A power loss, the initial states, and the theorems.                     *)

\* A power loss forgets the processes and settles each entry on what may be left.
LEMMA PowerLossKeeps ==
  ASSUME IInv, PowerLoss
  PROVE  IInv' /\ (Holding => Holding')
<1>1. PICK d \in Possible : Durable(d)
  BY DEF PowerLoss
<1>2. /\ DirTyped /\ CurrentMayStay /\ d \in Dirs
      /\ d.leaf \in dir.may.leaf /\ d.key \in dir.may.key /\ d.manifest \in dir.may.manifest
      /\ d.archive \in dir.may.archive /\ d.intent \in dir.may.intent
      /\ d.receipt \in dir.may.receipt
  BY <1>1, OutcomesShape DEF IInv, Typed, DirTyped
<1>3. /\ DirTyped' /\ dir'.cur = d
      /\ dir'.may.leaf = {d.leaf} /\ dir'.may.key = {d.key} /\ dir'.may.manifest = {d.manifest}
      /\ dir'.may.archive = {d.archive} /\ dir'.may.intent = {d.intent}
      /\ dir'.may.receipt = {d.receipt}
  BY <1>1, <1>2, DurableShape
<1>4. /\ pc' = [p \in Procs |-> "start"] /\ gen' = [p \in Procs |-> None]
      /\ key' = [p \in Procs |-> None] /\ mlock' = None
      /\ UNCHANGED <<recs, legacy, archiving>> /\ crashes' \in 0..MaxCrashes
  BY OpenBounds DEF PowerLoss, Forget, IInv, Typed, ProcsTyped, Procs
<1>5. (ArchiveSure => ArchiveSure') /\ (IntentSure => IntentSure')
  BY <1>2, <1>3 DEF ArchiveSure, IntentSure
<1>6. ReceiptPossible' => ReceiptPossible
  BY <1>2, <1>3 DEF ReceiptPossible
<1>7. Typed'
  <2>1. \A p \in Migrators : mlock' = p <=> pc'[p] \notin {"start", "done"}
    BY <1>4, ProcsAssumption DEF Procs
  <2>2. ProcsTyped'
    BY <1>4, <2>1 DEF IInv, Typed, ProcsTyped, PCs
  <2>3. Roles'
    BY <1>4 DEF Roles, Procs
  <2> QED
    BY <1>3, <2>2, <2>3 DEF Typed
<1>8. Sealed => Sealed'
  BY <1>2, <1>3 DEF Sealed
<1>9. Sealing' /\ Publishing'
  BY <1>2, <1>3, <1>4, <1>8 DEF IInv, Sealing, Publishing, Holders
<1>10. Archiving'
  BY <1>2, <1>3, <1>4, <1>5 DEF IInv, Archiving
<1>11. Carrying'
  BY <1>4, <1>6 DEF IInv, Carrying
<1>12. Holding => Holding'
  BY <1>2, <1>3, <1>4, <1>5 DEF Holding, Procs
<1> QED
  BY <1>7, <1>9, <1>10, <1>11, <1>12 DEF IInv

\* A fresh board, and one with a v1 journal, satisfy the invariant.
LEMMA InitHolds ==
  ASSUME Init
  PROVE  IInv /\ Holding
<1>1. PICK d : /\ d = [leaf |-> IF legacy THEN "v1" ELSE None, archive |-> FALSE,
                       key |-> None, manifest |-> None, intent |-> FALSE,
                       receipt |-> FALSE, debris |-> {}]
               /\ dir = [cur |-> d, may |-> Settled(d)]
  BY DEF Init
<1>2. /\ d \in Dirs
      /\ d.leaf = (IF legacy THEN "v1" ELSE None) /\ d.manifest = None /\ d.receipt = FALSE
  BY <1>1 DEF Dirs, Procs
<1>3. /\ dir.cur = d /\ dir.may = Settled(d)
      /\ dir.may.leaf = {d.leaf} /\ dir.may.manifest = {d.manifest}
      /\ dir.may.receipt = {d.receipt}
  BY <1>1 DEF Settled
<1>4. Settled(d) \in Mays
  BY <1>2 DEF Settled, Mays, Dirs
<1>5. DirTyped
  BY <1>1, <1>2, <1>4 DEF DirTyped, CurrentMayStay, Settled
<1>6. Typed
  BY <1>5, OpenBounds, ProcsAssumption DEF Init, Typed, ProcsTyped, Roles, PCs, Procs
<1>7. ~ReceiptPossible
  BY <1>2, <1>3 DEF ReceiptPossible
<1>8. Sealing /\ Publishing
  BY <1>2, <1>3 DEF Init, Sealing, Publishing, Holders
<1>9. Archiving
  BY <1>2, <1>3 DEF Init, Archiving
<1>10. Carrying
  BY <1>7 DEF Init, Carrying
<1>11. Holding
  BY <1>2, <1>3, ProcsAssumption DEF Init, Holding, Procs
<1> QED
  BY <1>6, <1>8, <1>9, <1>10, <1>11 DEF IInv

\* So does a step that changes nothing.
LEMMA StutterKeeps ==
  ASSUME IInv, UNCHANGED vars
  PROVE  IInv' /\ (Holding => Holding')
  BY DEF vars, IInv, Typed, DirTyped, CurrentMayStay, ProcsTyped, Roles, Sealing, Sealed,
         Publishing, Archiving, ArchiveSure, Carrying, ReceiptPossible, Holding, IntentSure

\* Every step keeps the invariant.
LEMMA NextKeeps ==
  ASSUME IInv, [Next]_vars
  PROVE  IInv' /\ (Overlap = FALSE /\ Holding => Holding')
<1>1. CASE \E p \in Procs : Step(p)
  <2>1. PICK p \in Procs : Step(p)
    BY <1>1
  <2>2. IInv'
    BY <2>1, StepKeepsTypes, StepKeepsSealing, StepKeepsPublishing, StepKeepsArchiving,
       StepKeepsCarrying DEF IInv
  <2>3. ASSUME Overlap = FALSE, Holding PROVE Holding'
    BY <2>1, <2>3, StepKeepsHolding DEF IInv
  <2> QED
    BY <2>2, <2>3
<1>2. CASE PowerLoss
  BY <1>2, PowerLossKeeps
<1>3. CASE UNCHANGED vars
  BY <1>3, StutterKeeps
<1> QED
  BY <1>1, <1>2, <1>3 DEF Next, Step

\* The invariant holds in every reachable state.
LEMMA InvariantAlways == Spec => []IInv
<1>1. Init => IInv
  BY InitHolds
<1>2. IInv /\ [Next]_vars => IInv'
  BY NextKeeps
<1> QED
  BY <1>1, <1>2, PTL DEF Spec

\* Every variable keeps its type, and the migration lock is held exactly while
\* a migration runs (migrateLegacyV1).
THEOREM OpenTypeCorrect == Spec => []TypeOK
<1>1. IInv => TypeOK
  <2> SUFFICES ASSUME IInv PROVE TypeOK
    OBVIOUS
  <2>1. DirTyped
    BY DEF IInv, Typed
  <2>2. dir.cur \in Dirs /\ Outcomes(dir.may) \subseteq Dirs
    BY <2>1, OutcomesShape DEF DirTyped, Possible
  <2> QED
    BY <2>2 DEF IInv, Typed, ProcsTyped, TypeOK
<1> QED
  BY <1>1, InvariantAlways, PTL

\* Whatever runs at once and whatever is cut short, a published generation has
\* its key and its leaf, it is the only one anybody holds, the legacy bytes
\* have a name and a receipt is backed by the carried balance (initLedger,
\* ensureAttestKey, migrateLegacyV1).
THEOREM GenerationsAlwaysSound == Spec => []GenerationsSound
<1>1. IInv => GenerationsSound
  <2> SUFFICES ASSUME IInv PROVE GenerationsSound
    OBVIOUS
  <2>0. DirTyped
    BY DEF IInv, Typed
  <2>1. GenerationComplete
    BY <2>0, OutcomesShape DEF IInv, Sealing, Sealed, GenerationComplete
  <2>2. OneGeneration
    BY DEF IInv, Publishing, Holders, OneGeneration
  <2>3. LegacyKept
    <3> SUFFICES ASSUME legacy, NEW d \in Possible PROVE d.leaf = "v1" \/ d.archive
      BY DEF LegacyKept
    <3>1. d \in Dirs /\ d.leaf \in dir.may.leaf /\ d.archive \in dir.may.archive
      BY <2>0, OutcomesShape
    <3>2. CASE dir.may.leaf = {"v1"}
      BY <3>1, <3>2
    <3>3. CASE ArchiveSure
      BY <3>1, <3>3 DEF ArchiveSure, Dirs
    <3> QED
      BY <3>2, <3>3 DEF IInv, Archiving
  <2>4. CompletionMeansCarried
    <3> SUFFICES ASSUME NEW d \in Possible, d.receipt PROVE "carry" \in recs
      BY DEF CompletionMeansCarried
    <3>1. d \in Dirs /\ d.receipt \in dir.may.receipt
      BY <2>0, OutcomesShape
    <3>2. d.receipt = TRUE
      BY <3>1 DEF Dirs
    <3> QED
      BY <3>1, <3>2 DEF IInv, Carrying, ReceiptPossible
  <2> QED
    BY <2>1, <2>2, <2>3, <2>4 DEF GenerationsSound
<1> QED
  BY <1>1, InvariantAlways, PTL

\* When no run opens the ledger across the start of a migration, no call is
\* ever admitted against a budget that has forgotten the legacy balance
\* (pendingMigrationReason, initLedger's refusal of unowned bytes).
THEOREM BalanceAlwaysKept == ASSUME Overlap = FALSE PROVE Spec => []BalanceNeverForgotten
<1>1. Init => IInv /\ Holding
  BY InitHolds
<1>2. IInv /\ Holding /\ [Next]_vars => (IInv /\ Holding)'
  BY NextKeeps
<1>3. IInv /\ Holding => BalanceNeverForgotten
  BY DEF Holding, BalanceNeverForgotten
<1> QED
  BY <1>1, <1>2, <1>3, PTL DEF Spec

=============================================================================
