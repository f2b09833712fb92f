---------------------------- MODULE ControlStore ----------------------------
(***************************************************************************)
(* The canonical event store of a run (src/control/store.ts) and the       *)
(* processes that have it open.  The store is one SQLite file: the log of  *)
(* events, the projection tables, the settlement cursor and the snapshots. *)
(* A write is one IMMEDIATE transaction, so at most one is open and its    *)
(* changes (tx) reach the other connections only when it commits; a read   *)
(* sees the last commit.  better-sqlite3 is synchronous, so within one     *)
(* process nothing runs between the steps of a call, but another process   *)
(* may commit between its read and its write and a crash may cut it.       *)
(*                                                                         *)
(* A caller builds its batch from a projection it has read, calls one of   *)
(* appendBatch, appendBatchIf and appendBatchWithCursor and gets receipts  *)
(* or an error.  A caller that dies between the commit and the receipts    *)
(* may repeat exactly the same batch in its next life, as the callers with *)
(* deterministic event ids do (cutover, import, multi-repository facts).   *)
(***************************************************************************)
EXTENDS ControlReducer

CONSTANTS
    Clients,        \* the processes that open the store
    Ids,            \* event ids the callers may mint
    Batches,        \* what callers write in one call: sequences of events without id and fences
    Effects,        \* what a consumer writes along with its cursor
    Seeds,          \* histories the store may already hold
    MaxUpkeep       \* bound: snapshots and process deaths together

\* A history is one that the store has written: every event passed the checks of its insertion,
\* and none is the effect of the consumer, which has no cursor yet.
ASSUME SeedsAssumption ==
    \A h \in Seeds :
        /\ h \in Seq(ControlEvents)
        /\ Replays(h)
        /\ \A n \in 1 .. Len(h) :
              /\ validateFences(reduceControlEvents(emptyControlProjection, SubSeq(h, 1, n - 1)), h[n])
              /\ h[n].range = <<0, 0>>
        /\ \A m, n \in 1 .. Len(h) :
              h[m].id = h[n].id \/ (h[m].src = h[n].src /\ h[m].src # None) => m = n
ASSUME BatchesAssumption == \A b \in Batches : Len(b) \in Nat \ {0}
ASSUME ClientsAssumption == None \notin Clients
ASSUME MaxUpkeepAssumption == MaxUpkeep \in Nat

VARIABLES
    file,       \* what the path holds: nothing, an empty file, one with our application_id,
                \* or the whole schema
    log,        \* control_events; the sequence number is the index
    tables,     \* the projection tables and control_meta.head_seq
    cursor,     \* consumer_cursors: last_seq of the one consumer, 0 when it has no row
    snaps,      \* control_snapshots
    tx,         \* the open write transaction, or NoTx
    pc,         \* where a process is
    req,        \* the call a process has to make or is making, or NoReq
    scratch,    \* the log a rebuild has read
    acks,       \* history: receipts handed to callers
    fenced,     \* history: the head a fenced call had read and the head it wrote at
    upkeep      \* snapshots and deaths so far

vars == <<file, log, tables, cursor, snaps, tx, pc, req, scratch, acks, fenced, upkeep>>
store == <<file, log, tables, cursor, snaps>>

NoTx == [by |-> None]
NoReq == [mode |-> "none"]
NoScratch == [log |-> << >>, proj |-> emptyControlProjection]

Modes == {"append", "head", "cursor"}
PcValues == {"closed", "create", "stamp", "idle", "called", "writing", "committed", "rebuild",
             "replace"}

\* The facts of a running session are written with appendBatchIf, the others with appendBatch.
ModeOf(type) ==
    IF type \in AttemptTypes \cup SteeringTypes \cup {"runtime.observed"} THEN "head" ELSE "append"

\* The position of event id i in log l, or 0.
SeqOf(l, i) ==
    IF \E n \in 1 .. Len(l) : l[n].id = i
    THEN CHOOSE n \in 1 .. Len(l) : l[n].id = i
    ELSE 0

Replayed(l) == reduceControlEvents(emptyControlProjection, l)

-----------------------------------------------------------------------------
(* Opening.  validateStorePath creates the file, bootstrap first stamps it  *)
(* with the application id and then writes schema and metadata in one       *)
(* transaction.                                                             *)

CreateFile(c) ==
    /\ pc[c] = "closed" /\ file = "absent"
    /\ file' = "empty"
    /\ pc' = [pc EXCEPT ![c] = "create"]
    /\ UNCHANGED <<log, tables, cursor, snaps, tx, req, scratch, acks, fenced, upkeep>>

StampFile(c) ==
    /\ pc[c] = "create"
    /\ file' = "stamped"
    /\ pc' = [pc EXCEPT ![c] = "stamp"]
    /\ UNCHANGED <<log, tables, cursor, snaps, tx, req, scratch, acks, fenced, upkeep>>

\* Where an open store finds its process: a call left over from an earlier life is made again.
Opened(c) == IF req[c] = NoReq THEN "idle" ELSE "called"

Bootstrap(c) ==
    /\ pc[c] = "stamp"
    /\ file' = "ready"
    /\ pc' = [pc EXCEPT ![c] = Opened(c)]
    /\ UNCHANGED <<log, tables, cursor, snaps, tx, req, scratch, acks, fenced, upkeep>>

\* An existing file must carry the application id and the schema, and the tables must be what
\* the log replays to (recoveryMode "verify"); otherwise open throws and the process stays out.
OpenExisting(c) ==
    /\ pc[c] = "closed" /\ file = "ready"
    /\ Replay(emptyControlProjection, log) = [state |-> tables, ok |-> TRUE]
    /\ pc' = [pc EXCEPT ![c] = Opened(c)]
    /\ UNCHANGED <<store, tx, req, scratch, acks, fenced, upkeep>>

-----------------------------------------------------------------------------
(* Calling.  A caller reads the projection and composes its batch from it:  *)
(* the generations and the versions it expects are the ones it has read.    *)

\* The later events of an attempt carry the generation the attempt was prepared under.
TaskGenOf(p, i) ==
    IF i.task = None THEN 0
    ELSE IF i.type = "task.created" THEN 1
    ELSE IF i.type \in AttemptTypes \ {"attempt.prompt_prepared"} THEN p.attempts[i.key].tgen
    ELSE p.tasks[i.task].gen

\* A session is observed at its present generation, or at the next one when that has exited.
SessionGenOf(p, i) ==
    IF i.sess = None THEN 0
    ELSE LET r == p.runtimes[i.sess]
         IN  IF i.type = "runtime.observed" /\ i.st # "exited" /\ r.obs \in {"none", "exited"}
             THEN r.gen + 1
             ELSE r.gen

NumberOf(p, i) ==
    CASE i.type = "task.reopened" -> p.tasks[i.task].gen + 1
      [] i.type = "attempt.prompt_prepared" ->
            CHOOSE n \in 1 .. Cardinality(Attempts) + 1 :
                NextAttempt(p, i.task, p.tasks[i.task].gen, n)
      [] i.type \in AttemptTypes \ {"attempt.prompt_prepared"} -> p.attempts[i.key].gen
      [] OTHER -> 0

Compose(p, i, id, range) ==
    LET tgen == TaskGenOf(p, i)
        sgen == SessionGenOf(p, i)
        key  == IF i.type = "message.posted" THEN id ELSE i.key
        e    == Event(id, i, tgen, sgen, 0, key, NumberOf(p, i), range)
    IN  [e EXCEPT !.ver = VersionOf(p, aggregateForEvent(e))]

\* The events of batch b under ids id, each composed on top of the ones before it.
ComposeAll(p, b, id) ==
    LET f[n \in 0 .. Len(b)] ==
            IF n = 0 THEN << >>
            ELSE LET before == f[n - 1]
                 IN  Append(before, Compose(reduceControlEvents(p, before), b[n], id[n], <<0, 0>>))
    IN  f[Len(b)]

\* The bound on generations.
Bounded(e) ==
    /\ aggregateForEvent(e) \in Keys
    /\ e.type = "task.reopened" => e.num \in Generations

\* A caller writes what its own reading of the projection allows.
Sensible(p, batch) ==
    /\ \A n \in 1 .. Len(batch) : Bounded(batch[n])
    /\ Replay(p, batch).ok

\* The call, once parseEvents has accepted the batch.
Call(c, mode, batch, next) ==
    /\ batch \in Seq(ControlEvents)
    /\ req' = [req EXCEPT ![c] = [mode |-> mode, batch |-> batch, head |-> tables.head,
                                  from |-> cursor, next |-> next, got |-> {}]]
    /\ pc' = [pc EXCEPT ![c] = "called"]
    /\ UNCHANGED <<store, tx, scratch, acks, fenced, upkeep>>

\* append, appendBatch and appendBatchIf.
CallAppend(c) ==
    /\ pc[c] = "idle"
    /\ \E b \in Batches :
        \E id \in [1 .. Len(b) -> Ids] :
            /\ \A m, n \in 1 .. Len(b) : id[m] = id[n] => m = n
            /\ LET batch == ComposeAll(tables, b, id)
               IN  Sensible(tables, batch) /\ Call(c, ModeOf(b[1].type), batch, 0)

\* appendBatchWithCursor: a consumer has read the events after its cursor up to the exit of an
\* attempt and records that it has settled them together with the effect.
CallConsume(c) ==
    /\ pc[c] = "idle"
    /\ \E next \in cursor + 1 .. Len(log), i \in Effects, id \in Ids :
        /\ log[next].type = "attempt.exited"
        /\ LET batch == <<Compose(tables, i, id, <<cursor, next>>)>>
           IN  Sensible(tables, batch) /\ Call(c, "cursor", batch, next)

\* advanceConsumerCursor: everything up to the head needs no effect.
CallSkip(c) ==
    /\ pc[c] = "idle" /\ cursor < tables.head
    /\ Call(c, "cursor", << >>, tables.head)

-----------------------------------------------------------------------------
(* commitParsed: one transaction.  It starts from the tables, takes the     *)
(* events one by one, then moves the cursor and commits.                    *)

\* A retry that goes by the event id alone.
SameEvent_IdOnly(l, n, e) == l[n].id = e.id

\* validateExistingEvent: the logged event is the one that is offered again.
SameEvent(l, n, e) == l[n] = e

Existing(e) == SeqOf(log, e.id) # 0 /\ SameEvent(log, SeqOf(log, e.id), e)

Receipts(l, batch) == {[event |-> batch[n], seq |-> SeqOf(l, batch[n].id)] : n \in 1 .. Len(batch)}

\* The head the caller has read is still the head.
HeadFence(r) == r.mode = "head" => tables.head = r.head

BeginTx(c) ==
    /\ pc[c] = "called" /\ tx = NoTx
    /\ HeadFence(req[c])
    /\ tx' = [by |-> c, rest |-> req[c].batch, log |-> log, mem |-> tables, tab |-> tables]
    /\ pc' = [pc EXCEPT ![c] = "writing"]
    /\ UNCHANGED <<store, req, scratch, acks, fenced, upkeep>>

\* A stale caller gets receipts when its whole batch is already logged, and nothing otherwise.
StaleHead(c) ==
    /\ pc[c] = "called" /\ tx = NoTx
    /\ ~HeadFence(req[c])
    /\ LET batch == req[c].batch
       IN  IF \A n \in 1 .. Len(batch) : Existing(batch[n])
           THEN /\ req' = [req EXCEPT ![c].got = Receipts(log, batch)]
                /\ pc' = [pc EXCEPT ![c] = "committed"]
           ELSE /\ pc' = [pc EXCEPT ![c] = "idle"]
                /\ req' = [req EXCEPT ![c] = NoReq]
    /\ UNCHANGED <<store, tx, scratch, acks, fenced, upkeep>>

\* The call throws, and its transaction with everything it did is gone.
Rollback(c) ==
    /\ tx' = NoTx
    /\ pc' = [pc EXCEPT ![c] = "idle"]
    /\ req' = [req EXCEPT ![c] = NoReq]
    /\ UNCHANGED <<store, scratch, acks, fenced, upkeep>>

\* The busy timeout runs out while another process writes (STORE_BUSY).
StoreBusy(c) ==
    /\ pc[c] = "called" /\ tx # NoTx
    /\ pc' = [pc EXCEPT ![c] = "idle"]
    /\ req' = [req EXCEPT ![c] = NoReq]
    /\ UNCHANGED <<store, tx, scratch, acks, fenced, upkeep>>

\* An event that is already logged is skipped when it is the same, and a conflict otherwise.
MeetEvent(c) ==
    /\ tx.by = c /\ tx.rest # << >>
    /\ LET e == Head(tx.rest)
           n == SeqOf(tx.log, e.id)
       IN  /\ n # 0
           /\ IF SameEvent(tx.log, n, e)
              THEN /\ tx' = [tx EXCEPT !.rest = Tail(@)]
                   /\ UNCHANGED <<store, pc, req, scratch, acks, fenced, upkeep>>
              ELSE Rollback(c)

\* An external source identity belongs to one event.
SourceFree(l, e) == e.src = None \/ \A n \in 1 .. Len(l) : l[n].src # e.src

InsertEvent(c) ==
    /\ tx.by = c /\ tx.rest # << >>
    /\ LET e == Head(tx.rest)
           p == applyControlEvent(tx.mem, e)
       IN  /\ SeqOf(tx.log, e.id) = 0
           /\ IF SourceFree(tx.log, e) /\ validateFences(tx.mem, e)
                 /\ Reducible(tx.mem, e, Len(tx.log) + 1)
              THEN /\ tx' = [tx EXCEPT !.rest = Tail(@), !.log = Append(@, e), !.mem = p,
                                       !.tab = persistProjectionDelta(@, p, e)]
                   /\ UNCHANGED <<store, pc, req, scratch, acks, fenced, upkeep>>
              ELSE Rollback(c)

\* A consumer whose cursor is moved whatever it holds.
CursorFence_Any(r) == r.mode = "cursor" => r.next <= tables.head

\* The cursor is where the caller has read it and stays within the log as it was.
CursorFence(r) == r.mode = "cursor" => r.next <= tables.head /\ r.from = cursor

\* The patched tables with control_meta.head_seq.
Patched(t) ==
    [head |-> t.mem.head, run |-> t.tab.run, tasks |-> t.tab.tasks, messages |-> t.tab.messages,
     runtimes |-> t.tab.runtimes, attempts |-> t.tab.attempts, steering |-> t.tab.steering,
     versions |-> t.tab.versions]

Commit(c) ==
    /\ tx.by = c /\ tx.rest = << >>
    /\ LET r == req[c]
       IN  IF CursorFence(r)
           THEN /\ log' = tx.log
                /\ tables' = Patched(tx)
                /\ cursor' = IF r.mode = "cursor" THEN r.next ELSE cursor
                /\ req' = [req EXCEPT ![c].got = Receipts(tx.log, r.batch)]
                /\ fenced' = IF r.mode = "head" /\ tx.log # log
                             THEN fenced \cup {[read |-> r.head, wrote |-> Len(log)]} ELSE fenced
                /\ tx' = NoTx
                /\ pc' = [pc EXCEPT ![c] = "committed"]
                /\ UNCHANGED <<file, snaps, scratch, acks, upkeep>>
           ELSE Rollback(c)

\* An I/O error or a full disk in the middle of a transaction.
SqliteFails(c) == tx.by = c /\ Rollback(c)

\* The call returns its receipts.
Return(c) ==
    /\ pc[c] = "committed"
    /\ acks' = acks \cup req[c].got
    /\ pc' = [pc EXCEPT ![c] = "idle"]
    /\ req' = [req EXCEPT ![c] = NoReq]
    /\ UNCHANGED <<store, tx, scratch, fenced, upkeep>>

-----------------------------------------------------------------------------
(* Snapshots and the rebuilding of the tables.                              *)

createSnapshot(c) ==
    /\ pc[c] = "idle" /\ tx = NoTx
    /\ tables = Replayed(log)
    /\ \A s \in snaps : s.head # tables.head
    /\ upkeep < MaxUpkeep
    /\ upkeep' = upkeep + 1
    /\ snaps' = snaps \cup {tables}
    /\ UNCHANGED <<file, log, tables, cursor, tx, pc, req, scratch, acks, fenced>>

\* rebuildProjections reads the log outside any transaction ...
RebuildRead(c) ==
    /\ pc[c] = "idle"
    /\ scratch' = [scratch EXCEPT ![c] = [log |-> log, proj |-> emptyControlProjection]]
    /\ pc' = [pc EXCEPT ![c] = "rebuild"]
    /\ UNCHANGED <<store, tx, req, acks, fenced, upkeep>>

Latest == CHOOSE s \in snaps : \A o \in snaps : o.head <= s.head

\* ... then the latest snapshot, which must be what the log it has read replays to ...
RebuildReplay(c) ==
    /\ pc[c] = "rebuild"
    /\ LET l == scratch[c].log
           Upto(n) == SubSeq(l, 1, IF n < Len(l) THEN n ELSE Len(l))
       IN  IF snaps # {} /\ Replayed(Upto(Latest.head)) # Latest
           THEN /\ pc' = [pc EXCEPT ![c] = "idle"]
                /\ scratch' = [scratch EXCEPT ![c] = NoScratch]
           ELSE /\ scratch' = [scratch EXCEPT ![c].proj =
                        IF snaps = {} THEN Replayed(l)
                        ELSE reduceControlEvents(Latest, SubSeq(l, Latest.head + 1, Len(l)))]
                /\ pc' = [pc EXCEPT ![c] = "replace"]
    /\ UNCHANGED <<store, tx, req, acks, fenced, upkeep>>

\* A rebuild that trusts the log it has read.
RebuildFence_None(c) == TRUE

\* ... and replaces the tables in a transaction, unless the log has grown in the meantime.
RebuildFence(c) == Len(log) = scratch[c].proj.head

RebuildWrite(c) ==
    /\ pc[c] = "replace" /\ tx = NoTx
    /\ tables' = IF RebuildFence(c) THEN scratch[c].proj ELSE tables
    /\ pc' = [pc EXCEPT ![c] = "idle"]
    /\ scratch' = [scratch EXCEPT ![c] = NoScratch]
    /\ UNCHANGED <<file, log, cursor, snaps, tx, req, acks, fenced, upkeep>>

-----------------------------------------------------------------------------
\* A process dies.  SQLite rolls its transaction back; the call it was making is made again in
\* its next life, or forgotten.
Crash(c) ==
    /\ pc[c] # "closed" /\ upkeep < MaxUpkeep
    /\ upkeep' = upkeep + 1
    /\ pc' = [pc EXCEPT ![c] = "closed"]
    /\ tx' = IF tx.by = c THEN NoTx ELSE tx
    /\ \E again \in {NoReq} \cup {[r EXCEPT !.got = {}] : r \in {req[c]} \ {NoReq}} :
          req' = [req EXCEPT ![c] = again]
    /\ scratch' = [scratch EXCEPT ![c] = NoScratch]
    /\ UNCHANGED <<store, acks, fenced>>

Close(c) ==
    /\ pc[c] = "idle"
    /\ pc' = [pc EXCEPT ![c] = "closed"]
    /\ UNCHANGED <<store, tx, req, scratch, acks, fenced, upkeep>>

Init ==
    /\ log \in Seeds
    /\ file = IF log = << >> THEN "absent" ELSE "ready"
    /\ tables = Replayed(log)
    /\ cursor = 0
    /\ snaps = {}
    /\ tx = NoTx
    /\ pc = [c \in Clients |-> "closed"]
    /\ req = [c \in Clients |-> NoReq]
    /\ scratch = [c \in Clients |-> NoScratch]
    /\ acks = {} /\ fenced = {} /\ upkeep = 0

Next ==
    \E c \in Clients :
        \/ CreateFile(c) \/ StampFile(c) \/ Bootstrap(c) \/ OpenExisting(c)
        \/ CallAppend(c) \/ CallConsume(c) \/ CallSkip(c)
        \/ BeginTx(c) \/ StaleHead(c) \/ StoreBusy(c)
        \/ MeetEvent(c) \/ InsertEvent(c) \/ Commit(c) \/ SqliteFails(c)
        \/ Return(c)
        \/ createSnapshot(c)
        \/ RebuildRead(c) \/ RebuildReplay(c) \/ RebuildWrite(c)
        \/ Crash(c) \/ Close(c)

Spec == Init /\ [][Next]_vars

-----------------------------------------------------------------------------
(* What must hold.                                                          *)

TxOK == tx = NoTx \/ (tx.by \in Clients /\ pc[tx.by] = "writing")

\* Types, and an open transaction belongs to the process that is writing.
TypeOK ==
    /\ file \in {"absent", "empty", "stamped", "ready"}
    /\ cursor \in 0 .. Len(log)
    /\ tables.head = Len(log)
    /\ pc \in [Clients -> PcValues]
    /\ \A c \in Clients : req[c] = NoReq \/ req[c].mode \in Modes
    /\ TxOK
    /\ upkeep \in 0 .. MaxUpkeep

\* The tables that commitParsed patches row by row, and every snapshot, are what the reducer
\* makes of the log, also while projections are rebuilt next to an appender (rebuildProjections):
\* otherwise openControlStore refuses the store and the run is lost.
ProjectionIsFold ==
    /\ Replay(emptyControlProjection, log) = [state |-> tables, ok |-> TRUE]
    /\ \A s \in snaps : s = Replayed(SubSeq(log, 1, s.head))

\* A receipt names the event the caller offered and the place where the log holds it, through
\* every retry, crash and reuse of an id (validateExistingEvent, appendBatchIf's stale branch).
ReceiptsHold == \A a \in acks : a.seq \in 1 .. Len(log) /\ log[a.seq] = a.event

\* No event is handled twice by the consumer: the ranges its effects stand for do not overlap
\* and end at or before the cursor, so effect and cursor moved together (appendBatchWithCursor).
ConsumedOnce ==
    LET effects == {n \in 1 .. Len(log) : log[n].range # <<0, 0>>}
    IN  /\ \A n \in effects : log[n].range[2] <= cursor
        /\ \A m, n \in effects :
              m < n => log[m].range[2] <= log[n].range[1] \/ log[n].range[2] <= log[m].range[1]

\* A caller that passed expectedHeadSeq never adds to a log it has not read (appendBatchIf).
HeadFenced == \A f \in fenced : f.read = f.wrote

\* Once a task is reopened nothing more is logged for its old generation, except the refusal of
\* a command, however late a writer of that generation comes (validateFences).
StaleWritersFenced ==
    \A m, n \in 1 .. Len(log) :
        m < n /\ log[m].type = "task.reopened" /\ log[n].task = log[m].task
          /\ log[n].tgen <= log[m].tgen
        => log[n].type \in {"steering.command_refused", "steering.command_terminal_refused"}

\* Nothing is written from a stale reading: not over a head that moved, not for a generation
\* that ended, and not for a range of events that was consumed already.
WritersFenced == HeadFenced /\ StaleWritersFenced /\ ConsumedOnce

EL == INSTANCE EventLog WITH log <- log, cursor <- cursor, None <- None

\* The store, with its transactions, retries, crashes and rebuilds, implements the event log
\* that its callers rely on.
ImplementsEventLog == EL!Spec
=============================================================================
