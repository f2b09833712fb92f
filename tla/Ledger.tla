------------------------------- MODULE Ledger -------------------------------
(***************************************************************************)
(* The budget ledger of a run: src/ledger.ts (the journal, its write-ahead *)
(* log, the transaction, reconciliation), src/settlement-kernel.ts (how a  *)
(* completed call is settled) and the call path of src/orchestrator.ts     *)
(* that drives them.  Several processes share one ledger directory; each   *)
(* one is a handle.  A transaction is taken apart at every point where it  *)
(* can fail or the machine can stop; the kernel lock on the leaf keeps     *)
(* other handles out between "locked" and the end of the transaction.      *)
(*                                                                         *)
(* Abstracted: hashes, MACs and nonces (a record is its own hash; a call   *)
(* id stands for its binding, so identity mismatches are not modelled);    *)
(* money is a small natural number of nano-USD.                            *)
(***************************************************************************)
EXTENDS DurableFile, FiniteSets, FiniteSetsExt

CONSTANTS
  Handles,        \* processes that opened the ledger
  Calls,          \* provider calls, identified by their call id
  Budget,         \* budgetUsd; 0 is unlimited
  WorstCase,      \* [Calls -> Nat], what each call reserves
  Overrun,        \* how far a provider may exceed its worst case
  StrongScope,    \* the host can contain providers in a cgroup
  MaxFaults,      \* bound: failed or cut-short IO, crashes, power losses, moves
  MaxReconciles   \* bound: operator reconciliations

None == "none"
Unreported == -1

ASSUME CallsAssumption == IsFiniteSet(Calls) /\ None \notin Handles
ASSUME MoneyAssumption ==
  /\ Budget \in Nat
  /\ WorstCase \in [Calls -> Nat]
  /\ Overrun \in Nat
ASSUME BoundAssumption ==
  /\ StrongScope \in BOOLEAN
  /\ MaxFaults \in Nat
  /\ MaxReconciles \in Nat

VARIABLES
  leaf,       \* the journal file
  wal,        \* the write-ahead log file
  visible,    \* the leaf's name still resolves to the published inode
  lock,       \* the handle that holds the exclusive kernel lock, or None
  pc,         \* where each handle is in its transaction
  op,         \* the record each handle wants to append
  tries,      \* settlement attempts each handle has left
  poisoned,   \* poisonReason is set in the handle
  caller,     \* the handle whose turn runs the call, or None
  alive,      \* the provider's process scope holds a process
  paid,       \* what the provider has really charged so far
  reported,   \* the cost in the transcript's terminal record, or Unreported
  faults, reconciles

\* History: what transactions answered, and what was proven or accepted.
VARIABLES acked, trusted

files   == <<leaf, wal>>
control == <<lock, pc, op, tries, poisoned>>
turns   == <<caller, alive, paid, reported>>
history == <<acked, trusted>>
bounds  == <<faults, reconciles>>
vars    == <<leaf, wal, visible, lock, pc, op, tries, poisoned,
             caller, alive, paid, reported, faults, reconciles, acked, trusted>>

Amounts == Nat

Reserves == [type : {"reserve"}, call : Calls, worst : Amounts, enforced : BOOLEAN]
Settles  == [type : {"settle"}, call : Calls,
             kind : {"uncertain", "accounted", "fallback"}, usd : Amounts]
Records  == Reserves \cup Settles

WalRecords == [t : {"intent", "commit"}, rec : Records] \cup [t : {"poison", "recovered"}]

NoOp == [type |-> "nop"]

-----------------------------------------------------------------------------
(* The folds.                                                              *)

ReservedIn(recs, c) == \E i \in DOMAIN recs : recs[i].type = "reserve" /\ recs[i].call = c
SettledIn(recs, c)  == \E i \in DOMAIN recs : recs[i].type = "settle" /\ recs[i].call = c

\* The transitions foldReservations accepts; any other journal is corrupt.
WellFormed(recs) ==
  \A i \in DOMAIN recs :
    LET before == {recs[j] : j \in 1..(i - 1)}
        same   == {r \in before : r.call = recs[i].call}
    IN  IF recs[i].type = "reserve"
          THEN same = {}
          ELSE /\ \E r \in same : r.type = "reserve"
               /\ \A r \in same : r.type # "settle"

\* foldContent followed by foldReservations: throws on a terminated bad line.
foldContent(x) == x.tail # "junk" /\ WellFormed(x.recs)

ReserveOf(recs, c) == CHOOSE r \in {recs[i] : i \in DOMAIN recs} : r.type = "reserve" /\ r.call = c
SettleOf(recs, c)  == CHOOSE r \in {recs[i] : i \in DOMAIN recs} : r.type = "settle" /\ r.call = c

costIsTrusted(r) == r.kind = "accounted"

Charge(recs, c) ==
  IF SettledIn(recs, c) /\ costIsTrusted(SettleOf(recs, c))
    THEN SettleOf(recs, c).usd
    ELSE ReserveOf(recs, c).worst

spendOf(recs) ==
  MapThenSumSet(LAMBDA c : Charge(recs, c), {c \in Calls : ReservedIn(recs, c)})

\* foldWal: an intent nothing after it commits or recovers; a poison nothing recovers.
WalPending(recs) ==
  \E i \in DOMAIN recs :
    /\ recs[i].t = "intent"
    /\ \A j \in DOMAIN recs : j > i => recs[j].t \notin {"commit", "recovered"}

WalPoison(recs) ==
  \E i \in DOMAIN recs :
    /\ recs[i].t = "poison"
    /\ \A j \in DOMAIN recs : j > i => recs[j].t # "recovered"

WalReadable(x) == x.tail # "junk"

\* Mutant: a dangling intent is not refused.
Answers_IgnoresIntent(w, x) == WalReadable(w) /\ ~WalPoison(w.recs) /\ foldContent(x)

\* Steps 5 and 6 of a transaction, and every read: refuse what is not proven.
Answers(w, x) ==
  /\ WalReadable(w)
  /\ ~WalPoison(w.recs)
  /\ ~WalPending(w.recs)
  /\ foldContent(x)

\* LedgerHandle.read: an ordinary authoritative read succeeds.
CanRead(h) == ~poisoned[h] /\ visible /\ lock = None /\ Answers(wal.cur, leaf.cur)

-----------------------------------------------------------------------------
(* The settlement kernel's judgement of a completed call.                  *)

\* What the transport hands over, one field per group of checks.
Evidence ==
  [bound      : BOOLEAN,   \* adapter and egress identities match the reservation
   transport  : BOOLEAN,   \* no framing fatal, transport sound, an exit code, scope trusted
   stdin      : BOOLEAN,   \* the delivered prompt is the reserved one
   reaped     : BOOLEAN,   \* a scope id with its reap proof
   transcript : BOOLEAN,   \* re-read confined, same bytes and hash
   agrees     : BOOLEAN,   \* the replayed verdict and frames equal the live ones
   verdict    : {"success", "limit", "failed"},
   exit0      : BOOLEAN,
   costed     : BOOLEAN,   \* a cost was reported and is exact fixed point
   claude     : BOOLEAN]

settleCompletedCall(e) ==
  LET sound == e.bound /\ e.transport /\ e.stdin /\ e.reaped /\ e.transcript /\ e.agrees
  IN  IF sound /\ e.verdict = "success" /\ e.exit0 /\ e.costed THEN "accounted"
      ELSE IF sound /\ e.verdict = "limit" /\ e.claude THEN "fallback"
      ELSE "uncertain"

KernelKinds == {settleCompletedCall(e) : e \in Evidence}

\* A probe of a cgroup sees every process; a process group loses sight of a daemon.
scopeAlive(c, backend) == IF backend = "cgroup2" THEN {alive[c]} ELSE {alive[c], FALSE}

\* Mutant: a process-group scope is accepted on a host with cgroups.
assertMintable_Downgrades(backend, seen) == ~seen

assertMintable(backend, seen) == ~(backend = "pgid" /\ StrongScope) /\ ~seen

-----------------------------------------------------------------------------
\* The types; a settlement is tried at most twice (the kernel's mint, then the
\* orchestrator's finally block).
TypeOK ==
  /\ leaf \in Files(Records)
  /\ wal \in Files(WalRecords)
  /\ visible \in BOOLEAN
  /\ lock \in Handles \cup {None}
  /\ pc \in [Handles -> {"idle", "opened", "intent", "append", "publish",
                         "commit", "poison", "retry"}]
  /\ op \in [Handles -> Records \cup {NoOp}]
  /\ tries \in [Handles -> 0..2]
  /\ poisoned \in [Handles -> BOOLEAN]
  /\ caller \in [Calls -> Handles \cup {None}]
  /\ alive \in [Calls -> BOOLEAN]
  /\ paid \in [Calls -> Nat]
  /\ reported \in [Calls -> Nat \cup {Unreported}]
  /\ faults \in 0..MaxFaults
  /\ reconciles \in 0..MaxReconciles
  /\ acked \in SUBSET Records
  /\ trusted \in SUBSET Records

\* openLedger has published an empty journal and write-ahead log.
Init ==
  /\ leaf = Synced(Empty)
  /\ wal = Synced(Empty)
  /\ visible = TRUE
  /\ lock = None
  /\ pc = [h \in Handles |-> "idle"]
  /\ op = [h \in Handles |-> NoOp]
  /\ tries = [h \in Handles |-> 0]
  /\ poisoned = [h \in Handles |-> FALSE]
  /\ caller = [c \in Calls |-> None]
  /\ alive = [c \in Calls |-> FALSE]
  /\ paid = [c \in Calls |-> 0]
  /\ reported = [c \in Calls |-> Unreported]
  /\ faults = 0
  /\ reconciles = 0
  /\ acked = {}
  /\ trusted = {}

Fault(n) == faults' = faults + n /\ faults' <= MaxFaults

-----------------------------------------------------------------------------
(* Starting a transaction.                                                 *)

\* reserve(): the amounts are valid; the handle passes assertUsable, rewalk
\* and openLeafVerified.  A handle that fails one of them throws unchanged.
Reserve(h, c) ==
  /\ pc[h] = "idle"
  /\ ~poisoned[h]
  /\ visible
  /\ caller[c] = None
  /\ pc' = [pc EXCEPT ![h] = "opened"]
  /\ op' = [op EXCEPT ![h] =
              [type |-> "reserve", call |-> c, enforced |-> Budget > 0,
               worst |-> IF Budget > 0 THEN WorstCase[c] ELSE 0]]
  /\ UNCHANGED <<files, visible, lock, tries, poisoned, turns, bounds, history>>

SettleRecord(c, kind) ==
  [type |-> "settle", call |-> c, kind |-> kind,
   usd |-> IF kind = "accounted" THEN reported[c] ELSE 0]

\* The turn ended in process h: settleCompleted, or settleUncertain when there
\* is no verdict.  A mint the ledger refuses goes to the kernel's retry.
SettleCompleted(h, c) ==
  /\ pc[h] = "idle"
  /\ caller[c] = h
  /\ \E k \in KernelKinds, backend \in {"cgroup2", "pgid"} :
       \E seen \in scopeAlive(c, backend), again \in scopeAlive(c, backend) :
         LET kind == IF seen THEN "uncertain" ELSE k
             mint == kind # "uncertain"
         IN  /\ kind = "accounted" => reported[c] # Unreported
             /\ op' = [op EXCEPT ![h] = SettleRecord(c, kind)]
             /\ tries' = [tries EXCEPT ![h] = IF mint THEN 2 ELSE 1]
             /\ pc' = [pc EXCEPT ![h] =
                        IF (mint => assertMintable(backend, again)) /\ ~poisoned[h] /\ visible
                          THEN "opened" ELSE "retry"]
  /\ UNCHANGED <<files, visible, lock, poisoned, turns, bounds, history>>

\* Mutant: a refused mint is not retried.
Retry_GivesUp(h) ==
  /\ pc[h] = "retry"
  /\ pc' = [pc EXCEPT ![h] = "idle"]
  /\ op' = [op EXCEPT ![h] = NoOp]
  /\ caller' = [caller EXCEPT ![op[h].call] = None]
  /\ UNCHANGED <<files, visible, lock, tries, poisoned, alive, paid, reported, bounds, history>>

\* The call path around a settlement that threw: the kernel's mint wrapper,
\* then the orchestrator's finally block.  Each asks settlementOf first.
Retry(h) ==
  /\ pc[h] = "retry"
  /\ LET c       == op[h].call
         settled == SettledIn(leaf.cur.recs, c)
         giveUp  == tries[h] = 0 \/ (CanRead(h) /\ settled)
     IN  \/ /\ giveUp
            /\ pc' = [pc EXCEPT ![h] = "idle"]
            /\ op' = [op EXCEPT ![h] = NoOp]
            /\ caller' = [caller EXCEPT ![c] = None]
            /\ UNCHANGED tries
         \/ /\ ~giveUp /\ CanRead(h)
            /\ pc' = [pc EXCEPT ![h] = "opened"]
            /\ op' = [op EXCEPT ![h] = SettleRecord(c, "uncertain")]
            /\ tries' = [tries EXCEPT ![h] = tries[h] - 1]
            /\ UNCHANGED caller
         \/ /\ ~giveUp /\ ~CanRead(h) /\ lock = None
            /\ tries' = [tries EXCEPT ![h] = tries[h] - 1]
            /\ UNCHANGED <<pc, op, caller>>
  /\ UNCHANGED <<files, visible, lock, poisoned, alive, paid, reported, bounds, history>>

-----------------------------------------------------------------------------
(* The transaction.                                                        *)

\* A throw that leaves the transaction.
Thrown(h) ==
  /\ pc' = [pc EXCEPT ![h] = IF op[h].type = "settle" THEN "retry" ELSE "idle"]
  /\ op' = [op EXCEPT ![h] = IF op[h].type = "settle" THEN op[h] ELSE NoOp]

\* Mutants: the new worst case is left out of the sum; a second settle is let in.
Decision_ForgetsWorst(h) ==
  IF op[h].type = "reserve"
    THEN IF ReservedIn(leaf.cur.recs, op[h].call) THEN "throw"
         ELSE IF op[h].enforced /\ spendOf(leaf.cur.recs) > Budget THEN "deny"
         ELSE "append"
    ELSE IF SettledIn(leaf.cur.recs, op[h].call) THEN "throw" ELSE "append"

\* The decision of reserve() and appendSettlement() under the lock.
Decision(h) ==
  LET recs == leaf.cur.recs
      c    == op[h].call
  IN  IF op[h].type = "reserve"
        THEN IF ReservedIn(recs, c) THEN "throw"
             ELSE IF op[h].enforced /\ spendOf(recs) + op[h].worst > Budget THEN "deny"
             ELSE "append"
        ELSE IF ReservedIn(recs, c) /\ ~SettledIn(recs, c) THEN "append" ELSE "throw"

\* Steps 3 to 6: lock, the visible leaf, the WAL refusals, fold and decide.
LockAndDecide(h) ==
  /\ pc[h] = "opened"
  /\ lock = None
  /\ LET open == visible /\ Answers(wal.cur, leaf.cur)
     IN  \/ /\ open /\ Decision(h) = "append"
            /\ lock' = h
            /\ pc' = [pc EXCEPT ![h] = "intent"]
            /\ UNCHANGED op
         \/ /\ open /\ Decision(h) = "deny"
            /\ pc' = [pc EXCEPT ![h] = "idle"]
            /\ op' = [op EXCEPT ![h] = NoOp]
            /\ UNCHANGED lock
         \/ /\ open => Decision(h) = "throw"
            /\ Thrown(h)
            /\ UNCHANGED lock
  /\ UNCHANGED <<files, visible, tries, poisoned, turns, bounds, history>>

\* takeLock gives up after LOCK_TIMEOUT_MS while another handle holds the lock.
LockTimeout(h) ==
  /\ pc[h] = "opened"
  /\ lock # None
  /\ Fault(1)
  /\ Thrown(h)
  /\ UNCHANGED <<files, visible, lock, tries, poisoned, turns, reconciles, history>>

\* Step 7: the write-ahead intent, durable before the leaf is touched.
WalIntent(h) ==
  /\ pc[h] = "intent"
  /\ \E o \in AppendOutcomes(wal, [t |-> "intent", rec |-> op[h]]) :
       /\ wal' = o.file
       /\ IF o.ok
            THEN /\ pc' = [pc EXCEPT ![h] = "append"]
                 /\ UNCHANGED <<op, lock, faults>>
            ELSE Thrown(h) /\ lock' = None /\ Fault(1)
  /\ UNCHANGED <<leaf, visible, tries, poisoned, turns, reconciles, history>>

\* Mutant: a failed fsync of the leaf goes unnoticed.
LeafAppend_Unsynced(h) ==
  /\ pc[h] = "append"
  /\ \E o \in AppendOutcomes(leaf, op[h]) :
       /\ leaf' = o.file
       /\ Fault(IF o.ok THEN 0 ELSE 1)
  /\ pc' = [pc EXCEPT ![h] = "publish"]
  /\ UNCHANGED <<wal, visible, lock, op, tries, poisoned, turns, reconciles, history>>

\* Steps 8 and 9: drop the torn tail, append, fsync, read back.
LeafAppend(h) ==
  /\ pc[h] = "append"
  /\ \E o \in AppendOutcomes(leaf, op[h]) :
       /\ leaf' = o.file
       /\ pc' = [pc EXCEPT ![h] = IF o.ok THEN "publish" ELSE "poison"]
       /\ Fault(IF o.ok THEN 0 ELSE 1)
  /\ UNCHANGED <<wal, visible, lock, op, tries, poisoned, turns, reconciles, history>>

\* Steps 10 and 11: directory fsync, then the record at the visible path.
assertPublishedAfterFsync(h) ==
  /\ pc[h] = "publish"
  /\ \/ /\ visible
        /\ pc' = [pc EXCEPT ![h] = "commit"]
        /\ trusted' = trusted \cup {op[h]}
        /\ UNCHANGED faults
     \/ /\ Fault(IF visible THEN 1 ELSE 0)
        /\ pc' = [pc EXCEPT ![h] = "poison"]
        /\ UNCHANGED trusted
  /\ UNCHANGED <<files, visible, lock, op, tries, poisoned, turns, reconciles, acked>>

\* Step 12: commit the intent, answer the caller and let the lock go.
WalCommit(h) ==
  /\ pc[h] = "commit"
  /\ IF WalReadable(wal.cur)
       THEN \E o \in AppendOutcomes(wal, [t |-> "commit", rec |-> op[h]]) :
              /\ wal' = o.file
              /\ IF o.ok
                   THEN /\ pc' = [pc EXCEPT ![h] = "idle"]
                        /\ op' = [op EXCEPT ![h] = NoOp]
                        /\ lock' = None
                        /\ acked' = acked \cup {op[h]}
                        /\ IF op[h].type = "reserve"
                             THEN /\ caller' = [caller EXCEPT ![op[h].call] = h]
                                  /\ alive' = [alive EXCEPT ![op[h].call] = TRUE]
                             ELSE /\ caller' = [caller EXCEPT ![op[h].call] = None]
                                  /\ UNCHANGED alive
                        /\ UNCHANGED faults
                   ELSE /\ pc' = [pc EXCEPT ![h] = "poison"]
                        /\ Fault(1)
                        /\ UNCHANGED <<op, lock, acked, caller, alive>>
       ELSE /\ pc' = [pc EXCEPT ![h] = "poison"]
            /\ UNCHANGED <<wal, op, lock, acked, caller, alive, faults>>
  /\ UNCHANGED <<leaf, visible, tries, poisoned, paid, reported, reconciles, trusted>>

\* poison(): the handle refuses from now on; the durable marker is best effort.
Poison(h) ==
  /\ pc[h] = "poison"
  /\ poisoned' = [poisoned EXCEPT ![h] = TRUE]
  /\ IF WalReadable(wal.cur)
       THEN \E o \in AppendOutcomes(wal, [t |-> "poison"]) :
              wal' = o.file /\ Fault(IF o.ok THEN 0 ELSE 1)
       ELSE UNCHANGED <<wal, faults>>
  /\ lock' = None
  /\ Thrown(h)
  /\ UNCHANGED <<leaf, visible, tries, turns, reconciles, history>>

\* reconcile(): an operator accepts what the leaf shows; only then is the WAL cleared.
Reconcile(h) ==
  /\ pc[h] = "idle"
  /\ visible
  /\ lock = None
  /\ WalReadable(wal.cur)
  /\ foldContent(leaf.cur)
  /\ reconciles < MaxReconciles
  /\ reconciles' = reconciles + 1
  /\ \E o \in AppendOutcomes(wal, [t |-> "recovered"]) :
       /\ wal' = o.file
       /\ Fault(IF o.ok THEN 0 ELSE 1)
       /\ poisoned' = IF o.ok THEN [poisoned EXCEPT ![h] = FALSE] ELSE poisoned
  /\ trusted' = trusted \cup Lines(leaf.cur)
  /\ UNCHANGED <<leaf, visible, lock, pc, op, tries, turns, acked>>

-----------------------------------------------------------------------------
(* The environment: providers, crashes, the file system.                   *)

\* The provider charges while any process of its scope lives.
ProviderCharges(c) ==
  /\ alive[c]
  /\ paid[c] < WorstCase[c] + Overrun
  /\ paid' = [paid EXCEPT ![c] = @ + 1]
  /\ UNCHANGED <<files, visible, control, caller, alive, reported, bounds, history>>

\* The terminal record names the cost so far; a process may outlive it.
TerminalRecord(c) ==
  /\ alive[c]
  /\ reported[c] = Unreported
  /\ reported' = [reported EXCEPT ![c] = paid[c]]
  /\ UNCHANGED <<files, visible, control, caller, alive, paid, bounds, history>>

ScopeEmpties(c) ==
  /\ alive[c]
  /\ alive' = [alive EXCEPT ![c] = FALSE]
  /\ UNCHANGED <<files, visible, control, caller, paid, reported, bounds, history>>

\* Process h dies and is restarted: its lock and its memory are gone.
ProcessCrash(h) ==
  /\ Fault(1)
  /\ pc' = [pc EXCEPT ![h] = "idle"]
  /\ op' = [op EXCEPT ![h] = NoOp]
  /\ tries' = [tries EXCEPT ![h] = 0]
  /\ poisoned' = [poisoned EXCEPT ![h] = FALSE]
  /\ lock' = IF lock = h THEN None ELSE lock
  /\ caller' = [c \in Calls |-> IF caller[c] = h THEN None ELSE caller[c]]
  /\ UNCHANGED <<files, visible, alive, paid, reported, reconciles, history>>

\* The machine stops: every process is gone, the files hold what reached the disk.
PowerLoss ==
  /\ Fault(1)
  /\ \E x \in leaf.may, w \in wal.may : leaf' = Synced(x) /\ wal' = Synced(w)
  /\ pc' = [h \in Handles |-> "idle"]
  /\ op' = [h \in Handles |-> NoOp]
  /\ tries' = [h \in Handles |-> 0]
  /\ poisoned' = [h \in Handles |-> FALSE]
  /\ lock' = None
  /\ caller' = [c \in Calls |-> None]
  /\ alive' = [c \in Calls |-> FALSE]
  /\ UNCHANGED <<visible, paid, reported, reconciles, history>>

\* The leaf's name is taken by another file, or the published file comes back.
LeafMoved ==
  /\ Fault(1)
  /\ visible' = ~visible
  /\ UNCHANGED <<files, control, turns, reconciles, history>>

-----------------------------------------------------------------------------
Transact(h) ==
  \/ LockAndDecide(h)
  \/ WalIntent(h)
  \/ LeafAppend(h)
  \/ assertPublishedAfterFsync(h)
  \/ WalCommit(h)
  \/ Poison(h)
  \/ Retry(h)

Next ==
  \/ \E h \in Handles :
       \/ \E c \in Calls : Reserve(h, c) \/ SettleCompleted(h, c)
       \/ Transact(h)
       \/ LockTimeout(h)
       \/ Reconcile(h)
       \/ ProcessCrash(h)
  \/ \E c \in Calls : ProviderCharges(c) \/ TerminalRecord(c) \/ ScopeEmpties(c)
  \/ PowerLoss
  \/ LeafMoved

Spec == Init /\ [][Next]_vars

(***************************************************************************)
(* A transaction is synchronous code and the kernel releases a dead        *)
(* process's lock, so a started transaction continues.  Providers are      *)
(* killed at their deadline, and the event loop delivers the end of every  *)
(* turn even when it is busy with other calls in between.                  *)
(***************************************************************************)
Fairness ==
  \A h \in Handles :
    /\ WF_vars(Transact(h))
    /\ \A c \in Calls : SF_vars(SettleCompleted(h, c))

FairSpec == Spec /\ Fairness

-----------------------------------------------------------------------------
(* Properties.                                                             *)

Paid == MapThenSumSet(LAMBDA c : paid[c], Calls)

\* The providers' side of the bargain: no call charges more than its worst
\* case, nor anything after its terminal record has named the cost.
ProvidersKeepBounds ==
  \A c \in Calls : paid[c] <= WorstCase[c] /\ reported[c] \in {Unreported, paid[c]}

\* What the providers really charged stays within the budget, whatever
\* crashed, tore or was reconciled on the way (reserve before launch, and the
\* worst case kept until an attested settlement releases it).
BudgetHeld == Budget > 0 /\ ProvidersKeepBounds => Paid <= Budget

\* A record whose transaction returned is in every journal a power loss may
\* leave, unless that journal refuses to be read at all (steps 7 to 12 of txn).
AckedSurvives ==
  \A x \in leaf.may \cup {leaf.cur} :
    x.tail # "junk" => acked \subseteq Lines(x)

\* Whenever an ordinary read would answer, every record it folds was proven
\* at its visible path or accepted by a reconciliation: bytes that merely look
\* like a record are never believed (the write-ahead intent and the poison).
NothingLaundered ==
  Answers(wal.cur, leaf.cur) =>
    Lines(leaf.cur) \subseteq trusted

\* No interleaving, crash or retry leaves a journal whose transitions the
\* fold rejects: one reserve per call id, at most one settlement, after it.
JournalWellFormed ==
  \A x \in leaf.may \cup {leaf.cur} : WellFormed(x.recs)

\* A settlement with authority (it releases the worst case, or lets a second
\* provider be billed) is in the journal only when no process of the call's
\* scope is left to charge anything more (assertMintable, no pgid downgrade).
AuthorityNeedsEmptyScope ==
  \A i \in DOMAIN leaf.cur.recs :
    LET r == leaf.cur.recs[i]
    IN  r.type = "settle" /\ r.kind # "uncertain" => ~alive[r.call]

\* Every journal there is or may be after a power loss holds one reservation per
\* call and at most one settlement after it, and a settlement that releases
\* money or permits a second provider stands only over an empty scope.
SettlementsLawful == JournalWellFormed /\ AuthorityNeedsEmptyScope

\* While nothing fails, a launched call reaches its settlement: no reservation
\* is stranded (settleCompletedCall, and the finally block of the call path).
NeverStranded ==
  \A c \in Calls : caller[c] # None ~> (SettledIn(leaf.cur.recs, c) \/ faults > 0)

\* The lock is always let go again, so no handle is shut out for good.
LockReleased == []<>(lock = None)

\* Neither a call nor a handle is left waiting by a lock nobody releases or a
\* settlement nobody writes.
NothingStuck == NeverStranded /\ LockReleased

\* "ONLY an unterminated final tail (a crash mid-append) may be recovered, by
\* truncation": however an append is cut short, both files can be read again.
TailIsRecoverable ==
  /\ leaf.cur.tail # "junk"
  /\ wal.cur.tail # "junk"

\* "What the ledger ACTUALLY holds, as reconciled": a record that was proven,
\* or that a durable recovery receipt counts, is in every later journal.
AcceptedStays ==
  leaf.cur.tail # "junk" => trusted \subseteq Lines(leaf.cur)

=============================================================================
