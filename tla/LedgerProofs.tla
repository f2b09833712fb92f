---------------------------- MODULE LedgerProofs ----------------------------
(***************************************************************************)
(* Theorems about the ledger, for any number of handles and calls, any     *)
(* money and any number of faults.                                         *)
(***************************************************************************)
EXTENDS Ledger, FiniteSetTheorems, TLAPS

-----------------------------------------------------------------------------
(* What an append does to a file.                                          *)

LEMMA SyncedType ==
  ASSUME NEW L, NEW x \in Contents(L)
  PROVE  Synced(x) \in Files(L)
  BY DEF Synced, Files

LEMMA ExtendedType ==
  ASSUME NEW L, NEW x \in Contents(L), NEW r \in L
  PROVE  /\ Extended(x, r) \in Contents(L)
         /\ Extended(x, r).tail \in {"clean", "junk"}
         /\ Extended(x, r).tail = "clean" => Extended(x, r).recs = Append(x.recs, r)
         /\ Extended(x, r).tail = "junk" => Extended(x, r).recs = x.recs
         /\ x.tail \in {"clean", "torn"} => Extended(x, r).tail = "clean"
  BY DEF Extended, Contents, Tails

LEMMA FrontType ==
  ASSUME NEW L, NEW s \in Seq(L)
  PROVE  /\ SubSeq(s, 1, Len(s) - 1) \in Seq(L)
         /\ Len(SubSeq(s, 1, Len(s) - 1)) <= Len(s)
         /\ \A i \in DOMAIN SubSeq(s, 1, Len(s) - 1) :
              i \in DOMAIN s /\ SubSeq(s, 1, Len(s) - 1)[i] = s[i]
  <1>1. CASE Len(s) = 0
    BY <1>1
  <1>2. CASE Len(s) # 0
    <2>1. Len(s) \in Nat /\ Len(s) - 1 \in Nat /\ 1 \in Nat
      BY <1>2
    <2>2. \A i \in 1..(Len(s) - 1) : s[i] \in L
      BY <2>1
    <2> QED
      BY <2>1, <2>2
  <1> QED
    BY <1>1, <1>2

LEMMA TornType ==
  ASSUME NEW L, NEW x \in Contents(L)
  PROVE  /\ Torn(x) \in Contents(L)
         /\ Torn(x).tail = "torn"
         /\ x.tail # "noeol" => Torn(x).recs = x.recs
         /\ x.tail = "noeol" => Torn(x).recs = SubSeq(x.recs, 1, Len(x.recs) - 1)
  BY FrontType DEF Torn, Contents, Tails

Whole(x, r) == [recs |-> Append(x.recs, r), tail |-> "noeol"]

LEMMA WholeType ==
  ASSUME NEW L, NEW x \in Contents(L), NEW r \in L
  PROVE  Whole(x, r) \in Contents(L)
  BY DEF Whole, Contents, Tails

\* Every outcome of an append is durable and extended, or one of the failures.
LEMMA Outcome ==
  ASSUME NEW L, NEW f \in Files(L), NEW r \in L, NEW o \in AppendOutcomes(f, r)
  PROVE  /\ o.file \in Files(L)
         /\ o.ok \in BOOLEAN
         /\ o.ok => o.file = Synced(Extended(f.cur, r))
         /\ ~o.ok =>
              /\ \A x \in o.file.may \cup {o.file.cur} :
                   \/ x \in f.may \cup {f.cur}
                   \/ x = Torn(f.cur)
                   \/ x = Extended(f.cur, r)
                   \/ x = Whole(f.cur, r) /\ f.cur.tail # "noeol"
              /\ \/ o.file.cur \in {Whole(f.cur, r), Extended(f.cur, r)}
                 \/ \A x \in o.file.may \cup {o.file.cur} :
                      x \in f.may \cup {f.cur} \/ x = Torn(f.cur)
  <1> DEFINE w == Extended(f.cur, r)
             p == Partial(f.cur, r)
  <1>0. f.cur \in Contents(L) /\ f.may \in SUBSET Contents(L)
    BY DEF Files
  <1>1. w \in Contents(L) /\ Torn(f.cur) \in Contents(L) /\ Whole(f.cur, r) \in Contents(L)
    BY <1>0, ExtendedType, TornType, WholeType
  <1>2. /\ p \in SUBSET Contents(L)
        /\ \A x \in p : x = Torn(f.cur) \/ (x = Whole(f.cur, r) /\ f.cur.tail # "noeol")
    BY <1>1 DEF Partial, Whole
  <1>3. CASE o = [file |-> f, ok |-> FALSE]
    BY <1>3 DEF Files
  <1>4. CASE \E x \in p : o = [file |-> [cur |-> x, may |-> f.may \cup {x, Torn(f.cur)}],
                               ok |-> FALSE]
    <2>0. PICK x \in p : o = [file |-> [cur |-> x, may |-> f.may \cup {x, Torn(f.cur)}],
                              ok |-> FALSE]
      BY <1>4
    <2>1. o.file.cur = x /\ o.file.may = f.may \cup {x, Torn(f.cur)} /\ ~o.ok
      BY <2>0
    <2>2. o.file \in Files(L)
      BY <2>0, <1>0, <1>1, <1>2 DEF Files
    <2> QED
      BY <2>0, <2>1, <2>2, <1>2
  <1>5. CASE o = [file |-> [cur |-> w, may |-> f.may \cup p \cup {w}], ok |-> FALSE]
    <2>1. o.file.cur = w /\ o.file.may = f.may \cup p \cup {w} /\ ~o.ok
      BY <1>5
    <2>2. o.file \in Files(L)
      BY <1>5, <1>0, <1>1, <1>2 DEF Files
    <2> QED
      BY <2>1, <2>2, <1>2, <1>5
  <1>6. CASE o = [file |-> Synced(w), ok |-> TRUE]
    BY <1>6, <1>1, SyncedType
  <1>7. \/ o = [file |-> f, ok |-> FALSE]
        \/ \E x \in p : o = [file |-> [cur |-> x, may |-> f.may \cup {x, Torn(f.cur)}], ok |-> FALSE]
        \/ o = [file |-> [cur |-> w, may |-> f.may \cup p \cup {w}], ok |-> FALSE]
        \/ o = [file |-> Synced(w), ok |-> TRUE]
    BY DEF AppendOutcomes
  <1> QED
    BY <1>3, <1>4, <1>5, <1>6, <1>7

-----------------------------------------------------------------------------
(* Type correctness.                                                       *)

\* A handle in the middle of something has a record to append; one that
\* retries has a settlement.
OpTyped ==
  \A h \in Handles :
    /\ pc[h] # "idle" => op[h] \in Records
    /\ pc[h] = "retry" => op[h].type = "settle"

TypeInv == TypeOK /\ OpTyped

LEMMA WalRecordTypes ==
  /\ \A r \in Records : [t |-> "intent", rec |-> r] \in WalRecords
  /\ \A r \in Records : [t |-> "commit", rec |-> r] \in WalRecords
  /\ [t |-> "poison"] \in WalRecords
  /\ [t |-> "recovered"] \in WalRecords
  BY DEF WalRecords

LEMMA RecordTypes ==
  ASSUME NEW r \in Records
  PROVE  r.call \in Calls /\ r.type \in {"reserve", "settle"}
  BY DEF Records, Reserves, Settles

LEMMA SettleRecordType ==
  ASSUME TypeOK, NEW c \in Calls, NEW k \in {"uncertain", "accounted", "fallback"},
         k = "accounted" => reported[c] # Unreported
  PROVE  SettleRecord(c, k) \in Records /\ SettleRecord(c, k).type = "settle"
                                        /\ SettleRecord(c, k).call = c
  BY DEF TypeOK, SettleRecord, Records, Settles, Amounts

LEMMA InitType == Init => TypeInv
  <1> SUFFICES ASSUME Init PROVE TypeInv
    OBVIOUS
  <1>1. Synced(Empty) \in Files(Records) /\ Synced(Empty) \in Files(WalRecords)
    BY DEF Synced, Empty, Files, Contents, Tails
  <1>2. TypeOK
    BY <1>1, BoundAssumption DEF Init, TypeOK
  <1> QED
    BY <1>2 DEF TypeInv, OpTyped, Init

LEMMA ThrownType ==
  ASSUME TypeInv, NEW h \in Handles, Thrown(h), op[h] \in Records
  PROVE  /\ pc' \in [Handles -> {"idle", "opened", "intent", "append", "publish",
                                 "commit", "poison", "retry"}]
         /\ op' \in [Handles -> Records \cup {NoOp}]
         /\ OpTyped'
  <1>1. op[h].type \in {"reserve", "settle"}
    BY RecordTypes
  <1> QED
    BY <1>1 DEF TypeInv, TypeOK, OpTyped, Thrown

LEMMA FaultType ==
  ASSUME TypeOK, NEW n \in {0, 1}, Fault(n)
  PROVE  faults' \in 0..MaxFaults
  BY BoundAssumption DEF TypeOK, Fault

LEMMA KernelKindsType == KernelKinds \subseteq {"uncertain", "accounted", "fallback"}
  BY DEF KernelKinds, settleCompletedCall

LEMMA NextType == TypeInv /\ [Next]_vars => TypeInv'
  <1> SUFFICES ASSUME TypeInv, [Next]_vars PROVE TypeInv'
    OBVIOUS
  <1> USE DEF TypeInv
  <1>1. ASSUME NEW h \in Handles, NEW c \in Calls, Reserve(h, c) PROVE TypeInv'
    <2>1. [type |-> "reserve", call |-> c, enforced |-> Budget > 0,
           worst |-> IF Budget > 0 THEN WorstCase[c] ELSE 0] \in Records
      BY MoneyAssumption DEF Records, Reserves, Amounts
    <2> QED
      BY <1>1, <2>1 DEF Reserve, TypeOK, OpTyped, files, turns, bounds, history
  <1>2. ASSUME NEW h \in Handles, NEW c \in Calls, SettleCompleted(h, c) PROVE TypeInv'
    <2>1. PICK k \in {"uncertain", "accounted", "fallback"} :
             /\ k = "accounted" => reported[c] # Unreported
             /\ op' = [op EXCEPT ![h] = SettleRecord(c, k)]
             /\ \E m \in BOOLEAN, n \in BOOLEAN :
                  /\ tries' = [tries EXCEPT ![h] = IF m THEN 2 ELSE 1]
                  /\ pc' = [pc EXCEPT ![h] = IF n THEN "opened" ELSE "retry"]
      BY <1>2, KernelKindsType DEF SettleCompleted
    <2>2. SettleRecord(c, k) \in Records /\ SettleRecord(c, k).type = "settle"
      BY <2>1, SettleRecordType
    <2> QED
      BY <1>2, <2>1, <2>2 DEF SettleCompleted, TypeOK, OpTyped, files, turns, bounds, history
  <1>3. ASSUME NEW h \in Handles, LockAndDecide(h) PROVE TypeInv'
    <2>0. op[h] \in Records
      BY <1>3 DEF LockAndDecide, OpTyped
    <2>1. CASE Thrown(h) /\ UNCHANGED lock
      BY <1>3, <2>0, <2>1, ThrownType
         DEF LockAndDecide, TypeOK, files, turns, bounds, history
    <2>2. CASE lock' = h /\ pc' = [pc EXCEPT ![h] = "intent"] /\ UNCHANGED op
      BY <1>3, <2>0, <2>2 DEF LockAndDecide, TypeOK, OpTyped, files, turns, bounds, history
    <2>3. CASE /\ pc' = [pc EXCEPT ![h] = "idle"]
               /\ op' = [op EXCEPT ![h] = NoOp]
               /\ UNCHANGED lock
      BY <1>3, <2>3 DEF LockAndDecide, TypeOK, OpTyped, files, turns, bounds, history
    <2> QED
      BY <1>3, <2>1, <2>2, <2>3 DEF LockAndDecide
  <1>4. ASSUME NEW h \in Handles, WalIntent(h) PROVE TypeInv'
    <2>0. op[h] \in Records /\ [t |-> "intent", rec |-> op[h]] \in WalRecords
      BY <1>4, WalRecordTypes DEF WalIntent, OpTyped
    <2>1. wal' \in Files(WalRecords)
      BY <1>4, <2>0, Outcome DEF WalIntent, TypeOK
    <2>2. CASE Thrown(h) /\ lock' = None /\ Fault(1)
      BY <1>4, <2>0, <2>1, <2>2, ThrownType, FaultType
         DEF WalIntent, TypeOK, turns, history
    <2>3. CASE pc' = [pc EXCEPT ![h] = "append"] /\ UNCHANGED <<op, lock, faults>>
      BY <1>4, <2>0, <2>1, <2>3 DEF WalIntent, TypeOK, OpTyped, turns, history
    <2> QED
      BY <1>4, <2>2, <2>3 DEF WalIntent
  <1>5. ASSUME NEW h \in Handles, LeafAppend(h) PROVE TypeInv'
    <2>0. op[h] \in Records
      BY <1>5 DEF LeafAppend, OpTyped
    <2>1. leaf' \in Files(Records)
      BY <1>5, <2>0, Outcome DEF LeafAppend, TypeOK
    <2>2. faults' \in 0..MaxFaults
      BY <1>5, FaultType DEF LeafAppend
    <2>3. PICK b \in BOOLEAN : pc' = [pc EXCEPT ![h] = IF b THEN "publish" ELSE "poison"]
      BY <1>5, <2>0, Outcome DEF LeafAppend, TypeOK
    <2> QED
      BY <1>5, <2>0, <2>1, <2>2, <2>3 DEF LeafAppend, TypeOK, OpTyped, turns, history
  <1>6. ASSUME NEW h \in Handles, assertPublishedAfterFsync(h) PROVE TypeInv'
    <2>0. op[h] \in Records
      BY <1>6 DEF assertPublishedAfterFsync, OpTyped
    <2>1. faults' \in 0..MaxFaults
      BY <1>6, FaultType DEF assertPublishedAfterFsync, TypeOK
    <2> QED
      BY <1>6, <2>0, <2>1 DEF assertPublishedAfterFsync, TypeOK, OpTyped, files, turns
  <1>7. ASSUME NEW h \in Handles, WalCommit(h) PROVE TypeInv'
    <2>0. op[h] \in Records /\ [t |-> "commit", rec |-> op[h]] \in WalRecords /\ op[h].call \in Calls
      BY <1>7, WalRecordTypes, RecordTypes DEF WalCommit, OpTyped
    <2>1. wal' \in Files(WalRecords)
      BY <1>7, <2>0, Outcome DEF WalCommit, TypeOK
    <2>2. faults' \in 0..MaxFaults
      BY <1>7, FaultType DEF WalCommit, TypeOK
    <2>3. acked' \subseteq Records
      BY <1>7, <2>0 DEF WalCommit, TypeOK
    <2>4. caller' \in [Calls -> Handles \cup {None}] /\ alive' \in [Calls -> BOOLEAN]
      BY ZenonT(40), <1>7, <2>0 DEF WalCommit, TypeOK
    <2>5. \/ /\ pc' = [pc EXCEPT ![h] = "idle"]
             /\ op' = [op EXCEPT ![h] = NoOp]
             /\ lock' = None
          \/ /\ pc' = [pc EXCEPT ![h] = "poison"]
             /\ UNCHANGED <<op, lock>>
      BY <1>7 DEF WalCommit
    <2>6. UNCHANGED <<leaf, visible, tries, poisoned, paid, reported, reconciles, trusted>>
      BY <1>7 DEF WalCommit
    <2> QED
      BY <2>0, <2>1, <2>2, <2>3, <2>4, <2>5, <2>6 DEF TypeOK, OpTyped
  <1>8. ASSUME NEW h \in Handles, Poison(h) PROVE TypeInv'
    <2>0. op[h] \in Records
      BY <1>8 DEF Poison, OpTyped
    <2>1. wal' \in Files(WalRecords)
      BY <1>8, WalRecordTypes, Outcome DEF Poison, TypeOK
    <2>2. faults' \in 0..MaxFaults
      BY <1>8, FaultType DEF Poison, TypeOK
    <2>3. Thrown(h)
      BY <1>8 DEF Poison
    <2> QED
      BY <1>8, <2>0, <2>1, <2>2, <2>3, ThrownType DEF Poison, TypeOK, turns, history
  <1>9. ASSUME NEW h \in Handles, Retry(h) PROVE TypeInv'
    <2>0. op[h] \in Records /\ op[h].type = "settle" /\ op[h].call \in Calls
      BY <1>9, RecordTypes DEF Retry, OpTyped
    <2>1. SettleRecord(op[h].call, "uncertain") \in Records
          /\ SettleRecord(op[h].call, "uncertain").type = "settle"
      BY <2>0, SettleRecordType
    <2> QED
      BY <1>9, <2>0, <2>1 DEF Retry, TypeOK, OpTyped, files, bounds, history
  <1>10. ASSUME NEW h \in Handles, LockTimeout(h) PROVE TypeInv'
    <2>1. op[h] \in Records /\ faults' \in 0..MaxFaults /\ Thrown(h)
      BY <1>10, FaultType DEF LockTimeout, OpTyped
    <2> QED
      BY <1>10, <2>1, ThrownType DEF LockTimeout, TypeOK, files, turns, history
  <1>11. ASSUME NEW h \in Handles, Reconcile(h) PROVE TypeInv'
    <2>1. wal' \in Files(WalRecords)
      BY <1>11, WalRecordTypes, Outcome DEF Reconcile, TypeOK
    <2>2. faults' \in 0..MaxFaults /\ reconciles' \in 0..MaxReconciles
      BY <1>11, FaultType, BoundAssumption DEF Reconcile, TypeOK
    <2>3. Lines(leaf.cur) \subseteq Records
      BY DEF Lines, TypeOK, Files, Contents
    <2> QED
      BY <1>11, <2>1, <2>2, <2>3 DEF Reconcile, TypeOK, OpTyped, turns
  <1>12. ASSUME NEW h \in Handles, ProcessCrash(h) PROVE TypeInv'
    <2>1. faults' \in 0..MaxFaults
      BY <1>12, FaultType DEF ProcessCrash
    <2> QED
      BY <1>12, <2>1 DEF ProcessCrash, TypeOK, OpTyped, files, history
  <1>13. ASSUME NEW c \in Calls, ProviderCharges(c) \/ TerminalRecord(c) \/ ScopeEmpties(c)
         PROVE TypeInv'
    <2>1. CASE ProviderCharges(c)
      BY <2>1 DEF ProviderCharges, TypeOK, OpTyped, files, control, bounds, history
    <2>2. CASE TerminalRecord(c)
      BY <2>2 DEF TerminalRecord, TypeOK, OpTyped, files, control, bounds, history
    <2>3. CASE ScopeEmpties(c)
      BY <2>3 DEF ScopeEmpties, TypeOK, OpTyped, files, control, bounds, history
    <2> QED
      BY <1>13, <2>1, <2>2, <2>3
  <1>14. CASE PowerLoss
    <2>1. faults' \in 0..MaxFaults
      BY <1>14, FaultType DEF PowerLoss
    <2>2. leaf' \in Files(Records) /\ wal' \in Files(WalRecords)
      BY <1>14, SyncedType DEF PowerLoss, TypeOK, Files
    <2> QED
      BY <1>14, <2>1, <2>2 DEF PowerLoss, TypeOK, OpTyped, history
  <1>15. CASE LeafMoved
    <2>1. faults' \in 0..MaxFaults
      BY <1>15, FaultType DEF LeafMoved
    <2> QED
      BY <1>15, <2>1 DEF LeafMoved, TypeOK, OpTyped, files, control, turns, history
  <1>16. CASE UNCHANGED vars
    BY <1>16 DEF vars, TypeOK, OpTyped
  <1> QED
    BY <1>1, <1>2, <1>3, <1>4, <1>5, <1>6, <1>7, <1>8, <1>9, <1>10, <1>11, <1>12, <1>13,
       <1>14, <1>15, <1>16 DEF Next, Transact

\* Type correctness of the ledger: files hold only lines the code writes, the
\* lock names a handle, attempts never run below zero, bounds are respected.
THEOREM LedgerTypeCorrect == Spec => []TypeOK
  <1>1. Spec => []TypeInv
    BY InitType, NextType, PTL DEF Spec
  <1> QED
    BY <1>1, PTL DEF TypeInv

-----------------------------------------------------------------------------
(***************************************************************************)
(* The write-ahead discipline.  NothingLaundered and AckedSurvives speak   *)
(* of the content that is shown now; a power loss may show any other       *)
(* content in may, and a torn write may take back the line before it, so   *)
(* the invariant speaks of every content and records, for each step of the *)
(* transaction, which of the two files can still be believed.              *)
(***************************************************************************)
Critical == {"intent", "append", "publish", "commit", "poison"}

LeafContents == leaf.may \cup {leaf.cur}
WalContents  == wal.may \cup {wal.cur}

Proven(x)   == Lines(x) \subseteq trusted
Refuses(w)  == w.tail = "junk" \/ WalPoison(w.recs) \/ WalPending(w.recs)
Dangling(w) == w.tail = "junk" \/ (w.tail = "clean" /\ WalPending(w.recs))

\* Exactly the handle inside a transaction holds the lock.
Locked == \A h \in Handles : pc[h] \in Critical <=> lock = h

\* Whatever pair of contents survives, an unproven leaf comes with a WAL that refuses.
Guarded == \A w \in WalContents, x \in LeafContents : Refuses(w) \/ Proven(x)

\* A reconciliation that accepts the current leaf accepts what may survive of it.
Covered == \A x \in leaf.may : Lines(x) \subseteq Lines(leaf.cur) \cup trusted

\* Not even a write after a missing newline takes an answered record back.
Kept == \A x \in LeafContents : x.tail # "junk" => acked \subseteq Lines(Torn(x))

Phase(h) ==
  /\ pc[h] \in {"intent", "append"} =>
       (\A x \in LeafContents : Proven(x)) /\ leaf.cur.tail # "junk"
  /\ pc[h] = "intent" => wal.cur.tail # "junk"
  /\ pc[h] \in {"append", "publish", "commit"} => \A w \in WalContents : Dangling(w)
  /\ pc[h] \in {"publish", "commit"} =>
       \A x \in LeafContents :
         /\ x.tail \in {"clean", "junk"}
         /\ Lines(x) \subseteq trusted \cup {op[h]}
         /\ x.tail = "clean" => op[h] \in Lines(x)
  /\ pc[h] = "commit" => op[h] \in trusted
  /\ pc[h] = "poison" =>
       (\A w \in WalContents : Dangling(w)) \/ (\A x \in LeafContents : Proven(x))

IInv ==
  /\ TypeInv
  /\ Locked
  /\ Guarded
  /\ Covered
  /\ Kept
  /\ \A h \in Handles : Phase(h)

LEMMA LinesOfAppend ==
  ASSUME NEW L, NEW x \in Contents(L), NEW r \in L
  PROVE  /\ Lines(Whole(x, r)) = Lines(x) \cup {r}
         /\ Extended(x, r).tail = "clean" => Lines(Extended(x, r)) = Lines(x) \cup {r}
         /\ Extended(x, r).tail = "junk" => Lines(Extended(x, r)) = Lines(x)
  <1> DEFINE s == x.recs
             t == Append(s, r)
  <1>1. s \in Seq(L)
    BY DEF Contents
  <1>2. Len(s) \in Nat /\ Len(t) = Len(s) + 1 /\ t \in Seq(L)
    BY <1>1
  <1>3. (\A i \in 1..Len(s) : t[i] = s[i]) /\ t[Len(s) + 1] = r
    BY <1>1
  <1>4. DOMAIN s = 1..Len(s) /\ DOMAIN t = 1..(Len(s) + 1)
    BY <1>1, <1>2
  <1>5. {t[i] : i \in DOMAIN t} = {s[i] : i \in DOMAIN s} \cup {r}
    <2> HIDE DEF s, t
    <2>1. \A i \in DOMAIN t : i \in DOMAIN s \/ i = Len(s) + 1
      BY <1>2, <1>4
    <2>2. DOMAIN s \subseteq DOMAIN t /\ Len(s) + 1 \in DOMAIN t
      BY <1>2, <1>4
    <2>3. \A i \in DOMAIN s : t[i] = s[i]
      BY <1>3, <1>4
    <2> QED
      BY <2>1, <2>2, <2>3, <1>3, Zenon
  <1>6. Whole(x, r).recs = t
    BY DEF Whole
  <1>7. Lines(Whole(x, r)) = Lines(x) \cup {r}
    BY <1>5, <1>6 DEF Lines
  <1>8. ASSUME Extended(x, r).tail = "clean" PROVE Lines(Extended(x, r)) = Lines(x) \cup {r}
    <2>1. Extended(x, r).recs = t
      BY <1>8, ExtendedType
    <2> QED
      BY <2>1, <1>5 DEF Lines
  <1>9. ASSUME Extended(x, r).tail = "junk" PROVE Lines(Extended(x, r)) = Lines(x)
    <2>1. Extended(x, r).recs = s
      BY <1>9, ExtendedType
    <2> QED
      BY <2>1 DEF Lines
  <1> QED
    BY <1>7, <1>8, <1>9

LEMMA LinesOfTorn ==
  ASSUME NEW L, NEW x \in Contents(L)
  PROVE  /\ Lines(Torn(x)) \subseteq Lines(x)
         /\ x.tail # "noeol" => Lines(Torn(x)) = Lines(x)
         /\ Lines(Torn(Torn(x))) = Lines(Torn(x))
  <1>1. x.recs \in Seq(L)
    BY DEF Contents
  <1>2. Torn(x) \in Contents(L) /\ Torn(x).tail = "torn"
    BY TornType
  <1>3. Torn(Torn(x)).recs = Torn(x).recs
    BY <1>2, TornType
  <1>4. CASE x.tail = "noeol"
    <2>1. Torn(x).recs = SubSeq(x.recs, 1, Len(x.recs) - 1)
      BY <1>4, TornType
    <2>2. \A i \in DOMAIN Torn(x).recs : i \in DOMAIN x.recs /\ Torn(x).recs[i] = x.recs[i]
      BY <2>1, <1>1, FrontType
    <2> QED
      BY <1>3, <1>4, <2>2 DEF Lines
  <1>5. CASE x.tail # "noeol"
    BY <1>3, <1>5, TornType DEF Lines
  <1> QED
    BY <1>4, <1>5

\* Tearing the line that was just written whole gives back the lines before it.
LEMMA TornWhole ==
  ASSUME NEW L, NEW x \in Contents(L), NEW r \in L
  PROVE  Lines(Torn(Whole(x, r))) = Lines(x)
  <1>1. x.recs \in Seq(L) /\ Len(x.recs) \in Nat
    BY DEF Contents
  <1>2. Torn(Whole(x, r)).recs = SubSeq(Append(x.recs, r), 1, Len(Append(x.recs, r)) - 1)
    BY WholeType, TornType DEF Whole
  <1>3. SubSeq(Append(x.recs, r), 1, Len(Append(x.recs, r)) - 1) = x.recs
    BY <1>1
  <1> QED
    BY <1>2, <1>3 DEF Lines

LEMMA PendingAfter ==
  ASSUME NEW s \in Seq(WalRecords), NEW r \in WalRecords
  PROVE  /\ r.t = "intent" => WalPending(Append(s, r))
         /\ r.t = "poison" /\ WalPending(s) => WalPending(Append(s, r))
  <1> DEFINE t == Append(s, r)
  <1>1. /\ DOMAIN s = 1..Len(s) /\ Len(s) \in Nat
        /\ DOMAIN t = 1..(Len(s) + 1)
        /\ t[Len(s) + 1] = r
        /\ \A i \in 1..Len(s) : t[i] = s[i]
    OBVIOUS
  <1> HIDE DEF t
  <1>2. ASSUME r.t = "intent" PROVE WalPending(t)
    <2>1. Len(s) + 1 \in DOMAIN t /\ \A j \in DOMAIN t : ~(j > Len(s) + 1)
      BY <1>1
    <2> QED
      BY <1>1, <1>2, <2>1 DEF WalPending
  <1>3. ASSUME r.t = "poison", WalPending(s) PROVE WalPending(t)
    <2>1. PICK i \in DOMAIN s :
            /\ s[i].t = "intent"
            /\ \A j \in DOMAIN s : j > i => s[j].t \notin {"commit", "recovered"}
      BY <1>3 DEF WalPending
    <2>2. i \in DOMAIN t /\ t[i].t = "intent"
      BY <1>1, <2>1
    <2>3. \A j \in DOMAIN t : j > i => t[j].t \notin {"commit", "recovered"}
      <3> TAKE j \in DOMAIN t
      <3>1. CASE j \in DOMAIN s
        BY <3>1, <1>1, <2>1
      <3>2. CASE j = Len(s) + 1
        BY <3>2, <1>1, <1>3
      <3> QED
        BY <3>1, <3>2, <1>1
    <2> QED
      BY <2>2, <2>3 DEF WalPending
  <1> QED
    BY <1>2, <1>3 DEF t

LEMMA InitIInv == Init => IInv
  <1> SUFFICES ASSUME Init PROVE IInv
    OBVIOUS
  <1>1. leaf.cur = Empty /\ leaf.may = {Empty} /\ Lines(Empty) = {} /\ acked = {}
    BY DEF Init, Synced, Empty, Lines
  <1>2. lock = None /\ \A h \in Handles : pc[h] = "idle"
    BY DEF Init
  <1> QED
    BY <1>1, <1>2, InitType, CallsAssumption
       DEF IInv, Locked, Guarded, Covered, Kept, Phase, Proven, Critical, LeafContents

\* A step that touches no file keeps the discipline.
LEMMA Quiet ==
  ASSUME IInv, TypeInv', Locked', UNCHANGED <<leaf, wal, acked, trusted>>,
         \A h \in Handles : pc'[h] \notin Critical \/ (pc'[h] = pc[h] /\ op'[h] = op[h])
  PROVE  IInv'
  <1>1. Guarded' /\ Covered' /\ Kept'
    BY DEF IInv, Guarded, Covered, Kept, Proven, Refuses, LeafContents, WalContents
  <1>2. ASSUME NEW h \in Handles PROVE Phase(h)'
    <2>1. CASE pc'[h] \notin Critical
      BY <2>1 DEF Phase, Critical
    <2>2. CASE pc'[h] = pc[h] /\ op'[h] = op[h]
      BY <2>2 DEF IInv, Phase, Proven, Dangling, LeafContents, WalContents
    <2> QED
      BY <2>1, <2>2
  <1> QED
    BY <1>1, <1>2 DEF IInv

\* Other handles stay outside while h holds the lock.
LEMMA Alone ==
  ASSUME IInv, NEW h \in Handles, lock = h,
         NEW g \in Handles, g # h
  PROVE  pc[g] \notin Critical
  BY DEF IInv, Locked

LEMMA WalIntentStep ==
  ASSUME IInv, TypeInv', NEW h \in Handles, WalIntent(h)
  PROVE  IInv'
  <1> DEFINE r == [t |-> "intent", rec |-> op[h]]
  <1>1. op[h] \in Records /\ r \in WalRecords /\ lock = h /\ pc[h] = "intent"
    BY WalRecordTypes DEF WalIntent, IInv, TypeInv, OpTyped, Locked, Critical
  <1>2. \A x \in LeafContents : Proven(x)
    BY <1>1 DEF IInv, Phase
  <1>3. UNCHANGED <<leaf, acked, trusted>>
    BY DEF WalIntent, history
  <1>4. Guarded' /\ Covered' /\ Kept'
    BY <1>2, <1>3 DEF IInv, Guarded, Covered, Kept, Proven, LeafContents
  <1>5. PICK o \in AppendOutcomes(wal, r) :
          /\ wal' = o.file
          /\ IF o.ok THEN pc' = [pc EXCEPT ![h] = "append"] /\ UNCHANGED <<op, lock, faults>>
                     ELSE Thrown(h) /\ lock' = None /\ Fault(1)
    BY DEF WalIntent
  <1>6. wal \in Files(WalRecords) /\ wal.cur \in Contents(WalRecords)
        /\ wal.cur.recs \in Seq(WalRecords)
    BY DEF IInv, TypeInv, TypeOK, Files, Contents
  <1>7. CASE o.ok
    <2>1. wal' = Synced(Extended(wal.cur, r))
      BY <1>1, <1>5, <1>6, <1>7, Outcome
    <2>2. WalContents' = {Extended(wal.cur, r)}
      BY <2>1 DEF WalContents, Synced
    <2>3. Dangling(Extended(wal.cur, r))
      <3>1. r.t = "intent"
        OBVIOUS
      <3>2. WalPending(Append(wal.cur.recs, r))
        BY <3>1, <1>1, <1>6, PendingAfter
      <3> DEFINE e == Extended(wal.cur, r)
      <3>3. e.tail \in {"clean", "junk"} /\ (e.tail = "clean" => e.recs = Append(wal.cur.recs, r))
        BY <1>1, <1>6, ExtendedType
      <3>4. e.tail = "clean" => WalPending(e.recs)
        BY <3>2, <3>3, Zenon
      <3> QED
        BY <3>3, <3>4, Zenon DEF Dangling
    <2>4. pc' = [pc EXCEPT ![h] = "append"] /\ UNCHANGED <<op, lock>>
      BY <1>5, <1>7
    <2>5. Locked'
      BY <2>4, <1>1 DEF IInv, Locked, Critical, TypeInv, TypeOK
    <2>6. Phase(h)'
      <3>1. \A w \in WalContents' : Dangling(w)
        BY <2>2, <2>3
      <3>2. pc'[h] = "append"
        BY <2>4 DEF IInv, TypeInv, TypeOK
      <3>3. (\A x \in LeafContents' : Lines(x) \subseteq trusted') /\ leaf'.cur.tail # "junk"
        BY <1>1, <1>2, <1>3 DEF IInv, Phase, LeafContents, Proven
      <3> QED
        BY <3>1, <3>2, <3>3 DEF Phase, Proven, Dangling
    <2>7. ASSUME NEW g \in Handles, g # h PROVE Phase(g)'
      BY <2>7, <2>4, <1>1, Alone DEF Phase, Critical, IInv, TypeInv, TypeOK
    <2> QED
      BY <1>4, <2>5, <2>6, <2>7 DEF IInv
  <1>8. CASE ~o.ok
    <2>1. Thrown(h) /\ lock' = None
      BY <1>5, <1>8
    <2>2. \A g \in Handles : pc'[g] \notin Critical
      BY <2>1, <1>1, Alone DEF Thrown, Critical, IInv, TypeInv, TypeOK
    <2>3. Locked'
      BY <2>1, <2>2, CallsAssumption DEF Locked
    <2>4. \A g \in Handles : Phase(g)'
      BY <2>2 DEF Phase, Critical
    <2> QED
      BY <1>4, <2>3, <2>4 DEF IInv
  <1> QED
    BY <1>7, <1>8

LEMMA LeafAppendStep ==
  ASSUME IInv, TypeInv', NEW h \in Handles, LeafAppend(h)
  PROVE  IInv'
  <1>1. op[h] \in Records /\ lock = h /\ pc[h] = "append"
    BY DEF LeafAppend, IInv, TypeInv, OpTyped, Locked, Critical
  <1>2. /\ \A x \in LeafContents : Proven(x)
        /\ leaf.cur.tail # "junk"
        /\ \A w \in WalContents : Dangling(w)
    BY <1>1 DEF IInv, Phase
  <1>3. UNCHANGED <<wal, lock, op, acked, trusted>>
    BY DEF LeafAppend, history
  <1>4. PICK o \in AppendOutcomes(leaf, op[h]) :
          leaf' = o.file /\ pc' = [pc EXCEPT ![h] = IF o.ok THEN "publish" ELSE "poison"]
    BY DEF LeafAppend
  <1>5. /\ leaf \in Files(Records) /\ leaf.cur \in Contents(Records)
        /\ \A x \in LeafContents : x \in Contents(Records)
    BY DEF IInv, TypeInv, TypeOK, Files, LeafContents
  <1>6. acked \subseteq Lines(Torn(leaf.cur)) /\ acked \subseteq Lines(leaf.cur)
    BY <1>2, <1>5, LinesOfTorn DEF IInv, Kept, LeafContents
  <1>7. Guarded'
    BY <1>2, <1>3 DEF Guarded, Dangling, Refuses, WalContents
  <1>8. /\ \A x \in LeafContents' :
             \/ x \in LeafContents
             \/ x = Torn(leaf.cur)
             \/ x = Extended(leaf.cur, op[h])
             \/ x = Whole(leaf.cur, op[h]) /\ leaf.cur.tail # "noeol"
        /\ o.ok => LeafContents' = {Extended(leaf.cur, op[h])}
        /\ o.ok \in BOOLEAN
        /\ \/ leaf'.cur \in {Whole(leaf.cur, op[h]), Extended(leaf.cur, op[h])}
           \/ \A x \in LeafContents' : x \in LeafContents \/ x = Torn(leaf.cur)
    <2>0. /\ LeafContents' = o.file.may \cup {o.file.cur}
          /\ LeafContents = leaf.may \cup {leaf.cur}
          /\ leaf' = o.file
      BY <1>4 DEF LeafContents
    <2>1. /\ o.ok \in BOOLEAN
          /\ o.ok => o.file = Synced(Extended(leaf.cur, op[h]))
          /\ ~o.ok =>
              /\ \A x \in o.file.may \cup {o.file.cur} :
                   \/ x \in leaf.may \cup {leaf.cur}
                   \/ x = Torn(leaf.cur)
                   \/ x = Extended(leaf.cur, op[h])
                   \/ x = Whole(leaf.cur, op[h]) /\ leaf.cur.tail # "noeol"
              /\ \/ o.file.cur \in {Whole(leaf.cur, op[h]), Extended(leaf.cur, op[h])}
                 \/ \A x \in o.file.may \cup {o.file.cur} :
                      x \in leaf.may \cup {leaf.cur} \/ x = Torn(leaf.cur)
      BY <1>1, <1>5, Outcome
    <2>2. CASE o.ok
      BY <2>0, <2>1, <2>2 DEF Synced
    <2>3. CASE ~o.ok
      BY <2>0, <2>1, <2>3
    <2> QED
      BY <2>1, <2>2, <2>3
  <1>9. Kept'
    <2> SUFFICES ASSUME NEW x \in LeafContents', x.tail # "junk"
                 PROVE  acked \subseteq Lines(Torn(x))
      BY <1>3 DEF Kept
    <2>1. CASE x \in LeafContents
      BY <2>1 DEF IInv, Kept
    <2>2. CASE x = Torn(leaf.cur)
      BY <2>2, <1>5, <1>6, LinesOfTorn
    <2>3. CASE x = Extended(leaf.cur, op[h])
      <3>1. x.tail = "clean" /\ x \in Contents(Records)
        BY <2>3, <1>1, <1>5, ExtendedType
      <3>2. Lines(x) = Lines(leaf.cur) \cup {op[h]}
        BY <2>3, <3>1, <1>1, <1>5, LinesOfAppend
      <3> QED
        BY <3>1, <3>2, <1>6, LinesOfTorn
    <2>4. CASE x = Whole(leaf.cur, op[h])
      BY <2>4, <1>1, <1>5, <1>6, TornWhole
    <2> QED
      BY <1>8, <2>1, <2>2, <2>3, <2>4
  <1>10. Covered'
    <2> SUFFICES ASSUME NEW x \in leaf'.may
                 PROVE  Lines(x) \subseteq Lines(leaf'.cur) \cup trusted
      BY <1>3 DEF Covered
    <2>1. CASE \A y \in LeafContents' : y \in LeafContents \/ y = Torn(leaf.cur)
      BY <2>1, <1>2, <1>5, LinesOfTorn DEF Proven, LeafContents
    <2>2. CASE leaf'.cur \in {Whole(leaf.cur, op[h]), Extended(leaf.cur, op[h])}
      <3>1. \A y \in LeafContents' : Lines(y) \subseteq trusted \cup {op[h]}
        BY <1>1, <1>2, <1>5, <1>8, LinesOfTorn, LinesOfAppend, ExtendedType
           DEF Proven, LeafContents
      <3>2. x \in LeafContents'
        BY DEF LeafContents
      <3>3. CASE op[h] \in Lines(leaf'.cur)
        BY <3>1, <3>2, <3>3
      <3>4. CASE leaf'.cur = Extended(leaf.cur, op[h]) /\ leaf'.cur.tail = "junk"
        <4>1. leaf.cur.tail = "noeol"
          BY <3>4, <1>2, <1>1, <1>5, ExtendedType DEF Contents, Tails
        <4>2. \A y \in LeafContents' : Lines(y) \subseteq trusted
          BY <4>1, <3>4, <1>1, <1>2, <1>5, <1>8, LinesOfTorn, LinesOfAppend
             DEF Proven, LeafContents
        <4> QED
          BY <4>2, <3>2
      <3> QED
        BY <2>2, <3>3, <3>4, <1>1, <1>5, LinesOfAppend, ExtendedType
    <2> QED
      BY <1>8, <2>1, <2>2
  <1>11. Locked'
    BY <1>1, <1>3, <1>4, <1>8 DEF IInv, Locked, Critical, TypeInv, TypeOK
  <1>12. Phase(h)'
    <2>1. \A w \in WalContents' : Dangling(w)
      BY <1>2, <1>3 DEF WalContents
    <2>2. CASE o.ok
      <3>1. pc'[h] = "publish"
        BY <2>2, <1>4 DEF IInv, TypeInv, TypeOK
      <3>2. \A x \in LeafContents' :
              /\ x.tail \in {"clean", "junk"}
              /\ Lines(x) \subseteq trusted \cup {op[h]}
              /\ x.tail = "clean" => op[h] \in Lines(x)
        BY <2>2, <1>1, <1>2, <1>5, <1>8, ExtendedType, LinesOfAppend DEF Proven, LeafContents
      <3> QED
        BY <3>1, <3>2, <2>1, <1>3 DEF Phase, Dangling
    <2>3. CASE ~o.ok
      <3>1. pc'[h] = "poison"
        BY <2>3, <1>4 DEF IInv, TypeInv, TypeOK
      <3> QED
        BY <3>1, <2>1 DEF Phase, Dangling
    <2> QED
      BY <1>8, <2>2, <2>3
  <1>13. ASSUME NEW g \in Handles, g # h PROVE Phase(g)'
    BY <1>13, <1>1, <1>4, Alone DEF Phase, Critical, IInv, TypeInv, TypeOK
  <1> QED
    BY <1>7, <1>9, <1>10, <1>11, <1>12, <1>13 DEF IInv

LEMMA PublishStep ==
  ASSUME IInv, TypeInv', NEW h \in Handles, assertPublishedAfterFsync(h)
  PROVE  IInv'
  <1>1. lock = h /\ pc[h] = "publish"
    BY DEF assertPublishedAfterFsync, IInv, Locked, Critical
  <1>2. UNCHANGED <<leaf, wal, lock, op, acked>>
    BY DEF assertPublishedAfterFsync, files
  <1>3. trusted \subseteq trusted'
    BY DEF assertPublishedAfterFsync
  <1>4. Guarded' /\ Covered' /\ Kept'
    BY <1>2, <1>3 DEF IInv, Guarded, Covered, Kept, Proven, Refuses, LeafContents, WalContents
  <1>5. /\ \A w \in WalContents' : Dangling(w)
        /\ \A x \in LeafContents' :
             /\ x.tail \in {"clean", "junk"}
             /\ Lines(x) \subseteq trusted' \cup {op'[h]}
             /\ x.tail = "clean" => op'[h] \in Lines(x)
    BY <1>1, <1>2, <1>3 DEF IInv, Phase, LeafContents, WalContents
  <1>6. \/ pc' = [pc EXCEPT ![h] = "commit"] /\ op'[h] \in trusted'
        \/ pc' = [pc EXCEPT ![h] = "poison"]
    BY <1>2 DEF assertPublishedAfterFsync
  <1>7. Phase(h)'
    BY <1>5, <1>6 DEF Phase, IInv, TypeInv, TypeOK, Dangling
  <1>8. ASSUME NEW g \in Handles, g # h PROVE Phase(g)'
    BY <1>8, <1>1, <1>6, Alone DEF Phase, Critical, IInv, TypeInv, TypeOK
  <1>9. Locked'
    BY <1>1, <1>2, <1>6 DEF IInv, Locked, Critical, TypeInv, TypeOK
  <1> QED
    BY <1>4, <1>7, <1>8, <1>9 DEF IInv

LEMMA WalCommitStep ==
  ASSUME IInv, TypeInv', NEW h \in Handles, WalCommit(h)
  PROVE  IInv'
  <1>1. lock = h /\ pc[h] = "commit"
    BY DEF WalCommit, IInv, Locked, Critical
  <1>2. UNCHANGED <<leaf, trusted>>
    BY DEF WalCommit
  <1>3. /\ \A x \in LeafContents : Proven(x)
        /\ \A x \in LeafContents : x.tail \in {"clean", "junk"}
        /\ \A x \in LeafContents : x.tail = "clean" => op[h] \in Lines(x)
    BY <1>1 DEF IInv, Phase, Proven
  <1>4. acked' \subseteq acked \cup {op[h]}
    BY DEF WalCommit
  <1>5. Guarded' /\ Covered' /\ \A x \in LeafContents' : Proven(x)'
    BY <1>2, <1>3 DEF IInv, Guarded, Covered, Proven, LeafContents
  <1>6. Kept'
    <2> SUFFICES ASSUME NEW x \in LeafContents, x.tail # "junk"
                 PROVE  acked' \subseteq Lines(Torn(x))
      BY <1>2 DEF Kept, LeafContents
    <2>1. x \in Contents(Records) /\ x.tail = "clean"
      BY <1>3 DEF IInv, TypeInv, TypeOK, Files, LeafContents
    <2>2. Lines(Torn(x)) = Lines(x)
      BY <2>1, LinesOfTorn
    <2>3. acked \subseteq Lines(x) /\ op[h] \in Lines(x)
      BY <2>1, <2>2, <1>3 DEF IInv, Kept
    <2> QED
      BY <2>2, <2>3, <1>4
  <1>7. \/ pc' = [pc EXCEPT ![h] = "idle"] /\ lock' = None
        \/ pc' = [pc EXCEPT ![h] = "poison"] /\ UNCHANGED lock
    BY DEF WalCommit
  <1>8. Locked'
    <2>1. CASE pc' = [pc EXCEPT ![h] = "idle"] /\ lock' = None
      BY <2>1, <1>1, Alone, CallsAssumption DEF Locked, Critical, IInv, TypeInv, TypeOK
    <2>2. CASE pc' = [pc EXCEPT ![h] = "poison"] /\ UNCHANGED lock
      BY <2>2, <1>1 DEF IInv, Locked, Critical, TypeInv, TypeOK
    <2> QED
      BY <1>7, <2>1, <2>2
  <1>9. Phase(h)'
    BY <1>5, <1>7 DEF Phase, IInv, TypeInv, TypeOK
  <1>10. ASSUME NEW g \in Handles, g # h PROVE Phase(g)'
    BY <1>10, <1>1, <1>7, Alone DEF Phase, Critical, IInv, TypeInv, TypeOK
  <1> QED
    BY <1>5, <1>6, <1>8, <1>9, <1>10 DEF IInv

LEMMA PoisonStep ==
  ASSUME IInv, TypeInv', NEW h \in Handles, Poison(h)
  PROVE  IInv'
  <1> DEFINE r == [t |-> "poison"]
  <1>1. lock = h /\ pc[h] = "poison" /\ r \in WalRecords /\ r.t = "poison"
    BY WalRecordTypes DEF Poison, IInv, Locked, Critical
  <1>2. UNCHANGED <<leaf, acked, trusted>>
    BY DEF Poison, history
  <1>3. Covered' /\ Kept'
    BY <1>2 DEF IInv, Covered, Kept, LeafContents
  <1>4. Guarded'
    <2>1. CASE \A x \in LeafContents : Proven(x)
      BY <2>1, <1>2 DEF Guarded, Proven, LeafContents
    <2>2. CASE \A w \in WalContents : Dangling(w)
      <3>1. CASE wal' = wal
        BY <3>1, <2>2, <1>2 DEF Guarded, Dangling, Refuses, WalContents
      <3>2. CASE wal' # wal
        <4>1. PICK o \in AppendOutcomes(wal, r) : wal' = o.file /\ wal.cur.tail # "junk"
          BY <3>2 DEF Poison, WalReadable
        <4>2. /\ wal \in Files(WalRecords) /\ wal.cur \in Contents(WalRecords)
              /\ wal.cur.recs \in Seq(WalRecords)
          BY DEF IInv, TypeInv, TypeOK, Files, Contents
        <4>3. wal.cur.tail = "clean" /\ WalPending(wal.cur.recs)
          BY <2>2, <4>1 DEF Dangling, WalContents
        <4>4. WalPending(Append(wal.cur.recs, r))
          BY <4>2, <4>3, <1>1, PendingAfter
        <4>5. WalPending(Torn(wal.cur).recs)
          BY <4>2, <4>3, TornType
        <4>6. WalPending(Whole(wal.cur, r).recs)
          BY <4>4, Zenon DEF Whole
        <4>7. WalPending(Extended(wal.cur, r).recs)
          <5>1. Extended(wal.cur, r).recs = Append(wal.cur.recs, r)
            BY <4>2, <4>3, <1>1, ExtendedType
          <5> QED
            BY <5>1, <4>4, Zenon
        <4>8. \A w \in WalContents' :
                \/ w \in WalContents
                \/ w = Torn(wal.cur)
                \/ w = Extended(wal.cur, r)
                \/ w = Whole(wal.cur, r)
          <5>0. /\ WalContents' = o.file.may \cup {o.file.cur}
                /\ WalContents = wal.may \cup {wal.cur}
            BY <4>1 DEF WalContents
          <5>1. /\ o.ok \in BOOLEAN
                /\ o.ok => o.file = Synced(Extended(wal.cur, r))
                /\ ~o.ok =>
                     \A w \in o.file.may \cup {o.file.cur} :
                       \/ w \in wal.may \cup {wal.cur}
                       \/ w = Torn(wal.cur)
                       \/ w = Extended(wal.cur, r)
                       \/ w = Whole(wal.cur, r) /\ wal.cur.tail # "noeol"
            BY <1>1, <4>2, Outcome
          <5>2. CASE o.ok
            BY <5>0, <5>1, <5>2 DEF Synced
          <5>3. CASE ~o.ok
            BY <5>0, <5>1, <5>3
          <5> QED
            BY <5>1, <5>2, <5>3
        <4>9. \A w \in WalContents' : Refuses(w)
          BY <2>2, <4>5, <4>6, <4>7, <4>8, Zenon DEF Refuses, Dangling
        <4> QED
          BY <4>9 DEF Guarded, Refuses
      <3> QED
        BY <3>1, <3>2
    <2> QED
      BY <2>1, <2>2, <1>1 DEF IInv, Phase
  <1>5. Thrown(h) /\ lock' = None
    BY DEF Poison
  <1>6. \A g \in Handles : pc'[g] \notin Critical
    BY <1>1, <1>5, Alone DEF Thrown, Critical, IInv, TypeInv, TypeOK
  <1>7. Locked' /\ \A g \in Handles : Phase(g)'
    BY <1>5, <1>6, CallsAssumption DEF Locked, Phase, Critical
  <1> QED
    BY <1>3, <1>4, <1>7 DEF IInv

LEMMA ReconcileStep ==
  ASSUME IInv, TypeInv', NEW h \in Handles, Reconcile(h)
  PROVE  IInv'
  <1>1. UNCHANGED <<leaf, lock, pc, op, acked>> /\ lock = None
    BY DEF Reconcile
  <1>2. trusted' = trusted \cup Lines(leaf.cur)
    BY DEF Reconcile
  <1>3. \A x \in LeafContents' : Proven(x)'
    BY <1>1, <1>2 DEF IInv, Covered, LeafContents, Proven
  <1>4. Guarded' /\ Covered' /\ Kept'
    BY <1>1, <1>3 DEF IInv, Guarded, Covered, Kept, Proven, LeafContents
  <1>5. \A g \in Handles : pc'[g] \notin Critical
    BY <1>1, CallsAssumption DEF IInv, Locked
  <1>6. Locked' /\ \A g \in Handles : Phase(g)'
    BY <1>1, <1>5, CallsAssumption DEF Locked, Phase, Critical
  <1> QED
    BY <1>4, <1>6 DEF IInv

LEMMA PowerLossStep ==
  ASSUME IInv, TypeInv', PowerLoss
  PROVE  IInv'
  <1>1. PICK x \in leaf.may, w \in wal.may : leaf' = Synced(x) /\ wal' = Synced(w)
    BY DEF PowerLoss
  <1>2. LeafContents' = {x} /\ WalContents' = {w} /\ leaf'.cur = x /\ leaf'.may = {x}
    BY <1>1 DEF LeafContents, WalContents, Synced
  <1>3. UNCHANGED <<acked, trusted>> /\ lock' = None /\ \A g \in Handles : pc'[g] = "idle"
    BY DEF PowerLoss, history
  <1>4. x \in LeafContents /\ w \in WalContents
    BY DEF LeafContents, WalContents
  <1>5. Guarded'
    BY <1>2, <1>3, <1>4 DEF IInv, Guarded, Refuses, Proven
  <1>6. Covered' /\ Kept'
    BY <1>2, <1>3, <1>4 DEF IInv, Covered, Kept
  <1>7. Locked' /\ \A g \in Handles : Phase(g)'
    BY <1>3, CallsAssumption DEF Locked, Phase, Critical
  <1> QED
    BY <1>5, <1>6, <1>7 DEF IInv

LEMMA LockAndDecideStep ==
  ASSUME IInv, TypeInv', NEW h \in Handles, LockAndDecide(h)
  PROVE  IInv'
  <1>1. UNCHANGED <<leaf, wal, acked, trusted>> /\ lock = None /\ pc[h] = "opened"
    BY DEF LockAndDecide, files, history
  <1>2. \A g \in Handles : pc[g] \notin Critical
    BY <1>1, CallsAssumption DEF IInv, Locked
  <1>3. CASE /\ Answers(wal.cur, leaf.cur)
             /\ lock' = h
             /\ pc' = [pc EXCEPT ![h] = "intent"]
    <2>1. /\ ~Refuses(wal.cur) /\ leaf.cur.tail # "junk" /\ wal.cur.tail # "junk"
      BY <1>3 DEF Answers, Refuses, foldContent, WalReadable
    <2>2. \A x \in LeafContents : Proven(x)
      BY <2>1 DEF IInv, Guarded, WalContents
    <2>3. Phase(h)'
      BY <1>1, <1>3, <2>1, <2>2 DEF Phase, Proven, LeafContents, IInv, TypeInv, TypeOK
    <2>4. \A g \in Handles : g # h => Phase(g)'
      BY <1>2, <1>3 DEF Phase, Critical, IInv, TypeInv, TypeOK
    <2>5. Locked'
      BY <1>2, <1>3 DEF Locked, Critical, IInv, TypeInv, TypeOK
    <2>6. Guarded' /\ Covered' /\ Kept'
      BY <1>1 DEF IInv, Guarded, Covered, Kept, Proven, Refuses, LeafContents, WalContents
    <2> QED
      BY <2>3, <2>4, <2>5, <2>6 DEF IInv
  <1>4. CASE /\ UNCHANGED lock
             /\ Thrown(h) \/ pc' = [pc EXCEPT ![h] = "idle"]
    <2>1. \A g \in Handles : pc'[g] \notin Critical
      BY <1>2, <1>4 DEF Thrown, Critical, IInv, TypeInv, TypeOK
    <2>2. Locked'
      BY <1>1, <1>4, <2>1, CallsAssumption DEF Locked
    <2> QED
      BY <1>1, <2>1, <2>2, Quiet
  <1> QED
    BY <1>3, <1>4 DEF LockAndDecide

LEMMA NextIInv == IInv /\ [Next]_vars => IInv'
  <1> SUFFICES ASSUME IInv, [Next]_vars PROVE IInv'
    OBVIOUS
  <1>0. TypeInv'
    BY NextType DEF IInv
  <1>1. ASSUME NEW h \in Handles, NEW c \in Calls, Reserve(h, c) \/ SettleCompleted(h, c)
        PROVE  IInv'
    <2>1. /\ UNCHANGED <<leaf, wal, acked, trusted, lock>> /\ pc[h] = "idle"
          /\ \E v \in {"opened", "retry"} : pc' = [pc EXCEPT ![h] = v]
          /\ \A g \in Handles : g # h => op'[g] = op[g]
      BY <1>1 DEF Reserve, SettleCompleted, files, history, IInv, TypeInv, TypeOK
    <2>2. \A g \in Handles : pc'[g] \notin Critical \/ (pc'[g] = pc[g] /\ op'[g] = op[g])
      BY <2>1 DEF Critical, IInv, TypeInv, TypeOK
    <2>3. Locked'
      BY <2>1 DEF Critical, IInv, TypeInv, TypeOK, Locked
    <2> QED
      BY <1>0, <2>1, <2>2, <2>3, Quiet
  <1>2. ASSUME NEW h \in Handles, Retry(h) \/ LockTimeout(h) PROVE IInv'
    <2>1. /\ UNCHANGED <<leaf, wal, acked, trusted, lock>> /\ pc[h] \notin Critical
          /\ \E v \in {"opened", "retry", "idle"} : pc' = [pc EXCEPT ![h] = v]
          /\ \A g \in Handles : g # h => op'[g] = op[g]
      BY <1>2 DEF Retry, LockTimeout, Thrown, Critical, files, history, IInv, TypeInv, TypeOK
    <2>2. \A g \in Handles : pc'[g] \notin Critical \/ (pc'[g] = pc[g] /\ op'[g] = op[g])
      BY <2>1 DEF Critical, IInv, TypeInv, TypeOK
    <2>3. Locked'
      BY <2>1 DEF Critical, IInv, TypeInv, TypeOK, Locked
    <2> QED
      BY <1>0, <2>1, <2>2, <2>3, Quiet
  <1>3. ASSUME NEW h \in Handles, ProcessCrash(h) PROVE IInv'
    <2>1. /\ UNCHANGED <<leaf, wal, acked, trusted>>
          /\ pc' = [pc EXCEPT ![h] = "idle"]
          /\ op' = [op EXCEPT ![h] = NoOp]
          /\ lock' = IF lock = h THEN None ELSE lock
      BY <1>3 DEF ProcessCrash, files, history
    <2>2. \A g \in Handles : pc'[g] \notin Critical \/ (pc'[g] = pc[g] /\ op'[g] = op[g])
      BY <2>1 DEF Critical, IInv, TypeInv, TypeOK
    <2>3. Locked'
      BY <2>1, CallsAssumption DEF Critical, IInv, TypeInv, TypeOK, Locked
    <2> QED
      BY <1>0, <2>1, <2>2, <2>3, Quiet
  <1>4. CASE \/ \E c \in Calls : ProviderCharges(c) \/ TerminalRecord(c) \/ ScopeEmpties(c)
             \/ LeafMoved
             \/ UNCHANGED vars
    <2>1. UNCHANGED <<leaf, wal, acked, trusted, lock, pc, op>>
      BY <1>4 DEF ProviderCharges, TerminalRecord, ScopeEmpties, LeafMoved, vars,
                  files, control, history
    <2>2. Locked'
      BY <2>1 DEF IInv, Locked
    <2> QED
      BY <1>0, <2>1, <2>2, Quiet
  <1> QED
    BY <1>0, <1>1, <1>2, <1>3, <1>4, WalIntentStep, LeafAppendStep, PublishStep, WalCommitStep,
       PoisonStep, ReconcileStep, PowerLossStep, LockAndDecideStep DEF Next, Transact

\* No ordinary read ever believes bytes that were not proven at their visible
\* path or accepted by a reconciliation: the write-ahead intent is durable
\* before the leaf is touched, and nothing but a commit or a reconciliation
\* clears it (LedgerHandle.txn, poison, read).
THEOREM NeverLaundered == Spec => []NothingLaundered
  <1>1. IInv => NothingLaundered
    BY DEF IInv, Guarded, NothingLaundered, Answers, Refuses, WalReadable, Proven,
           LeafContents, WalContents
  <1> QED
    BY <1>1, InitIInv, NextIInv, PTL DEF Spec

\* A reservation or settlement whose transaction returned is never silently
\* lost, by any crash, tear, failed fsync, power loss or reconciliation.
THEOREM AckedNeverLost == Spec => []AckedSurvives
  <1>1. IInv => AckedSurvives
    <2> SUFFICES ASSUME IInv, NEW x \in leaf.may \cup {leaf.cur}, x.tail # "junk"
                 PROVE  acked \subseteq Lines(x)
      BY DEF AckedSurvives
    <2>1. x \in Contents(Records) /\ acked \subseteq Lines(Torn(x))
      BY DEF IInv, Kept, LeafContents, TypeInv, TypeOK, Files
    <2> QED
      BY <2>1, LinesOfTorn
  <1> QED
    BY <1>1, InitIInv, NextIInv, PTL DEF Spec

-----------------------------------------------------------------------------
(* The money theorem of the ledger: what the providers charge stays within   *)
(* the budget, for any number of processes and calls, whatever crashes,      *)
(* tears, loses power or is reconciled on the way.                           *)

-----------------------------------------------------------------------------
(* A sum of amounts over a set of calls is the number of units in it.  The   *)
(* fold the ledger sums with takes the calls in an unknown order; counting   *)
(* units gives its value without one.                                        *)

Pick(s) == CHOOSE x \in s : TRUE

UnitsOf(f, c) == {c} \X (1..f[c])
Units(f, S) == UNION {UnitsOf(f, c) : c \in S}

LEMMA UnitsOfCall ==
  ASSUME NEW c, NEW f, f[c] \in Nat
  PROVE  IsFiniteSet(UnitsOf(f, c)) /\ Cardinality(UnitsOf(f, c)) = f[c]
<1>1. IsFiniteSet(1..f[c]) /\ Cardinality(1..f[c]) = f[c]
  BY SMTT(40), FS_Interval
<1>2. IsFiniteSet({c}) /\ Cardinality({c}) = 1
  BY FS_Singleton
<1>3. /\ IsFiniteSet({c} \X (1..f[c]))
      /\ Cardinality({c} \X (1..f[c])) = Cardinality({c}) * Cardinality(1..f[c])
  BY <1>1, <1>2, FS_Product
<1> QED
  BY <1>1, <1>2, <1>3 DEF UnitsOf

LEMMA UnitsFinite ==
  ASSUME NEW S, IsFiniteSet(S), NEW f, \A c \in S : f[c] \in Nat
  PROVE  IsFiniteSet(Units(f, S)) /\ Cardinality(Units(f, S)) \in Nat
<1> DEFINE T == {UnitsOf(f, c) : c \in S}
           g == [c \in S |-> UnitsOf(f, c)]
<1>1. g \in Surjection(S, T)
  BY DEF Surjection
<1>2. IsFiniteSet(T)
  BY <1>1, FS_Surjection
<1>3. \A t \in T : IsFiniteSet(t)
  BY UnitsOfCall
<1> QED
  BY <1>2, <1>3, FS_UNION, FS_CardinalityType DEF Units

LEMMA UnitsAdd ==
  ASSUME NEW S, IsFiniteSet(S), NEW x, x \notin S, NEW f, \A c \in S \cup {x} : f[c] \in Nat
  PROVE  Cardinality(Units(f, S \cup {x})) = Cardinality(Units(f, S)) + f[x]
<1>1. Units(f, S \cup {x}) = Units(f, S) \cup UnitsOf(f, x)
  BY DEF Units
<1>2. Units(f, S) \cap UnitsOf(f, x) = {}
  BY DEF Units, UnitsOf
<1>3. IsFiniteSet(Units(f, S)) /\ Cardinality(Units(f, S)) \in Nat
  BY UnitsFinite
<1>4. IsFiniteSet(UnitsOf(f, x)) /\ Cardinality(UnitsOf(f, x)) = f[x] /\ f[x] \in Nat
  BY UnitsOfCall
<1>5. Cardinality({}) = 0
  BY FS_EmptySet
<1>6. Cardinality(Units(f, S) \cup UnitsOf(f, x)) =
        Cardinality(Units(f, S)) + Cardinality(UnitsOf(f, x))
          - Cardinality(Units(f, S) \cap UnitsOf(f, x))
  BY <1>3, <1>4, FS_Union
<1>7. Cardinality(Units(f, S) \cap UnitsOf(f, x)) = 0
  BY <1>2, <1>5
<1>8. Cardinality(Units(f, S \cup {x})) = Cardinality(Units(f, S) \cup UnitsOf(f, x))
  BY <1>1
<1> QED
  BY ONLY <1>3, <1>4, <1>6, <1>7, <1>8

\* More calls, and more for each of them, make no smaller sum.
LEMMA UnitsMonotone ==
  ASSUME NEW S, NEW T, IsFiniteSet(T), NEW f, NEW g, \A c \in T : g[c] \in Nat,
         \A c \in S : f[c] \in Nat /\ (f[c] > 0 => c \in T /\ f[c] <= g[c])
  PROVE  Cardinality(Units(f, S)) <= Cardinality(Units(g, T))
<1>1. Units(f, S) \subseteq Units(g, T)
  <2> SUFFICES ASSUME NEW c \in S, NEW u \in UnitsOf(f, c) PROVE u \in Units(g, T)
    BY DEF Units
  <2>1. PICK k \in 1..f[c] : u = <<c, k>>
    BY DEF UnitsOf
  <2>2. f[c] \in Nat /\ f[c] > 0 /\ c \in T /\ k \in 1..g[c]
    BY <2>1
  <2>3. u \in UnitsOf(g, c)
    BY <2>1, <2>2 DEF UnitsOf
  <2> QED
    BY <2>2, <2>3 DEF Units
<1> QED
  BY <1>1, UnitsFinite, FS_Subset

\* The number of units solves the fold's recursion ...
LEMMA UnitsRecursion ==
  ASSUME NEW S, IsFiniteSet(S), NEW f, \A c \in S : f[c] \in Nat,
         NEW s \in SUBSET S
  PROVE  /\ s = {} => Cardinality(Units(f, s)) = 0
         /\ s # {} => /\ Pick(s) \in s
                      /\ Cardinality(Units(f, s)) =
                           f[Pick(s)] + Cardinality(Units(f, s \ {Pick(s)}))
<1>1. ASSUME s = {} PROVE Cardinality(Units(f, s)) = 0
  <2>1. Units(f, s) = {}
    BY <1>1 DEF Units
  <2> QED
    BY <2>1, FS_EmptySet
<1>2. ASSUME s # {} PROVE Pick(s) \in s
  BY <1>2 DEF Pick
<1>3. ASSUME s # {}
      PROVE  Cardinality(Units(f, s)) = f[Pick(s)] + Cardinality(Units(f, s \ {Pick(s)}))
  <2> DEFINE x == Pick(s)
             t == s \ {x}
  <2>1. x \in s
    BY <1>2, <1>3
  <2> HIDE DEF x
  <2>2. IsFiniteSet(t) /\ x \notin t /\ t \cup {x} = s
    BY <2>1, FS_Subset
  <2>3. \A c \in t \cup {x} : f[c] \in Nat
    BY <2>1
  <2> HIDE DEF t
  <2>4. Cardinality(Units(f, t)) \in Nat
    BY <2>2, <2>3, UnitsFinite
  <2>5. Cardinality(Units(f, s)) = Cardinality(Units(f, t)) + f[x]
    BY <2>2, <2>3, UnitsAdd
  <2> QED
    BY <2>1, <2>3, <2>4, <2>5 DEF t, x
<1> QED
  BY <1>1, <1>2, <1>3

LEMMA LeastNumber ==
  ASSUME NEW S \in SUBSET Nat, S # {}
  PROVE  \E m \in S : \A n \in S : m <= n
<1> DEFINE R == {ss \in Nat \X Nat : ss[1] < ss[2]}
<1>1. IsWellFoundedOn(R, Nat)
  BY NatLessThanWellFounded DEF OpToRel
<1>2. \A x, y \in Nat : y < x => <<y, x>> \in R
  OBVIOUS
<1> HIDE DEF R
<1>3. \E x \in S : \A y \in S : ~ (<<y, x>> \in R)
  BY <1>1, WFMin
<1>4. \E x \in S : \A y \in S : ~(y < x)
  BY <1>2, <1>3
<1> QED
  BY <1>4

\* ... and is its only solution: a smallest set on which another one differs
\* would be a set it differs on without one of its elements.
LEMMA FoldUnique ==
  ASSUME NEW S, IsFiniteSet(S), NEW f, \A c \in S : f[c] \in Nat, NEW iter,
         \A s \in SUBSET S :
           iter[s] = IF s = {} THEN 0 ELSE f[Pick(s)] + iter[s \ {Pick(s)}]
  PROVE  iter[S] = Cardinality(Units(f, S))
<1> DEFINE Bad == {s \in SUBSET S : iter[s] # Cardinality(Units(f, s))}
           Sizes == {Cardinality(s) : s \in Bad}
<1> SUFFICES ASSUME Bad # {} PROVE FALSE
  OBVIOUS
<1>1. \A s \in SUBSET S : IsFiniteSet(s) /\ Cardinality(s) \in Nat
  BY FS_Subset, FS_CardinalityType
<1>2. Sizes \in SUBSET Nat /\ Sizes # {}
  BY <1>1
<1>3. PICK m \in Sizes : \A n \in Sizes : m <= n
  <2> HIDE DEF Sizes
  <2> QED
    BY <1>2, LeastNumber
<1>4. PICK s \in Bad : m = Cardinality(s)
  BY <1>3
<1>5. s # {}
  BY UnitsRecursion
<1>6. Pick(s) \in s /\ s \ {Pick(s)} \in SUBSET S
  BY <1>5, UnitsRecursion
<1>7. Cardinality(s \ {Pick(s)}) < m
  BY <1>1, <1>4, <1>6, FS_RemoveElement
<1>8. s \ {Pick(s)} \notin Bad
  <2>1. ASSUME s \ {Pick(s)} \in Bad PROVE FALSE
    <3>1. Cardinality(s \ {Pick(s)}) \in Sizes
      BY <2>1
    <3>2. m \in Nat /\ Cardinality(s \ {Pick(s)}) \in Nat
      BY <1>2, <3>1
    <3>3. m <= Cardinality(s \ {Pick(s)})
      BY <1>3, <3>1
    <3> QED
      BY ONLY <1>7, <3>2, <3>3
  <2> QED
    BY <2>1
<1>9. iter[s \ {Pick(s)}] = Cardinality(Units(f, s \ {Pick(s)}))
  BY <1>6, <1>8
<1> QED
  BY <1>4, <1>5, <1>9, UnitsRecursion

\* The two sums of the ledger, as units.
LEMMA PaidIsUnits ==
  ASSUME \A c \in Calls : paid[c] \in Nat
  PROVE  Paid = Cardinality(Units(paid, Calls))
<1> DEFINE G == [s \in SUBSET Calls |-> Cardinality(Units(paid, s))]
           Eq(iter) == iter = [s \in SUBSET Calls |->
                         IF s = {} THEN 0 ELSE paid[Pick(s)] + iter[s \ {Pick(s)}]]
           I == CHOOSE iter : Eq(iter)
<1>1. Paid = I[Calls]
  BY Zenon DEF Paid, MapThenSumSet, MapThenFoldSet, Pick
<1>2. Eq(G)
  <2>1. \A s \in SUBSET Calls :
          G[s] = IF s = {} THEN 0 ELSE paid[Pick(s)] + G[s \ {Pick(s)}]
    BY UnitsRecursion, CallsAssumption
  <2> QED
    BY <2>1
<1>3. Eq(I)
  <2> HIDE DEF Eq, G
  <2> QED
    BY <1>2
<1>4. \A s \in SUBSET Calls :
        I[s] = IF s = {} THEN 0 ELSE paid[Pick(s)] + I[s \ {Pick(s)}]
  <2> HIDE DEF I
  <2> QED
    BY <1>3
<1> HIDE DEF I
<1> QED
  BY <1>1, <1>4, FoldUnique, CallsAssumption

Reserved(recs) == {c \in Calls : ReservedIn(recs, c)}
Charges(recs) == [c \in Reserved(recs) |-> Charge(recs, c)]

LEMMA SpendIsUnits ==
  ASSUME NEW recs, \A c \in Reserved(recs) : Charge(recs, c) \in Nat
  PROVE  /\ IsFiniteSet(Reserved(recs)) /\ \A c \in Reserved(recs) : Charges(recs)[c] \in Nat
         /\ spendOf(recs) = Cardinality(Units(Charges(recs), Reserved(recs)))
<1> DEFINE S == Reserved(recs)
           f == Charges(recs)
           G == [s \in SUBSET S |-> Cardinality(Units(f, s))]
           Eq(iter) == iter = [s \in SUBSET S |->
                         IF s = {} THEN 0 ELSE Charge(recs, Pick(s)) + iter[s \ {Pick(s)}]]
           I == CHOOSE iter : Eq(iter)
<1>0. IsFiniteSet(S) /\ \A c \in S : f[c] \in Nat /\ f[c] = Charge(recs, c)
  BY CallsAssumption, FS_Subset DEF Reserved, Charges
<1>1. spendOf(recs) = I[S]
  BY Zenon DEF spendOf, MapThenSumSet, MapThenFoldSet, Pick, Reserved
<1> HIDE DEF S, f
<1>2. Eq(G)
  <2>1. \A s \in SUBSET S :
          G[s] = IF s = {} THEN 0 ELSE f[Pick(s)] + G[s \ {Pick(s)}]
    BY <1>0, UnitsRecursion
  <2>2. \A s \in SUBSET S : s # {} => f[Pick(s)] = Charge(recs, Pick(s))
    BY <1>0, UnitsRecursion
  <2> QED
    BY <2>1, <2>2
<1>3. Eq(I)
  <2> HIDE DEF Eq, G
  <2> QED
    BY <1>2
<1>4. \A s \in SUBSET S :
        I[s] = IF s = {} THEN 0 ELSE f[Pick(s)] + I[s \ {Pick(s)}]
  <2> HIDE DEF I
  <2>1. \A s \in SUBSET S : s # {} => f[Pick(s)] = Charge(recs, Pick(s))
    BY <1>0, UnitsRecursion
  <2> QED
    BY <1>3, <2>1
<1> HIDE DEF I
<1>5. I[S] = Cardinality(Units(f, S))
  BY <1>0, <1>4, FoldUnique
<1> QED
  BY <1>0, <1>1, <1>5 DEF S, f

-----------------------------------------------------------------------------
(* What the journal says of the money.                                       *)

\* A record says what its call reserved or what its terminal record named.
TrueRecord(r) ==
  /\ r.type = "reserve" =>
       r.worst = (IF Budget > 0 THEN WorstCase[r.call] ELSE 0) /\ r.enforced = (Budget > 0)
  /\ r.type = "settle" => (r.kind = "accounted" => r.usd = reported[r.call])

Truthful(recs) == \A i \in DOMAIN recs : TrueRecord(recs[i])

AccountedIn(recs, c) ==
  \E i \in DOMAIN recs : recs[i].type = "settle" /\ recs[i].call = c /\ recs[i].kind = "accounted"

\* A journal the budget allows, while the providers keep to their bounds.
Sound(recs) ==
  /\ WellFormed(recs)
  /\ Truthful(recs)
  /\ Budget > 0 /\ ProvidersKeepBounds => spendOf(recs) <= Budget

\* What reserve() and appendSettlement() decided an append on.
Legal(recs, r) ==
  IF r.type = "reserve"
    THEN ~ReservedIn(recs, r.call) /\ (Budget > 0 => spendOf(recs) + r.worst <= Budget)
    ELSE ReservedIn(recs, r.call) /\ ~SettledIn(recs, r.call)

LEMMA FieldTypes ==
  ASSUME NEW r \in Records
  PROVE  /\ r.call \in Calls /\ r.type \in {"reserve", "settle"}
         /\ r.type = "reserve" => r.worst \in Nat
         /\ r.type = "settle" =>
              r.usd \in Nat /\ r.kind \in {"uncertain", "accounted", "fallback"}
  BY DEF Records, Reserves, Settles, Amounts

\* A well-formed journal settles a call once, after it reserved it.
LEMMA WellFormedMeans ==
  ASSUME NEW recs \in Seq(Records), WellFormed(recs), NEW i \in DOMAIN recs,
         recs[i].type = "settle"
  PROVE  /\ ReservedIn(recs, recs[i].call)
         /\ \A j \in DOMAIN recs :
              recs[j].type = "settle" /\ recs[j].call = recs[i].call => j = i
<1>0. DOMAIN recs = 1..Len(recs) /\ Len(recs) \in Nat
  OBVIOUS
<1>1. ASSUME NEW k \in DOMAIN recs, recs[k].type = "settle"
      PROVE  /\ \E j \in 1..(k - 1) : recs[j].type = "reserve" /\ recs[j].call = recs[k].call
             /\ \A j \in 1..(k - 1) : recs[j].call = recs[k].call => recs[j].type # "settle"
  <2>1. recs[k].type # "reserve"
    BY <1>1
  <2>2. LET before == {recs[j] : j \in 1..(k - 1)}
            same   == {r \in before : r.call = recs[k].call}
        IN  (\E r \in same : r.type = "reserve") /\ (\A r \in same : r.type # "settle")
    BY <1>1, <2>1, Zenon DEF WellFormed
  <2> QED
    BY <2>2
<1>2. ReservedIn(recs, recs[i].call)
  BY <1>0, <1>1 DEF ReservedIn
<1>3. ASSUME NEW j \in DOMAIN recs, recs[j].type = "settle", recs[j].call = recs[i].call, j # i
      PROVE  FALSE
  <2>1. CASE j < i
    BY <1>0, <1>1, <1>3, <2>1
  <2>2. CASE i < j
    BY <1>0, <1>1, <1>3, <2>2
  <2> QED
    BY <1>0, <1>3, <2>1, <2>2
<1> QED
  BY <1>2, <1>3

LEMMA ChargeIs ==
  ASSUME TypeOK, Budget > 0, NEW recs \in Seq(Records), WellFormed(recs), Truthful(recs),
         NEW c \in Reserved(recs)
  PROVE  /\ Charge(recs, c) = IF AccountedIn(recs, c) THEN reported[c] ELSE WorstCase[c]
         /\ Charge(recs, c) \in Nat
<1>0. /\ c \in Calls /\ WorstCase[c] \in Nat
      /\ \A i \in DOMAIN recs : recs[i] \in Records /\ TrueRecord(recs[i])
  BY MoneyAssumption DEF Reserved, Truthful
<1> DEFINE All == {recs[i] : i \in DOMAIN recs}
           res == ReserveOf(recs, c)
           set == SettleOf(recs, c)
<1>1. res \in All /\ res.type = "reserve" /\ res.call = c
  <2>1. \E r \in All : r.type = "reserve" /\ r.call = c
    BY DEF Reserved, ReservedIn
  <2> HIDE DEF All
  <2> QED
    BY <2>1 DEF ReserveOf, All
<1>2. res.worst = WorstCase[c]
  BY <1>0, <1>1 DEF TrueRecord
<1>3. ASSUME SettledIn(recs, c) PROVE set \in All /\ set.type = "settle" /\ set.call = c
  <2>1. \E r \in All : r.type = "settle" /\ r.call = c
    BY <1>3 DEF SettledIn
  <2> HIDE DEF All
  <2> QED
    BY <2>1 DEF SettleOf, All
<1> HIDE DEF res, set
<1>4. ASSUME AccountedIn(recs, c) PROVE SettledIn(recs, c) /\ set.kind = "accounted"
  <2>1. PICK i \in DOMAIN recs :
          recs[i].type = "settle" /\ recs[i].call = c /\ recs[i].kind = "accounted"
    BY <1>4 DEF AccountedIn
  <2>2. SettledIn(recs, c)
    BY <2>1 DEF SettledIn
  <2>3. PICK j \in DOMAIN recs : set = recs[j]
    BY <2>2, <1>3
  <2>4. j = i
    BY <2>1, <2>2, <2>3, <1>3, WellFormedMeans
  <2> QED
    BY <2>1, <2>2, <2>3, <2>4
<1>5. ASSUME SettledIn(recs, c), set.kind = "accounted"
      PROVE  AccountedIn(recs, c) /\ set.usd = reported[c] /\ set.usd \in Nat
  <2>1. PICK j \in DOMAIN recs : set = recs[j]
    BY <1>3, <1>5
  <2> QED
    BY <1>0, <1>3, <1>5, <2>1, FieldTypes DEF AccountedIn, TrueRecord
<1>6. CASE AccountedIn(recs, c)
  BY <1>4, <1>5, <1>6 DEF Charge, costIsTrusted, set
<1>7. CASE ~AccountedIn(recs, c)
  <2>1. ~(SettledIn(recs, c) /\ costIsTrusted(SettleOf(recs, c)))
    BY <1>5, <1>7 DEF costIsTrusted, set
  <2>2. Charge(recs, c) = ReserveOf(recs, c).worst
    BY <2>1 DEF Charge
  <2> QED
    BY <1>0, <1>2, <1>7, <2>2 DEF res
<1> QED
  BY <1>6, <1>7

\* An append adds one line at the end.
LEMMA AppendIs ==
  ASSUME NEW recs \in Seq(Records), NEW r \in Records
  PROVE  LET t == Append(recs, r)
             n == Len(recs)
         IN  /\ t \in Seq(Records) /\ n \in Nat /\ DOMAIN recs = 1..n /\ DOMAIN t = 1..(n + 1)
             /\ t[n + 1] = r /\ \A i \in 1..n : t[i] = recs[i]
  OBVIOUS

LEMMA AppendSays ==
  ASSUME NEW recs \in Seq(Records), NEW r \in Records, NEW c
  PROVE  /\ ReservedIn(Append(recs, r), c) <=>
              ReservedIn(recs, c) \/ (r.type = "reserve" /\ r.call = c)
         /\ AccountedIn(Append(recs, r), c) <=>
              \/ AccountedIn(recs, c)
              \/ r.type = "settle" /\ r.call = c /\ r.kind = "accounted"
<1> DEFINE t == Append(recs, r)
           n == Len(recs)
<1>1. /\ n \in Nat /\ DOMAIN recs = 1..n /\ DOMAIN t = 1..(n + 1)
      /\ t[n + 1] = r /\ \A i \in 1..n : t[i] = recs[i]
  BY AppendIs
<1> HIDE DEF t, n
<1>2. \A i \in DOMAIN t : (i \in DOMAIN recs /\ t[i] = recs[i]) \/ t[i] = r
  BY <1>1
<1>3. \A i \in DOMAIN recs : i \in DOMAIN t /\ t[i] = recs[i]
  BY <1>1
<1>4. n + 1 \in DOMAIN t
  BY <1>1
<1>5. ReservedIn(t, c) <=> ReservedIn(recs, c) \/ (r.type = "reserve" /\ r.call = c)
  BY <1>1, <1>2, <1>3, <1>4 DEF ReservedIn
<1>6. AccountedIn(t, c) <=>
        AccountedIn(recs, c) \/ (r.type = "settle" /\ r.call = c /\ r.kind = "accounted")
  BY <1>1, <1>2, <1>3, <1>4 DEF AccountedIn
<1> QED
  BY <1>5, <1>6 DEF t

LEMMA WellFormedAppend ==
  ASSUME NEW recs \in Seq(Records), WellFormed(recs), NEW r \in Records, Legal(recs, r)
  PROVE  WellFormed(Append(recs, r))
<1> DEFINE t == Append(recs, r)
           n == Len(recs)
<1>1. /\ n \in Nat /\ DOMAIN recs = 1..n /\ DOMAIN t = 1..(n + 1)
      /\ t[n + 1] = r /\ \A i \in 1..n : t[i] = recs[i] /\ recs[i] \in Records
  BY AppendIs
<1> HIDE DEF t, n
<1> DEFINE Before(q, i) == {q[j] : j \in 1..(i - 1)}
           Same(q, i) == {b \in Before(q, i) : b.call = q[i].call}
           Fits(q, i) == IF q[i].type = "reserve" THEN Same(q, i) = {}
                         ELSE /\ \E b \in Same(q, i) : b.type = "reserve"
                              /\ \A b \in Same(q, i) : b.type # "settle"
<1>2. ASSUME NEW i \in 1..n PROVE Fits(t, i)
  <2>1. t[i] = recs[i] /\ \A j \in 1..(i - 1) : t[j] = recs[j]
    BY <1>1
  <2>2. Before(t, i) = Before(recs, i)
    BY <2>1
  <2>3. Fits(recs, i)
    BY <1>1, Zenon DEF WellFormed
  <2> HIDE DEF Before
  <2> QED
    BY <2>1, <2>2, <2>3
<1>3. Fits(t, n + 1)
  <2>1. Before(t, n + 1) = {recs[j] : j \in DOMAIN recs}
    <3>1. 1..((n + 1) - 1) = DOMAIN recs
      BY <1>1
    <3> QED
      BY <1>1, <3>1
  <2>2. t[n + 1] = r /\ r.type \in {"reserve", "settle"}
    BY <1>1, FieldTypes
  <2>3. CASE r.type = "reserve"
    <3>1. \A j \in DOMAIN recs : recs[j].call = r.call => FALSE
      <4> SUFFICES ASSUME NEW j \in DOMAIN recs, recs[j].call = r.call PROVE FALSE
        OBVIOUS
      <4>1. recs[j].type # "reserve"
        BY <2>3 DEF Legal, ReservedIn
      <4>2. recs[j].type = "settle"
        BY <1>1, <4>1, FieldTypes
      <4> QED
        BY <2>3, <4>2, WellFormedMeans DEF Legal
    <3> QED
      BY <2>1, <2>2, <2>3, <3>1
  <2>4. CASE r.type = "settle"
    <3>1. \E j \in DOMAIN recs : recs[j].type = "reserve" /\ recs[j].call = r.call
      BY <2>4 DEF Legal, ReservedIn
    <3>2. \A j \in DOMAIN recs : recs[j].call = r.call => recs[j].type # "settle"
      BY <2>4 DEF Legal, SettledIn
    <3> HIDE DEF Before
    <3> QED
      BY <2>1, <2>2, <2>4, <3>1, <3>2
  <2> QED
    BY <2>2, <2>3, <2>4
<1>4. \A i \in DOMAIN t : Fits(t, i)
  <2> HIDE DEF Fits
  <2>1. \A i \in DOMAIN t : i \in 1..n \/ i = n + 1
    BY <1>1
  <2> QED
    BY <1>2, <1>3, <2>1
<1>5. WellFormed(t)
  BY <1>4, Zenon DEF WellFormed
<1> QED
  BY <1>5 DEF t

\* An append the ledger decided on keeps the journal within the budget.
LEMMA SoundAppend ==
  ASSUME TypeOK, NEW recs \in Seq(Records), Sound(recs), NEW r \in Records, TrueRecord(r),
         Legal(recs, r)
  PROVE  Sound(Append(recs, r))
<1> DEFINE t == Append(recs, r)
<1>1. t \in Seq(Records) /\ WellFormed(t)
  BY WellFormedAppend DEF Sound
<1>2. Truthful(t)
  <2>1. \A i \in DOMAIN t : (i \in DOMAIN recs /\ t[i] = recs[i]) \/ t[i] = r
    BY AppendIs
  <2> HIDE DEF t
  <2> QED
    BY <2>1 DEF Truthful, Sound
<1>3. \A c : /\ ReservedIn(t, c) <=>
                  ReservedIn(recs, c) \/ (r.type = "reserve" /\ r.call = c)
             /\ AccountedIn(t, c) <=>
                  AccountedIn(recs, c) \/ (r.type = "settle" /\ r.call = c /\ r.kind = "accounted")
  BY AppendSays
<1> HIDE DEF t
<1>4. ASSUME Budget > 0, ProvidersKeepBounds PROVE spendOf(t) <= Budget
  <2>0. r.call \in Calls /\ r.type \in {"reserve", "settle"} /\ Budget \in Nat
    BY FieldTypes, MoneyAssumption
  <2>1. \A c \in Reserved(recs) :
          /\ Charge(recs, c) = IF AccountedIn(recs, c) THEN reported[c] ELSE WorstCase[c]
          /\ Charge(recs, c) \in Nat
    BY <1>4, ChargeIs DEF Sound
  <2>2. \A c \in Reserved(t) :
          /\ Charge(t, c) = IF AccountedIn(t, c) THEN reported[c] ELSE WorstCase[c]
          /\ Charge(t, c) \in Nat
    BY <1>1, <1>2, <1>4, ChargeIs
  <2>3. /\ IsFiniteSet(Reserved(recs)) /\ \A c \in Reserved(recs) : Charges(recs)[c] \in Nat
        /\ spendOf(recs) = Cardinality(Units(Charges(recs), Reserved(recs)))
    BY <2>1, SpendIsUnits
  <2>4. /\ IsFiniteSet(Reserved(t)) /\ \A c \in Reserved(t) : Charges(t)[c] \in Nat
        /\ spendOf(t) = Cardinality(Units(Charges(t), Reserved(t)))
    BY <2>2, SpendIsUnits
  <2>5. \A c \in Reserved(recs) : c \in Reserved(t)
    BY <1>3 DEF Reserved
  <2>6. CASE r.type = "reserve"
    <3>1. r.call \notin Reserved(recs) /\ Reserved(t) = Reserved(recs) \cup {r.call}
      BY <1>3, <2>0, <2>6 DEF Legal, Reserved
    <3>2. \A c \in Reserved(recs) : Charges(t)[c] = Charges(recs)[c]
      BY <1>3, <2>1, <2>2, <2>5, <2>6 DEF Charges
    <3>3. Charges(t)[r.call] = r.worst
      <4>1. ~AccountedIn(recs, r.call)
        <5>1. ASSUME AccountedIn(recs, r.call) PROVE FALSE
          <6>1. PICK i \in DOMAIN recs : recs[i].type = "settle" /\ recs[i].call = r.call
            BY <5>1 DEF AccountedIn
          <6>2. ReservedIn(recs, r.call)
            BY <6>1, WellFormedMeans DEF Sound
          <6> QED
            BY <6>2, <2>6 DEF Legal
        <5> QED
          BY <5>1
      <4>2. r.worst = WorstCase[r.call]
        BY <1>4, <2>6 DEF TrueRecord
      <4> QED
        BY <1>3, <2>2, <2>6, <3>1, <4>1, <4>2 DEF Charges
    <3>4. Cardinality(Units(Charges(t), Reserved(t))) =
            Cardinality(Units(Charges(t), Reserved(recs))) + Charges(t)[r.call]
      <4>1. \A c \in Reserved(recs) \cup {r.call} : Charges(t)[c] \in Nat
        BY <2>4, <3>1
      <4>2. Cardinality(Units(Charges(t), Reserved(recs) \cup {r.call})) =
              Cardinality(Units(Charges(t), Reserved(recs))) + Charges(t)[r.call]
        BY <2>3, <3>1, <4>1, UnitsAdd
      <4> QED
        BY <3>1, <4>2
    <3>5. Cardinality(Units(Charges(t), Reserved(recs)))
            <= Cardinality(Units(Charges(recs), Reserved(recs)))
      BY <2>3, <3>2, UnitsMonotone
    <3>6. /\ Cardinality(Units(Charges(t), Reserved(recs))) \in Nat
          /\ Cardinality(Units(Charges(recs), Reserved(recs))) \in Nat
      BY <2>3, <3>2, UnitsFinite
    <3>7. spendOf(recs) + r.worst <= Budget /\ r.worst \in Nat
      BY <1>4, <2>6, FieldTypes DEF Legal
    <3> QED
      BY ONLY <2>0, <2>3, <2>4, <3>3, <3>4, <3>5, <3>6, <3>7
  <2>7. CASE r.type = "settle"
    <3>1. Reserved(t) = Reserved(recs)
      BY <1>3, <2>7 DEF Reserved
    <3>2. ASSUME NEW c \in Reserved(recs) PROVE Charges(t)[c] <= Charges(recs)[c]
      <4>0. c \in Calls /\ WorstCase[c] \in Nat /\ Charges(recs)[c] \in Nat
        BY <2>3, MoneyAssumption DEF Reserved
      <4>1. CASE AccountedIn(t, c) /\ ~AccountedIn(recs, c)
        <5>1. r.call = c /\ r.kind = "accounted" /\ r.usd = reported[c] /\ r.usd \in Nat
          BY <1>3, <2>7, <4>1, FieldTypes DEF TrueRecord
        <5>2. reported[c] = paid[c] /\ paid[c] <= WorstCase[c]
          BY <1>4, <4>0, <5>1 DEF ProvidersKeepBounds, Unreported
        <5> QED
          BY <2>1, <2>2, <3>1, <4>1, <5>2 DEF Charges
      <4>2. CASE AccountedIn(t, c) <=> AccountedIn(recs, c)
        BY <2>1, <2>2, <3>1, <4>0, <4>2 DEF Charges
      <4> QED
        BY <1>3, <4>1, <4>2
    <3>3. Cardinality(Units(Charges(t), Reserved(t)))
            <= Cardinality(Units(Charges(recs), Reserved(recs)))
      BY <2>3, <2>4, <3>1, <3>2, UnitsMonotone
    <3>4. /\ Cardinality(Units(Charges(t), Reserved(t))) \in Nat
          /\ Cardinality(Units(Charges(recs), Reserved(recs))) \in Nat
      BY <2>3, <2>4, UnitsFinite
    <3>5. spendOf(recs) <= Budget
      BY <1>4 DEF Sound
    <3> QED
      BY ONLY <2>0, <2>3, <2>4, <3>3, <3>4, <3>5
  <2> QED
    BY <2>0, <2>6, <2>7
<1> QED
  BY <1>1, <1>2, <1>4 DEF Sound, t

\* Every launched call is charged at least what its provider took.
LEMMA PaidWithin ==
  ASSUME TypeOK, Budget > 0, ProvidersKeepBounds, NEW recs \in Seq(Records), Sound(recs),
         \A c \in Calls : paid[c] > 0 => ReservedIn(recs, c)
  PROVE  Paid <= Budget
<1>1. \A c \in Calls : paid[c] \in Nat
  BY DEF TypeOK
<1>2. \A c \in Reserved(recs) :
        /\ Charge(recs, c) = IF AccountedIn(recs, c) THEN reported[c] ELSE WorstCase[c]
        /\ Charge(recs, c) \in Nat
  BY ChargeIs DEF Sound
<1>3. /\ IsFiniteSet(Reserved(recs)) /\ \A c \in Reserved(recs) : Charges(recs)[c] \in Nat
      /\ spendOf(recs) = Cardinality(Units(Charges(recs), Reserved(recs)))
  BY <1>2, SpendIsUnits
<1>4. ASSUME NEW c \in Calls, paid[c] > 0
      PROVE  c \in Reserved(recs) /\ paid[c] <= Charges(recs)[c]
  <2>1. c \in Reserved(recs)
    BY <1>4 DEF Reserved
  <2>2. paid[c] <= WorstCase[c] /\ reported[c] \in {Unreported, paid[c]}
    BY DEF ProvidersKeepBounds
  <2>3. Charges(recs)[c] = Charge(recs, c)
    BY <2>1 DEF Charges
  <2>4. CASE AccountedIn(recs, c)
    BY <1>1, <1>2, <2>1, <2>2, <2>3, <2>4 DEF Unreported
  <2>5. CASE ~AccountedIn(recs, c)
    BY <1>2, <2>1, <2>2, <2>3, <2>5
  <2> QED
    BY <2>1, <2>4, <2>5
<1>5. Cardinality(Units(paid, Calls)) <= Cardinality(Units(Charges(recs), Reserved(recs)))
  BY <1>1, <1>3, <1>4, UnitsMonotone
<1>6. /\ Cardinality(Units(paid, Calls)) \in Nat
      /\ Cardinality(Units(Charges(recs), Reserved(recs))) \in Nat
  BY <1>1, <1>3, UnitsFinite, CallsAssumption
<1>7. Paid = Cardinality(Units(paid, Calls))
  BY <1>1, PaidIsUnits
<1>8. spendOf(recs) <= Budget /\ Budget \in Nat
  BY MoneyAssumption DEF Sound
<1> QED
  BY ONLY <1>3, <1>5, <1>6, <1>7, <1>8

-----------------------------------------------------------------------------
(* The invariant.  A content that a power loss may leave is sound, and so is *)
(* what a torn write would leave of it; where a journal has become           *)
(* unreadable, a sound one that holds everything answered still exists as a  *)
(* witness; and whatever was launched was answered.                          *)

Holds(recs, R) == \A r \in R : \E i \in DOMAIN recs : recs[i] = r

\* Some sound journal holds the records R.
Backs(R) == \E recs \in Seq(Records) : Sound(recs) /\ Holds(recs, R)

SoundJournals == \A x \in LeafContents : Sound(x.recs) /\ Sound(Torn(x).recs)

Backed == \A x \in LeafContents : x.tail = "junk" => Backs(acked)

AckedCall(c) == \E r \in acked : r.type = "reserve" /\ r.call = c

\* Nothing runs, charges or is waited for before its reservation was answered.
LaunchedAcked ==
  \A c \in Calls : paid[c] > 0 \/ alive[c] \/ caller[c] # None => AckedCall(c)

\* The terminal record names no more than was charged.
OutlayKnown == \A c \in Calls : reported[c] <= paid[c]

TrueOps ==
  \A h \in Handles : pc[h] # "idle" =>
    TrueRecord(op[h]) /\ (op[h].type = "settle" => AckedCall(op[h].call))

\* A settlement with authority over its call's scope.
Authority(r) == r.type = "settle" => (r.kind # "uncertain" => ~alive[r.call])

Scoped ==
  StrongScope =>
    /\ \A r \in Lines(leaf.cur) : Authority(r)
    /\ \A h \in Handles : pc[h] \in {"opened", "intent", "append"} => Authority(op[h])

\* What the decision of the handle that holds the lock still guarantees.
Decided(h) ==
  /\ pc[h] \in {"intent", "append"} => Legal(leaf.cur.recs, op[h])
  /\ pc[h] \in {"publish", "commit"} =>
       \A x \in LeafContents : x.tail = "junk" => Backs(acked \cup {op[h]})
  /\ pc[h] \in {"intent", "append", "publish", "commit"} =>
       (op[h].type = "reserve" =>
          /\ ~AckedCall(op[h].call)
          /\ \A r \in Lines(leaf.cur) : r.type = "settle" => r.call # op[h].call)

BudgetInv ==
  /\ IInv
  /\ SoundJournals
  /\ Backed
  /\ LaunchedAcked
  /\ OutlayKnown
  /\ TrueOps
  /\ Scoped
  /\ \A h \in Handles : Decided(h)

LEMMA EmptySound == ASSUME TypeOK PROVE Sound(<<>>)
<1>1. WellFormed(<<>>) /\ Truthful(<<>>)
  BY DEF WellFormed, Truthful
<1>2. Reserved(<<>>) = {}
  BY DEF Reserved, ReservedIn
<1>3. spendOf(<<>>) = Cardinality(Units(Charges(<<>>), {}))
  BY <1>2, SpendIsUnits
<1>4. Units(Charges(<<>>), {}) = {}
  BY DEF Units
<1>5. spendOf(<<>>) = 0
  BY <1>3, <1>4, FS_EmptySet
<1> QED
  BY <1>1, <1>5, MoneyAssumption DEF Sound

LEMMA InitBudget == Init => BudgetInv
<1> SUFFICES ASSUME Init PROVE BudgetInv
  OBVIOUS
<1>1. /\ leaf.cur = Empty /\ leaf.may = {Empty} /\ acked = {}
      /\ Empty.recs = <<>> /\ Empty.tail = "clean" /\ Torn(Empty).recs = <<>>
  BY DEF Init, Synced, Empty, Torn
<1>2. IInv /\ TypeOK
  BY InitIInv DEF IInv, TypeInv
<1>3. SoundJournals
  BY <1>1, <1>2, EmptySound DEF SoundJournals, LeafContents
<1>4. Backed
  BY <1>1 DEF Backed, LeafContents
<1>5. LaunchedAcked /\ OutlayKnown
  BY DEF Init, LaunchedAcked, OutlayKnown, Unreported
<1>6. TrueOps /\ \A h \in Handles : Decided(h)
  BY DEF Init, TrueOps, Decided
<1>7. Scoped
  <2>1. Lines(leaf.cur) = {} /\ \A h \in Handles : pc[h] = "idle"
    BY <1>1 DEF Lines, Init
  <2> QED
    BY <2>1 DEF Scoped
<1> QED
  BY <1>2, <1>3, <1>4, <1>5, <1>6, <1>7 DEF BudgetInv

\* The providers' promise, once broken, stays broken, and a record that was true
\* stays true: a journal that was sound is sound after any step.
MoneyMoves ==
  /\ \A c \in Calls : reported'[c] = reported[c] \/ reported[c] = Unreported
  /\ ProvidersKeepBounds' => ProvidersKeepBounds

LEMMA MoneyStep ==
  ASSUME TypeOK, OutlayKnown,
         \/ UNCHANGED <<paid, reported>>
         \/ \E c \in Calls : ProviderCharges(c) \/ TerminalRecord(c)
  PROVE  MoneyMoves /\ OutlayKnown'
<1>0. /\ \A c \in Calls : paid[c] \in Nat /\ reported[c] \in Int
      /\ \A c \in Calls : WorstCase[c] \in Nat
  BY MoneyAssumption DEF TypeOK, Unreported
<1>1. CASE UNCHANGED <<paid, reported>>
  BY <1>1 DEF MoneyMoves, OutlayKnown, ProvidersKeepBounds
<1>2. ASSUME NEW c \in Calls, ProviderCharges(c) PROVE MoneyMoves /\ OutlayKnown'
  <2>1. reported' = reported /\ \A d \in Calls : paid'[d] = IF d = c THEN paid[d] + 1 ELSE paid[d]
    BY <1>2 DEF ProviderCharges, TypeOK
  <2>2. OutlayKnown'
    BY <1>0, <2>1 DEF OutlayKnown
  <2>3. ASSUME ProvidersKeepBounds', NEW d \in Calls
        PROVE  paid[d] <= WorstCase[d] /\ reported[d] \in {Unreported, paid[d]}
    BY <1>0, <2>1, <2>3 DEF ProvidersKeepBounds, OutlayKnown
  <2> QED
    BY <2>1, <2>2, <2>3 DEF MoneyMoves, ProvidersKeepBounds
<1>3. ASSUME NEW c \in Calls, TerminalRecord(c) PROVE MoneyMoves /\ OutlayKnown'
  <2>1. /\ paid' = paid /\ reported[c] = Unreported
        /\ \A d \in Calls : reported'[d] = IF d = c THEN paid[d] ELSE reported[d]
    BY <1>3 DEF TerminalRecord, TypeOK
  <2>2. OutlayKnown'
    BY <1>0, <2>1 DEF OutlayKnown
  <2> QED
    BY <1>0, <2>1, <2>2 DEF MoneyMoves, ProvidersKeepBounds
<1> QED
  BY <1>1, <1>2, <1>3

LEMMA TrueStays ==
  ASSUME TypeOK, MoneyMoves, NEW r \in Records, TrueRecord(r)
  PROVE  TrueRecord(r)'
  BY FieldTypes DEF TrueRecord, MoneyMoves, Unreported

LEMMA SoundStays ==
  ASSUME TypeOK, MoneyMoves, NEW recs \in Seq(Records), Sound(recs)
  PROVE  Sound(recs)'
<1>1. Truthful(recs)'
  BY TrueStays DEF Sound, Truthful
<1> QED
  BY <1>1 DEF Sound, MoneyMoves

LEMMA BacksStays ==
  ASSUME TypeOK, MoneyMoves, NEW R, Backs(R)
  PROVE  Backs(R)'
  BY SoundStays DEF Backs

\* The contents of the leaf hold records.
LEMMA ContentTypes ==
  ASSUME TypeOK, NEW x \in LeafContents
  PROVE  /\ x \in Contents(Records) /\ x.recs \in Seq(Records)
         /\ Torn(x).recs \in Seq(Records) /\ Lines(x) \subseteq Records
<1>1. x \in Contents(Records)
  BY DEF TypeOK, Files, LeafContents
<1>2. Torn(x) \in Contents(Records)
  BY <1>1, TornType
<1> QED
  BY <1>1, <1>2 DEF Contents, Lines

\* The primed invariants, with the record a handle will hold named.
LEMMA TrueOpsIs ==
  ASSUME \A h \in Handles : pc'[h] # "idle" =>
           \E r \in Records : /\ op'[h] = r /\ TrueRecord(r)'
                              /\ r.type = "settle" => AckedCall(r.call)'
  PROVE  TrueOps'
<1>1. ASSUME NEW h \in Handles, pc'[h] # "idle"
      PROVE  (TrueRecord(op[h]) /\ (op[h].type = "settle" => AckedCall(op[h].call)))'
  <2>1. PICK r \in Records : /\ op'[h] = r /\ TrueRecord(r)'
                             /\ r.type = "settle" => AckedCall(r.call)'
    BY <1>1
  <2>2. TrueRecord(op[h])'
    BY <2>1 DEF TrueRecord
  <2>3. (op[h].type = "settle" => AckedCall(op[h].call))'
    BY <2>1 DEF AckedCall
  <2> QED
    BY <2>2, <2>3
<1> QED
  BY <1>1 DEF TrueOps

LEMMA ScopedIs ==
  ASSUME StrongScope => \A r \in Lines(leaf'.cur) : Authority(r)',
         StrongScope => \A h \in Handles : pc'[h] \in {"opened", "intent", "append"} =>
                          \E r \in Records : op'[h] = r /\ Authority(r)'
  PROVE  Scoped'
  BY DEF Scoped, Authority

\* A reservation of a call that nothing answered and nothing settled.
Fresh(r) ==
  r.type = "reserve" =>
    /\ ~AckedCall(r.call)
    /\ \A q \in Lines(leaf.cur) : q.type = "settle" => q.call # r.call

\* A step that leaves the journal and the answers alone.
LEMMA JournalStill ==
  ASSUME BudgetInv, IInv', UNCHANGED <<leaf, acked>>, MoneyMoves, OutlayKnown',
         \A c \in Calls : /\ alive'[c] => alive[c]
                          /\ caller'[c] \in {None, caller[c]}
                          /\ paid'[c] > 0 => paid[c] > 0 \/ alive[c],
         \A h \in Handles :
           \/ pc'[h] = "idle"
           \/ /\ op'[h] = op[h] /\ pc[h] # "idle"
              /\ \/ pc'[h] \in {pc[h], "retry", "poison"}
                 \/ pc[h] = "intent" /\ pc'[h] = "append"
                 \/ pc[h] = "publish" /\ pc'[h] = "commit"
                 \/ /\ pc[h] = "opened" /\ pc'[h] = "intent"
                    /\ Legal(leaf.cur.recs, op[h]) /\ Fresh(op[h])
           \/ /\ pc'[h] \in {"opened", "retry"}
              /\ \E r \in Records :
                   /\ op'[h] = r /\ TrueRecord(r)'
                   /\ r.type = "settle" => AckedCall(r.call)
                   /\ StrongScope /\ pc'[h] = "opened" => Authority(r)'
  PROVE  BudgetInv'
<1>0. TypeOK /\ IInv
  BY DEF BudgetInv, IInv, TypeInv
<1>1. LeafContents' = LeafContents /\ \A c : AckedCall(c)' <=> AckedCall(c)
  BY DEF LeafContents, AckedCall
<1>2. SoundJournals'
  BY <1>0, <1>1, SoundStays, ContentTypes DEF BudgetInv, SoundJournals
<1>3. Backed'
  BY <1>0, <1>1, BacksStays DEF BudgetInv, Backed
<1>4. LaunchedAcked'
  BY <1>1 DEF BudgetInv, LaunchedAcked
<1>5. TrueOps'
  <2>1. ASSUME NEW h \in Handles, pc'[h] # "idle"
        PROVE  \E r \in Records : /\ op'[h] = r /\ TrueRecord(r)'
                                  /\ r.type = "settle" => AckedCall(r.call)
    <3>1. CASE op'[h] = op[h] /\ pc[h] # "idle"
      <4>1. PICK r \in Records : r = op[h]
        BY <3>1 DEF BudgetInv, IInv, TypeInv, OpTyped
      <4>2. TrueRecord(r) /\ (r.type = "settle" => AckedCall(r.call))
        BY <3>1, <4>1 DEF BudgetInv, TrueOps
      <4>3. TrueRecord(r)'
        BY <1>0, <4>2, TrueStays
      <4> QED
        BY <3>1, <4>1, <4>2, <4>3
    <3>2. CASE \E r \in Records : /\ op'[h] = r /\ TrueRecord(r)'
                                  /\ r.type = "settle" => AckedCall(r.call)
      BY <3>2
    <3> QED
      BY <2>1, <3>1, <3>2
  <2> QED
    BY <2>1, <1>1, TrueOpsIs
<1>6. Scoped'
  <2>0. ASSUME NEW r \in Records, Authority(r) PROVE Authority(r)'
    BY <2>0, FieldTypes DEF Authority
  <2>1. ASSUME StrongScope PROVE \A r \in Lines(leaf.cur) : Authority(r)'
    BY <1>0, <2>0, <2>1, ContentTypes DEF BudgetInv, Scoped, LeafContents
  <2>2. ASSUME StrongScope, NEW h \in Handles, pc'[h] \in {"opened", "intent", "append"}
        PROVE  \E r \in Records : op'[h] = r /\ Authority(r)'
    <3>1. CASE op'[h] = op[h] /\ pc[h] \in {"opened", "intent", "append"}
      <4>1. PICK r \in Records : r = op[h]
        BY <3>1 DEF BudgetInv, IInv, TypeInv, OpTyped
      <4>2. Authority(r)
        BY <2>2, <3>1, <4>1 DEF BudgetInv, Scoped
      <4> QED
        BY <2>0, <3>1, <4>1, <4>2
    <3>2. CASE \E r \in Records : op'[h] = r /\ Authority(r)'
      BY <3>2
    <3> QED
      BY <2>2, <3>1, <3>2
  <2> QED
    BY <2>1, <2>2, ScopedIs
<1>7. ASSUME NEW h \in Handles PROVE Decided(h)'
  <2>1. CASE pc'[h] \notin {"intent", "append", "publish", "commit"}
    BY <2>1 DEF Decided
  <2>2. CASE pc'[h] \in {"intent", "append", "publish", "commit"}
    <3>1. /\ op'[h] = op[h]
          /\ \/ pc'[h] = pc[h]
             \/ pc[h] = "intent" /\ pc'[h] = "append"
             \/ pc[h] = "publish" /\ pc'[h] = "commit"
             \/ /\ pc[h] = "opened" /\ pc'[h] = "intent"
                /\ Legal(leaf.cur.recs, op[h]) /\ Fresh(op[h])
      BY <2>2
    <3>2. Decided(h)
      BY DEF BudgetInv
    <3>3. (pc[h] \in {"intent", "append"} => Legal(leaf.cur.recs, op[h]))'
      BY <3>1, <3>2 DEF Decided, Legal
    <3>4. (pc[h] \in {"publish", "commit"} =>
             \A x \in LeafContents : x.tail = "junk" => Backs(acked \cup {op[h]}))'
      BY <1>0, <1>1, <3>1, <3>2, BacksStays DEF Decided
    <3>5. (pc[h] \in {"intent", "append", "publish", "commit"} =>
             (op[h].type = "reserve" =>
                /\ ~AckedCall(op[h].call)
                /\ \A r \in Lines(leaf.cur) : r.type = "settle" => r.call # op[h].call))'
      BY <1>1, <3>1, <3>2 DEF Decided, Fresh
    <3> QED
      BY <3>3, <3>4, <3>5 DEF Decided
  <2> QED
    BY <2>1, <2>2
<1> QED
  BY <1>2, <1>3, <1>4, <1>5, <1>6, <1>7 DEF BudgetInv

-----------------------------------------------------------------------------
(* The steps that touch neither the journal nor the answers.                 *)

LEMMA ReserveKeeps ==
  ASSUME BudgetInv, IInv', NEW h \in Handles, NEW c \in Calls, Reserve(h, c)
  PROVE  BudgetInv'
<1> DEFINE r == [type |-> "reserve", call |-> c, enforced |-> Budget > 0,
                 worst |-> IF Budget > 0 THEN WorstCase[c] ELSE 0]
<1>0. TypeOK /\ OutlayKnown
  BY DEF BudgetInv, IInv, TypeInv
<1>1. /\ UNCHANGED <<leaf, acked, alive, caller, paid, reported>>
      /\ pc'[h] = "opened" /\ op'[h] = r
      /\ \A g \in Handles : g # h => pc'[g] = pc[g] /\ op'[g] = op[g]
  BY <1>0 DEF Reserve, files, turns, history, TypeOK
<1>2. r \in Records /\ r.type = "reserve" /\ TrueRecord(r)'
  BY MoneyAssumption DEF Records, Reserves, Amounts, TrueRecord
<1>3. Authority(r)'
  BY <1>2 DEF Authority
<1> HIDE DEF r
<1>4. MoneyMoves /\ OutlayKnown'
  BY <1>0, <1>1, MoneyStep
<1>5. \A g \in Handles :
        \/ pc'[g] = "idle"
        \/ op'[g] = op[g] /\ pc[g] # "idle" /\ pc'[g] = pc[g]
        \/ /\ pc'[g] \in {"opened", "retry"}
           /\ \E q \in Records :
                /\ op'[g] = q /\ TrueRecord(q)'
                /\ q.type = "settle" => AckedCall(q.call)
                /\ StrongScope /\ pc'[g] = "opened" => Authority(q)'
  BY <1>1, <1>2, <1>3
<1> QED
  BY <1>1, <1>4, <1>5, JournalStill

LEMMA SettleCompletedKeeps ==
  ASSUME BudgetInv, IInv', NEW h \in Handles, NEW c \in Calls, SettleCompleted(h, c)
  PROVE  BudgetInv'
<1>0. TypeOK /\ OutlayKnown /\ LaunchedAcked
  BY DEF BudgetInv, IInv, TypeInv
<1>1. /\ UNCHANGED <<leaf, acked, alive, caller, paid, reported>>
      /\ pc'[h] \in {"opened", "retry"}
      /\ \A g \in Handles : g # h => pc'[g] = pc[g] /\ op'[g] = op[g]
  BY <1>0 DEF SettleCompleted, files, turns, history, TypeOK
<1>2. PICK kind \in {"uncertain", "accounted", "fallback"} :
        /\ kind = "accounted" => reported[c] # Unreported
        /\ op'[h] = SettleRecord(c, kind)
        /\ StrongScope /\ pc'[h] = "opened" /\ kind # "uncertain" => ~alive[c]
  <2>1. PICK k \in KernelKinds, backend \in {"cgroup2", "pgid"} :
          \E seen \in scopeAlive(c, backend), again \in scopeAlive(c, backend) :
            LET kind == IF seen THEN "uncertain" ELSE k
                mint == kind # "uncertain"
            IN  /\ kind = "accounted" => reported[c] # Unreported
                /\ op' = [op EXCEPT ![h] = SettleRecord(c, kind)]
                /\ tries' = [tries EXCEPT ![h] = IF mint THEN 2 ELSE 1]
                /\ pc' = [pc EXCEPT ![h] =
                           IF (mint => assertMintable(backend, again)) /\ ~poisoned[h] /\ visible
                             THEN "opened" ELSE "retry"]
    BY Zenon DEF SettleCompleted
  <2>2. PICK seen \in scopeAlive(c, backend), again \in scopeAlive(c, backend) :
            LET kind == IF seen THEN "uncertain" ELSE k
                mint == kind # "uncertain"
            IN  /\ kind = "accounted" => reported[c] # Unreported
                /\ op' = [op EXCEPT ![h] = SettleRecord(c, kind)]
                /\ tries' = [tries EXCEPT ![h] = IF mint THEN 2 ELSE 1]
                /\ pc' = [pc EXCEPT ![h] =
                           IF (mint => assertMintable(backend, again)) /\ ~poisoned[h] /\ visible
                             THEN "opened" ELSE "retry"]
    BY <2>1
  <2>3. k \in {"uncertain", "accounted", "fallback"}
    BY KernelKindsType
  <2>4. StrongScope /\ assertMintable(backend, again) => ~alive[c]
    BY DEF assertMintable, scopeAlive
  <2>5. op'[h] = SettleRecord(c, IF seen THEN "uncertain" ELSE k)
    BY <1>0, <2>2 DEF TypeOK
  <2>6. pc'[h] = "opened" /\ (IF seen THEN "uncertain" ELSE k) # "uncertain" =>
          assertMintable(backend, again)
    BY <1>0, <2>2 DEF TypeOK
  <2>7. CASE seen
    BY <2>5, <2>7
  <2>8. CASE ~seen
    BY <2>2, <2>3, <2>4, <2>5, <2>6, <2>8
  <2> QED
    BY <2>7, <2>8
<1>3. PICK r \in Records :
        /\ op'[h] = r /\ r.type = "settle" /\ r.call = c /\ r.kind = kind
        /\ kind = "accounted" => r.usd = reported[c]
  BY <1>0, <1>2, SettleRecordType DEF SettleRecord
<1>4. TrueRecord(r)' /\ (StrongScope /\ pc'[h] = "opened" => Authority(r)')
  BY <1>1, <1>2, <1>3 DEF TrueRecord, Authority
<1>5. AckedCall(c)
  <2>1. caller[c] # None
    BY CallsAssumption DEF SettleCompleted
  <2> QED
    BY <1>0, <2>1 DEF LaunchedAcked
<1>6. MoneyMoves /\ OutlayKnown'
  BY <1>0, <1>1, MoneyStep
<1>7. \A g \in Handles :
        \/ pc'[g] = "idle"
        \/ op'[g] = op[g] /\ pc[g] # "idle" /\ pc'[g] = pc[g]
        \/ /\ pc'[g] \in {"opened", "retry"}
           /\ \E q \in Records :
                /\ op'[g] = q /\ TrueRecord(q)'
                /\ q.type = "settle" => AckedCall(q.call)
                /\ StrongScope /\ pc'[g] = "opened" => Authority(q)'
  BY <1>1, <1>2, <1>3, <1>4, <1>5
<1> QED
  BY <1>1, <1>6, <1>7, JournalStill

LEMMA RetryKeeps ==
  ASSUME BudgetInv, IInv', NEW h \in Handles, Retry(h)
  PROVE  BudgetInv'
<1>0. TypeOK /\ OutlayKnown /\ TrueOps
  BY DEF BudgetInv, IInv, TypeInv
<1>1. /\ UNCHANGED <<leaf, acked, alive, paid, reported>> /\ pc[h] = "retry"
      /\ \A g \in Handles : g # h => pc'[g] = pc[g] /\ op'[g] = op[g]
      /\ \A d \in Calls : caller'[d] \in {None, caller[d]}
  BY <1>0 DEF Retry, files, turns, history, TypeOK
<1>2. PICK c \in Calls : c = op[h].call /\ AckedCall(c)
  <2>1. op[h] \in Records /\ op[h].type = "settle"
    BY <1>1 DEF BudgetInv, IInv, TypeInv, OpTyped
  <2> QED
    BY <1>0, <1>1, <2>1, FieldTypes DEF TrueOps
<1>3. \/ pc'[h] = "idle"
      \/ pc'[h] = "retry" /\ op'[h] = op[h]
      \/ pc'[h] = "opened" /\ op'[h] = SettleRecord(c, "uncertain")
  BY <1>0, <1>1, <1>2 DEF Retry, TypeOK
<1>4. PICK r \in Records : /\ r.type = "settle" /\ r.call = c /\ r.kind = "uncertain"
                           /\ r = SettleRecord(c, "uncertain")
  BY <1>0, SettleRecordType DEF SettleRecord
<1>5. TrueRecord(r)' /\ Authority(r)'
  BY <1>4 DEF TrueRecord, Authority
<1>6. MoneyMoves /\ OutlayKnown'
  BY <1>0, <1>1, MoneyStep
<1>7. \A g \in Handles :
        \/ pc'[g] = "idle"
        \/ op'[g] = op[g] /\ pc[g] # "idle" /\ pc'[g] = pc[g]
        \/ /\ pc'[g] \in {"opened", "retry"}
           /\ \E q \in Records :
                /\ op'[g] = q /\ TrueRecord(q)'
                /\ q.type = "settle" => AckedCall(q.call)
                /\ StrongScope /\ pc'[g] = "opened" => Authority(q)'
  BY <1>1, <1>2, <1>3, <1>4, <1>5
<1> QED
  BY <1>1, <1>6, <1>7, JournalStill

\* A transaction that ends without an append, or moves between its appends.
LEMMA MovesKeep ==
  ASSUME BudgetInv, IInv', NEW h \in Handles,
         UNCHANGED <<leaf, acked, alive, paid, reported>>,
         \A d \in Calls : caller'[d] \in {None, caller[d]},
         \A g \in Handles : g # h => pc'[g] = pc[g] /\ op'[g] = op[g],
         \/ pc'[h] = "idle"
         \/ /\ op'[h] = op[h] /\ pc[h] # "idle"
            /\ \/ pc'[h] \in {pc[h], "retry", "poison"}
               \/ pc[h] = "intent" /\ pc'[h] = "append"
               \/ pc[h] = "publish" /\ pc'[h] = "commit"
  PROVE  BudgetInv'
<1>0. TypeOK /\ OutlayKnown
  BY DEF BudgetInv, IInv, TypeInv
<1>1. MoneyMoves /\ OutlayKnown'
  BY <1>0, MoneyStep
<1>2. \A g \in Handles :
        \/ pc'[g] = "idle"
        \/ /\ op'[g] = op[g] /\ pc[g] # "idle"
           /\ \/ pc'[g] \in {pc[g], "retry", "poison"}
              \/ pc[g] = "intent" /\ pc'[g] = "append"
              \/ pc[g] = "publish" /\ pc'[g] = "commit"
  <2>1. ASSUME NEW g \in Handles, g # h PROVE pc'[g] = pc[g] /\ op'[g] = op[g]
    BY <2>1
  <2> QED
    BY <2>1, Zenon
<1> QED
  BY <1>1, <1>2, JournalStill
LEMMA TransactKeeps ==
  ASSUME BudgetInv, IInv', NEW h \in Handles,
         \/ LockTimeout(h) \/ WalIntent(h) \/ assertPublishedAfterFsync(h)
         \/ Poison(h) \/ ProcessCrash(h)
  PROVE  BudgetInv'
<1>0. TypeOK
  BY DEF BudgetInv, IInv, TypeInv
<1>1. CASE LockTimeout(h)
  BY <1>0, <1>1, MovesKeep DEF LockTimeout, Thrown, files, turns, history, TypeOK
<1>2. CASE WalIntent(h)
  BY <1>0, <1>2, MovesKeep DEF WalIntent, Thrown, turns, history, TypeOK
<1>3. CASE assertPublishedAfterFsync(h)
  BY <1>0, <1>3, MovesKeep DEF assertPublishedAfterFsync, files, turns, TypeOK
<1>4. CASE Poison(h)
  BY <1>0, <1>4, MovesKeep DEF Poison, Thrown, turns, history, TypeOK
<1>5. CASE ProcessCrash(h)
  BY <1>0, <1>5, MovesKeep DEF ProcessCrash, files, history, TypeOK
<1> QED
  BY <1>1, <1>2, <1>3, <1>4, <1>5

LEMMA EnvironmentKeeps ==
  ASSUME BudgetInv, IInv',
         \/ \E h \in Handles : Reconcile(h)
         \/ \E c \in Calls : ProviderCharges(c) \/ TerminalRecord(c) \/ ScopeEmpties(c)
         \/ LeafMoved
         \/ UNCHANGED vars
  PROVE  BudgetInv'
<1>0. TypeOK /\ OutlayKnown
  BY DEF BudgetInv, IInv, TypeInv
<1>1. UNCHANGED <<leaf, acked, pc, op, caller>>
  BY DEF Reconcile, ProviderCharges, TerminalRecord, ScopeEmpties, LeafMoved, vars,
         files, control, turns, history
<1>2. \/ UNCHANGED <<paid, reported>>
      \/ \E c \in Calls : ProviderCharges(c) \/ TerminalRecord(c)
  BY DEF Reconcile, ScopeEmpties, LeafMoved, vars, turns
<1>3. MoneyMoves /\ OutlayKnown'
  BY <1>0, <1>2, MoneyStep
<1>4. ASSUME NEW c \in Calls
      PROVE  (alive'[c] => alive[c]) /\ (paid'[c] > 0 => paid[c] > 0 \/ alive[c])
  BY <1>0 DEF Reconcile, ProviderCharges, TerminalRecord, ScopeEmpties, LeafMoved, vars,
         turns, TypeOK
<1>5. \A h \in Handles : \/ pc'[h] = "idle"
                         \/ op'[h] = op[h] /\ pc[h] # "idle" /\ pc'[h] = pc[h]
  BY <1>1
<1> QED
  BY <1>1, <1>3, <1>4, <1>5, JournalStill

-----------------------------------------------------------------------------
(* The steps of the handle that holds the lock.                              *)

\* Everything answered is in a journal that can be read.
LEMMA AckedInLines ==
  ASSUME IInv, NEW x \in LeafContents, x.tail # "junk"
  PROVE  acked \subseteq Lines(x)
<1>1. x \in Contents(Records) /\ acked \subseteq Lines(Torn(x))
  BY DEF IInv, Kept, TypeInv, TypeOK, Files, LeafContents
<1> QED
  BY <1>1, LinesOfTorn

LEMMA LockAndDecideKeeps ==
  ASSUME BudgetInv, IInv', NEW h \in Handles, LockAndDecide(h)
  PROVE  BudgetInv'
<1>0. TypeOK /\ IInv /\ OutlayKnown
  BY DEF BudgetInv, IInv, TypeInv
<1>1. /\ UNCHANGED <<leaf, acked, alive, caller, paid, reported>> /\ pc[h] = "opened"
      /\ \A g \in Handles : g # h => pc'[g] = pc[g] /\ op'[g] = op[g]
  BY <1>0 DEF LockAndDecide, Thrown, files, turns, history, TypeOK
<1>2. \/ /\ Answers(wal.cur, leaf.cur) /\ Decision(h) = "append"
         /\ pc'[h] = "intent" /\ op'[h] = op[h]
      \/ pc'[h] = "idle"
      \/ pc'[h] = "retry" /\ op'[h] = op[h]
  BY <1>0 DEF LockAndDecide, Thrown, TypeOK
<1>3. CASE pc'[h] = "idle" \/ (pc'[h] = "retry" /\ op'[h] = op[h])
  BY <1>1, <1>3, MovesKeep
<1>4. CASE /\ Answers(wal.cur, leaf.cur) /\ Decision(h) = "append"
           /\ pc'[h] = "intent" /\ op'[h] = op[h]
  <2> DEFINE recs == leaf.cur.recs
  <2>0. /\ leaf.cur \in LeafContents /\ leaf.cur.tail # "junk" /\ WellFormed(recs)
        /\ recs \in Seq(Records) /\ op[h] \in Records
    <3>1. leaf.cur \in LeafContents
      BY DEF LeafContents
    <3> QED
      BY <1>0, <1>1, <1>4, <3>1, ContentTypes
         DEF Answers, foldContent, IInv, TypeInv, OpTyped
  <2>1. TrueRecord(op[h]) /\ Budget \in Nat
    BY <1>1, MoneyAssumption DEF BudgetInv, TrueOps
  <2>2. /\ op[h].type = "reserve" => ~ReservedIn(recs, op[h].call)
        /\ op[h].type = "reserve" => ~(op[h].enforced /\ spendOf(recs) + op[h].worst > Budget)
        /\ op[h].type # "reserve" => ReservedIn(recs, op[h].call) /\ ~SettledIn(recs, op[h].call)
    BY <1>4 DEF Decision
  <2>3. ASSUME op[h].type = "reserve", Budget > 0 PROVE spendOf(recs) + op[h].worst <= Budget
    <3>1. op[h].enforced /\ op[h].worst \in Nat
      BY <2>0, <2>1, <2>3, FieldTypes DEF TrueRecord
    <3>2. spendOf(recs) \in Nat
      <4>1. \A c \in Reserved(recs) : Charge(recs, c) \in Nat
        BY <1>0, <2>0, <2>3, ChargeIs DEF BudgetInv, SoundJournals, Sound
      <4>2. /\ IsFiniteSet(Reserved(recs)) /\ \A c \in Reserved(recs) : Charges(recs)[c] \in Nat
            /\ spendOf(recs) = Cardinality(Units(Charges(recs), Reserved(recs)))
        BY <4>1, SpendIsUnits
      <4> QED
        BY <4>2, UnitsFinite
    <3>3. ~(spendOf(recs) + op[h].worst > Budget)
      BY <2>2, <2>3, <3>1
    <3> QED
      BY ONLY <2>1, <3>1, <3>2, <3>3
  <2>4. Legal(recs, op[h])
    BY <2>2, <2>3 DEF Legal
  <2>5. Fresh(op[h])
    <3> SUFFICES ASSUME op[h].type = "reserve"
                 PROVE  /\ ~AckedCall(op[h].call)
                        /\ \A r \in Lines(leaf.cur) : r.type = "settle" => r.call # op[h].call
      BY DEF Fresh
    <3>1. acked \subseteq Lines(leaf.cur)
      BY <1>0, <2>0, AckedInLines
    <3>2. ~AckedCall(op[h].call)
      BY <2>2, <3>1 DEF AckedCall, Lines, ReservedIn
    <3>3. ASSUME NEW i \in DOMAIN recs, recs[i].type = "settle", recs[i].call = op[h].call
          PROVE  FALSE
      BY <2>0, <2>2, <3>3, WellFormedMeans
    <3> QED
      BY <3>2, <3>3 DEF Lines
  <2>6. MoneyMoves /\ OutlayKnown'
    BY <1>0, <1>1, MoneyStep
  <2>7. \A g \in Handles :
          /\ op'[g] = op[g]
          /\ \/ pc'[g] = pc[g]
             \/ /\ pc[g] = "opened" /\ pc'[g] = "intent"
                /\ Legal(leaf.cur.recs, op[g]) /\ Fresh(op[g])
    BY <1>1, <1>4, <2>4, <2>5
  <2>8. \A g \in Handles :
          \/ pc'[g] = "idle"
          \/ /\ op'[g] = op[g] /\ pc[g] # "idle"
             /\ \/ pc'[g] \in {pc[g], "retry", "poison"}
                \/ /\ pc[g] = "opened" /\ pc'[g] = "intent"
                   /\ Legal(leaf.cur.recs, op[g]) /\ Fresh(op[g])
    BY <2>7
  <2> QED
    BY <1>1, <2>6, <2>8, JournalStill
<1> QED
  BY <1>2, <1>3, <1>4
\* What the file shows after an append.
LEMMA OutcomeShows ==
  ASSUME NEW L, NEW f \in Files(L), NEW r \in L, NEW o \in AppendOutcomes(f, r)
  PROVE  o.file.cur \in {f.cur, Torn(f.cur), Whole(f.cur, r), Extended(f.cur, r)}
<1> DEFINE p == Partial(f.cur, r)
           w == Extended(f.cur, r)
<1>1. \A x \in p : x \in {Torn(f.cur), Whole(f.cur, r)}
  BY DEF Partial, Whole
<1> HIDE DEF p, w
<1>2. \/ o = [file |-> f, ok |-> FALSE]
      \/ \E x \in p : o = [file |-> [cur |-> x, may |-> f.may \cup {x, Torn(f.cur)}], ok |-> FALSE]
      \/ o = [file |-> [cur |-> w, may |-> f.may \cup p \cup {w}], ok |-> FALSE]
      \/ o = [file |-> Synced(w), ok |-> TRUE]
  BY DEF AppendOutcomes, p, w
<1> QED
  BY <1>1, <1>2 DEF Synced, w

\* The contents an append of r to a sound journal can leave are sound.
LEMMA ContentAppended ==
  ASSUME TypeOK, NEW x \in Contents(Records), NEW r \in Records, TrueRecord(r),
         Sound(x.recs), Sound(Torn(x).recs), Legal(x.recs, r),
         NEW y \in {Torn(x), Whole(x, r), Extended(x, r)}
  PROVE  Sound(y.recs) /\ Sound(Torn(y).recs) /\ Lines(y) \subseteq Lines(x) \cup {r}
<1>0. x.recs \in Seq(Records) /\ Sound(Append(x.recs, r))
  BY SoundAppend DEF Contents
<1>1. CASE y = Torn(x)
  <2>1. Torn(x) \in Contents(Records) /\ Torn(x).tail = "torn"
    BY TornType
  <2>2. Torn(Torn(x)).recs = Torn(x).recs
    BY <2>1, TornType
  <2> QED
    BY <1>1, <2>2, LinesOfTorn
<1>2. CASE y = Whole(x, r)
  <2>1. y \in Contents(Records) /\ y.tail = "noeol" /\ y.recs = Append(x.recs, r)
    BY <1>2, WholeType DEF Whole
  <2>2. Torn(Whole(x, r)).recs = SubSeq(Append(x.recs, r), 1, Len(Append(x.recs, r)) - 1)
    BY WholeType, TornType DEF Whole
  <2>3. SubSeq(Append(x.recs, r), 1, Len(Append(x.recs, r)) - 1) = x.recs
    BY <1>0
  <2>4. Sound(y.recs) /\ Sound(Torn(y).recs)
    BY <1>0, <1>2, <2>1, <2>2, <2>3
  <2>5. Lines(Whole(x, r)) = Lines(x) \cup {r}
    BY LinesOfAppend
  <2> QED
    BY <1>2, <2>4, <2>5
<1>3. CASE y = Extended(x, r)
  <2>1. /\ y \in Contents(Records) /\ y.tail \in {"clean", "junk"}
        /\ y.recs = Append(x.recs, r) \/ y.recs = x.recs
    BY <1>3, ExtendedType
  <2>2. Torn(y).recs = y.recs
    BY <2>1, TornType
  <2>3. Lines(y) \subseteq Lines(x) \cup {r}
    BY <1>3, <2>1, LinesOfAppend
  <2> QED
    BY <1>0, <2>1, <2>2, <2>3
<1> QED
  BY <1>1, <1>2, <1>3

LEMMA LeafAppendKeeps ==
  ASSUME BudgetInv, IInv', NEW h \in Handles, LeafAppend(h)
  PROVE  BudgetInv'
<1>0. TypeOK /\ IInv /\ OutlayKnown
  BY DEF BudgetInv, IInv, TypeInv
<1>1. /\ UNCHANGED <<acked, alive, caller, paid, reported, op>>
      /\ pc[h] = "append"
      /\ pc'[h] \in {"publish", "poison"}
      /\ \A g \in Handles : g # h => pc'[g] = pc[g]
  BY <1>0 DEF LeafAppend, turns, history, TypeOK
<1>2. PICK o \in AppendOutcomes(leaf, op[h]) :
        leaf' = o.file /\ (pc'[h] = "publish" => o.ok)
  BY <1>0 DEF LeafAppend, TypeOK
<1>3. PICK r \in Records : r = op[h]
  BY <1>1 DEF BudgetInv, IInv, TypeInv, OpTyped
<1>4. /\ leaf \in Files(Records) /\ leaf.cur \in Contents(Records)
      /\ leaf.cur \in LeafContents /\ leaf.cur.recs \in Seq(Records)
  BY <1>0 DEF TypeOK, Files, Contents, LeafContents
<1>5. /\ TrueRecord(r) /\ Legal(leaf.cur.recs, r) /\ Fresh(r)
      /\ leaf.cur.tail # "junk" /\ (StrongScope => Authority(r))
      /\ r.type = "settle" => AckedCall(r.call)
  <2>1. Phase(h) /\ Decided(h) /\ TrueOps /\ Scoped
    BY <1>0 DEF BudgetInv, IInv
  <2> QED
    BY <1>1, <1>3, <2>1 DEF Phase, Decided, TrueOps, Scoped, Fresh
<1>6. Sound(leaf.cur.recs) /\ Sound(Torn(leaf.cur).recs)
  BY <1>4 DEF BudgetInv, SoundJournals
<1>7. MoneyMoves /\ OutlayKnown'
  BY <1>0, <1>1, MoneyStep
<1>8. acked \subseteq Lines(leaf.cur)
  BY <1>0, <1>4, <1>5, AckedInLines
<1>9. \A y \in LeafContents' :
        y \in LeafContents \/ y \in {Torn(leaf.cur), Whole(leaf.cur, r), Extended(leaf.cur, r)}
  <2>1. CASE o.ok
    <3>1. leaf' = Synced(Extended(leaf.cur, r))
      BY <1>2, <1>3, <1>4, <2>1, Outcome
    <3>2. LeafContents' = {Extended(leaf.cur, r)}
      BY <3>1 DEF LeafContents, Synced
    <3> QED
      BY <3>2
  <2>2. CASE ~o.ok
    BY <1>2, <1>3, <1>4, <2>2, Outcome DEF LeafContents
  <2> QED
    BY <2>1, <2>2
<1>10. Lines(leaf'.cur) \subseteq Lines(leaf.cur) \cup {r}
  <2>1. leaf'.cur \in {leaf.cur, Torn(leaf.cur), Whole(leaf.cur, r), Extended(leaf.cur, r)}
    BY <1>2, <1>3, <1>4, OutcomeShows
  <2> QED
    BY <1>0, <1>4, <1>5, <1>6, <2>1, ContentAppended
<1>11. \A c : AckedCall(c)' <=> AckedCall(c)
  BY <1>1 DEF AckedCall
<1>12. SoundJournals'
  <2>1. ASSUME NEW y \in LeafContents' PROVE Sound(y.recs)' /\ Sound(Torn(y).recs)'
    <3>1. y \in Contents(Records)
      <4>1. /\ Torn(leaf.cur) \in Contents(Records) /\ Whole(leaf.cur, r) \in Contents(Records)
            /\ Extended(leaf.cur, r) \in Contents(Records)
        BY <1>4, TornType, WholeType, ExtendedType
      <4> QED
        BY <1>0, <1>9, <4>1, ContentTypes
    <3>2. y.recs \in Seq(Records) /\ Torn(y).recs \in Seq(Records)
      BY <3>1, TornType DEF Contents
    <3>3. Sound(y.recs) /\ Sound(Torn(y).recs)
      <4>1. CASE y \in LeafContents
        BY <4>1 DEF BudgetInv, SoundJournals
      <4>2. CASE y \in {Torn(leaf.cur), Whole(leaf.cur, r), Extended(leaf.cur, r)}
        BY <1>0, <1>4, <1>5, <1>6, <4>2, ContentAppended
      <4> QED
        BY <1>9, <4>1, <4>2
    <3> QED
      BY <1>0, <1>7, <3>2, <3>3, SoundStays
  <2> QED
    BY <2>1 DEF SoundJournals
<1>13. Backs(acked)'
  <2>1. Holds(leaf.cur.recs, acked)
    BY <1>8 DEF Holds, Lines
  <2>2. Backs(acked)
    BY <1>4, <1>6, <2>1 DEF Backs
  <2> QED
    BY <1>0, <1>1, <1>7, <2>2, BacksStays
<1>14. Backed'
  BY <1>13 DEF Backed
<1>15. LaunchedAcked'
  BY <1>1, <1>11 DEF BudgetInv, LaunchedAcked
<1>16. TrueOps'
  <2>1. ASSUME NEW g \in Handles, pc'[g] # "idle"
        PROVE  \E q \in Records : /\ op'[g] = q /\ TrueRecord(q)'
                                  /\ q.type = "settle" => AckedCall(q.call)'
    <3>1. pc[g] # "idle" /\ op'[g] = op[g]
      BY <1>1, <2>1
    <3>2. PICK q \in Records : q = op[g]
      BY <3>1 DEF BudgetInv, IInv, TypeInv, OpTyped
    <3>3. TrueRecord(q) /\ (q.type = "settle" => AckedCall(q.call))
      BY <3>1, <3>2 DEF BudgetInv, TrueOps
    <3> QED
      BY <1>0, <1>7, <1>11, <3>1, <3>2, <3>3, TrueStays
  <2> QED
    BY <2>1, TrueOpsIs
<1>17. Scoped'
  <2>0. \A q : Authority(q) => Authority(q)'
    BY <1>1 DEF Authority
  <2>1. ASSUME StrongScope PROVE \A q \in Lines(leaf'.cur) : Authority(q)'
    BY <1>5, <1>10, <2>0, <2>1 DEF BudgetInv, Scoped
  <2>2. ASSUME StrongScope, NEW g \in Handles, pc'[g] \in {"opened", "intent", "append"}
        PROVE  \E q \in Records : op'[g] = q /\ Authority(q)'
    <3>1. pc[g] = pc'[g] /\ op'[g] = op[g]
      BY <1>1, <2>2
    <3>2. op[g] \in Records /\ Authority(op[g])
      BY <2>2, <3>1 DEF BudgetInv, IInv, TypeInv, OpTyped, Scoped
    <3> QED
      BY <2>0, <3>1, <3>2
  <2> QED
    BY <2>1, <2>2, ScopedIs
<1>18. ASSUME NEW g \in Handles PROVE Decided(g)'
  <2>1. CASE g # h
    <3>1. lock = h
      BY <1>1 DEF BudgetInv, IInv, Locked, Critical
    <3>2. pc'[g] \notin Critical
      BY <1>0, <1>1, <2>1, <3>1, Alone
    <3> QED
      BY <3>2 DEF Decided, Critical
  <2>2. CASE g = h /\ pc'[h] = "poison"
    BY <2>2 DEF Decided
  <2>3. CASE g = h /\ pc'[h] = "publish"
    <3>1. Backs(acked \cup {r})'
      <4>1. Append(leaf.cur.recs, r) \in Seq(Records) /\ Sound(Append(leaf.cur.recs, r))
        BY <1>0, <1>4, <1>5, <1>6, SoundAppend
      <4>2. Holds(Append(leaf.cur.recs, r), acked \cup {r})
        <5>1. Lines(Whole(leaf.cur, r)) = Lines(leaf.cur) \cup {r}
          BY <1>4, LinesOfAppend
        <5>2. Whole(leaf.cur, r).recs = Append(leaf.cur.recs, r)
          BY DEF Whole
        <5> QED
          BY SMTT(40), <1>8, <5>1, <5>2 DEF Holds, Lines
      <4>3. Backs(acked \cup {r})
        BY <4>1, <4>2 DEF Backs
      <4>4. PICK R : R = acked \cup {r}
        OBVIOUS
      <4>5. Backs(R)'
        BY <1>0, <1>7, <4>3, <4>4, BacksStays
      <4> QED
        BY <1>1, <4>4, <4>5
    <3>2. ASSUME r.type = "reserve"
          PROVE  /\ ~AckedCall(r.call)'
                 /\ \A q \in Lines(leaf'.cur) : q.type = "settle" => q.call # r.call
      BY <1>5, <1>10, <1>11, <3>2 DEF Fresh
    <3>3. op'[g] = r
      BY <1>1, <1>3, <2>3
    <3> QED
      BY <2>3, <3>1, <3>2, <3>3 DEF Decided
  <2> QED
    BY <1>1, <2>1, <2>2, <2>3
<1> QED
  BY <1>7, <1>12, <1>14, <1>15, <1>16, <1>17, <1>18 DEF BudgetInv
\* The answer: its reservation launches the provider.
LEMMA WalCommitKeeps ==
  ASSUME BudgetInv, IInv', NEW h \in Handles, WalCommit(h)
  PROVE  BudgetInv'
<1>0. TypeOK /\ IInv /\ OutlayKnown
  BY DEF BudgetInv, IInv, TypeInv
<1>1. /\ UNCHANGED <<leaf, paid, reported>> /\ pc[h] = "commit"
      /\ \A g \in Handles : g # h => pc'[g] = pc[g] /\ op'[g] = op[g]
  BY <1>0 DEF WalCommit, TypeOK
<1>2. PICK r \in Records : r = op[h]
  BY <1>1 DEF BudgetInv, IInv, TypeInv, OpTyped
<1>3. \/ /\ pc'[h] = "poison" /\ UNCHANGED <<op, acked, caller, alive>>
      \/ /\ pc'[h] = "idle" /\ acked' = acked \cup {r}
         /\ IF r.type = "reserve"
              THEN /\ caller' = [caller EXCEPT ![r.call] = h]
                   /\ alive' = [alive EXCEPT ![r.call] = TRUE]
              ELSE /\ caller' = [caller EXCEPT ![r.call] = None]
                   /\ UNCHANGED alive
  BY <1>0, <1>2 DEF WalCommit, TypeOK
<1>4. CASE pc'[h] = "poison" /\ UNCHANGED <<op, acked, caller, alive>>
  BY <1>1, <1>4, MovesKeep
<1>5. CASE /\ pc'[h] = "idle" /\ acked' = acked \cup {r}
           /\ IF r.type = "reserve"
                THEN /\ caller' = [caller EXCEPT ![r.call] = h]
                     /\ alive' = [alive EXCEPT ![r.call] = TRUE]
                ELSE /\ caller' = [caller EXCEPT ![r.call] = None]
                     /\ UNCHANGED alive
  <2>0. /\ r.call \in Calls
        /\ \A c \in Calls : (alive'[c] = alive[c] /\ caller'[c] \in {None, caller[c]})
                               \/ (r.type = "reserve" /\ c = r.call)
    BY <1>0, <1>5, FieldTypes DEF TypeOK
  <2>1. MoneyMoves /\ OutlayKnown'
    BY <1>0, <1>1, MoneyStep
  <2>2. LeafContents' = LeafContents
    BY <1>1 DEF LeafContents
  <2>3. \A c : AckedCall(c)' <=> AckedCall(c) \/ (r.type = "reserve" /\ r.call = c)
    BY <1>5 DEF AckedCall
  <2>4. Decided(h)
    BY DEF BudgetInv
  <2>5. SoundJournals'
    BY <1>0, <2>1, <2>2, SoundStays, ContentTypes DEF BudgetInv, SoundJournals
  <2>6. Backed'
    <3>1. ASSUME NEW x \in LeafContents, x.tail = "junk" PROVE Backs(acked)'
      <4>1. Backs(acked \cup {r})
        BY <1>1, <1>2, <2>4, <3>1 DEF Decided
      <4>2. PICK R : R = acked \cup {r}
        OBVIOUS
      <4>3. Backs(R)'
        BY <1>0, <2>1, <4>1, <4>2, BacksStays
      <4> QED
        BY <1>5, <4>2, <4>3
    <3> QED
      BY <2>2, <3>1 DEF Backed
  <2>7. LaunchedAcked'
    <3> SUFFICES ASSUME NEW c \in Calls, paid'[c] > 0 \/ alive'[c] \/ caller'[c] # None
                 PROVE  AckedCall(c)'
      BY DEF LaunchedAcked
    <3>1. CASE r.type = "reserve" /\ c = r.call
      BY <2>3, <3>1
    <3>2. CASE alive'[c] = alive[c] /\ caller'[c] \in {None, caller[c]}
      BY <1>1, <2>3, <3>2 DEF BudgetInv, LaunchedAcked
    <3> QED
      BY <2>0, <3>1, <3>2
  <2>8. TrueOps'
    <3>1. ASSUME NEW g \in Handles, pc'[g] # "idle"
          PROVE  \E q \in Records : /\ op'[g] = q /\ TrueRecord(q)'
                                    /\ q.type = "settle" => AckedCall(q.call)'
      <4>1. pc[g] # "idle" /\ op'[g] = op[g]
        BY <1>1, <1>5, <3>1
      <4>2. PICK q \in Records : q = op[g]
        BY <4>1 DEF BudgetInv, IInv, TypeInv, OpTyped
      <4>3. TrueRecord(q) /\ (q.type = "settle" => AckedCall(q.call))
        BY <4>1, <4>2 DEF BudgetInv, TrueOps
      <4> QED
        BY <1>0, <2>1, <2>3, <4>1, <4>2, <4>3, TrueStays
    <3> QED
      BY <3>1, TrueOpsIs
  <2>9. Scoped'
    <3>0. ASSUME NEW q \in Records, Authority(q),
                 r.type = "reserve" /\ q.type = "settle" => q.call # r.call
          PROVE  Authority(q)'
      BY <2>0, <3>0, FieldTypes DEF Authority
    <3>1. ASSUME StrongScope, NEW q \in Lines(leaf.cur) PROVE Authority(q)'
      <4>1. q \in Records /\ Authority(q)
        BY <1>0, <3>1, ContentTypes DEF BudgetInv, Scoped, LeafContents
      <4>2. r.type = "reserve" /\ q.type = "settle" => q.call # r.call
        BY <1>1, <1>2, <2>4 DEF Decided
      <4> QED
        BY <3>0, <4>1, <4>2
    <3>2. ASSUME StrongScope, NEW g \in Handles, pc'[g] \in {"opened", "intent", "append"}
          PROVE  \E q \in Records : op'[g] = q /\ Authority(q)'
      <4>1. pc[g] = pc'[g] /\ op'[g] = op[g]
        BY <1>1, <1>5, <3>2
      <4>2. PICK q \in Records : q = op[g]
        BY <3>2, <4>1 DEF BudgetInv, IInv, TypeInv, OpTyped
      <4>3. Authority(q) /\ (q.type = "settle" => AckedCall(q.call))
        BY <3>2, <4>1, <4>2 DEF BudgetInv, Scoped, TrueOps
      <4>4. r.type = "reserve" => ~AckedCall(r.call)
        BY <1>1, <1>2, <2>4 DEF Decided
      <4>5. r.type = "reserve" /\ q.type = "settle" => q.call # r.call
        BY <4>3, <4>4
      <4> QED
        BY <3>0, <4>1, <4>2, <4>3, <4>5
    <3> QED
      BY <1>1, <3>1, <3>2, ScopedIs
  <2>10. ASSUME NEW g \in Handles PROVE Decided(g)'
    <3>1. lock = h
      BY <1>1 DEF BudgetInv, IInv, Locked, Critical
    <3>2. pc'[g] \notin Critical
      BY <1>0, <1>1, <1>5, <3>1, Alone DEF Critical
    <3> QED
      BY <3>2 DEF Decided, Critical
  <2> QED
    BY <2>1, <2>5, <2>6, <2>7, <2>8, <2>9, <2>10 DEF BudgetInv
<1> QED
  BY <1>3, <1>4, <1>5

LEMMA PowerLossKeeps ==
  ASSUME BudgetInv, IInv', PowerLoss
  PROVE  BudgetInv'
<1>0. TypeOK /\ IInv /\ OutlayKnown
  BY DEF BudgetInv, IInv, TypeInv
<1>1. PICK x \in leaf.may : leaf' = Synced(x)
  BY DEF PowerLoss
<1>2. x \in LeafContents /\ LeafContents' = {x} /\ leaf'.cur = x
  BY <1>1 DEF LeafContents, Synced
<1>3. /\ UNCHANGED <<acked, paid, reported>> /\ \A g \in Handles : pc'[g] = "idle"
      /\ \A c \in Calls : ~alive'[c] /\ caller'[c] = None
  BY DEF PowerLoss, history
<1>4. MoneyMoves /\ OutlayKnown'
  BY <1>0, <1>3, MoneyStep
<1>5. SoundJournals'
  BY <1>0, <1>2, <1>4, SoundStays, ContentTypes DEF BudgetInv, SoundJournals
<1>6. Backed'
  BY <1>0, <1>2, <1>3, <1>4, BacksStays DEF BudgetInv, Backed
<1>7. LaunchedAcked'
  BY <1>3 DEF BudgetInv, LaunchedAcked, AckedCall
<1>8. TrueOps' /\ \A g \in Handles : Decided(g)'
  BY <1>3 DEF TrueOps, Decided
<1>9. Scoped'
  <2>1. \A q \in Lines(leaf'.cur) : Authority(q)'
    <3>1. Lines(leaf'.cur) \subseteq Records
      BY <1>0, <1>2, ContentTypes
    <3> QED
      BY <1>3, <3>1, FieldTypes DEF Authority
  <2> QED
    BY <1>3, <2>1, ScopedIs
<1> QED
  BY <1>4, <1>5, <1>6, <1>7, <1>8, <1>9 DEF BudgetInv

LEMMA NextBudget == BudgetInv /\ [Next]_vars => BudgetInv'
<1> SUFFICES ASSUME BudgetInv, [Next]_vars PROVE BudgetInv'
  OBVIOUS
<1>0. IInv'
  BY NextIInv DEF BudgetInv
<1> QED
  BY <1>0, ReserveKeeps, SettleCompletedKeeps, RetryKeeps, TransactKeeps, EnvironmentKeeps,
     LockAndDecideKeeps, LeafAppendKeeps, WalCommitKeeps, PowerLossKeeps DEF Next, Transact

-----------------------------------------------------------------------------
\* What the providers really charged stays within the budget, for any number of
\* processes, calls, amounts and faults: reserve() decides under the lock on the
\* worst case of every call in the journal, the provider is launched only by the
\* answer, and only a settlement that names the true cost releases the rest.
THEOREM BudgetAlwaysHeld == Spec => []BudgetHeld
<1>1. BudgetInv => BudgetHeld
  <2> SUFFICES ASSUME BudgetInv, Budget > 0, ProvidersKeepBounds PROVE Paid <= Budget
    BY DEF BudgetHeld
  <2>0. TypeOK /\ IInv /\ leaf.cur \in LeafContents
    BY DEF BudgetInv, IInv, TypeInv, LeafContents
  <2>1. PICK recs \in Seq(Records) : Sound(recs) /\ Holds(recs, acked)
    <3>1. CASE leaf.cur.tail = "junk"
      BY <2>0, <3>1 DEF BudgetInv, Backed, Backs
    <3>2. CASE leaf.cur.tail # "junk"
      <4>1. acked \subseteq Lines(leaf.cur)
        BY <2>0, <3>2, AckedInLines
      <4>2. Sound(leaf.cur.recs) /\ leaf.cur.recs \in Seq(Records)
        BY <2>0, ContentTypes DEF BudgetInv, SoundJournals
      <4>3. Holds(leaf.cur.recs, acked)
        BY <4>1 DEF Holds, Lines
      <4> QED
        BY <4>2, <4>3
    <3> QED
      BY <3>1, <3>2
  <2>2. ASSUME NEW c \in Calls, paid[c] > 0 PROVE ReservedIn(recs, c)
    <3>1. PICK r \in acked : r.type = "reserve" /\ r.call = c
      BY <2>2 DEF BudgetInv, LaunchedAcked, AckedCall
    <3>2. \E i \in DOMAIN recs : recs[i] = r
      BY <2>1 DEF Holds
    <3> QED
      BY <3>1, <3>2 DEF ReservedIn
  <2> QED
    BY <2>0, <2>1, <2>2, PaidWithin
<1> QED
  BY <1>1, InitBudget, NextBudget, PTL DEF Spec

\* Every journal there is or may be after a power loss keeps the fold's
\* transitions, on every host: one reservation per call, one settlement after it.
THEOREM JournalAlwaysWellFormed == Spec => []JournalWellFormed
<1>1. BudgetInv => JournalWellFormed
  BY DEF BudgetInv, SoundJournals, Sound, JournalWellFormed, LeafContents
<1> QED
  BY <1>1, InitBudget, NextBudget, PTL DEF Spec

\* On a host with cgroups no settlement with authority is ever in the journal
\* over a scope in which a process still lives (assertMintable refuses a
\* process group there, and a new reservation of a settled call is refused).
THEOREM SettlementsAlwaysLawful == Spec => [](StrongScope => SettlementsLawful)
<1>1. BudgetInv => (StrongScope => SettlementsLawful)
  <2> SUFFICES ASSUME BudgetInv, StrongScope PROVE SettlementsLawful
    OBVIOUS
  <2>1. JournalWellFormed
    BY DEF BudgetInv, SoundJournals, Sound, JournalWellFormed, LeafContents
  <2>2. AuthorityNeedsEmptyScope
    BY DEF BudgetInv, Scoped, Authority, AuthorityNeedsEmptyScope, Lines
  <2> QED
    BY <2>1, <2>2 DEF SettlementsLawful
<1> QED
  BY <1>1, InitBudget, NextBudget, PTL DEF Spec
=============================================================================
