--------------------------- MODULE DispatchProofs ---------------------------
(***************************************************************************)
(* Proofs about Dispatch for every board, every number of repairs and      *)
(* every number of parents that die.  The inductive invariant is built in  *)
(* layers: where a dispatch is (Control), what it has cost (Counts), which *)
(* attempts may have a process (Launches), which exits are settled         *)
(* (Exits) and which prompt has taken which command (Steering).            *)
(***************************************************************************)
EXTENDS Dispatch, FiniteSetTheorems, TLAPS

InPrompt == {"claimed", "boundary", "fed", "published"}
InLaunch == {"prepared", "planned", "recorded", "started", "running", "gone"}
InHand   == {"boundary", "fed", "published", "recorded", "started", "settled"}

AttRec == [st : AttStates, cmds : SUBSET Commands, base : Nat, planned : BOOLEAN, end : Nat]
CmdRec == [st : CmdStates, task : Tasks \cup {None}, adm : Nat, nb : Nat]
FileRec == [st : {"none", "torn", "whole"}, cmds : SUBSET Commands, base : Nat]

Types ==
    /\ phase \in Phases /\ busy \in Tasks \cup {None}
    /\ status \in [Tasks -> Statuses]
    /\ repairs \in [Tasks -> Nat]
    /\ att \in [Tasks -> Seq(AttRec)]
    /\ cmd \in [Commands -> CmdRec]
    /\ head \in Nat /\ cursor \in Nat
    /\ disp \in [Tasks -> DispSteps]
    /\ file \in [Tasks -> [Gens -> FileRec]]
    /\ dispatched \in [Tasks -> Nat]
    /\ claimGen \in [Tasks -> Nat]

\* Only an iteration dispatches and only its review reviews; the task of a synchronous section
\* is the busy one.
Control ==
    \A t \in Tasks :
        /\ disp[t] # "none" => phase \in {"dispatch", "review"}
        /\ disp[t] = "review" => phase = "review"
        /\ phase = "review" => disp[t] \in {"none", "review"}
        /\ disp[t] \in InHand => busy = t

(***************************************************************************)
(* Counts.  A dispatch is announced to the board once and ends in one      *)
(* failure or in the state that awaits, or has passed, the review; a       *)
(* prompt takes the next attempt only on a claim that has none yet.        *)
(***************************************************************************)
Counting(t) ==
    /\ disp[t] = "selected" => status[t] \in {"open", "blocked", "rejected"}
                               /\ repairs[t] <= MaxRepairs
    /\ disp[t] \in InPrompt \cup InLaunch \cup {"settled", "verifying"} => status[t] = "claimed"
    /\ disp[t] = "review" => status[t] = "needs-review"
    /\ status[t] = "open" => repairs[t] = 0
    /\ dispatched[t] = repairs[t]
                + (IF status[t] \in {"claimed", "needs-review", "done"} THEN 1 ELSE 0)
    /\ dispatched[t] <= MaxRepairs + 1
    /\ Len(att[t]) <= dispatched[t]
    /\ disp[t] \in InPrompt => Len(att[t]) < dispatched[t]

Counts == \A t \in Tasks : Counting(t)

(***************************************************************************)
(* Launches.  An open attempt is the last of its task; it is in the hands  *)
(* of its dispatch, or the run has not recovered yet.  A live process was  *)
(* journalled and started; unless its parent is dead, its dispatch waits   *)
(* for it or its turn was resolved over a live scope; and the last attempt *)
(* of a task has none once its work is verified, reviewed or accepted.     *)
(***************************************************************************)
Open(x) == x.st \in {"prepared", "active"}

Launching(t) ==
    /\ \A g \in 1 .. Len(att[t]) : Open(att[t][g]) =>
          /\ g = Len(att[t])
          /\ phase \in {"down", "reap", "recover"} \/ disp[t] \in InLaunch
    /\ disp[t] \in InLaunch => Len(att[t]) > 0 /\ Open(att[t][Len(att[t])])
    /\ disp[t] \in {"prepared", "planned", "recorded"} => att[t][Len(att[t])].st = "prepared"
    /\ disp[t] \in {"started", "running"} => att[t][Len(att[t])].st = "active"
    /\ disp[t] \in {"planned", "recorded", "started", "running"} => att[t][Len(att[t])].planned
    /\ disp[t] \in {"recorded", "started"} => <<t, Len(att[t])>> \in journal

Living(a) ==
    /\ a \in journal /\ a[2] \in 1 .. Len(att[a[1]])
    /\ att[a[1]][a[2]].st \in {"active", "exited"} /\ att[a[1]][a[2]].planned
    /\ \/ phase \in {"down", "reap"}
       \/ a \in unproven
       \/ disp[a[1]] = "running" /\ a[2] = Len(att[a[1]])
    /\ a[2] = Len(att[a[1]]) =>
          disp[a[1]] # "verifying" /\ status[a[1]] \notin {"needs-review", "done"}

Launches ==
    /\ journal \subseteq Tasks \X Gens /\ live \subseteq Tasks \X Gens
    /\ \A t \in Tasks : Launching(t)
    /\ \A a \in live : Living(a)

(***************************************************************************)
(* What a step does to the attempts: nothing, one record rewritten, or one *)
(* record appended.                                                        *)
(***************************************************************************)
Edited(t, g, r) ==
    /\ att' \in [Tasks -> Seq(AttRec)]
    /\ \A u \in Tasks : Len(att'[u]) = Len(att[u])
    /\ att'[t][g] = r
    /\ \A u \in Tasks : \A h \in 1 .. Len(att[u]) : u # t \/ h # g => att'[u][h] = att[u][h]

Appended(t, r) ==
    /\ att' \in [Tasks -> Seq(AttRec)]
    /\ \A u \in Tasks : u # t => Len(att'[u]) = Len(att[u])
    /\ Len(att'[t]) = Len(att[t]) + 1
    /\ att'[t][Len(att[t]) + 1] = r
    /\ \A u \in Tasks : \A h \in 1 .. Len(att[u]) : att'[u][h] = att[u][h]

\* Rewriting one element of a sequence of attempts.
LEMMA EditSeq ==
    ASSUME NEW s \in Seq(AttRec), NEW g \in 1 .. Len(s), NEW r \in AttRec
    PROVE  /\ [s EXCEPT ![g] = r] \in Seq(AttRec)
           /\ Len([s EXCEPT ![g] = r]) = Len(s)
           /\ [s EXCEPT ![g] = r][g] = r
           /\ \A h \in 1 .. Len(s) : h # g => [s EXCEPT ![g] = r][h] = s[h]
  OBVIOUS

\* Rewriting one attempt of one task changes nothing else.
LEMMA EditAtt ==
    ASSUME att \in [Tasks -> Seq(AttRec)], NEW t \in Tasks, NEW g \in 1 .. Len(att[t]),
           NEW r \in AttRec, att' = [att EXCEPT ![t] = [att[t] EXCEPT ![g] = r]]
    PROVE  Edited(t, g, r)
<1> DEFINE s == [att[t] EXCEPT ![g] = r]
<1>1. att[t] \in Seq(AttRec)
  OBVIOUS
<1>2. /\ s \in Seq(AttRec) /\ Len(s) = Len(att[t]) /\ s[g] = r
      /\ \A h \in 1 .. Len(att[t]) : h # g => s[h] = att[t][h]
  BY <1>1, EditSeq
<1> HIDE DEF s
<1>3. att' = [att EXCEPT ![t] = s]
  BY DEF s
<1>4. /\ att'[t] = s /\ \A u \in Tasks : u # t => att'[u] = att[u]
      /\ att' \in [Tasks -> Seq(AttRec)]
  BY <1>3, <1>2
<1> QED
  BY <1>2, <1>4 DEF Edited

\* Appending an attempt to one task changes nothing else.
LEMMA AppendAtt ==
    ASSUME att \in [Tasks -> Seq(AttRec)], NEW t \in Tasks,
           NEW r \in AttRec, att' = [att EXCEPT ![t] = Append(att[t], r)]
    PROVE  Appended(t, r)
<1> DEFINE s == Append(att[t], r)
<1>1. att[t] \in Seq(AttRec)
  OBVIOUS
<1>2. /\ s \in Seq(AttRec) /\ Len(s) = Len(att[t]) + 1 /\ s[Len(att[t]) + 1] = r
      /\ \A h \in 1 .. Len(att[t]) : s[h] = att[t][h]
  BY <1>1
<1> HIDE DEF s
<1>3. att' = [att EXCEPT ![t] = s]
  BY DEF s
<1>4. /\ att'[t] = s /\ \A u \in Tasks : u # t => att'[u] = att[u]
      /\ att' \in [Tasks -> Seq(AttRec)]
  BY <1>3, <1>2
<1> QED
  BY <1>2, <1>4 DEF Appended

Rec(x, s, p, e) == [st |-> s, cmds |-> x.cmds, base |-> x.base, planned |-> p, end |-> e]

\* Records built by Rec are attempt records.
LEMMA RecType ==
    ASSUME NEW x \in AttRec, NEW s \in AttStates, NEW p \in BOOLEAN, NEW e \in Nat
    PROVE  Rec(x, s, p, e) \in AttRec
  BY DEF Rec, AttRec

\* EXCEPT on one field of an attempt.
LEMMA RecField ==
    ASSUME NEW x \in AttRec, NEW v
    PROVE  /\ [x EXCEPT !.st = v] = Rec(x, v, x.planned, x.end)
           /\ [x EXCEPT !.end = v] = Rec(x, x.st, x.planned, v)
           /\ [x EXCEPT !.planned = v] = Rec(x, x.st, v, x.end)
<1>1. [x EXCEPT !.st = v] = Rec(x, v, x.planned, x.end)
  BY DEF Rec, AttRec
<1>2. [x EXCEPT !.end = v] = Rec(x, x.st, x.planned, v)
  BY DEF Rec, AttRec
<1>3. [x EXCEPT !.planned = v] = Rec(x, x.st, v, x.end)
  BY DEF Rec, AttRec
<1> QED
  BY <1>1, <1>2, <1>3

\* The three updates the actions make, as records.
LEMMA RecIs ==
    ASSUME NEW x \in AttRec, NEW s \in AttStates, NEW e \in Nat
    PROVE  /\ [x EXCEPT !.st = s] = Rec(x, s, x.planned, x.end)
           /\ [x EXCEPT !.st = s, !.end = e] = Rec(x, s, x.planned, e)
           /\ [x EXCEPT !.planned = TRUE] = Rec(x, x.st, TRUE, x.end)
<1> DEFINE y == Rec(x, s, x.planned, x.end)
<1>1. [x EXCEPT !.st = s] = y
  BY RecField
<1>2. y \in AttRec
  BY RecType DEF AttRec
<1>3. [x EXCEPT !.st = s, !.end = e] = [[x EXCEPT !.st = s] EXCEPT !.end = e]
  BY DEF AttRec
<1>4. [y EXCEPT !.end = e] = Rec(y, y.st, y.planned, e)
  BY <1>2, RecField
<1>5. Rec(y, y.st, y.planned, e) = Rec(x, s, x.planned, e)
  BY DEF Rec
<1>6. [x EXCEPT !.st = s, !.end = e] = Rec(x, s, x.planned, e)
  BY <1>1, <1>3, <1>4, <1>5
<1>7. [x EXCEPT !.planned = TRUE] = Rec(x, x.st, TRUE, x.end)
  BY RecField, Zenon
<1> QED
  BY <1>1, <1>6, <1>7

\* The last attempt of a dispatch that is being launched exists.
LEMMA LastExists ==
    ASSUME Types, Launches, NEW t \in Tasks, disp[t] \in InLaunch
    PROVE  Len(att[t]) \in 1 .. Len(att[t]) /\ att[t][Len(att[t])] \in AttRec
<1>1. Len(att[t]) > 0 /\ att[t] \in Seq(AttRec)
  BY DEF Launches, Launching, Types
<1> QED
  BY <1>1

\* What reconciliation works on is an attempt of the store.
LEMMA MutableExists ==
    ASSUME Types, NEW a \in Mutable
    PROVE  /\ a \in Tasks \X Gens /\ a[1] \in Tasks
           /\ a[2] \in 1 .. Len(att[a[1]]) /\ att[a[1]][a[2]] \in AttRec
           /\ a = <<a[1], a[2]>>
<1>1. a \in Tasks \X Gens /\ a[2] <= Len(att[a[1]])
  BY DEF Mutable, Attempts
<1>2. a[1] \in Tasks /\ a[2] \in Gens /\ a = <<a[1], a[2]>>
  BY <1>1
<1>3. att[a[1]] \in Seq(AttRec)
  BY <1>2 DEF Types
<1>4. a[2] \in 1 .. Len(att[a[1]])
  BY <1>1, <1>2, <1>3, RepairsAssumption DEF Gens
<1> QED
  BY <1>1, <1>2, <1>3, <1>4

\* The effect on the attempts of each action that touches them.
LEMMA AbandonShape ==
    ASSUME Types, NEW a \in Tasks \X Gens, AbandonPrepared(a)
    PROVE  /\ a[1] \in Tasks /\ a[2] \in 1 .. Len(att[a[1]])
           /\ att[a[1]][a[2]] \in AttRec /\ att[a[1]][a[2]].st = "prepared"
           /\ Edited(a[1], a[2], Rec(att[a[1]][a[2]], "abandoned", att[a[1]][a[2]].planned,
                                     att[a[1]][a[2]].end))
<1> DEFINE x == att[a[1]][a[2]]
           r == Rec(x, "abandoned", x.planned, x.end)
<1>1. a[1] \in Tasks /\ a[2] \in 1 .. Len(att[a[1]]) /\ x \in AttRec
  BY MutableExists DEF AbandonPrepared
<1>2. r \in AttRec
  BY ZenonT(40), <1>1, RecType DEF AttRec, AttStates
<1>3. att' = [att EXCEPT ![a[1]] = [att[a[1]] EXCEPT ![a[2]] = [x EXCEPT !.st = "abandoned"]]]
  BY DEF AbandonPrepared
<1>4. [x EXCEPT !.st = "abandoned"] = r
  BY <1>1, RecIs DEF AttStates
<1>5. att' = [att EXCEPT ![a[1]] = [att[a[1]] EXCEPT ![a[2]] = r]]
  BY <1>3, <1>4
<1>6. Edited(a[1], a[2], r)
  BY <1>1, <1>2, <1>5, EditAtt DEF Types
<1> QED
  BY <1>1, <1>6 DEF AbandonPrepared, StateOf

LEMMA ExitShape ==
    ASSUME Types, NEW a \in Tasks \X Gens, RecordExit(a)
    PROVE  /\ a[1] \in Tasks /\ a[2] \in 1 .. Len(att[a[1]])
           /\ att[a[1]][a[2]] \in AttRec /\ att[a[1]][a[2]].st = "active"
           /\ Edited(a[1], a[2], Rec(att[a[1]][a[2]], "exited", att[a[1]][a[2]].planned, head + 1))
<1> DEFINE x == att[a[1]][a[2]]
           r == Rec(x, "exited", x.planned, head + 1)
<1>1. a[1] \in Tasks /\ a[2] \in 1 .. Len(att[a[1]]) /\ x \in AttRec
  BY MutableExists DEF RecordExit
<1>0. head + 1 \in Nat
  BY DEF Types
<1>2. r \in AttRec
  BY ZenonT(40), <1>0, <1>1, RecType DEF AttRec, AttStates
<1>3. att' = [att EXCEPT ![a[1]] = [att[a[1]] EXCEPT ![a[2]] =
                  [x EXCEPT !.st = "exited", !.end = head + 1]]]
  BY <1>1 DEF RecordExit, Types
<1>4. [x EXCEPT !.st = "exited", !.end = head + 1] = r
  BY <1>0, <1>1, RecIs DEF AttStates
<1>5. att' = [att EXCEPT ![a[1]] = [att[a[1]] EXCEPT ![a[2]] = r]]
  BY <1>3, <1>4
<1>6. Edited(a[1], a[2], r)
  BY <1>1, <1>2, <1>5, EditAtt DEF Types
<1> QED
  BY <1>1, <1>6 DEF RecordExit, StateOf

LEMMA PlanShape ==
    ASSUME Types, Launches, NEW t \in Tasks, Plan(t)
    PROVE  /\ Len(att[t]) \in 1 .. Len(att[t]) /\ att[t][Len(att[t])] \in AttRec
           /\ Edited(t, Len(att[t]), Rec(att[t][Len(att[t])], att[t][Len(att[t])].st, TRUE,
                                         att[t][Len(att[t])].end))
<1> DEFINE n == Len(att[t])
           x == att[t][n]
           r == Rec(x, x.st, TRUE, x.end)
<1>1. n \in 1 .. n /\ x \in AttRec
  BY LastExists DEF Plan, At, InLaunch
<1>2. r \in AttRec
  BY ZenonT(40), <1>1, RecType DEF AttRec, AttStates
<1>3. att' = [att EXCEPT ![t] = [att[t] EXCEPT ![n] = [x EXCEPT !.planned = TRUE]]]
  BY DEF Plan
<1>4. [x EXCEPT !.planned = TRUE] = r
  BY <1>1, RecIs DEF AttStates
<1>5. att' = [att EXCEPT ![t] = [att[t] EXCEPT ![n] = r]]
  BY <1>3, <1>4
<1> QED
  BY <1>1, <1>2, <1>5, EditAtt DEF Types

LEMMA StartedShape ==
    ASSUME Types, Launches, NEW t \in Tasks, Started(t)
    PROVE  /\ Len(att[t]) \in 1 .. Len(att[t]) /\ att[t][Len(att[t])] \in AttRec
           /\ Edited(t, Len(att[t]), Rec(att[t][Len(att[t])], "active",
                         att[t][Len(att[t])].planned, att[t][Len(att[t])].end))
<1> DEFINE n == Len(att[t])
           x == att[t][n]
           r == Rec(x, "active", x.planned, x.end)
<1>1. n \in 1 .. n /\ x \in AttRec
  BY LastExists DEF Started, At, InLaunch
<1>2. r \in AttRec
  BY ZenonT(40), <1>1, RecType DEF AttRec, AttStates
<1>3. att' = [att EXCEPT ![t] = [att[t] EXCEPT ![n] = [x EXCEPT !.st = "active"]]]
  BY DEF Started
<1>4. [x EXCEPT !.st = "active"] = r
  BY <1>1, RecIs DEF AttStates
<1>5. att' = [att EXCEPT ![t] = [att[t] EXCEPT ![n] = r]]
  BY <1>3, <1>4
<1> QED
  BY <1>1, <1>2, <1>5, EditAtt DEF Types

LEMMA SettleShape ==
    ASSUME Types, Launches, NEW t \in Tasks, SettleAttempt(t)
    PROVE  /\ Len(att[t]) \in 1 .. Len(att[t]) /\ att[t][Len(att[t])] \in AttRec
           /\ \/ /\ att[t][Len(att[t])].st = "active" /\ head' = head + 1
                 /\ Edited(t, Len(att[t]), Rec(att[t][Len(att[t])], "exited",
                                att[t][Len(att[t])].planned, head + 1))
              \/ /\ att[t][Len(att[t])].st = "prepared" /\ head' = head
                 /\ Edited(t, Len(att[t]), Rec(att[t][Len(att[t])], "abandoned",
                                att[t][Len(att[t])].planned, att[t][Len(att[t])].end))
<1> DEFINE n == Len(att[t])
           x == att[t][n]
           r == Rec(x, "exited", x.planned, head + 1)
           q == Rec(x, "abandoned", x.planned, x.end)
<1>1. n \in 1 .. n /\ x \in AttRec
  BY LastExists DEF SettleAttempt, At, InLaunch
<1>0. head + 1 \in Nat
  BY DEF Types
<1>2. r \in AttRec /\ q \in AttRec
  BY ZenonT(40), <1>0, <1>1, RecType DEF AttRec, AttStates
<1>3. x.st \in {"active", "prepared"}
  BY DEF SettleAttempt, At, Launches, Launching, InLaunch, Open
<1>4. CASE x.st = "active"
  <2>1. head' = head + 1
    BY <1>4 DEF SettleAttempt, Ended
  <2>2. att' = [att EXCEPT ![t] = [att[t] EXCEPT ![n] =
                  [x EXCEPT !.st = "exited", !.end = head + 1]]]
    BY <1>1, <1>4 DEF SettleAttempt, Ended, Types
  <2>3. [x EXCEPT !.st = "exited", !.end = head + 1] = r
    BY <1>0, <1>1, RecIs DEF AttStates
  <2>4. att' = [att EXCEPT ![t] = [att[t] EXCEPT ![n] = r]]
    BY <2>2, <2>3
  <2>5. Edited(t, n, r)
    BY <1>1, <1>2, <2>4, EditAtt DEF Types
  <2> QED
    BY <1>1, <1>4, <2>1, <2>5
<1>5. CASE x.st = "prepared"
  <2>1. head' = head
    BY <1>5 DEF SettleAttempt, Ended
  <2>2. att' = [att EXCEPT ![t] = [att[t] EXCEPT ![n] = [x EXCEPT !.st = "abandoned"]]]
    BY <1>1, <1>5 DEF SettleAttempt, Ended, Types
  <2>3. [x EXCEPT !.st = "abandoned"] = q
    BY <1>1, RecIs DEF AttStates
  <2>4. att' = [att EXCEPT ![t] = [att[t] EXCEPT ![n] = q]]
    BY <2>2, <2>3
  <2>5. Edited(t, n, q)
    BY <1>1, <1>2, <2>4, EditAtt DEF Types
  <2> QED
    BY <1>1, <1>5, <2>1, <2>5
<1> QED
  BY <1>3, <1>4, <1>5

LEMMA CommitShape ==
    ASSUME Types, NEW t \in Tasks, Commit(t)
    PROVE  Appended(t, [st |-> "prepared", cmds |-> Selected(t, NextGen(t)),
                        base |-> repairs[t], planned |-> FALSE, end |-> 0])
<1> DEFINE r == [st |-> "prepared", cmds |-> Selected(t, NextGen(t)),
                 base |-> repairs[t], planned |-> FALSE, end |-> 0]
<1>1. Selected(t, NextGen(t)) \in SUBSET Commands
  BY DEF Selected, Eligible
<1>2. r \in AttRec
  BY <1>1 DEF Types, AttRec, AttStates
<1>3. att' = [att EXCEPT ![t] = Append(att[t], r)]
  BY DEF Commit
<1> QED
  BY <1>2, <1>3, AppendAtt DEF Types

\* EXCEPT on the state of a command.
LEMMA CmdIs ==
    ASSUME NEW x \in CmdRec, NEW s \in CmdStates
    PROVE  /\ [x EXCEPT !.st = s] = [st |-> s, task |-> x.task, adm |-> x.adm, nb |-> x.nb]
           /\ [x EXCEPT !.st = s] \in CmdRec
<1>1. [x EXCEPT !.st = s] = [st |-> s, task |-> x.task, adm |-> x.adm, nb |-> x.nb]
  BY DEF CmdRec
<1> QED
  BY <1>1 DEF CmdRec

\* A status event keeps the projection well typed.
LEMMA BecomesType ==
    ASSUME Types, NEW t \in Tasks, NEW s \in Statuses, Becomes(t, s)
    PROVE  status' \in [Tasks -> Statuses] /\ repairs' \in [Tasks -> Nat]
<1>1. status' \in [Tasks -> Statuses]
  BY DEF Becomes, Types
<1>2. repairs' \in [Tasks -> Nat]
  BY DEF Becomes, Types
<1> QED
  BY <1>1, <1>2

\* A composed prompt is a file and takes commands only.
LEMMA PromptType ==
    ASSUME Types, NEW t \in Tasks
    PROVE  Prompt(t) \in FileRec /\ Selected(t, NextGen(t)) \in SUBSET Commands
<1>1. Selected(t, NextGen(t)) \in SUBSET Commands
  BY DEF Selected, Eligible
<1> QED
  BY <1>1 DEF Prompt, FileRec, Types

\* Types is inductive, given that a launch has an attempt.
LEMMA TypesNext ==
    ASSUME Types, Launches, [Next]_vars PROVE  Types'
<1>1. CASE Boot
  BY <1>1 DEF Boot, Types, Phases, DispSteps, store, memory, outside, history
<1>2. CASE Reap
  BY <1>2 DEF Reap, Types, Phases, DispSteps, store, memory, outside, history
<1>3. CASE ReapUnresolved
  BY <1>3 DEF ReapUnresolved, Types, Phases, DispSteps, store, memory, outside, history
<1>4. CASE IdentityBlocked
  BY <1>4 DEF IdentityBlocked, Types, Phases, DispSteps, store, memory, outside, history
<1>5. CASE RefuseTerminal
  <2>1. \A c \in Commands : [cmd[c] EXCEPT !.st = "refused"] \in CmdRec /\ cmd[c] \in CmdRec
    BY CmdIs DEF Types, CmdStates
  <2>2. cmd' \in [Commands -> CmdRec]
    BY <1>5, <2>1 DEF RefuseTerminal
  <2> QED
    BY <1>5, <2>2 DEF RefuseTerminal, Types, memory, outside, history
<1>6. CASE Reconciled
  BY <1>6 DEF Reconciled, AfterIteration, Types, Phases, store, memory, outside, history
<1>7. CASE BeginReclaim
  BY <1>7 DEF BeginReclaim, Types, Phases, DispSteps, store, memory, outside, history
<1>8. CASE EndReclaim
  BY <1>8 DEF EndReclaim, Types, Phases, DispSteps, store, memory, outside, history
<1>9. CASE StartIteration
  BY <1>9 DEF StartIteration, Types, Phases, DispSteps, store, memory, outside, history
<1>10. CASE EndDispatch
  BY <1>10 DEF EndDispatch, Types, Phases, DispSteps, store, memory, outside, history
<1>11. CASE EndReview
  BY <1>11 DEF EndReview, Types, Phases, DispSteps, store, memory, outside, history
<1>12. CASE EndEscalate
  BY <1>12 DEF EndEscalate, Types, Phases, DispSteps, store, memory, outside, history
<1>13. CASE Crash
  <2>1. file' \in [Tasks -> [Gens -> FileRec]]
    
    <3>1. CASE UNCHANGED file
      BY <3>1 DEF Types
    <3>2. ASSUME NEW t \in Tasks, file' = [file EXCEPT ![t][NextGen(t)].st = "torn"]
          PROVE  file' \in [Tasks -> [Gens -> FileRec]]
      <4>1. \A x \in FileRec : [x EXCEPT !.st = "torn"] \in FileRec
        BY DEF FileRec
      <4>2. \A s \in [Gens -> FileRec] : \A n \in Nat : [s EXCEPT ![n].st = "torn"] \in [Gens -> FileRec]
        BY <4>1
      <4>3. NextGen(t) \in Nat /\ file[t] \in [Gens -> FileRec]
        BY DEF NextGen, Types
      <4>4. [file[t] EXCEPT ![NextGen(t)].st = "torn"] \in [Gens -> FileRec]
        BY <4>2, <4>3
      <4>5. file' = [file EXCEPT ![t] = [file[t] EXCEPT ![NextGen(t)].st = "torn"]]
        BY <3>2
      <4> QED
        BY <4>4, <4>5 DEF Types
    <3> QED
      BY <1>13, <3>1, <3>2 DEF Crash
  <2> QED
    BY <1>13, <2>1 DEF Crash, Types, Phases, DispSteps, store, history
<1>14. ASSUME NEW a \in Tasks \X Gens, AbandonPrepared(a) PROVE Types'
  BY <1>14, AbandonShape DEF AbandonPrepared, Edited, Types, memory, outside, history
<1>15. ASSUME NEW a \in Tasks \X Gens, RecordExit(a) PROVE Types'
  <2>1. Edited(a[1], a[2], Rec(att[a[1]][a[2]], "exited", att[a[1]][a[2]].planned, head + 1))
    BY <1>15, ExitShape
  <2>2. att' \in [Tasks -> Seq(AttRec)]
    BY <2>1 DEF Edited
  <2>3. head' \in Nat
    BY <1>15 DEF RecordExit, Types
  <2> QED
    BY <1>15, <2>2, <2>3 DEF RecordExit, Types, memory, outside, history
<1>16. ASSUME NEW a \in Tasks \X Gens, Settle(a) PROVE Types'
  <2>1. status' \in [Tasks -> Statuses] /\ repairs' \in [Tasks -> Nat]
    BY <1>16, BecomesType DEF Settle, Statuses, Types
  <2>2. a[1] \in Tasks /\ a[2] \in Gens /\ a[2] <= Len(att[a[1]])
    BY <1>16 DEF Settle, Unsettled, Attempts
  <2>3. att[a[1]] \in Seq(AttRec)
    BY <2>2 DEF Types
  <2>4. att[a[1]][a[2]] \in AttRec
    BY <2>2, <2>3, RepairsAssumption DEF Gens
  <2>5. cursor' \in Nat
    BY <1>16, <2>4 DEF Settle, AttRec
  <2> QED
    BY <1>16, <2>1, <2>5 DEF Settle, Types, memory, outside, history
<1>17. ASSUME NEW a \in Tasks \X Gens, OrphanExit(a) PROVE Types'
  BY <1>17 DEF OrphanExit, Types, store, memory, outside, history, vars
<1>18. ASSUME NEW t \in Tasks, Reclaim(t) PROVE Types'
  BY <1>18 DEF Reclaim, Types, At, Goes, Becomes, Statuses, DispSteps, store, memory, outside,
     history
<1>19. ASSUME NEW t \in Tasks, Review(t) PROVE Types'
  <2>1. status' \in [Tasks -> Statuses] /\ repairs' \in [Tasks -> Nat]
    BY <1>19, BecomesType DEF Review, Statuses, Types
  <2>2. dispatched' \in [Tasks -> Nat] /\ claimGen' \in [Tasks -> Nat]
    BY <1>19 DEF Review, NextGen, Types, history
  <2>3. disp' \in [Tasks -> DispSteps] /\ busy' \in Tasks \cup {None}
    BY <1>19 DEF Review, Goes, DispSteps, Types
  <2> QED
    BY <1>19, <2>1, <2>2, <2>3 DEF Review, Types, store, memory, outside, history
<1>20. ASSUME NEW t \in Tasks, Escalate(t) PROVE Types'
  BY <1>20 DEF Escalate, Types, At, Goes, Becomes, Statuses, DispSteps, store, memory,
     outside, history
<1>21. ASSUME NEW t \in Tasks, Claim(t) PROVE Types'
  <2>1. status' \in [Tasks -> Statuses] /\ repairs' \in [Tasks -> Nat]
    BY <1>21, BecomesType DEF Claim, Statuses, Types
  <2>2. dispatched' \in [Tasks -> Nat] /\ claimGen' \in [Tasks -> Nat]
    BY <1>21 DEF Claim, NextGen, Types, history
  <2>3. disp' \in [Tasks -> DispSteps] /\ busy' \in Tasks \cup {None}
    BY <1>21 DEF Claim, Goes, DispSteps, Types
  <2> QED
    BY <1>21, <2>1, <2>2, <2>3 DEF Claim, Types, store, memory, outside, history
<1>22. ASSUME NEW t \in Tasks, CannotClaim(t) PROVE Types'
  <2>1. status' \in [Tasks -> Statuses] /\ repairs' \in [Tasks -> Nat]
    BY <1>22, BecomesType DEF CannotClaim, Statuses, Types
  <2>2. dispatched' = [dispatched EXCEPT ![t] = dispatched[t] + 1] \/ dispatched' = dispatched
    BY <1>22 DEF CannotClaim
  <2>3. dispatched \in [Tasks -> Nat] /\ dispatched[t] + 1 \in Nat
    BY DEF Types
  <2>4. dispatched' \in [Tasks -> Nat]
    BY <2>2, <2>3
  <2>5. disp' \in [Tasks -> DispSteps]
    BY <1>22 DEF CannotClaim, Goes, DispSteps, Types
  <2> QED
    BY <1>22, <2>1, <2>2, <2>3, <2>4, <2>5 DEF CannotClaim, Types, store, memory, outside, history
<1>23. ASSUME NEW t \in Tasks, Throws(t) PROVE Types'
  BY <1>23 DEF Throws, Types, At, Goes, Becomes, Statuses, DispSteps, store, memory, outside,
     history
<1>24. ASSUME NEW t \in Tasks, Boundary(t) PROVE Types'
  BY <1>24 DEF Boundary, Types, At, Goes, Becomes, Statuses, DispSteps, store, memory,
     outside, history
<1>25. ASSUME NEW t \in Tasks, Feed(t) PROVE Types'
  <2>1. disp' \in [Tasks -> DispSteps]
    BY <1>25 DEF Feed, Goes, DispSteps, Types
  <2>2. NextGen(t) \in Nat /\ head + 1 \in Nat /\ head \in Nat
    BY DEF NextGen, Types
  <2>3. /\ [st |-> "refused", task |-> t, adm |-> 0, nb |-> 0] \in CmdRec
        /\ [st |-> "pending", task |-> t, adm |-> head + 1, nb |-> NextGen(t)] \in CmdRec
    BY <2>2 DEF CmdRec, CmdStates
  <2>4. cmd' \in [Commands -> CmdRec] /\ head' \in Nat
    BY <1>25, <2>2, <2>3 DEF Feed, Types
  <2> QED
    BY <1>25, <2>1, <2>4 DEF Feed, Types, store, memory, outside, history
<1>26. ASSUME NEW t \in Tasks, Publish(t) PROVE Types'
  <2>1. disp' \in [Tasks -> DispSteps]
    BY <1>26 DEF Publish, Goes, DispSteps, Types
  <2>2. file' \in [Tasks -> [Gens -> FileRec]]
    BY <1>26, PromptType DEF Publish, Types
  <2> QED
    BY <1>26, <2>1, <2>2 DEF Publish, Types, store, memory, outside, history
<1>27. ASSUME NEW t \in Tasks, CannotPublish(t) PROVE Types'
  BY <1>27 DEF CannotPublish, Types, At, Goes, Becomes, Statuses, DispSteps, store, memory,
     outside, history
<1>28. ASSUME NEW t \in Tasks, Commit(t) PROVE Types'
  <2>1. disp' \in [Tasks -> DispSteps]
    BY <1>28 DEF Commit, Goes, DispSteps, Types
  <2>2. att' \in [Tasks -> Seq(AttRec)]
    BY <1>28, CommitShape DEF Appended
  <2>3. \A c \in Commands : [cmd[c] EXCEPT !.st = "included"] \in CmdRec /\ cmd[c] \in CmdRec
    BY CmdIs DEF Types, CmdStates
  <2>4. cmd' \in [Commands -> CmdRec]
    BY <1>28, <2>3 DEF Commit
  <2> QED
    BY <1>28, <2>1, <2>2, <2>4 DEF Commit, Types, memory, outside, history
<1>29. ASSUME NEW t \in Tasks, Refused(t) PROVE Types'
  BY <1>29 DEF Refused, Types, At, Goes, Becomes, Statuses, DispSteps, store, memory, outside,
     history
<1>30. ASSUME NEW t \in Tasks, Plan(t) PROVE Types'
  BY <1>30, PlanShape DEF Plan, Edited, Goes, DispSteps, Types, memory, outside, history
<1>31. ASSUME NEW t \in Tasks, Record(t) PROVE Types'
  BY <1>31 DEF Record, Types, At, Goes, Becomes, Statuses, DispSteps, store, memory, outside,
     history
<1>32. ASSUME NEW t \in Tasks, LaunchFails(t) PROVE Types'
  BY <1>32 DEF LaunchFails, Types, At, Goes, Becomes, Statuses, DispSteps, store, memory,
     outside, history
<1>33. ASSUME NEW t \in Tasks, Started(t) PROVE Types'
  BY <1>33, StartedShape DEF Started, Edited, Goes, DispSteps, Types, memory, outside, history
<1>34. ASSUME NEW t \in Tasks, Release(t) PROVE Types'
  BY <1>34 DEF Release, Types, At, Goes, Becomes, Statuses, DispSteps, store, memory, outside,
     history
<1>35. ASSUME NEW t \in Tasks, Exit(t) PROVE Types'
  BY <1>35 DEF Exit, Types, At, Goes, Becomes, Statuses, DispSteps, store, memory, outside,
     history
<1>36. ASSUME NEW t \in Tasks, SettleAttempt(t) PROVE Types'
  <2>1. att' \in [Tasks -> Seq(AttRec)] /\ head' \in Nat
    BY <1>36, SettleShape DEF Edited, Types
  <2>2. disp' \in [Tasks -> DispSteps]
    BY <1>36 DEF SettleAttempt, Goes, DispSteps, Types
  <2> QED
    BY <1>36, <2>1, <2>2 DEF SettleAttempt, Types, memory, outside, history
<1>37. ASSUME NEW t \in Tasks, Verify(t) PROVE Types'
  BY <1>37 DEF Verify, Types, At, Goes, Becomes, Statuses, DispSteps, store, memory, outside,
     history
<1>38. ASSUME NEW t \in Tasks, Finish(t) PROVE Types'
  <2>1. status' \in [Tasks -> Statuses] /\ repairs' \in [Tasks -> Nat]
    BY <1>38, BecomesType DEF Finish, Statuses, Types
  <2>2. dispatched' \in [Tasks -> Nat] /\ claimGen' \in [Tasks -> Nat]
    BY <1>38 DEF Finish, NextGen, Types, history
  <2>3. disp' \in [Tasks -> DispSteps] /\ busy' \in Tasks \cup {None}
    BY <1>38 DEF Finish, Goes, DispSteps, Types
  <2> QED
    BY <1>38, <2>1, <2>2, <2>3 DEF Finish, Types, store, memory, outside, history
<1>39. ASSUME NEW c \in OpCmds, NEW t \in Tasks, NEW nb \in Gens,
               NEW sup \in Commands \cup {None}, Admit(c, t, nb, sup)
       
      PROVE   Types'
  <2>1. c \in Commands /\ nb \in Nat /\ head \in Nat /\ head + 1 \in Nat
    BY RepairsAssumption DEF Commands, Gens, Types
  <2>2. /\ [st |-> "refused", task |-> t, adm |-> 0, nb |-> nb] \in CmdRec
        /\ [st |-> "pending", task |-> t, adm |-> head + 1, nb |-> nb] \in CmdRec
    BY <2>1 DEF CmdRec, CmdStates
  <2>3. \A d \in Commands : [cmd[d] EXCEPT !.st = "superseded"] \in CmdRec /\ cmd[d] \in CmdRec
    BY CmdIs DEF Types, CmdStates
  <2>4. cmd' \in [Commands -> CmdRec] /\ head' \in Nat
    BY <1>39, <2>1, <2>2, <2>3 DEF Admit, Types
  <2> QED
    BY <1>39, <2>4 DEF Admit, Types, memory, outside, history
<1>40. ASSUME NEW c \in Commands, Withdraw(c) PROVE Types'
  <2>1. [cmd[c] EXCEPT !.st = "withdrawn"] \in CmdRec
    BY CmdIs DEF Types, CmdStates
  <2>2. cmd' \in [Commands -> CmdRec]
    BY <1>40, <2>1 DEF Withdraw, Types
  <2> QED
    BY <1>40, <2>2 DEF Withdraw, Types, memory, outside, history
<1>41. CASE UNCHANGED vars
  BY <1>41 DEF Types, store, memory, outside, history, vars
<1> QED
  BY <1>1, <1>2, <1>3, <1>4, <1>5, <1>6, <1>7, <1>8, <1>9, <1>10, <1>11, <1>12, <1>13,
     <1>14, <1>15, <1>16, <1>17, <1>18, <1>19, <1>20, <1>21, <1>22, <1>23, <1>24, <1>25,
     <1>26, <1>27, <1>28, <1>29, <1>30, <1>31, <1>32, <1>33, <1>34, <1>35, <1>36, <1>37,
     <1>38, <1>39, <1>40, <1>41
     DEF Next, Recovery, MainLine, Dispatching, Operator
\* Control is inductive: a section in hand excludes every other dispatch.
LEMMA ControlNext ==
    ASSUME Types, Control, [Next]_vars PROVE  Control'
<1>1. CASE Boot
  BY <1>1 DEF Boot, Types, Control, InHand, store, memory, outside, history, vars
<1>2. CASE Reap
  BY <1>2 DEF Reap, Types, Control, InHand, store, memory, outside, history, vars
<1>3. CASE ReapUnresolved
  BY <1>3 DEF ReapUnresolved, Types, Control, InHand, store, memory, outside, history, vars
<1>4. CASE IdentityBlocked
  BY <1>4 DEF IdentityBlocked, Reconciling, Types, Control, InHand, store, memory, outside,
     history, vars
<1>5. CASE RefuseTerminal
  BY <1>5 DEF RefuseTerminal, Types, Control, InHand, store, memory, outside, history, vars
<1>6. CASE Reconciled
  BY <1>6 DEF Reconciled, Reconciling, AfterIteration, Types, Control, InHand, store, memory,
     outside, history, vars
<1>7. CASE BeginReclaim
  BY <1>7 DEF BeginReclaim, Types, Control, InHand, store, memory, outside, history, vars
<1>8. CASE EndReclaim
  BY <1>8 DEF EndReclaim, Types, Control, InHand, store, memory, outside, history, vars
<1>9. CASE StartIteration
  BY <1>9 DEF StartIteration, Types, Control, InHand, store, memory, outside, history, vars
<1>10. CASE EndDispatch
  BY <1>10 DEF EndDispatch, Types, Control, InHand, store, memory, outside, history, vars
<1>11. CASE EndReview
  BY <1>11 DEF EndReview, Types, Control, InHand, store, memory, outside, history, vars
<1>12. CASE EndEscalate
  BY <1>12 DEF EndEscalate, Types, Control, InHand, store, memory, outside, history, vars
<1>13. CASE Crash
  BY <1>13 DEF Crash, Types, Control, InHand, store, memory, outside, history, vars
<1>14. ASSUME NEW a \in Tasks \X Gens, AbandonPrepared(a) PROVE Control'
  BY <1>14 DEF AbandonPrepared, Reconciling, Types, Control, InHand, store, memory, outside,
     history, vars
<1>15. ASSUME NEW a \in Tasks \X Gens, RecordExit(a) PROVE Control'
  BY <1>15 DEF RecordExit, Reconciling, Types, Control, InHand, store, memory, outside,
     history, vars
<1>16. ASSUME NEW a \in Tasks \X Gens, Settle(a) PROVE Control'
  BY <1>16 DEF Settle, Reconciling, Types, Control, InHand, store, memory, outside, history,
     vars
<1>17. ASSUME NEW a \in Tasks \X Gens, OrphanExit(a) PROVE Control'
  BY <1>17 DEF OrphanExit, Types, Control, InHand, store, memory, outside, history, vars
<1>18. ASSUME NEW t \in Tasks, Reclaim(t) PROVE Control'
  BY <1>18, TasksAssumption DEF Reclaim, At, Goes, Becomes, Types, Control, InHand, store,
     memory, outside, history, vars
<1>19. ASSUME NEW t \in Tasks, Review(t) PROVE Control'
  BY <1>19, TasksAssumption DEF Review, At, Goes, Becomes, Types, Control, InHand, store,
     memory, outside, history, vars
<1>20. ASSUME NEW t \in Tasks, Escalate(t) PROVE Control'
  BY <1>20, TasksAssumption DEF Escalate, At, Goes, Becomes, Types, Control, InHand, store,
     memory, outside, history, vars
<1>21. ASSUME NEW t \in Tasks, Claim(t) PROVE Control'
  BY <1>21, TasksAssumption DEF Claim, At, Goes, Becomes, Types, Control, InHand, store,
     memory, outside, history, vars
<1>22. ASSUME NEW t \in Tasks, CannotClaim(t) PROVE Control'
  BY <1>22, TasksAssumption DEF CannotClaim, At, Goes, Becomes, Types, Control, InHand, store,
     memory, outside, history, vars
<1>23. ASSUME NEW t \in Tasks, Throws(t) PROVE Control'
  BY <1>23, TasksAssumption DEF Throws, At, Goes, Becomes, Types, Control, InHand, store,
     memory, outside, history, vars
<1>24. ASSUME NEW t \in Tasks, Boundary(t) PROVE Control'
  BY <1>24, TasksAssumption DEF Boundary, At, Goes, Becomes, Types, Control, InHand, store,
     memory, outside, history, vars
<1>25. ASSUME NEW t \in Tasks, Feed(t) PROVE Control'
  BY <1>25, TasksAssumption DEF Feed, At, Goes, Becomes, Types, Control, InHand, store,
     memory, outside, history, vars
<1>26. ASSUME NEW t \in Tasks, Publish(t) PROVE Control'
  BY <1>26, TasksAssumption DEF Publish, At, Goes, Becomes, Types, Control, InHand, store,
     memory, outside, history, vars
<1>27. ASSUME NEW t \in Tasks, CannotPublish(t) PROVE Control'
  BY <1>27, TasksAssumption DEF CannotPublish, At, Goes, Becomes, Types, Control, InHand,
     store, memory, outside, history, vars
<1>28. ASSUME NEW t \in Tasks, Commit(t) PROVE Control'
  BY <1>28, TasksAssumption DEF Commit, At, Goes, Becomes, Types, Control, InHand, store,
     memory, outside, history, vars
<1>29. ASSUME NEW t \in Tasks, Refused(t) PROVE Control'
  BY <1>29, TasksAssumption DEF Refused, At, Goes, Becomes, Types, Control, InHand, store,
     memory, outside, history, vars
<1>30. ASSUME NEW t \in Tasks, Plan(t) PROVE Control'
  BY <1>30, TasksAssumption DEF Plan, At, Goes, Becomes, Types, Control, InHand, store,
     memory, outside, history, vars
<1>31. ASSUME NEW t \in Tasks, Record(t) PROVE Control'
  BY <1>31, TasksAssumption DEF Record, At, Goes, Becomes, Types, Control, InHand, store,
     memory, outside, history, vars
<1>32. ASSUME NEW t \in Tasks, LaunchFails(t) PROVE Control'
  BY <1>32, TasksAssumption DEF LaunchFails, At, Goes, Becomes, Types, Control, InHand, store,
     memory, outside, history, vars
<1>33. ASSUME NEW t \in Tasks, Started(t) PROVE Control'
  BY <1>33, TasksAssumption DEF Started, At, Goes, Becomes, Types, Control, InHand, store,
     memory, outside, history, vars
<1>34. ASSUME NEW t \in Tasks, Release(t) PROVE Control'
  BY <1>34, TasksAssumption DEF Release, At, Goes, Becomes, Types, Control, InHand, store,
     memory, outside, history, vars
<1>35. ASSUME NEW t \in Tasks, Exit(t) PROVE Control'
  BY <1>35, TasksAssumption DEF Exit, At, Goes, Becomes, Types, Control, InHand, store,
     memory, outside, history, vars
<1>36. ASSUME NEW t \in Tasks, SettleAttempt(t) PROVE Control'
  BY <1>36, TasksAssumption DEF SettleAttempt, At, Goes, Types, Control, InHand, store,
     memory, outside, history, vars
<1>37. ASSUME NEW t \in Tasks, Verify(t) PROVE Control'
  BY <1>37, TasksAssumption DEF Verify, At, Goes, Becomes, Types, Control, InHand, store,
     memory, outside, history, vars
<1>38. ASSUME NEW t \in Tasks, Finish(t) PROVE Control'
  BY <1>38, TasksAssumption DEF Finish, At, Goes, Becomes, Types, Control, InHand, store,
     memory, outside, history, vars
<1>39. ASSUME NEW c \in OpCmds, NEW t \in Tasks, NEW nb \in Gens,
               NEW sup \in Commands \cup {None}, Admit(c, t, nb, sup)
       
      PROVE   Control'
  BY <1>39 DEF Admit, Types, Control, InHand, store, memory, outside, history, vars
<1>40. ASSUME NEW c \in Commands, Withdraw(c) PROVE Control'
  BY <1>40 DEF Withdraw, Types, Control, InHand, store, memory, outside, history, vars
<1>41. CASE UNCHANGED vars
  BY <1>41 DEF Types, Control, InHand, store, memory, outside, history, vars
<1> QED
  BY <1>1, <1>2, <1>3, <1>4, <1>5, <1>6, <1>7, <1>8, <1>9, <1>10, <1>11, <1>12, <1>13,
     <1>14, <1>15, <1>16, <1>17, <1>18, <1>19, <1>20, <1>21, <1>22, <1>23, <1>24, <1>25,
     <1>26, <1>27, <1>28, <1>29, <1>30, <1>31, <1>32, <1>33, <1>34, <1>35, <1>36, <1>37,
     <1>38, <1>39, <1>40, <1>41
     DEF Next, Recovery, MainLine, Dispatching, Operator
\* Counts is inductive: each of the ways a dispatch can end counts once.
LEMMA CountsNext ==
    ASSUME Types, Control, Counts, Launches, [Next]_vars PROVE  Counts'
<1>1. CASE Boot
  BY <1>1, RepairsAssumption DEF Boot, Types, Control, Counts, Counting, InPrompt, InLaunch,
     store, memory, outside, history, vars
<1>2. CASE Reap
  BY <1>2, RepairsAssumption DEF Reap, Types, Control, Counts, Counting, InPrompt, InLaunch,
     store, memory, outside, history, vars
<1>3. CASE ReapUnresolved
  BY <1>3, RepairsAssumption DEF ReapUnresolved, Types, Control, Counts, Counting, InPrompt,
     InLaunch, store, memory, outside, history, vars
<1>4. CASE IdentityBlocked
  BY <1>4, RepairsAssumption DEF IdentityBlocked, Types, Control, Counts, Counting, InPrompt,
     InLaunch, store, memory, outside, history, vars
<1>5. CASE RefuseTerminal
  BY <1>5, RepairsAssumption DEF RefuseTerminal, Types, Control, Counts, Counting, InPrompt,
     InLaunch, store, memory, outside, history, vars
<1>6. CASE Reconciled
  BY <1>6, RepairsAssumption DEF Reconciled, Types, Control, Counts, Counting, InPrompt,
     InLaunch, store, memory, outside, history, vars
<1>7. CASE BeginReclaim
  BY <1>7, RepairsAssumption DEF BeginReclaim, Types, Control, Counts, Counting, InPrompt,
     InLaunch, store, memory, outside, history, vars
<1>8. CASE EndReclaim
  BY <1>8, RepairsAssumption DEF EndReclaim, Types, Control, Counts, Counting, InPrompt,
     InLaunch, store, memory, outside, history, vars
<1>9. CASE StartIteration
  BY SMTT(40), <1>9, RepairsAssumption DEF StartIteration, Dispatchable, Types, Control, Counts,
     Counting, InPrompt, InLaunch, store, memory, outside, history, vars
<1>10. CASE EndDispatch
  BY <1>10, RepairsAssumption DEF EndDispatch, Types, Control, Counts, Counting, InPrompt,
     InLaunch, store, memory, outside, history, vars
<1>11. CASE EndReview
  BY <1>11, RepairsAssumption DEF EndReview, Types, Control, Counts, Counting, InPrompt,
     InLaunch, store, memory, outside, history, vars
<1>12. CASE EndEscalate
  BY <1>12, RepairsAssumption DEF EndEscalate, Types, Control, Counts, Counting, InPrompt,
     InLaunch, store, memory, outside, history, vars
<1>13. CASE Crash
  BY <1>13, RepairsAssumption DEF Crash, Types, Control, Counts, Counting, InPrompt, InLaunch,
     store, memory, outside, history, vars
<1>14. ASSUME NEW a \in Tasks \X Gens, AbandonPrepared(a) PROVE Counts'
  BY SMTT(40), <1>14, AbandonShape DEF AbandonPrepared, Edited, Types, Control, Counts, Counting,
     InPrompt, InLaunch, store, memory, outside, history, vars
<1>15. ASSUME NEW a \in Tasks \X Gens, RecordExit(a) PROVE Counts'
  BY ZenonT(40), <1>15, ExitShape DEF RecordExit, Edited, Types, Control, Counts, Counting, InPrompt,
     InLaunch, store, memory, outside, history, vars
<1>16. ASSUME NEW a \in Tasks \X Gens, Settle(a) PROVE Counts'
  <2>1. a[1] \in Tasks /\ \A u \in Tasks : disp[u] = "none" /\ disp'[u] = "none"
    BY <1>16 DEF Settle, Reconciling, Control, memory
  <2>2. CASE status[a[1]] = "claimed" /\ Becomes(a[1], "blocked")
    BY <1>16, <2>1, <2>2, RepairsAssumption
       DEF Settle, Becomes, Types, Counts, Counting, InPrompt, InLaunch, history
  <2>3. CASE UNCHANGED <<status, repairs>>
    BY <1>16, <2>1, <2>3 DEF Settle, Counts, Counting, InPrompt, InLaunch, history
  <2> QED
    BY <1>16, <2>2, <2>3 DEF Settle
<1>17. ASSUME NEW a \in Tasks \X Gens, OrphanExit(a) PROVE Counts'
  BY <1>17 DEF OrphanExit, Types, Control, Counts, Counting, InPrompt, InLaunch, store,
     memory, outside, history, vars
<1>18. ASSUME NEW t \in Tasks, Reclaim(t) PROVE Counts'
  BY <1>18, RepairsAssumption DEF Reclaim, At, Goes, Becomes, Statuses, Types, Control,
     Counts, Counting, InPrompt, InLaunch, store, memory, outside, history, vars
<1>19. ASSUME NEW t \in Tasks, Review(t) PROVE Counts'
  BY SMTT(40), <1>19, RepairsAssumption DEF Review, At, Goes, Becomes, Statuses, Types, Control, Counts,
     Counting, InPrompt, InLaunch, store, memory, outside, history, vars
<1>20. ASSUME NEW t \in Tasks, Escalate(t) PROVE Counts'
  BY <1>20, RepairsAssumption DEF Escalate, Becomes, Exhausted, Types, Control, Counts,
     Counting, InPrompt, InLaunch, store, memory, outside, history, vars
<1>21. ASSUME NEW t \in Tasks, Claim(t) PROVE Counts'
  BY <1>21, RepairsAssumption DEF Claim, At, Goes, Becomes, Statuses, Types, Control, Counts,
     Counting, InPrompt, InLaunch, store, memory, outside, history, vars
<1>22. ASSUME NEW t \in Tasks, CannotClaim(t) PROVE Counts'
  BY SMTT(40), <1>22, RepairsAssumption DEF CannotClaim, At, Goes, Becomes, Statuses, Types, Control,
     Counts, Counting, InPrompt, InLaunch, store, memory, outside, history, vars
<1>23. ASSUME NEW t \in Tasks, Throws(t) PROVE Counts'
  BY <1>23, RepairsAssumption DEF Throws, At, Goes, Becomes, Statuses, Types, Control, Counts,
     Counting, InPrompt, InLaunch, store, memory, outside, history, vars
<1>24. ASSUME NEW t \in Tasks, Boundary(t) PROVE Counts'
  BY <1>24, RepairsAssumption DEF Boundary, At, Goes, Becomes, Statuses, Types, Control,
     Counts, Counting, InPrompt, InLaunch, store, memory, outside, history, vars
<1>25. ASSUME NEW t \in Tasks, Feed(t) PROVE Counts'
  BY <1>25, RepairsAssumption DEF Feed, At, Goes, Becomes, Statuses, Types, Control, Counts,
     Counting, InPrompt, InLaunch, store, memory, outside, history, vars
<1>26. ASSUME NEW t \in Tasks, Publish(t) PROVE Counts'
  BY <1>26, RepairsAssumption DEF Publish, At, Goes, Becomes, Statuses, Types, Control,
     Counts, Counting, InPrompt, InLaunch, store, memory, outside, history, vars
<1>27. ASSUME NEW t \in Tasks, CannotPublish(t) PROVE Counts'
  BY <1>27, RepairsAssumption DEF CannotPublish, At, Goes, Becomes, Statuses, Types, Control,
     Counts, Counting, InPrompt, InLaunch, store, memory, outside, history, vars
<1>28. ASSUME NEW t \in Tasks, Commit(t) PROVE Counts'
  BY SMTT(40), <1>28, CommitShape DEF Commit, Appended, At, Goes, Types, Control, Counts, Counting,
     InPrompt, InLaunch, store, memory, outside, history, vars
<1>29. ASSUME NEW t \in Tasks, Refused(t) PROVE Counts'
  BY <1>29, RepairsAssumption DEF Refused, At, Goes, Becomes, Statuses, Types, Control,
     Counts, Counting, InPrompt, InLaunch, store, memory, outside, history, vars
<1>30. ASSUME NEW t \in Tasks, Plan(t) PROVE Counts'
  BY <1>30, PlanShape DEF Plan, Edited, At, Goes, Types, Control, Counts, Counting, InPrompt,
     InLaunch, store, memory, outside, history, vars
<1>31. ASSUME NEW t \in Tasks, Record(t) PROVE Counts'
  BY <1>31, RepairsAssumption DEF Record, At, Goes, Becomes, Statuses, Types, Control, Counts,
     Counting, InPrompt, InLaunch, store, memory, outside, history, vars
<1>32. ASSUME NEW t \in Tasks, LaunchFails(t) PROVE Counts'
  BY <1>32, RepairsAssumption DEF LaunchFails, At, Goes, Becomes, Statuses, Types, Control,
     Counts, Counting, InPrompt, InLaunch, store, memory, outside, history, vars
<1>33. ASSUME NEW t \in Tasks, Started(t) PROVE Counts'
  BY <1>33, StartedShape DEF Started, Edited, At, Goes, Types, Control, Counts, Counting,
     InPrompt, InLaunch, store, memory, outside, history, vars
<1>34. ASSUME NEW t \in Tasks, Release(t) PROVE Counts'
  BY <1>34, RepairsAssumption DEF Release, At, Goes, Becomes, Statuses, Types, Control,
     Counts, Counting, InPrompt, InLaunch, store, memory, outside, history, vars
<1>35. ASSUME NEW t \in Tasks, Exit(t) PROVE Counts'
  BY <1>35, RepairsAssumption DEF Exit, At, Goes, Becomes, Statuses, Types, Control, Counts,
     Counting, InPrompt, InLaunch, store, memory, outside, history, vars
<1>36. ASSUME NEW t \in Tasks, SettleAttempt(t) PROVE Counts'
  BY ZenonT(40), <1>36, SettleShape DEF SettleAttempt, Edited, At, Goes, Types, Control, Counts, Counting,
     InPrompt, InLaunch, store, memory, outside, history, vars
<1>37. ASSUME NEW t \in Tasks, Verify(t) PROVE Counts'
  BY <1>37, RepairsAssumption DEF Verify, At, Goes, Becomes, Statuses, Types, Control, Counts,
     Counting, InPrompt, InLaunch, store, memory, outside, history, vars
<1>38. ASSUME NEW t \in Tasks, Finish(t) PROVE Counts'
  BY <1>38, RepairsAssumption DEF Finish, At, Goes, Becomes, Statuses, Types, Control, Counts,
     Counting, InPrompt, InLaunch, store, memory, outside, history, vars
<1>39. ASSUME NEW c \in OpCmds, NEW t \in Tasks, NEW nb \in Gens,
               NEW sup \in Commands \cup {None}, Admit(c, t, nb, sup)
       
      PROVE   Counts'
  BY <1>39 DEF Admit, Types, Control, Counts, Counting, InPrompt, InLaunch, store, memory,
     outside, history, vars
<1>40. ASSUME NEW c \in Commands, Withdraw(c) PROVE Counts'
  BY <1>40 DEF Withdraw, Types, Control, Counts, Counting, InPrompt, InLaunch, store, memory,
     outside, history, vars
<1>41. CASE UNCHANGED vars
  BY <1>41 DEF Types, Control, Counts, Counting, InPrompt, InLaunch, store, memory, outside,
     history, vars
<1> QED
  BY <1>1, <1>2, <1>3, <1>4, <1>5, <1>6, <1>7, <1>8, <1>9, <1>10, <1>11, <1>12, <1>13,
     <1>14, <1>15, <1>16, <1>17, <1>18, <1>19, <1>20, <1>21, <1>22, <1>23, <1>24, <1>25,
     <1>26, <1>27, <1>28, <1>29, <1>30, <1>31, <1>32, <1>33, <1>34, <1>35, <1>36, <1>37,
     <1>38, <1>39, <1>40, <1>41
     DEF Next, Recovery, MainLine, Dispatching, Operator
\* What the invariant says of a live provider.
LEMMA LiveRuns ==
    ASSUME Types, Control, Launches, NEW a \in live
    PROVE  /\ a[1] \in Tasks /\ a[2] \in 1 .. Len(att[a[1]]) /\ a = <<a[1], a[2]>>
           /\ Living(a)
           /\ disp[a[1]] = "running" => phase = "dispatch"
<1>1. a \in Tasks \X Gens /\ Living(a)
  BY DEF Launches
<1>2. a[1] \in Tasks /\ a = <<a[1], a[2]>>
  BY <1>1
<1>3. a[2] \in 1 .. Len(att[a[1]])
  BY <1>1 DEF Living
<1>4. disp[a[1]] = "running" => phase = "dispatch"
  BY <1>2 DEF Control
<1> QED
  BY <1>1, <1>2, <1>3, <1>4

\* Outside an iteration nothing that recovery has not seen can be open.
LEMMA NothingMutable ==
    ASSUME Types, Counts, Mutable = {}, NEW t \in Tasks, NEW g \in 1 .. Len(att[t])
    PROVE  ~Open(att[t][g])
<1>1. <<t, g>> \in Tasks \X Gens
  BY RepairsAssumption DEF Counts, Counting, Types, Gens
<1>2. <<t, g>> \in Attempts
  BY <1>1 DEF Attempts
<1> QED
  BY <1>2 DEF Mutable, StateOf, Open

\* The tasks a step does not touch keep what Launching says of them.
LEMMA LaunchRest ==
    ASSUME Types, Launches, NEW t \in Tasks,
           \A u \in Tasks : u # t => /\ Len(att'[u]) = Len(att[u]) /\ disp'[u] = disp[u]
                                     /\ \A h \in 1 .. Len(att[u]) : att'[u][h] = att[u][h],
           phase' = phase, journal \subseteq journal', Launching(t)'
    PROVE  \A u \in Tasks : Launching(u)'
<1> SUFFICES ASSUME NEW u \in Tasks, u # t PROVE Launching(u)'
  OBVIOUS
<1>1. /\ Len(att'[u]) = Len(att[u]) /\ disp'[u] = disp[u] /\ Launching(u)
      /\ \A h \in 1 .. Len(att[u]) : att'[u][h] = att[u][h]
  BY DEF Launches
<1>2. Len(att[u]) \in Nat
  BY DEF Types
<1>3. Len(att[u]) > 0 => att'[u][Len(att'[u])] = att[u][Len(att[u])]
  BY <1>1, <1>2
<1>4. disp'[u] \in InLaunch => Len(att[u]) > 0
  BY <1>1 DEF Launching
<1> QED
  BY <1>1, <1>2, <1>3, <1>4 DEF Launching, Open, InLaunch

\* The last attempt is rewritten: the earlier ones are closed and stay so.
LEMMA LaunchLast ==
    ASSUME Types, Launches, NEW t \in Tasks, NEW r, Edited(t, Len(att[t]), r),
           Len(att[t]) \in 1 .. Len(att[t]),
           \A u \in Tasks : u # t => disp'[u] = disp[u],
           phase' = phase, journal' = journal,
           Open(r) => disp'[t] \in InLaunch,
           disp'[t] \in InLaunch => Open(r),
           disp'[t] \in {"prepared", "planned", "recorded"} => r.st = "prepared",
           disp'[t] \in {"started", "running"} => r.st = "active",
           disp'[t] \in {"planned", "recorded", "started", "running"} => r.planned,
           disp'[t] \in {"recorded", "started"} => <<t, Len(att[t])>> \in journal
    PROVE  \A u \in Tasks : Launching(u)'
<1>1. /\ Len(att'[t]) = Len(att[t]) /\ att'[t][Len(att[t])] = r
      /\ \A h \in 1 .. Len(att[t]) : h # Len(att[t]) => att'[t][h] = att[t][h]
  BY DEF Edited
<1>2. \A h \in 1 .. Len(att[t]) : h # Len(att[t]) => ~Open(att[t][h])
  BY DEF Launches, Launching
<1>3. Launching(t)'
  BY <1>1, <1>2 DEF Launching
<1>4. \A u \in Tasks : u # t => /\ Len(att'[u]) = Len(att[u])
                                /\ \A h \in 1 .. Len(att[u]) : att'[u][h] = att[u][h]
  BY DEF Edited
<1> QED
  BY <1>3, <1>4, LaunchRest

\* Launching is inductive, given Counts (recovery looks at every generation there is).
LEMMA LaunchingNext ==
    ASSUME Types, Control, Counts, Launches, [Next]_vars
    PROVE  \A u \in Tasks : Launching(u)'
<1>1. CASE Boot
  BY <1>1 DEF Boot, Types, Control, Launches, Launching, Open, InLaunch, InHand, store,
     memory, outside, history, vars
<1>2. CASE Reap
  BY <1>2 DEF Reap, Types, Control, Launches, Launching, Open, InLaunch, InHand, store,
     memory, outside, history, vars
<1>3. CASE ReapUnresolved
  BY <1>3 DEF ReapUnresolved, Types, Control, Launches, Launching, Open, InLaunch, InHand,
     store, memory, outside, history, vars
<1>4. CASE IdentityBlocked
  BY <1>4 DEF IdentityBlocked, Reconciling, Types, Control, Launches, Launching, Open,
     InLaunch, InHand, store, memory, outside, history, vars
<1>5. CASE RefuseTerminal
  BY <1>5 DEF RefuseTerminal, Types, Control, Launches, Launching, Open, InLaunch, InHand,
     store, memory, outside, history, vars
<1>6. CASE Reconciled
  BY <1>6, NothingMutable DEF Reconciled, Reconciling, AfterIteration, Types, Control,
     Launches, Launching, Open, InLaunch, InHand, store, memory, outside, history, vars
<1>7. CASE BeginReclaim
  BY <1>7 DEF BeginReclaim, Types, Control, Launches, Launching, Open, InLaunch, InHand,
     store, memory, outside, history, vars
<1>8. CASE EndReclaim
  BY <1>8 DEF EndReclaim, Types, Control, Launches, Launching, Open, InLaunch, InHand, store,
     memory, outside, history, vars
<1>9. CASE StartIteration
  BY <1>9 DEF StartIteration, Types, Control, Launches, Launching, Open, InLaunch, InHand,
     store, memory, outside, history, vars
<1>10. CASE EndDispatch
  BY <1>10 DEF EndDispatch, Types, Control, Launches, Launching, Open, InLaunch, InHand,
     store, memory, outside, history, vars
<1>11. CASE EndReview
  BY <1>11 DEF EndReview, Types, Control, Launches, Launching, Open, InLaunch, InHand, store,
     memory, outside, history, vars
<1>12. CASE EndEscalate
  BY <1>12 DEF EndEscalate, Types, Control, Launches, Launching, Open, InLaunch, InHand,
     store, memory, outside, history, vars
<1>13. CASE Crash
  BY ZenonT(40), <1>13 DEF Crash, Types, Control, Launches, Launching, Open, InLaunch, InHand, store,
     memory, outside, history, vars
<1>14. ASSUME NEW a \in Tasks \X Gens, AbandonPrepared(a) PROVE \A u \in Tasks : Launching(u)'
  <2> DEFINE x == att[a[1]][a[2]]
             r == Rec(x, "abandoned", x.planned, x.end)
  <2>1. /\ a[1] \in Tasks /\ a[2] \in 1 .. Len(att[a[1]]) /\ Open(x)
        /\ Edited(a[1], a[2], r) /\ ~Open(r)
    BY <1>14, AbandonShape DEF Open, Rec
  <2>2. a[2] = Len(att[a[1]])
    BY <2>1 DEF Launches, Launching
  <2>3. Edited(a[1], Len(att[a[1]]), r) /\ Len(att[a[1]]) \in 1 .. Len(att[a[1]])
    BY <2>1, <2>2
  <2>4. /\ \A u \in Tasks : disp'[u] = "none" /\ disp[u] = "none"
        /\ phase' = phase /\ journal' = journal
    BY <1>14 DEF AbandonPrepared, Reconciling, Control, memory, outside
  <2> HIDE DEF r
  <2> QED
    BY <2>1, <2>3, <2>4, LaunchLast DEF InLaunch
<1>15. ASSUME NEW a \in Tasks \X Gens, RecordExit(a) PROVE \A u \in Tasks : Launching(u)'
  <2> DEFINE x == att[a[1]][a[2]]
             r == Rec(x, "exited", x.planned, head + 1)
  <2>1. /\ a[1] \in Tasks /\ a[2] \in 1 .. Len(att[a[1]]) /\ Open(x)
        /\ Edited(a[1], a[2], r) /\ ~Open(r)
    BY <1>15, ExitShape DEF Open, Rec
  <2>2. a[2] = Len(att[a[1]])
    BY <2>1 DEF Launches, Launching
  <2>3. Edited(a[1], Len(att[a[1]]), r) /\ Len(att[a[1]]) \in 1 .. Len(att[a[1]])
    BY <2>1, <2>2
  <2>4. /\ \A u \in Tasks : disp'[u] = "none" /\ disp[u] = "none"
        /\ phase' = phase /\ journal' = journal
    BY <1>15 DEF RecordExit, Reconciling, Control, memory, outside
  <2> HIDE DEF r
  <2> QED
    BY <2>1, <2>3, <2>4, LaunchLast DEF InLaunch
<1>16. ASSUME NEW a \in Tasks \X Gens, Settle(a) PROVE \A u \in Tasks : Launching(u)'
  BY <1>16 DEF Settle, Types, Control, Launches, Launching, Open, InLaunch, InHand, store,
     memory, outside, history, vars
<1>17. ASSUME NEW a \in Tasks \X Gens, OrphanExit(a) PROVE \A u \in Tasks : Launching(u)'
  BY <1>17 DEF OrphanExit, Types, Control, Launches, Launching, Open, InLaunch, InHand, store,
     memory, outside, history, vars
<1>18. ASSUME NEW t \in Tasks, Reclaim(t) PROVE \A u \in Tasks : Launching(u)'
  BY <1>18, RepairsAssumption DEF Reclaim, At, Goes, Types, Control, Launches, Launching,
     Open, InLaunch, InHand, store, memory, outside, history, vars
<1>19. ASSUME NEW t \in Tasks, Review(t) PROVE \A u \in Tasks : Launching(u)'
  BY <1>19, RepairsAssumption DEF Review, At, Goes, Types, Control, Launches, Launching, Open,
     InLaunch, InHand, store, memory, outside, history, vars
<1>20. ASSUME NEW t \in Tasks, Escalate(t) PROVE \A u \in Tasks : Launching(u)'
  BY <1>20, RepairsAssumption DEF Escalate, At, Goes, Types, Control, Launches, Launching,
     Open, InLaunch, InHand, store, memory, outside, history, vars
<1>21. ASSUME NEW t \in Tasks, Claim(t) PROVE \A u \in Tasks : Launching(u)'
  BY <1>21, RepairsAssumption DEF Claim, At, Goes, Types, Control, Launches, Launching, Open,
     InLaunch, InHand, store, memory, outside, history, vars
<1>22. ASSUME NEW t \in Tasks, CannotClaim(t) PROVE \A u \in Tasks : Launching(u)'
  BY <1>22, RepairsAssumption DEF CannotClaim, At, Goes, Types, Control, Launches, Launching,
     Open, InLaunch, InHand, store, memory, outside, history, vars
<1>23. ASSUME NEW t \in Tasks, Throws(t) PROVE \A u \in Tasks : Launching(u)'
  BY <1>23, RepairsAssumption DEF Throws, At, Goes, Types, Control, Launches, Launching, Open,
     InLaunch, InHand, store, memory, outside, history, vars
<1>24. ASSUME NEW t \in Tasks, Boundary(t) PROVE \A u \in Tasks : Launching(u)'
  BY <1>24, RepairsAssumption DEF Boundary, At, Goes, Types, Control, Launches, Launching,
     Open, InLaunch, InHand, store, memory, outside, history, vars
<1>25. ASSUME NEW t \in Tasks, Feed(t) PROVE \A u \in Tasks : Launching(u)'
  BY <1>25, RepairsAssumption DEF Feed, At, Goes, Types, Control, Launches, Launching, Open,
     InLaunch, InHand, store, memory, outside, history, vars
<1>26. ASSUME NEW t \in Tasks, Publish(t) PROVE \A u \in Tasks : Launching(u)'
  BY <1>26, RepairsAssumption DEF Publish, At, Goes, Types, Control, Launches, Launching,
     Open, InLaunch, InHand, store, memory, outside, history, vars
<1>27. ASSUME NEW t \in Tasks, CannotPublish(t) PROVE \A u \in Tasks : Launching(u)'
  BY <1>27, RepairsAssumption DEF CannotPublish, At, Goes, Types, Control, Launches,
     Launching, Open, InLaunch, InHand, store, memory, outside, history, vars
<1>28. ASSUME NEW t \in Tasks, Commit(t) PROVE \A u \in Tasks : Launching(u)'
  <2> DEFINE r == [st |-> "prepared", cmds |-> Selected(t, NextGen(t)),
                  base |-> repairs[t], planned |-> FALSE, end |-> 0]
  <2>1. Appended(t, r)
    BY <1>28, CommitShape
  <2>2. /\ disp[t] = "published" /\ disp'[t] = "prepared"
        /\ \A u \in Tasks : u # t => disp'[u] = disp[u]
        /\ phase = "dispatch" /\ phase' = phase /\ journal' = journal
    BY <1>28 DEF Commit, At, Goes, Types, outside
  <2>3. \A h \in 1 .. Len(att[t]) : ~Open(att[t][h])
    BY <2>2 DEF Launches, Launching, InLaunch
  <2>4. Open(r) /\ r.st = "prepared"
    BY DEF Open
  <2> HIDE DEF r
  <2>5. /\ Len(att'[t]) = Len(att[t]) + 1 /\ att'[t][Len(att[t]) + 1] = r /\ Len(att[t]) \in Nat
        /\ \A h \in 1 .. Len(att[t]) : att'[t][h] = att[t][h]
    BY <2>1 DEF Appended, Types
  <2>6. Launching(t)'
    BY <2>2, <2>3, <2>4, <2>5 DEF Launching, InLaunch
  <2> QED
    BY <2>1, <2>2, <2>6, LaunchRest DEF Appended
<1>29. ASSUME NEW t \in Tasks, Refused(t) PROVE \A u \in Tasks : Launching(u)'
  BY <1>29, RepairsAssumption DEF Refused, At, Goes, Types, Control, Launches, Launching,
     Open, InLaunch, InHand, store, memory, outside, history, vars
<1>30. ASSUME NEW t \in Tasks, Plan(t) PROVE \A u \in Tasks : Launching(u)'
  <2> DEFINE x == att[t][Len(att[t])]
             r == Rec(x, x.st, TRUE, x.end)
  <2>1. Len(att[t]) \in 1 .. Len(att[t]) /\ Edited(t, Len(att[t]), r)
    BY <1>30, PlanShape
  <2>2. /\ disp[t] = "prepared" /\ disp'[t] = "planned" /\ \A u \in Tasks : u # t => disp'[u] = disp[u]
        /\ phase' = phase /\ journal' = journal
    BY <1>30 DEF Plan, At, Goes, Types, outside
  <2>3. r.st = "prepared" /\ r.planned = TRUE /\ Open(r)
    BY <2>2 DEF Rec, Launches, Launching, Open
  <2>4. disp[t] = "recorded" => x.planned /\ <<t, Len(att[t])>> \in journal
    BY DEF Launches, Launching
  <2> HIDE DEF r
  <2> QED
    BY <2>1, <2>2, <2>3, <2>4, LaunchLast DEF InLaunch
<1>31. ASSUME NEW t \in Tasks, Record(t) PROVE \A u \in Tasks : Launching(u)'
  BY <1>31 DEF Record, At, Goes, Last, Types, Control, Launches, Launching, Open, InLaunch,
     InHand, store, memory, outside, history, vars
<1>32. ASSUME NEW t \in Tasks, LaunchFails(t) PROVE \A u \in Tasks : Launching(u)'
  BY <1>32, RepairsAssumption DEF LaunchFails, At, Goes, Types, Control, Launches, Launching,
     Open, InLaunch, InHand, store, memory, outside, history, vars
<1>33. ASSUME NEW t \in Tasks, Started(t) PROVE \A u \in Tasks : Launching(u)'
  <2> DEFINE x == att[t][Len(att[t])]
             r == Rec(x, "active", x.planned, x.end)
  <2>1. Len(att[t]) \in 1 .. Len(att[t]) /\ Edited(t, Len(att[t]), r)
    BY <1>33, StartedShape
  <2>2. /\ disp[t] = "recorded" /\ disp'[t] = "started" /\ \A u \in Tasks : u # t => disp'[u] = disp[u]
        /\ phase' = phase /\ journal' = journal
    BY <1>33 DEF Started, At, Goes, Types, outside
  <2>3. r.st = "active" /\ r.planned = x.planned /\ Open(r)
    BY <2>2 DEF Rec, Launches, Launching, Open
  <2>4. disp[t] = "recorded" => x.planned /\ <<t, Len(att[t])>> \in journal
    BY DEF Launches, Launching
  <2> HIDE DEF r
  <2> QED
    BY <2>1, <2>2, <2>3, <2>4, LaunchLast DEF InLaunch
<1>34. ASSUME NEW t \in Tasks, Release(t) PROVE \A u \in Tasks : Launching(u)'
  BY <1>34, RepairsAssumption DEF Release, At, Goes, Types, Control, Launches, Launching,
     Open, InLaunch, InHand, store, memory, outside, history, vars
<1>35. ASSUME NEW t \in Tasks, Exit(t) PROVE \A u \in Tasks : Launching(u)'
  BY <1>35, RepairsAssumption DEF Exit, At, Goes, Types, Control, Launches, Launching, Open,
     InLaunch, InHand, store, memory, outside, history, vars
<1>36. ASSUME NEW t \in Tasks, SettleAttempt(t) PROVE \A u \in Tasks : Launching(u)'
  <2>1. /\ disp'[t] = "settled" /\ \A u \in Tasks : u # t => disp'[u] = disp[u]
        /\ phase' = phase /\ journal' = journal
    BY <1>36 DEF SettleAttempt, Goes, Types, outside
  <2>2. \A x, s, p, e : s \in {"exited", "abandoned"} => ~Open(Rec(x, s, p, e))
    BY DEF Open, Rec
  <2>3. PICK r : Len(att[t]) \in 1 .. Len(att[t]) /\ Edited(t, Len(att[t]), r) /\ ~Open(r)
    BY <1>36, <2>2, SettleShape
  <2> QED
    BY <2>1, <2>3, LaunchLast DEF InLaunch
<1>37. ASSUME NEW t \in Tasks, Verify(t) PROVE \A u \in Tasks : Launching(u)'
  BY <1>37, RepairsAssumption DEF Verify, At, Goes, Types, Control, Launches, Launching, Open,
     InLaunch, InHand, store, memory, outside, history, vars
<1>38. ASSUME NEW t \in Tasks, Finish(t) PROVE \A u \in Tasks : Launching(u)'
  BY <1>38, RepairsAssumption DEF Finish, At, Goes, Types, Control, Launches, Launching, Open,
     InLaunch, InHand, store, memory, outside, history, vars
<1>39. ASSUME NEW c \in OpCmds, NEW t \in Tasks, NEW nb \in Gens,
               NEW sup \in Commands \cup {None}, Admit(c, t, nb, sup)
       
      PROVE   \A u \in Tasks : Launching(u)'
  BY <1>39 DEF Admit, Types, Control, Launches, Launching, Open, InLaunch, InHand, store,
     memory, outside, history, vars
<1>40. ASSUME NEW c \in Commands, Withdraw(c) PROVE \A u \in Tasks : Launching(u)'
  BY <1>40 DEF Withdraw, Types, Control, Launches, Launching, Open, InLaunch, InHand, store,
     memory, outside, history, vars
<1>41. CASE UNCHANGED vars
  BY <1>41 DEF Types, Control, Launches, Launching, Open, InLaunch, InHand, store, memory,
     outside, history, vars
<1> QED
  BY <1>1, <1>2, <1>3, <1>4, <1>5, <1>6, <1>7, <1>8, <1>9, <1>10, <1>11, <1>12, <1>13,
     <1>14, <1>15, <1>16, <1>17, <1>18, <1>19, <1>20, <1>21, <1>22, <1>23, <1>24, <1>25,
     <1>26, <1>27, <1>28, <1>29, <1>30, <1>31, <1>32, <1>33, <1>34, <1>35, <1>36, <1>37,
     <1>38, <1>39, <1>40, <1>41
     DEF Next, Recovery, MainLine, Dispatching, Operator
\* A step that lets no process go: at most some end, and what may be left stays known.
Passed == {"needs-review", "done"}

NoNewProcess ==
    /\ journal \subseteq journal' /\ live' \subseteq live
    /\ \/ phase' \in {"down", "reap"}
       \/ /\ phase \notin {"down", "reap"} /\ unproven \subseteq unproven'
          /\ \A u \in Tasks : disp[u] = "running" => disp'[u] = "running"
    /\ \A u \in Tasks : disp'[u] = "verifying" => disp[u] = "verifying"
    /\ \A u \in Tasks : status'[u] \in Passed => status[u] \in Passed

\* Such a step keeps Living when it leaves the attempts alone ...
LEMMA LivingStays ==
    ASSUME Types, Control, Launches, NoNewProcess, att' = att
    PROVE  \A b \in live' : Living(b)'
<1> SUFFICES ASSUME NEW b \in live' PROVE Living(b)'
  OBVIOUS
<1>1. b \in live /\ b[1] \in Tasks /\ Living(b)
  BY LiveRuns DEF NoNewProcess
<1> QED
  BY <1>1 DEF Living, NoNewProcess, Passed

\* ... and when it rewrites one that has no process or stays started.
LEMMA LivingEdited ==
    ASSUME Types, Control, Launches, NoNewProcess, NEW t \in Tasks,
           NEW g \in 1 .. Len(att[t]), NEW r, Edited(t, g, r),
           \/ att[t][g].st = "prepared"
           \/ r.st \in {"active", "exited"} /\ r.planned = att[t][g].planned
    PROVE  \A b \in live' : Living(b)'
<1> SUFFICES ASSUME NEW b \in live' PROVE Living(b)'
  OBVIOUS
<1>1. b \in live /\ b[1] \in Tasks /\ b[2] \in 1 .. Len(att[b[1]]) /\ Living(b)
  BY LiveRuns DEF NoNewProcess
<1>2. Len(att'[b[1]]) = Len(att[b[1]])
  BY <1>1 DEF Edited
<1>3. att'[b[1]][b[2]].st \in {"active", "exited"} /\ att'[b[1]][b[2]].planned
  BY <1>1 DEF Edited, Living
<1> QED
  BY <1>1, <1>2, <1>3 DEF Living, NoNewProcess, Passed

\* Living is inductive: the scope is journalled and started before it is let go.
LEMMA LivingNext ==
    ASSUME Types, Control, Counts, Launches, [Next]_vars PROVE  \A b \in live' : Living(b)'
<1>1. CASE Boot
  <2>1. NoNewProcess /\ att' = att
    BY <1>1 DEF NoNewProcess, Passed, Boot, At, Goes, Becomes, Types, store, memory,
       outside, history, vars
  <2> QED
    BY <2>1, LivingStays
<1>2. CASE Reap
  <2>1. live \subseteq journal
    BY DEF Launches, Living
  <2> QED
    BY <1>2, <2>1 DEF Reap
<1>3. CASE ReapUnresolved
  <2>1. /\ phase' = "down" /\ live' \subseteq live /\ live \subseteq journal
        /\ att' = att /\ disp' = disp /\ status' = status /\ live' \subseteq journal'
    BY <1>3 DEF ReapUnresolved, store, Launches, Living
  <2> QED
    BY <2>1, LiveRuns DEF Living
<1>4. CASE IdentityBlocked
  <2>1. NoNewProcess /\ att' = att
    BY <1>4 DEF NoNewProcess, Passed, IdentityBlocked, Reconciling, Types, store, memory,
       outside, history, vars
  <2> QED
    BY <2>1, LivingStays
<1>5. CASE RefuseTerminal
  <2>1. NoNewProcess /\ att' = att
    BY <1>5 DEF NoNewProcess, Passed, RefuseTerminal, Reconciling, Types, store, memory,
       outside, history, vars
  <2> QED
    BY <2>1, LivingStays
<1>6. CASE Reconciled
  <2>1. NoNewProcess /\ att' = att
    BY <1>6 DEF NoNewProcess, Passed, Reconciled, Reconciling, AfterIteration, Types, store,
       memory, outside, history, vars
  <2> QED
    BY <2>1, LivingStays
<1>7. CASE BeginReclaim
  <2>1. NoNewProcess /\ att' = att
    BY <1>7 DEF NoNewProcess, Passed, BeginReclaim, At, Goes, Becomes, Types, store, memory,
       outside, history, vars
  <2> QED
    BY <2>1, LivingStays
<1>8. CASE EndReclaim
  <2>1. NoNewProcess /\ att' = att
    BY <1>8 DEF NoNewProcess, Passed, EndReclaim, At, Goes, Becomes, Types, store, memory,
       outside, history, vars
  <2> QED
    BY <2>1, LivingStays
<1>9. CASE StartIteration
  <2>1. NoNewProcess /\ att' = att
    BY <1>9 DEF NoNewProcess, Passed, StartIteration, Control, Types, store,
       memory, outside, history, vars
  <2> QED
    BY <2>1, LivingStays
<1>10. CASE EndDispatch
  <2>1. NoNewProcess /\ att' = att
    BY <1>10 DEF NoNewProcess, Passed, EndDispatch, At, Goes, Becomes, Types, store, memory,
       outside, history, vars
  <2> QED
    BY <2>1, LivingStays
<1>11. CASE EndReview
  <2>1. NoNewProcess /\ att' = att
    BY <1>11 DEF NoNewProcess, Passed, EndReview, At, Goes, Becomes, Types, store, memory,
       outside, history, vars
  <2> QED
    BY <2>1, LivingStays
<1>12. CASE EndEscalate
  <2>1. NoNewProcess /\ att' = att
    BY <1>12 DEF NoNewProcess, Passed, EndEscalate, At, Goes, Becomes, Types, store, memory,
       outside, history, vars
  <2> QED
    BY <2>1, LivingStays
<1>13. CASE Crash
  <2>1. NoNewProcess /\ att' = att
    BY <1>13 DEF NoNewProcess, Passed, Crash, At, Goes, Becomes, Types, store, memory,
       outside, history, vars
  <2> QED
    BY <2>1, LivingStays
<1>14. ASSUME NEW a \in Tasks \X Gens, AbandonPrepared(a) PROVE \A b \in live' : Living(b)'
  <2>1. PICK r : Edited(a[1], a[2], r) /\ att[a[1]][a[2]].st = "prepared"
    BY <1>14, AbandonShape DEF Rec
  <2>2. NoNewProcess
    BY <1>14 DEF NoNewProcess, AbandonPrepared, Reconciling, memory, outside
  <2>3. a[1] \in Tasks /\ a[2] \in 1 .. Len(att[a[1]])
    BY <1>14, AbandonShape
  <2> QED
    BY <2>1, <2>2, <2>3, LivingEdited
<1>15. ASSUME NEW a \in Tasks \X Gens, RecordExit(a) PROVE \A b \in live' : Living(b)'
  <2> DEFINE r == Rec(att[a[1]][a[2]], "exited", att[a[1]][a[2]].planned, head + 1)
  <2>0. r.st = "exited" /\ r.planned = att[a[1]][a[2]].planned
    BY DEF Rec
  <2>1. Edited(a[1], a[2], r)
    BY <1>15, ExitShape
  <2> HIDE DEF r
  <2>2. NoNewProcess
    BY <1>15 DEF NoNewProcess, RecordExit, Reconciling, memory, outside
  <2>3. a[1] \in Tasks /\ a[2] \in 1 .. Len(att[a[1]])
    BY <1>15, ExitShape
  <2> QED
    BY <2>0, <2>1, <2>2, <2>3, LivingEdited
<1>16. ASSUME NEW a \in Tasks \X Gens, Settle(a) PROVE \A b \in live' : Living(b)'
  <2>1. NoNewProcess /\ att' = att
    BY <1>16 DEF NoNewProcess, Passed, Settle, Reconciling, Becomes, Types, store, memory,
       outside, history, vars
  <2> QED
    BY <2>1, LivingStays
<1>17. ASSUME NEW a \in Tasks \X Gens, OrphanExit(a) PROVE \A b \in live' : Living(b)'
  <2>1. NoNewProcess /\ att' = att
    BY <1>17 DEF NoNewProcess, Passed, OrphanExit, Running, Last, Types, store, memory,
       outside, history, vars
  <2> QED
    BY <2>1, LivingStays
<1>18. ASSUME NEW t \in Tasks, Reclaim(t) PROVE \A b \in live' : Living(b)'
  <2>1. NoNewProcess /\ att' = att
    BY <1>18 DEF NoNewProcess, Passed, Reclaim, At, Goes, Becomes, Types, store, memory,
       outside, history, vars
  <2> QED
    BY <2>1, LivingStays
<1>19. ASSUME NEW t \in Tasks, Review(t) PROVE \A b \in live' : Living(b)'
  <2>1. NoNewProcess /\ att' = att
    BY <1>19 DEF NoNewProcess, Passed, Review, At, Goes, Becomes, Counts, Counting, Types,
       store, memory, outside, history, vars
  <2> QED
    BY <2>1, LivingStays
<1>20. ASSUME NEW t \in Tasks, Escalate(t) PROVE \A b \in live' : Living(b)'
  <2>1. NoNewProcess /\ att' = att
    BY <1>20 DEF NoNewProcess, Passed, Escalate, At, Goes, Becomes, Types, store, memory,
       outside, history, vars
  <2> QED
    BY <2>1, LivingStays
<1>21. ASSUME NEW t \in Tasks, Claim(t) PROVE \A b \in live' : Living(b)'
  <2>1. NoNewProcess /\ att' = att
    BY <1>21 DEF NoNewProcess, Passed, Claim, At, Goes, Becomes, Types, store, memory,
       outside, history, vars
  <2> QED
    BY <2>1, LivingStays
<1>22. ASSUME NEW t \in Tasks, CannotClaim(t) PROVE \A b \in live' : Living(b)'
  <2>1. NoNewProcess /\ att' = att
    BY <1>22 DEF NoNewProcess, Passed, CannotClaim, At, Goes, Becomes, Types, store, memory,
       outside, history, vars
  <2> QED
    BY <2>1, LivingStays
<1>23. ASSUME NEW t \in Tasks, Throws(t) PROVE \A b \in live' : Living(b)'
  <2>1. NoNewProcess /\ att' = att
    BY <1>23 DEF NoNewProcess, Passed, Throws, At, Goes, Becomes, Types, store, memory,
       outside, history, vars
  <2> QED
    BY <2>1, LivingStays
<1>24. ASSUME NEW t \in Tasks, Boundary(t) PROVE \A b \in live' : Living(b)'
  <2>1. NoNewProcess /\ att' = att
    BY <1>24 DEF NoNewProcess, Passed, Boundary, At, Goes, Becomes, Types, store, memory,
       outside, history, vars
  <2> QED
    BY <2>1, LivingStays
<1>25. ASSUME NEW t \in Tasks, Feed(t) PROVE \A b \in live' : Living(b)'
  <2>1. NoNewProcess /\ att' = att
    BY <1>25 DEF NoNewProcess, Passed, Feed, At, Goes, Becomes, Types, store, memory,
       outside, history, vars
  <2> QED
    BY <2>1, LivingStays
<1>26. ASSUME NEW t \in Tasks, Publish(t) PROVE \A b \in live' : Living(b)'
  <2>1. NoNewProcess /\ att' = att
    BY <1>26 DEF NoNewProcess, Passed, Publish, At, Goes, Becomes, Types, store, memory,
       outside, history, vars
  <2> QED
    BY <2>1, LivingStays
<1>27. ASSUME NEW t \in Tasks, CannotPublish(t) PROVE \A b \in live' : Living(b)'
  <2>1. NoNewProcess /\ att' = att
    BY <1>27 DEF NoNewProcess, Passed, CannotPublish, At, Goes, Becomes, Types, store,
       memory, outside, history, vars
  <2> QED
    BY <2>1, LivingStays
<1>28. ASSUME NEW t \in Tasks, Commit(t) PROVE \A b \in live' : Living(b)'
  <2>1. /\ Len(att'[t]) = Len(att[t]) + 1
        /\ \A u \in Tasks : u # t => Len(att'[u]) = Len(att[u])
        /\ \A u \in Tasks : \A h \in 1 .. Len(att[u]) : att'[u][h] = att[u][h]
    BY <1>28, CommitShape DEF Appended
  <2>2. /\ live' = live /\ journal' = journal /\ unproven' = unproven
        /\ phase' = phase /\ status' = status /\ disp[t] = "published"
        /\ disp'[t] = "prepared" /\ \A u \in Tasks : u # t => disp'[u] = disp[u]
    BY <1>28 DEF Commit, At, Goes, Types, outside
  <2> SUFFICES ASSUME NEW b \in live PROVE Living(b)'
    BY <2>2
  <2>3. b[1] \in Tasks /\ b[2] \in 1 .. Len(att[b[1]]) /\ Living(b)
    BY LiveRuns
  <2>7. Len(att[b[1]]) \in Nat
    BY <2>3 DEF Types
  <2>8. att'[b[1]][b[2]] = att[b[1]][b[2]]
    BY <2>1, <2>3
  <2>9. b[2] \in 1 .. Len(att'[b[1]]) /\ (b[1] = t => b[2] # Len(att'[t]))
    BY <2>1, <2>3, <2>7
  <2>4. att'[b[1]][b[2]] = att[b[1]][b[2]] /\ b[2] \in 1 .. Len(att'[b[1]])
    BY <2>8, <2>9
  <2>5. CASE b[1] = t
    BY <2>2, <2>3, <2>4, <2>5, <2>9 DEF Living
  <2>6. CASE b[1] # t
    BY <2>1, <2>2, <2>3, <2>4, <2>6 DEF Living
  <2> QED
    BY <2>5, <2>6
<1>29. ASSUME NEW t \in Tasks, Refused(t) PROVE \A b \in live' : Living(b)'
  <2>1. NoNewProcess /\ att' = att
    BY <1>29 DEF NoNewProcess, Passed, Refused, At, Goes, Becomes, Types, store, memory,
       outside, history, vars
  <2> QED
    BY <2>1, LivingStays
<1>30. ASSUME NEW t \in Tasks, Plan(t) PROVE \A b \in live' : Living(b)'
  <2>1. PICK r : Edited(t, Len(att[t]), r)
    BY <1>30, PlanShape DEF Rec
  <2>2. NoNewProcess
    BY <1>30 DEF NoNewProcess, Plan, At, Goes, Types, outside
  <2>3. t \in Tasks /\ Len(att[t]) \in 1 .. Len(att[t])
    BY <1>30, PlanShape
  <2>4. att[t][Len(att[t])].st = "prepared"
    BY <1>30 DEF Plan, At, Launches, Launching
  <2> QED
    BY <2>4, <2>1, <2>2, <2>3, LivingEdited
<1>31. ASSUME NEW t \in Tasks, Record(t) PROVE \A b \in live' : Living(b)'
  <2>1. NoNewProcess /\ att' = att
    BY <1>31 DEF NoNewProcess, Passed, Record, At, Goes, Becomes, Types, store, memory,
       outside, history, vars
  <2> QED
    BY <2>1, LivingStays
<1>32. ASSUME NEW t \in Tasks, LaunchFails(t) PROVE \A b \in live' : Living(b)'
  <2>1. NoNewProcess /\ att' = att
    BY <1>32 DEF NoNewProcess, Passed, LaunchFails, At, Goes, Becomes, Types, store, memory,
       outside, history, vars
  <2> QED
    BY <2>1, LivingStays
<1>33. ASSUME NEW t \in Tasks, Started(t) PROVE \A b \in live' : Living(b)'
  <2> DEFINE x == att[t][Len(att[t])]
             r == Rec(x, "active", x.planned, x.end)
  <2>0. r.st = "active" /\ r.planned = x.planned
    BY DEF Rec
  <2>1. Edited(t, Len(att[t]), r)
    BY <1>33, StartedShape
  <2> HIDE DEF r
  <2>2. NoNewProcess
    BY <1>33 DEF NoNewProcess, Started, At, Goes, Types, outside
  <2>3. t \in Tasks /\ Len(att[t]) \in 1 .. Len(att[t])
    BY <1>33, StartedShape
  <2> QED
    BY <2>0, <2>1, <2>2, <2>3, LivingEdited
<1>34. ASSUME NEW t \in Tasks, Release(t) PROVE \A b \in live' : Living(b)'
  <2>1. /\ phase = "dispatch" /\ phase' = phase /\ disp[t] = "started"
        /\ disp'[t] = "running" /\ \A u \in Tasks : u # t => disp'[u] = disp[u]
        /\ live' = live \cup {<<t, Len(att[t])>>} /\ journal' = journal /\ att' = att
        /\ unproven' = unproven /\ status' = status
    BY <1>34 DEF Release, At, Goes, Last, Types, store
  <2>2. Len(att[t]) \in 1 .. Len(att[t]) /\ status[t] = "claimed"
    BY <2>1, LastExists DEF InLaunch, Counts, Counting
  <2>3. Living(<<t, Len(att[t])>>)'
    BY <2>1, <2>2 DEF Living, Launches, Launching
  <2>4. ASSUME NEW b \in live PROVE Living(b)'
    BY <2>1, LiveRuns DEF Living
  <2> QED
    BY <2>1, <2>3, <2>4
<1>35. ASSUME NEW t \in Tasks, Exit(t) PROVE \A b \in live' : Living(b)'
  <2>1. /\ phase = "dispatch" /\ phase' = phase /\ disp[t] = "running"
        /\ disp'[t] = "gone" /\ \A u \in Tasks : u # t => disp'[u] = disp[u]
        /\ journal' = journal /\ att' = att /\ status' = status
        /\ \/ live' = live \ {<<t, Len(att[t])>>} /\ unproven' = unproven
           \/ live' = live /\ unproven' = unproven \cup {<<t, Len(att[t])>>}
    BY <1>35 DEF Exit, At, Goes, Last, Types, store
  <2> SUFFICES ASSUME NEW b \in live' PROVE Living(b)'
    OBVIOUS
  <2>2. b \in live /\ b[1] \in Tasks /\ b = <<b[1], b[2]>> /\ Living(b)
    BY <2>1, LiveRuns
  <2>3. CASE b = <<t, Len(att[t])>>
    BY <2>1, <2>2, <2>3 DEF Living
  <2>4. CASE b # <<t, Len(att[t])>>
    BY <2>1, <2>2, <2>4 DEF Living
  <2> QED
    BY <2>3, <2>4
<1>36. ASSUME NEW t \in Tasks, SettleAttempt(t) PROVE \A b \in live' : Living(b)'
  <2> DEFINE x == att[t][Len(att[t])]
             r == Rec(x, "exited", x.planned, head + 1)
             q == Rec(x, "abandoned", x.planned, x.end)
  <2>0. r.st = "exited" /\ r.planned = x.planned
    BY DEF Rec
  <2>1. Edited(t, Len(att[t]), r) \/ (x.st = "prepared" /\ Edited(t, Len(att[t]), q))
    BY <1>36, SettleShape
  <2> HIDE DEF r, q
  <2>6. /\ phase = "dispatch" /\ phase' = phase /\ status' = status
        /\ disp[t] = "gone" /\ disp'[t] = "settled"
        /\ \A u \in Tasks : u # t => disp'[u] = disp[u]
        /\ live' = live /\ journal' = journal /\ unproven' = unproven
    BY <1>36 DEF SettleAttempt, At, Goes, Types, outside
  <2>2. NoNewProcess
    BY <2>6 DEF NoNewProcess
  <2>3. Len(att[t]) \in 1 .. Len(att[t])
    BY <1>36, SettleShape
  <2>4. CASE Edited(t, Len(att[t]), r)
    BY <2>0, <2>2, <2>3, <2>4, LivingEdited
  <2>5. CASE x.st = "prepared" /\ Edited(t, Len(att[t]), q)
    BY <2>2, <2>3, <2>5, LivingEdited
  <2> QED
    BY <2>1, <2>4, <2>5
<1>37. ASSUME NEW t \in Tasks, Verify(t) PROVE \A b \in live' : Living(b)'
  <2>1. /\ phase = "dispatch" /\ phase' = phase /\ disp[t] = "settled"
        /\ disp'[t] = "verifying" /\ \A u \in Tasks : u # t => disp'[u] = disp[u]
        /\ live' = live /\ journal' = journal /\ att' = att /\ status' = status
        /\ unproven' = unproven /\ <<t, Len(att[t])>> \notin unproven
        /\ status[t] = "claimed"
    BY <1>37 DEF Verify, At, Goes, Last, Types, store, outside, Counts, Counting
  <2> SUFFICES ASSUME NEW b \in live PROVE Living(b)'
    BY <2>1
  <2>2. b[1] \in Tasks /\ b = <<b[1], b[2]>> /\ Living(b)
    BY LiveRuns
  <2>3. b # <<t, Len(att[t])>>
    BY <2>1, <2>2 DEF Living
  <2> QED
    BY <2>1, <2>2, <2>3 DEF Living
<1>38. ASSUME NEW t \in Tasks, Finish(t) PROVE \A b \in live' : Living(b)'
  <2>1. /\ phase = "dispatch" /\ phase' = phase /\ disp[t] \in {"settled", "verifying"}
        /\ disp'[t] = "none" /\ \A u \in Tasks : u # t => disp'[u] = disp[u]
        /\ live' = live /\ journal' = journal /\ att' = att /\ unproven' = unproven
        /\ \A u \in Tasks : u # t => status'[u] = status[u]
        /\ disp[t] = "verifying" \/ status'[t] = "blocked"
    BY <1>38 DEF Finish, Becomes, At, Goes, Types, outside
  <2> SUFFICES ASSUME NEW b \in live PROVE Living(b)'
    BY <2>1
  <2>2. b[1] \in Tasks /\ Living(b)
    BY LiveRuns
  <2>3. CASE b[1] = t
    BY <2>1, <2>2, <2>3 DEF Living
  <2>4. CASE b[1] # t
    BY <2>1, <2>2, <2>4 DEF Living
  <2> QED
    BY <2>3, <2>4
<1>39. ASSUME NEW c \in OpCmds, NEW t \in Tasks, NEW nb \in Gens,
               NEW sup \in Commands \cup {None}, Admit(c, t, nb, sup)
       
      PROVE   \A b \in live' : Living(b)'
  <2>1. NoNewProcess /\ att' = att
    BY <1>39 DEF NoNewProcess, Passed, Admit, Types, store, memory, outside, history, vars
  <2> QED
    BY <2>1, LivingStays
<1>40. ASSUME NEW c \in Commands, Withdraw(c) PROVE \A b \in live' : Living(b)'
  <2>1. NoNewProcess /\ att' = att
    BY <1>40 DEF NoNewProcess, Passed, Withdraw, Types, store, memory, outside, history,
       vars
  <2> QED
    BY <2>1, LivingStays
<1>41. CASE UNCHANGED vars
  <2>1. NoNewProcess /\ att' = att
    BY <1>41 DEF NoNewProcess, Passed, Types, store, memory, outside, history, vars
  <2> QED
    BY <2>1, LivingStays
<1> QED
  BY <1>1, <1>2, <1>3, <1>4, <1>5, <1>6, <1>7, <1>8, <1>9, <1>10, <1>11, <1>12, <1>13,
     <1>14, <1>15, <1>16, <1>17, <1>18, <1>19, <1>20, <1>21, <1>22, <1>23, <1>24, <1>25,
     <1>26, <1>27, <1>28, <1>29, <1>30, <1>31, <1>32, <1>33, <1>34, <1>35, <1>36, <1>37,
     <1>38, <1>39, <1>40, <1>41
     DEF Next, Recovery, MainLine, Dispatching, Operator
\* The journal and the processes name attempts.
LEMMA ScopesNext ==
    ASSUME Types, Control, Counts, Launches, [Next]_vars
    PROVE  journal' \subseteq Tasks \X Gens /\ live' \subseteq Tasks \X Gens
<1>1. CASE Boot
  BY <1>1 DEF Boot, Launches, store, memory, outside, history, vars
<1>2. CASE Reap
  BY <1>2 DEF Reap, Launches, store, memory, outside, history, vars
<1>3. CASE ReapUnresolved
  BY <1>3 DEF ReapUnresolved, Launches, store, memory, outside, history, vars
<1>4. CASE IdentityBlocked
  BY <1>4 DEF IdentityBlocked, Launches, store, memory, outside, history, vars
<1>5. CASE RefuseTerminal
  BY <1>5 DEF RefuseTerminal, Launches, store, memory, outside, history, vars
<1>6. CASE Reconciled
  BY <1>6 DEF Reconciled, Launches, store, memory, outside, history, vars
<1>7. CASE BeginReclaim
  BY <1>7 DEF BeginReclaim, Launches, store, memory, outside, history, vars
<1>8. CASE EndReclaim
  BY <1>8 DEF EndReclaim, Launches, store, memory, outside, history, vars
<1>9. CASE StartIteration
  BY <1>9 DEF StartIteration, Launches, store, memory, outside, history, vars
<1>10. CASE EndDispatch
  BY <1>10 DEF EndDispatch, Launches, store, memory, outside, history, vars
<1>11. CASE EndReview
  BY <1>11 DEF EndReview, Launches, store, memory, outside, history, vars
<1>12. CASE EndEscalate
  BY <1>12 DEF EndEscalate, Launches, store, memory, outside, history, vars
<1>13. CASE Crash
  BY <1>13 DEF Crash, Launches, store, memory, outside, history, vars
<1>14. ASSUME NEW a \in Tasks \X Gens, AbandonPrepared(a)
      PROVE  journal' \subseteq Tasks \X Gens /\ live' \subseteq Tasks \X Gens
  BY <1>14 DEF AbandonPrepared, Launches, store, memory, outside, history, vars
<1>15. ASSUME NEW a \in Tasks \X Gens, RecordExit(a)
      PROVE  journal' \subseteq Tasks \X Gens /\ live' \subseteq Tasks \X Gens
  BY <1>15 DEF RecordExit, Launches, store, memory, outside, history, vars
<1>16. ASSUME NEW a \in Tasks \X Gens, Settle(a)
      PROVE  journal' \subseteq Tasks \X Gens /\ live' \subseteq Tasks \X Gens
  BY <1>16 DEF Settle, Launches, store, memory, outside, history, vars
<1>17. ASSUME NEW a \in Tasks \X Gens, OrphanExit(a)
      PROVE  journal' \subseteq Tasks \X Gens /\ live' \subseteq Tasks \X Gens
  BY <1>17 DEF OrphanExit, Launches, store, memory, outside, history, vars
<1>18. ASSUME NEW t \in Tasks, Reclaim(t)
      PROVE  journal' \subseteq Tasks \X Gens /\ live' \subseteq Tasks \X Gens
  BY <1>18 DEF Reclaim, Launches, store, memory, outside, history, vars
<1>19. ASSUME NEW t \in Tasks, Review(t)
      PROVE  journal' \subseteq Tasks \X Gens /\ live' \subseteq Tasks \X Gens
  BY <1>19 DEF Review, Launches, store, memory, outside, history, vars
<1>20. ASSUME NEW t \in Tasks, Escalate(t)
      PROVE  journal' \subseteq Tasks \X Gens /\ live' \subseteq Tasks \X Gens
  BY <1>20 DEF Escalate, Launches, store, memory, outside, history, vars
<1>21. ASSUME NEW t \in Tasks, Claim(t)
      PROVE  journal' \subseteq Tasks \X Gens /\ live' \subseteq Tasks \X Gens
  BY <1>21 DEF Claim, Launches, store, memory, outside, history, vars
<1>22. ASSUME NEW t \in Tasks, CannotClaim(t)
      PROVE  journal' \subseteq Tasks \X Gens /\ live' \subseteq Tasks \X Gens
  BY <1>22 DEF CannotClaim, Launches, store, memory, outside, history, vars
<1>23. ASSUME NEW t \in Tasks, Throws(t)
      PROVE  journal' \subseteq Tasks \X Gens /\ live' \subseteq Tasks \X Gens
  BY <1>23 DEF Throws, Launches, store, memory, outside, history, vars
<1>24. ASSUME NEW t \in Tasks, Boundary(t)
      PROVE  journal' \subseteq Tasks \X Gens /\ live' \subseteq Tasks \X Gens
  BY <1>24 DEF Boundary, Launches, store, memory, outside, history, vars
<1>25. ASSUME NEW t \in Tasks, Feed(t)
      PROVE  journal' \subseteq Tasks \X Gens /\ live' \subseteq Tasks \X Gens
  BY <1>25 DEF Feed, Launches, store, memory, outside, history, vars
<1>26. ASSUME NEW t \in Tasks, Publish(t)
      PROVE  journal' \subseteq Tasks \X Gens /\ live' \subseteq Tasks \X Gens
  BY <1>26 DEF Publish, Launches, store, memory, outside, history, vars
<1>27. ASSUME NEW t \in Tasks, CannotPublish(t)
      PROVE  journal' \subseteq Tasks \X Gens /\ live' \subseteq Tasks \X Gens
  BY <1>27 DEF CannotPublish, Launches, store, memory, outside, history, vars
<1>28. ASSUME NEW t \in Tasks, Commit(t)
      PROVE  journal' \subseteq Tasks \X Gens /\ live' \subseteq Tasks \X Gens
  BY <1>28 DEF Commit, Launches, store, memory, outside, history, vars
<1>29. ASSUME NEW t \in Tasks, Refused(t)
      PROVE  journal' \subseteq Tasks \X Gens /\ live' \subseteq Tasks \X Gens
  BY <1>29 DEF Refused, Launches, store, memory, outside, history, vars
<1>30. ASSUME NEW t \in Tasks, Plan(t)
      PROVE  journal' \subseteq Tasks \X Gens /\ live' \subseteq Tasks \X Gens
  BY <1>30 DEF Plan, Launches, store, memory, outside, history, vars
<1>31. ASSUME NEW t \in Tasks, Record(t)
      PROVE  journal' \subseteq Tasks \X Gens /\ live' \subseteq Tasks \X Gens
  <2>1. Len(att[t]) \in 1 .. Len(att[t])
    BY <1>31, LastExists DEF Record, At, InLaunch
  <2>2. Len(att[t]) <= MaxRepairs + 1
    BY RepairsAssumption DEF Counts, Counting, Types
  <2>3. Last(t) \in Tasks \X Gens
    BY <2>1, <2>2, RepairsAssumption DEF Last, Gens
  <2> QED
    BY <1>31, <2>3 DEF Record, Launches
<1>32. ASSUME NEW t \in Tasks, LaunchFails(t)
      PROVE  journal' \subseteq Tasks \X Gens /\ live' \subseteq Tasks \X Gens
  BY <1>32 DEF LaunchFails, Launches, store, memory, outside, history, vars
<1>33. ASSUME NEW t \in Tasks, Started(t)
      PROVE  journal' \subseteq Tasks \X Gens /\ live' \subseteq Tasks \X Gens
  BY <1>33 DEF Started, Launches, store, memory, outside, history, vars
<1>34. ASSUME NEW t \in Tasks, Release(t)
      PROVE  journal' \subseteq Tasks \X Gens /\ live' \subseteq Tasks \X Gens
  <2>1. Len(att[t]) \in 1 .. Len(att[t])
    BY <1>34, LastExists DEF Release, At, InLaunch
  <2>2. Len(att[t]) <= MaxRepairs + 1
    BY RepairsAssumption DEF Counts, Counting, Types
  <2>3. Last(t) \in Tasks \X Gens
    BY <2>1, <2>2, RepairsAssumption DEF Last, Gens
  <2> QED
    BY <1>34, <2>3 DEF Release, Launches
<1>35. ASSUME NEW t \in Tasks, Exit(t)
      PROVE  journal' \subseteq Tasks \X Gens /\ live' \subseteq Tasks \X Gens
  BY <1>35 DEF Exit, Launches, store, memory, outside, history, vars
<1>36. ASSUME NEW t \in Tasks, SettleAttempt(t)
      PROVE  journal' \subseteq Tasks \X Gens /\ live' \subseteq Tasks \X Gens
  BY <1>36 DEF SettleAttempt, Launches, store, memory, outside, history, vars
<1>37. ASSUME NEW t \in Tasks, Verify(t)
      PROVE  journal' \subseteq Tasks \X Gens /\ live' \subseteq Tasks \X Gens
  BY <1>37 DEF Verify, Launches, store, memory, outside, history, vars
<1>38. ASSUME NEW t \in Tasks, Finish(t)
      PROVE  journal' \subseteq Tasks \X Gens /\ live' \subseteq Tasks \X Gens
  BY <1>38 DEF Finish, Launches, store, memory, outside, history, vars
<1>39. ASSUME NEW c \in OpCmds, NEW t \in Tasks, NEW nb \in Gens,
               NEW sup \in Commands \cup {None}, Admit(c, t, nb, sup)
       
      PROVE   journal' \subseteq Tasks \X Gens /\ live' \subseteq Tasks \X Gens
  BY <1>39 DEF Admit, Launches, store, memory, outside, history, vars
<1>40. ASSUME NEW c \in Commands, Withdraw(c)
      PROVE  journal' \subseteq Tasks \X Gens /\ live' \subseteq Tasks \X Gens
  BY <1>40 DEF Withdraw, Launches, store, memory, outside, history, vars
<1>41. CASE UNCHANGED vars
  BY <1>41 DEF Launches, store, memory, outside, history, vars
<1> QED
  BY <1>1, <1>2, <1>3, <1>4, <1>5, <1>6, <1>7, <1>8, <1>9, <1>10, <1>11, <1>12, <1>13,
     <1>14, <1>15, <1>16, <1>17, <1>18, <1>19, <1>20, <1>21, <1>22, <1>23, <1>24, <1>25,
     <1>26, <1>27, <1>28, <1>29, <1>30, <1>31, <1>32, <1>33, <1>34, <1>35, <1>36, <1>37,
     <1>38, <1>39, <1>40, <1>41
     DEF Next, Recovery, MainLine, Dispatching, Operator
\* The parts of Launches together.
LEMMA LaunchesNext ==
    ASSUME Types, Control, Counts, Launches, [Next]_vars PROVE Launches'
  BY LaunchingNext, LivingNext, ScopesNext DEF Launches

DispatchInv == Types /\ Control /\ Counts /\ Launches

\* The first three layers together.
LEMMA DispatchInvInit == Init => DispatchInv
<1> SUFFICES ASSUME Init PROVE DispatchInv
  OBVIOUS
<1>1. NoCmd \in CmdRec /\ NoFile \in FileRec
  BY DEF NoCmd, CmdRec, CmdStates, NoFile, FileRec
<1>2. Types
  BY <1>1 DEF Init, Types, Phases, Statuses, DispSteps
<1>3. Control
  BY DEF Init, Control, InHand
<1>4. Counts
  BY RepairsAssumption DEF Init, Counts, Counting, InPrompt, InLaunch
<1>5. Launches
  BY DEF Init, Launches, Launching, InLaunch
<1> QED
  BY <1>2, <1>3, <1>4, <1>5 DEF DispatchInv

LEMMA DispatchInvNext == DispatchInv /\ [Next]_vars => DispatchInv'
  BY TypesNext, ControlNext, CountsNext, LaunchesNext DEF DispatchInv

LEMMA DispatchInvAlways == Spec => []DispatchInv
  BY DispatchInvInit, DispatchInvNext, PTL DEF Spec

\* What Launches says of the processes of work that is under review.
LEMMA QuietFromInv == DispatchInv => ReviewedIsQuiet
<1> SUFFICES ASSUME DispatchInv, NEW a \in live, a = Last(a[1])
             PROVE  disp[a[1]] # "verifying" /\ status[a[1]] \notin {"needs-review", "done"}
  BY DEF ReviewedIsQuiet
<1>1. Living(a) /\ a = <<a[1], a[2]>>
  BY LiveRuns DEF DispatchInv
<1>2. a[2] = Len(att[a[1]])
  BY <1>1 DEF Last
<1> QED
  BY <1>1, <1>2 DEF Living

\* What Launches says of the processes is the property.
LEMMA AgentsFromInv == DispatchInv => AgentsKnown
<1> SUFFICES ASSUME DispatchInv PROVE AgentsKnown
  OBVIOUS
<1>1. ASSUME NEW a \in live PROVE a = <<a[1], a[2]>> /\ Living(a) /\ a \in Tasks \X Gens
  BY LiveRuns DEF DispatchInv, Launches
<1>2. RunningIsRecorded
  BY <1>1 DEF RunningIsRecorded, Living, Attempts, StateOf, DispatchInv, Types
<1>3. NoGhost
  BY <1>1 DEF NoGhost, Living, Running, Last
<1> QED
  BY <1>2, <1>3, QuietFromInv DEF AgentsKnown

(* However parents die and restart and whatever scopes fail to empty, each *)
(* provider process is one a successor finds in the scope journal and in   *)
(* the store, past the reap of a successor only providers of that          *)
(* incarnation are left, and no process is left of an attempt that is      *)
(* verified, reviewed or accepted (journalAndRelease, doFinish,            *)
(* reapAbandonedScopes, dispatchTask, reviewPass).                         *)
THEOREM AgentsAlwaysKnown == Spec => []AgentsKnown
  BY DispatchInvAlways, AgentsFromInv, PTL

(***************************************************************************)
(* Exits.  Every exit has a place of its own in the log, and the exit of   *)
(* the attempt a task is claimed for lies ahead of the settlement cursor.  *)
(***************************************************************************)
EndsBelow(A, h) == \A t \in Tasks : \A g \in 1 .. Len(A[t]) : A[t][g].end <= h

ExitsApart(A) ==
    \A t, u \in Tasks : \A g \in 1 .. Len(A[t]) : \A h \in 1 .. Len(A[u]) :
        (A[t][g].st = "exited" /\ A[u][h].st = "exited" /\ A[t][g].end = A[u][h].end)
            => t = u /\ g = h

Exits ==
    /\ cursor <= head
    /\ EndsBelow(att, head)
    /\ ExitsApart(att)
    /\ \A t \in Tasks : status[t] = "claimed" => claimGen[t] # 0
    /\ CursorMeansSettled

\* Elements of the attempts, for the arithmetic below.
LEMMA AttElem ==
    ASSUME Types, NEW t \in Tasks
    PROVE  /\ Len(att[t]) \in Nat
           /\ \A g \in 1 .. Len(att[t]) : att[t][g] \in AttRec
           /\ \A g \in 1 .. Len(att[t]) : att[t][g].end \in Nat
<1>1. att[t] \in Seq(AttRec)
  BY DEF Types
<1>2. Len(att[t]) \in Nat /\ \A g \in 1 .. Len(att[t]) : att[t][g] \in AttRec
  BY <1>1
<1> QED
  BY <1>2 DEF AttRec

\* No exit lies beyond the head.
LEMMA EndBelow ==
    ASSUME Types, Exits, NEW t \in Tasks, NEW g \in 1 .. Len(att[t])
    PROVE  att[t][g].end <= head /\ head <= head
<1>1. att[t][g].end <= head
  BY DEF Exits, EndsBelow
<1>2. head <= head
  BY DEF Types
<1> QED
  BY <1>1, <1>2

\* A step that leaves the attempts and the cursor alone.
LEMMA ExitsQuiet ==
    ASSUME Types, Types', Exits, att' = att, cursor' = cursor, head <= head', claimGen' = claimGen,
           \A t \in Tasks : status'[t] = "claimed" => status[t] = "claimed"
    PROVE  Exits'
<1>1. head \in Nat /\ head' \in Nat /\ cursor \in Nat
  BY DEF Types
<1>2. EndsBelow(att', head')
  BY <1>1, AttElem DEF Exits, EndsBelow
<1>3. CursorMeansSettled'
  BY DEF Exits, CursorMeansSettled
<1> QED
  BY <1>1, <1>2, <1>3 DEF Exits

\* A step that rewrites one attempt: an exit is the newest event of the log.
LEMMA ExitsEdit ==
    ASSUME Types, Types', Exits, cursor' = cursor, head <= head', claimGen' = claimGen,
           status' = status, NEW t \in Tasks, NEW g \in 1 .. Len(att[t]), NEW r, Edited(t, g, r),
           r.end <= head', r.st = "exited" => r.end = head + 1 /\ head' = head + 1
    PROVE  Exits'
<1>1. \A u \in Tasks : Len(att[u]) \in Nat
                      /\ \A h \in 1 .. Len(att[u]) : att[u][h].end \in Nat
  BY AttElem
<1>2. head \in Nat /\ cursor \in Nat /\ head' \in Nat
  BY DEF Types
<1>3. EndsBelow(att', head')
  BY <1>1, <1>2 DEF Exits, Edited, EndsBelow
<1>4. ExitsApart(att')
  <2> SUFFICES ASSUME NEW u \in Tasks, NEW v \in Tasks,
                      NEW h \in 1 .. Len(att[u]), NEW k \in 1 .. Len(att[v]),
                      att'[u][h].st = "exited", att'[v][k].st = "exited",
                      att'[u][h].end = att'[v][k].end
               PROVE  u = v /\ h = k
    BY DEF ExitsApart, Edited
  <2>1. att[u][h].end <= head /\ att[v][k].end <= head
    BY DEF Exits, EndsBelow
  <2>2. (u # t \/ h # g) => att'[u][h] = att[u][h]
    BY DEF Edited
  <2>3. (v # t \/ k # g) => att'[v][k] = att[v][k]
    BY DEF Edited
  <2>4. att'[t][g] = r
    BY DEF Edited
  <2>5. CASE (u # t \/ h # g) /\ (v # t \/ k # g)
    BY SMTT(40), <2>2, <2>3, <2>5 DEF Exits, ExitsApart
  <2>6. CASE (u = t /\ h = g) /\ (v # t \/ k # g)
    BY SMTT(40), <1>1, <1>2, <2>1, <2>3, <2>4, <2>6
  <2>7. CASE (u # t \/ h # g) /\ (v = t /\ k = g)
    BY SMTT(40), <1>1, <1>2, <2>1, <2>2, <2>4, <2>7
  <2> QED
    BY <2>5, <2>6, <2>7
<1>5. ASSUME NEW u \in Tasks, status[u] = "claimed", claimGen[u] <= Len(att[u]),
             att'[u][claimGen[u]].st = "exited"
      PROVE  att'[u][claimGen[u]].end > cursor
  <2>1. claimGen[u] \in 1 .. Len(att[u])
    BY SMTT(40), <1>1, <1>5 DEF Exits, Types
  <2>2. CASE u = t /\ claimGen[u] = g
    BY <1>2, <1>5, <2>2 DEF Edited, Exits
  <2>3. CASE u # t \/ claimGen[u] # g
    BY <1>5, <2>1, <2>3 DEF Edited, Exits, CursorMeansSettled
  <2> QED
    BY <2>2, <2>3
<1>6. CursorMeansSettled'
  BY <1>5 DEF CursorMeansSettled, Edited
<1>7. cursor' <= head'
  BY <1>2 DEF Exits
<1> QED
  BY <1>3, <1>4, <1>6, <1>7 DEF Exits

\* Exits is inductive; Settle takes the oldest unsettled exit, and exits are apart.
LEMMA ExitsNext ==
    ASSUME Types, Types', Control, Counts, Launches, Exits, [Next]_vars PROVE  Exits'
<1>1. CASE Boot
  BY <1>1, ExitsQuiet DEF Boot, Types, store, memory, outside, history
<1>2. CASE Reap
  BY <1>2, ExitsQuiet DEF Reap, Types, store, memory, outside, history
<1>3. CASE ReapUnresolved
  BY <1>3, ExitsQuiet DEF ReapUnresolved, Types, store, memory, outside, history
<1>4. CASE IdentityBlocked
  BY <1>4, ExitsQuiet DEF IdentityBlocked, Types, store, memory, outside, history
<1>5. CASE RefuseTerminal
  BY <1>5, ExitsQuiet DEF RefuseTerminal, Types, store, memory, outside, history
<1>6. CASE Reconciled
  BY <1>6, ExitsQuiet DEF Reconciled, Types, store, memory, outside, history
<1>7. CASE BeginReclaim
  BY <1>7, ExitsQuiet DEF BeginReclaim, Types, store, memory, outside, history
<1>8. CASE EndReclaim
  BY <1>8, ExitsQuiet DEF EndReclaim, Types, store, memory, outside, history
<1>9. CASE StartIteration
  BY <1>9, ExitsQuiet DEF StartIteration, Types, store, memory, outside, history
<1>10. CASE EndDispatch
  BY <1>10, ExitsQuiet DEF EndDispatch, Types, store, memory, outside, history
<1>11. CASE EndReview
  BY <1>11, ExitsQuiet DEF EndReview, Types, store, memory, outside, history
<1>12. CASE EndEscalate
  BY <1>12, ExitsQuiet DEF EndEscalate, Types, store, memory, outside, history
<1>13. CASE Crash
  BY <1>13, ExitsQuiet DEF Crash, Types, store, memory, outside, history
<1>14. ASSUME NEW a \in Tasks \X Gens, AbandonPrepared(a) PROVE Exits'
  <2> DEFINE x == att[a[1]][a[2]]
             r == Rec(x, "abandoned", x.planned, x.end)
  <2>1. a[1] \in Tasks /\ a[2] \in 1 .. Len(att[a[1]]) /\ Edited(a[1], a[2], r)
    BY <1>14, AbandonShape
  <2>2. head' = head /\ r.end <= head' /\ r.st = "abandoned" /\ head <= head'
    <3>1. head' = head /\ r.end = x.end /\ r.st = "abandoned"
      BY <1>14 DEF AbandonPrepared, Rec
    <3> QED
      BY <2>1, <3>1, EndBelow
  <2> HIDE DEF r
  <2> QED
    BY <1>14, <2>1, <2>2, ExitsEdit DEF AbandonPrepared, history
<1>15. ASSUME NEW a \in Tasks \X Gens, RecordExit(a) PROVE Exits'
  <2> DEFINE r == Rec(att[a[1]][a[2]], "exited", att[a[1]][a[2]].planned, head + 1)
  <2>1. a[1] \in Tasks /\ a[2] \in 1 .. Len(att[a[1]]) /\ Edited(a[1], a[2], r)
    BY <1>15, ExitShape
  <2>2. head' = head + 1 /\ r.end = head + 1 /\ r.end <= head' /\ head <= head'
    <3>1. head' = head + 1 /\ r.end = head + 1
      BY <1>15 DEF RecordExit, Rec
    <3> QED
      BY <3>1 DEF Types
  <2> HIDE DEF r
  <2> QED
    BY <1>15, <2>1, <2>2, ExitsEdit DEF RecordExit, history
<1>16. ASSUME NEW a \in Tasks \X Gens, Settle(a) PROVE Exits'
  <2>1. /\ att' = att /\ head' = head /\ claimGen' = claimGen
        /\ cursor' = att[a[1]][a[2]].end
        /\ \A u \in Tasks : status'[u] = "claimed" => status[u] = "claimed" /\ u # a[1]
    BY <1>16 DEF Settle, Becomes, Types, history
  <2>2. /\ a \in Unsettled /\ a[1] \in Tasks /\ a[2] \in 1 .. Len(att[a[1]])
        /\ att[a[1]][a[2]].st = "exited"
    BY <1>16, RepairsAssumption DEF Settle, Unsettled, Attempts, StateOf, Gens, Types
  <2>3. cursor' <= head'
    BY <2>1, <2>2, EndBelow
  <2>4. ASSUME NEW u \in Tasks, status'[u] = "claimed", claimGen[u] <= Len(att[u]),
               att[u][claimGen[u]].st = "exited"
        PROVE  att[u][claimGen[u]].end > cursor'
    <3> DEFINE b == <<u, claimGen[u]>>
    <3>1. claimGen[u] \in 1 .. Len(att[u]) /\ Len(att[u]) <= MaxRepairs + 1
      <4>1. claimGen[u] \in Nat \ {0}
        BY <2>1, <2>4 DEF Exits, Types
      <4>2. Len(att[u]) \in Nat /\ dispatched[u] \in Nat
        BY AttElem DEF Types
      <4>3. Len(att[u]) <= dispatched[u] /\ dispatched[u] <= MaxRepairs + 1
        BY DEF Counts, Counting
      <4> QED
        BY <2>4, <4>1, <4>2, <4>3, RepairsAssumption
    <3>2. b \in Tasks \X Gens /\ b[1] = u /\ b[2] = claimGen[u]
      BY <3>1, RepairsAssumption DEF Gens
    <3>3. att[u][claimGen[u]].end > cursor
      BY <2>1, <2>4 DEF Exits, CursorMeansSettled
    <3>4. b \in Unsettled
      BY <2>4, <3>2, <3>3 DEF Unsettled, Attempts, StateOf
    <3>5. att[a[1]][a[2]].end <= att[u][claimGen[u]].end
      BY <1>16, <3>2, <3>4 DEF Settle
    <3>6. att[a[1]][a[2]].end # att[u][claimGen[u]].end
      BY <2>1, <2>2, <2>4, <3>1 DEF Exits, ExitsApart
    <3>7. att[a[1]][a[2]] \in AttRec /\ att[u][claimGen[u]] \in AttRec
      BY <2>2, <3>1, AttElem
    <3>8. att[a[1]][a[2]].end \in Nat /\ att[u][claimGen[u]].end \in Nat
      BY <3>7 DEF AttRec
    <3> QED
      BY <2>1, <3>5, <3>6, <3>8
  <2>5. CursorMeansSettled'
    BY <2>1, <2>4 DEF CursorMeansSettled
  <2> QED
    BY <2>1, <2>3, <2>5 DEF Exits
<1>17. ASSUME NEW a \in Tasks \X Gens, OrphanExit(a) PROVE Exits'
  BY <1>17, ExitsQuiet DEF OrphanExit, Types, store, memory, outside, history
<1>18. ASSUME NEW t \in Tasks, Reclaim(t) PROVE Exits'
  BY <1>18, ExitsQuiet DEF Reclaim, At, Goes, Becomes, Types, store, memory, outside, history
<1>19. ASSUME NEW t \in Tasks, Review(t) PROVE Exits'
  <2>1. \A s : Becomes(t, s) /\ s # "claimed" =>
               \A u \in Tasks : status'[u] = "claimed" => status[u] = "claimed"
    BY DEF Becomes, Types
  <2>2. \A u \in Tasks : status'[u] = "claimed" => status[u] = "claimed"
    BY <1>19, <2>1 DEF Review
  <2>3. att' = att /\ cursor' = cursor /\ head' = head /\ claimGen' = claimGen /\ head <= head'
    BY <1>19 DEF Review, Types, history
  <2> QED
    BY <2>2, <2>3, ExitsQuiet
<1>20. ASSUME NEW t \in Tasks, Escalate(t) PROVE Exits'
  BY <1>20, ExitsQuiet DEF Escalate, At, Goes, Becomes, Types, store, memory, outside, history
<1>21. ASSUME NEW t \in Tasks, Claim(t) PROVE Exits'
  <2>1. /\ att' = att /\ head' = head /\ cursor' = cursor
        /\ claimGen' = [claimGen EXCEPT ![t] = Len(att[t]) + 1]
        /\ \A u \in Tasks : u # t => status'[u] = status[u]
    BY <1>21 DEF Claim, Becomes, NextGen, Types
  <2>2. claimGen'[t] = Len(att[t]) + 1 /\ \A u \in Tasks : u # t => claimGen'[u] = claimGen[u]
    BY <2>1 DEF Types
  <2>3. Len(att[t]) \in Nat
    BY DEF Types
  <2>4. CursorMeansSettled'
    BY <2>1, <2>2, <2>3 DEF Exits, CursorMeansSettled
  <2> QED
    BY <2>1, <2>2, <2>3, <2>4 DEF Exits
<1>22. ASSUME NEW t \in Tasks, CannotClaim(t) PROVE Exits'
  BY <1>22, ExitsQuiet DEF CannotClaim, At, Goes, Becomes, Types, store, memory, outside,
     history
<1>23. ASSUME NEW t \in Tasks, Throws(t) PROVE Exits'
  BY <1>23, ExitsQuiet DEF Throws, At, Goes, Becomes, Types, store, memory, outside, history
<1>24. ASSUME NEW t \in Tasks, Boundary(t) PROVE Exits'
  BY <1>24, ExitsQuiet DEF Boundary, At, Goes, Becomes, Types, store, memory, outside, history
<1>25. ASSUME NEW t \in Tasks, Feed(t) PROVE Exits'
  <2>1. head <= head'
    BY <1>25 DEF Feed, Types
  <2> QED
    BY <1>25, <2>1, ExitsQuiet DEF Feed, memory, outside, history
<1>26. ASSUME NEW t \in Tasks, Publish(t) PROVE Exits'
  BY <1>26, ExitsQuiet DEF Publish, At, Goes, Becomes, Types, store, memory, outside, history
<1>27. ASSUME NEW t \in Tasks, CannotPublish(t) PROVE Exits'
  BY <1>27, ExitsQuiet DEF CannotPublish, At, Goes, Becomes, Types, store, memory, outside,
     history
<1>28. ASSUME NEW t \in Tasks, Commit(t) PROVE Exits'
  <2> DEFINE r == [st |-> "prepared", cmds |-> Selected(t, NextGen(t)),
                  base |-> repairs[t], planned |-> FALSE, end |-> 0]
  <2>1. Appended(t, r)
    BY <1>28, CommitShape
  <2>2. r.st = "prepared" /\ r.end = 0 /\ 0 <= head
    BY DEF Types
  <2> HIDE DEF r
  <2>3. head' = head /\ cursor' = cursor /\ status' = status /\ claimGen' = claimGen
    BY <1>28 DEF Commit, history
  <2>4. ASSUME NEW u \in Tasks, NEW h \in 1 .. Len(att'[u])
        PROVE  \/ h \in 1 .. Len(att[u]) /\ att'[u][h] = att[u][h]
               \/ u = t /\ att'[u][h].st = "prepared" /\ att'[u][h].end = 0
    BY <2>1, <2>2, AttElem DEF Appended
  <2>5. EndsBelow(att', head')
    BY <2>2, <2>3, <2>4 DEF Exits, EndsBelow
  <2>6. ExitsApart(att')
    <3> SUFFICES ASSUME NEW u \in Tasks, NEW v \in Tasks,
                        NEW h \in 1 .. Len(att'[u]), NEW k \in 1 .. Len(att'[v]),
                        att'[u][h].st = "exited", att'[v][k].st = "exited",
                        att'[u][h].end = att'[v][k].end
                 PROVE  u = v /\ h = k
      BY DEF ExitsApart
    <3>1. h \in 1 .. Len(att[u]) /\ att'[u][h] = att[u][h]
      BY <2>4
    <3>2. k \in 1 .. Len(att[v]) /\ att'[v][k] = att[v][k]
      BY <2>4
    <3> QED
      BY <3>1, <3>2 DEF Exits, ExitsApart
  <2>7. ASSUME NEW u \in Tasks, status[u] = "claimed", claimGen[u] <= Len(att'[u]),
               att'[u][claimGen[u]].st = "exited"
        PROVE  att'[u][claimGen[u]].end > cursor
    <3>1. claimGen[u] \in 1 .. Len(att'[u])
      <4>1. claimGen[u] \in Nat \ {0}
        BY <2>7 DEF Exits, Types
      <4>2. Len(att'[u]) \in Nat
        BY <2>1, AttElem DEF Appended
      <4> QED
        BY <2>7, <4>1, <4>2
    <3>2. claimGen[u] \in 1 .. Len(att[u]) /\ att'[u][claimGen[u]] = att[u][claimGen[u]]
      BY <3>1, <2>4, <2>7
    <3>3. claimGen[u] <= Len(att[u])
      BY <3>2 DEF Types
    <3> QED
      BY <2>7, <3>2, <3>3 DEF Exits, CursorMeansSettled
  <2>8. CursorMeansSettled'
    BY <2>3, <2>7 DEF CursorMeansSettled
  <2> QED
    BY <2>3, <2>5, <2>6, <2>8 DEF Exits
<1>29. ASSUME NEW t \in Tasks, Refused(t) PROVE Exits'
  BY <1>29, ExitsQuiet DEF Refused, At, Goes, Becomes, Types, store, memory, outside, history
<1>30. ASSUME NEW t \in Tasks, Plan(t) PROVE Exits'
  <2> DEFINE x == att[t][Len(att[t])]
             r == Rec(x, x.st, TRUE, x.end)
  <2>1. Len(att[t]) \in 1 .. Len(att[t]) /\ Edited(t, Len(att[t]), r)
    BY <1>30, PlanShape
  <2>2. x.st = "prepared"
    BY <1>30 DEF Plan, At, Launches, Launching
  <2>3. head' = head /\ r.end <= head' /\ r.st # "exited" /\ head <= head'
    <3>1. head' = head /\ r.end = x.end /\ r.st # "exited"
      BY <1>30, <2>2 DEF Plan, Rec
    <3> QED
      BY <2>1, <3>1, EndBelow
  <2> HIDE DEF r
  <2> QED
    BY <1>30, <2>1, <2>3, ExitsEdit DEF Plan, history
<1>31. ASSUME NEW t \in Tasks, Record(t) PROVE Exits'
  BY <1>31, ExitsQuiet DEF Record, At, Goes, Becomes, Types, store, memory, outside, history
<1>32. ASSUME NEW t \in Tasks, LaunchFails(t) PROVE Exits'
  BY <1>32, ExitsQuiet DEF LaunchFails, At, Goes, Becomes, Types, store, memory, outside,
     history
<1>33. ASSUME NEW t \in Tasks, Started(t) PROVE Exits'
  <2> DEFINE x == att[t][Len(att[t])]
             r == Rec(x, "active", x.planned, x.end)
  <2>1. Len(att[t]) \in 1 .. Len(att[t]) /\ Edited(t, Len(att[t]), r)
    BY <1>33, StartedShape
  <2>2. x.st = "prepared"
    BY <1>33 DEF Started, At, Launches, Launching
  <2>3. head' = head /\ r.end <= head' /\ r.st # "exited" /\ head <= head'
    <3>1. head' = head /\ r.end = x.end /\ r.st # "exited"
      BY <1>33, <2>2 DEF Started, Rec
    <3> QED
      BY <2>1, <3>1, EndBelow
  <2> HIDE DEF r
  <2> QED
    BY <1>33, <2>1, <2>3, ExitsEdit DEF Started, history
<1>34. ASSUME NEW t \in Tasks, Release(t) PROVE Exits'
  BY <1>34, ExitsQuiet DEF Release, At, Goes, Becomes, Types, store, memory, outside, history
<1>35. ASSUME NEW t \in Tasks, Exit(t) PROVE Exits'
  BY <1>35, ExitsQuiet DEF Exit, At, Goes, Becomes, Types, store, memory, outside, history
<1>36. ASSUME NEW t \in Tasks, SettleAttempt(t) PROVE Exits'
  <2> DEFINE x == att[t][Len(att[t])]
             r == Rec(x, "exited", x.planned, head + 1)
             q == Rec(x, "abandoned", x.planned, x.end)
  <2>1. Len(att[t]) \in 1 .. Len(att[t])
    BY <1>36, SettleShape
  <2>2. CASE head' = head + 1 /\ Edited(t, Len(att[t]), r)
    <3>1. r.end = head + 1 /\ r.end <= head' /\ head <= head'
      BY <2>2 DEF Rec, Types
    <3> HIDE DEF r
    <3> QED
      BY <1>36, <2>1, <2>2, <3>1, ExitsEdit DEF SettleAttempt, history
  <2>3. CASE head' = head /\ Edited(t, Len(att[t]), q)
    <3>1. q.end <= head' /\ q.st = "abandoned" /\ head <= head'
      <4>1. q.end = x.end /\ q.st = "abandoned"
        BY DEF Rec
      <4> QED
        BY <2>1, <2>3, <4>1, EndBelow
    <3> HIDE DEF q
    <3> QED
      BY <1>36, <2>1, <2>3, <3>1, ExitsEdit DEF SettleAttempt, history
  <2> QED
    BY <1>36, <2>2, <2>3, SettleShape
<1>37. ASSUME NEW t \in Tasks, Verify(t) PROVE Exits'
  BY <1>37, ExitsQuiet DEF Verify, At, Goes, Becomes, Types, store, memory, outside, history
<1>38. ASSUME NEW t \in Tasks, Finish(t) PROVE Exits'
  <2>1. \A s : Becomes(t, s) /\ s # "claimed" =>
               \A u \in Tasks : status'[u] = "claimed" => status[u] = "claimed"
    BY DEF Becomes, Types
  <2>2. \A u \in Tasks : status'[u] = "claimed" => status[u] = "claimed"
    BY <1>38, <2>1 DEF Finish
  <2>3. att' = att /\ cursor' = cursor /\ head' = head /\ claimGen' = claimGen /\ head <= head'
    BY <1>38 DEF Finish, Types, history
  <2> QED
    BY <2>2, <2>3, ExitsQuiet
<1>39. ASSUME NEW c \in OpCmds, NEW t \in Tasks, NEW nb \in Gens,
               NEW sup \in Commands \cup {None}, Admit(c, t, nb, sup)
       
      PROVE   Exits'
  <2>1. head <= head'
    BY <1>39 DEF Admit, Types
  <2> QED
    BY <1>39, <2>1, ExitsQuiet DEF Admit, memory, outside, history
<1>40. ASSUME NEW c \in Commands, Withdraw(c) PROVE Exits'
  BY <1>40, ExitsQuiet DEF Withdraw, Types, store, memory, outside, history
<1>41. CASE UNCHANGED vars
  BY <1>41, ExitsQuiet DEF vars, Types, store, memory, outside, history
<1> QED
  BY <1>1, <1>2, <1>3, <1>4, <1>5, <1>6, <1>7, <1>8, <1>9, <1>10, <1>11, <1>12, <1>13,
     <1>14, <1>15, <1>16, <1>17, <1>18, <1>19, <1>20, <1>21, <1>22, <1>23, <1>24, <1>25,
     <1>26, <1>27, <1>28, <1>29, <1>30, <1>31, <1>32, <1>33, <1>34, <1>35, <1>36, <1>37,
     <1>38, <1>39, <1>40, <1>41
     DEF Next, Recovery, MainLine, Dispatching, Operator
ExitsInv == DispatchInv /\ Exits

LEMMA ExitsInvAlways == Spec => []ExitsInv
<1>1. Init => ExitsInv
  BY DispatchInvInit DEF ExitsInv, Init, Exits, EndsBelow, ExitsApart, CursorMeansSettled
<1>2. ExitsInv /\ [Next]_vars => ExitsInv'
  BY DispatchInvNext, ExitsNext DEF ExitsInv, DispatchInv
<1> QED
  BY <1>1, <1>2, PTL DEF Spec

\* Counts and Exits give the property.
LEMMA CountedFromInv == ExitsInv => AttemptsCounted
  BY DEF ExitsInv, DispatchInv, Exits, Counts, Counting, AttemptsCounted, OneRepairPerDispatch

(* Whatever ends a dispatch - its outcome, its handler, a crash, the       *)
(* settlement of a recovery, the reclaim or the review - one failure is    *)
(* counted for it, and the settlement cursor never passes an exit without  *)
(* its consequence (completeExitedSettlement, reclaimStaleClaims).         *)
THEOREM AttemptsAlwaysCounted == Spec => []AttemptsCounted
  BY ExitsInvAlways, CountedFromInv, PTL

(***************************************************************************)
(* Carried.  What the manifests hold and what the commands say of it: a    *)
(* command is in at most one prompt, of its own task and not too early,    *)
(* and no prompt took one while an older one was left waiting.             *)
(***************************************************************************)
Admissions == \A c \in Commands : cmd[c].adm <= head

HeldIncluded ==
    \A t \in Tasks : \A g \in 1 .. Len(att[t]) : \A c \in att[t][g].cmds :
        cmd[c].st = "included" /\ cmd[c].task = t /\ cmd[c].nb <= g

HeldApart ==
    \A t, u \in Tasks : \A g \in 1 .. Len(att[t]) : \A h \in 1 .. Len(att[u]) : \A c \in Commands :
        c \in att[t][g].cmds /\ c \in att[u][h].cmds => t = u /\ g = h

IncludedHeld == \A c \in Commands : cmd[c].st = "included" => Reserved(c)

Ordered ==
    \A t \in Tasks : \A g \in 1 .. Len(att[t]) : \A c \in att[t][g].cmds : \A d \in Commands :
        (cmd[d].st = "pending" /\ cmd[d].task = t /\ cmd[d].nb <= g) => cmd[c].adm < cmd[d].adm

Carried == Admissions /\ HeldIncluded /\ HeldApart /\ IncludedHeld /\ Ordered

(***************************************************************************)
(* Published.  The artifact of a prompt that is about to be committed is   *)
(* the prompt, and that of a committed attempt is what its manifest names. *)
(***************************************************************************)
Named(x) == [st |-> "whole", cmds |-> x.cmds, base |-> x.base]

Published ==
    /\ \A t \in Tasks : disp[t] = "published" => file[t][NextGen(t)] = Prompt(t)
    /\ \A t \in Tasks : \A g \in 1 .. Len(att[t]) :
          att[t][g].st # "abandoned" => file[t][g] = Named(att[t][g])

\* What a step other than the commit does to manifests, commands and artifacts.
AttSteady ==
    \A u \in Tasks :
        /\ Len(att'[u]) = Len(att[u])
        /\ \A h \in 1 .. Len(att[u]) :
              /\ att'[u][h].cmds = att[u][h].cmds /\ att'[u][h].base = att[u][h].base
              /\ att'[u][h].st # "abandoned" => att[u][h].st # "abandoned"

CmdSteady ==
    \A c \in Commands :
        \/ cmd'[c] = cmd[c]
        \/ /\ cmd[c].st # "included" /\ cmd'[c].st # "included" /\ cmd'[c].adm <= head'
           /\ cmd'[c].st = "pending" => cmd'[c].adm > head

FileSteady == \A u \in Tasks : \A h \in 1 .. Len(att[u]) : file'[u][h] = file[u][h]

PublishedSteady ==
    \A u \in Tasks : disp'[u] = "published" =>
        \/ Publish(u)
        \/ disp[u] = "published" /\ UNCHANGED <<att, cmd, repairs, file>>

\* Rewriting state, plan or end of an attempt leaves its manifest alone.
LEMMA SteadyEdit ==
    ASSUME NEW t \in Tasks, NEW g \in 1 .. Len(att[t]), NEW r, Edited(t, g, r),
           r.cmds = att[t][g].cmds, r.base = att[t][g].base, att[t][g].st # "abandoned"
    PROVE  AttSteady
  BY DEF AttSteady, Edited

\* Only the commit of a prompt adds a manifest.
LEMMA AttMoves ==
    ASSUME Types, Launches, [Next]_vars PROVE  AttSteady \/ \E u \in Tasks : Commit(u)
<1>1. CASE Boot
  BY <1>1 DEF Boot, AttSteady, store, memory, outside, history, vars
<1>2. CASE Reap
  BY <1>2 DEF Reap, AttSteady, store, memory, outside, history, vars
<1>3. CASE ReapUnresolved
  BY <1>3 DEF ReapUnresolved, AttSteady, store, memory, outside, history, vars
<1>4. CASE IdentityBlocked
  BY <1>4 DEF IdentityBlocked, AttSteady, store, memory, outside, history, vars
<1>5. CASE RefuseTerminal
  BY <1>5 DEF RefuseTerminal, AttSteady, store, memory, outside, history, vars
<1>6. CASE Reconciled
  BY <1>6 DEF Reconciled, AttSteady, store, memory, outside, history, vars
<1>7. CASE BeginReclaim
  BY <1>7 DEF BeginReclaim, AttSteady, store, memory, outside, history, vars
<1>8. CASE EndReclaim
  BY <1>8 DEF EndReclaim, AttSteady, store, memory, outside, history, vars
<1>9. CASE StartIteration
  BY <1>9 DEF StartIteration, AttSteady, store, memory, outside, history, vars
<1>10. CASE EndDispatch
  BY <1>10 DEF EndDispatch, AttSteady, store, memory, outside, history, vars
<1>11. CASE EndReview
  BY <1>11 DEF EndReview, AttSteady, store, memory, outside, history, vars
<1>12. CASE EndEscalate
  BY <1>12 DEF EndEscalate, AttSteady, store, memory, outside, history, vars
<1>13. CASE Crash
  BY <1>13 DEF Crash, AttSteady, store, memory, outside, history, vars
<1>14. ASSUME NEW a \in Tasks \X Gens, AbandonPrepared(a)
      PROVE  AttSteady \/ \E u \in Tasks : Commit(u)
  <2> DEFINE x == att[a[1]][a[2]]
             r == Rec(x, "abandoned", x.planned, x.end)
  <2>1. /\ a[1] \in Tasks /\ a[2] \in 1 .. Len(att[a[1]]) /\ x.st # "abandoned"
        /\ Edited(a[1], a[2], r)
    BY <1>14, AbandonShape
  <2>2. r.cmds = x.cmds /\ r.base = x.base
    BY DEF Rec
  <2> HIDE DEF r
  <2> QED
    BY <2>1, <2>2, SteadyEdit
<1>15. ASSUME NEW a \in Tasks \X Gens, RecordExit(a) PROVE AttSteady \/ \E u \in Tasks : Commit(u)
  <2> DEFINE x == att[a[1]][a[2]]
             r == Rec(x, "exited", x.planned, head + 1)
  <2>1. /\ a[1] \in Tasks /\ a[2] \in 1 .. Len(att[a[1]]) /\ x.st # "abandoned"
        /\ Edited(a[1], a[2], r)
    BY <1>15, ExitShape
  <2>2. r.cmds = x.cmds /\ r.base = x.base
    BY DEF Rec
  <2> HIDE DEF r
  <2> QED
    BY <2>1, <2>2, SteadyEdit
<1>16. ASSUME NEW a \in Tasks \X Gens, Settle(a) PROVE AttSteady \/ \E u \in Tasks : Commit(u)
  BY <1>16 DEF Settle, AttSteady, store, memory, outside, history, vars
<1>17. ASSUME NEW a \in Tasks \X Gens, OrphanExit(a) PROVE AttSteady \/ \E u \in Tasks : Commit(u)
  BY <1>17 DEF OrphanExit, AttSteady, store, memory, outside, history, vars
<1>18. ASSUME NEW t \in Tasks, Reclaim(t) PROVE AttSteady \/ \E u \in Tasks : Commit(u)
  BY <1>18 DEF Reclaim, AttSteady, store, memory, outside, history, vars
<1>19. ASSUME NEW t \in Tasks, Review(t) PROVE AttSteady \/ \E u \in Tasks : Commit(u)
  BY <1>19 DEF Review, AttSteady, store, memory, outside, history, vars
<1>20. ASSUME NEW t \in Tasks, Escalate(t) PROVE AttSteady \/ \E u \in Tasks : Commit(u)
  BY <1>20 DEF Escalate, AttSteady, store, memory, outside, history, vars
<1>21. ASSUME NEW t \in Tasks, Claim(t) PROVE AttSteady \/ \E u \in Tasks : Commit(u)
  BY <1>21 DEF Claim, AttSteady, store, memory, outside, history, vars
<1>22. ASSUME NEW t \in Tasks, CannotClaim(t) PROVE AttSteady \/ \E u \in Tasks : Commit(u)
  BY <1>22 DEF CannotClaim, AttSteady, store, memory, outside, history, vars
<1>23. ASSUME NEW t \in Tasks, Throws(t) PROVE AttSteady \/ \E u \in Tasks : Commit(u)
  BY <1>23 DEF Throws, AttSteady, store, memory, outside, history, vars
<1>24. ASSUME NEW t \in Tasks, Boundary(t) PROVE AttSteady \/ \E u \in Tasks : Commit(u)
  BY <1>24 DEF Boundary, AttSteady, store, memory, outside, history, vars
<1>25. ASSUME NEW t \in Tasks, Feed(t) PROVE AttSteady \/ \E u \in Tasks : Commit(u)
  BY <1>25 DEF Feed, AttSteady, store, memory, outside, history, vars
<1>26. ASSUME NEW t \in Tasks, Publish(t) PROVE AttSteady \/ \E u \in Tasks : Commit(u)
  BY <1>26 DEF Publish, AttSteady, store, memory, outside, history, vars
<1>27. ASSUME NEW t \in Tasks, CannotPublish(t) PROVE AttSteady \/ \E u \in Tasks : Commit(u)
  BY <1>27 DEF CannotPublish, AttSteady, store, memory, outside, history, vars
<1>28. ASSUME NEW t \in Tasks, Commit(t) PROVE AttSteady \/ \E u \in Tasks : Commit(u)
  BY <1>28
<1>29. ASSUME NEW t \in Tasks, Refused(t) PROVE AttSteady \/ \E u \in Tasks : Commit(u)
  BY <1>29 DEF Refused, AttSteady, store, memory, outside, history, vars
<1>30. ASSUME NEW t \in Tasks, Plan(t) PROVE AttSteady \/ \E u \in Tasks : Commit(u)
  <2> DEFINE x == att[t][Len(att[t])]
  <2>1. Len(att[t]) \in 1 .. Len(att[t]) /\ x.st # "abandoned"
    BY <1>30, PlanShape DEF Plan, At, Launches, Launching, InLaunch, Open
  <2>2. \A s, p, e : Edited(t, Len(att[t]), Rec(x, s, p, e)) => AttSteady
    <3> SUFFICES ASSUME NEW s, NEW p, NEW e, Edited(t, Len(att[t]), Rec(x, s, p, e)) PROVE AttSteady
      OBVIOUS
    <3> DEFINE r == Rec(x, s, p, e)
    <3>1. r.cmds = x.cmds /\ r.base = x.base
      BY DEF Rec
    <3> HIDE DEF r
    <3>2. Edited(t, Len(att[t]), r)
      BY DEF r
    <3> QED
      BY <2>1, <3>1, <3>2, SteadyEdit
  <2> QED
    BY <1>30, <2>2, PlanShape
<1>31. ASSUME NEW t \in Tasks, Record(t) PROVE AttSteady \/ \E u \in Tasks : Commit(u)
  BY <1>31 DEF Record, AttSteady, store, memory, outside, history, vars
<1>32. ASSUME NEW t \in Tasks, LaunchFails(t) PROVE AttSteady \/ \E u \in Tasks : Commit(u)
  BY <1>32 DEF LaunchFails, AttSteady, store, memory, outside, history, vars
<1>33. ASSUME NEW t \in Tasks, Started(t) PROVE AttSteady \/ \E u \in Tasks : Commit(u)
  <2> DEFINE x == att[t][Len(att[t])]
  <2>1. Len(att[t]) \in 1 .. Len(att[t]) /\ x.st # "abandoned"
    BY <1>33, StartedShape DEF Started, At, Launches, Launching, InLaunch, Open
  <2>2. \A s, p, e : Edited(t, Len(att[t]), Rec(x, s, p, e)) => AttSteady
    <3> SUFFICES ASSUME NEW s, NEW p, NEW e, Edited(t, Len(att[t]), Rec(x, s, p, e)) PROVE AttSteady
      OBVIOUS
    <3> DEFINE r == Rec(x, s, p, e)
    <3>1. r.cmds = x.cmds /\ r.base = x.base
      BY DEF Rec
    <3> HIDE DEF r
    <3>2. Edited(t, Len(att[t]), r)
      BY DEF r
    <3> QED
      BY <2>1, <3>1, <3>2, SteadyEdit
  <2> QED
    BY <1>33, <2>2, StartedShape
<1>34. ASSUME NEW t \in Tasks, Release(t) PROVE AttSteady \/ \E u \in Tasks : Commit(u)
  BY <1>34 DEF Release, AttSteady, store, memory, outside, history, vars
<1>35. ASSUME NEW t \in Tasks, Exit(t) PROVE AttSteady \/ \E u \in Tasks : Commit(u)
  BY <1>35 DEF Exit, AttSteady, store, memory, outside, history, vars
<1>36. ASSUME NEW t \in Tasks, SettleAttempt(t) PROVE AttSteady \/ \E u \in Tasks : Commit(u)
  <2> DEFINE x == att[t][Len(att[t])]
  <2>1. Len(att[t]) \in 1 .. Len(att[t]) /\ x.st # "abandoned"
    BY <1>36, SettleShape DEF SettleAttempt, At, Launches, Launching, InLaunch, Open
  <2>2. \A s, p, e : Edited(t, Len(att[t]), Rec(x, s, p, e)) => AttSteady
    <3> SUFFICES ASSUME NEW s, NEW p, NEW e, Edited(t, Len(att[t]), Rec(x, s, p, e)) PROVE AttSteady
      OBVIOUS
    <3> DEFINE r == Rec(x, s, p, e)
    <3>1. r.cmds = x.cmds /\ r.base = x.base
      BY DEF Rec
    <3> HIDE DEF r
    <3>2. Edited(t, Len(att[t]), r)
      BY DEF r
    <3> QED
      BY <2>1, <3>1, <3>2, SteadyEdit
  <2> QED
    BY <1>36, <2>2, SettleShape
<1>37. ASSUME NEW t \in Tasks, Verify(t) PROVE AttSteady \/ \E u \in Tasks : Commit(u)
  BY <1>37 DEF Verify, AttSteady, store, memory, outside, history, vars
<1>38. ASSUME NEW t \in Tasks, Finish(t) PROVE AttSteady \/ \E u \in Tasks : Commit(u)
  BY <1>38 DEF Finish, AttSteady, store, memory, outside, history, vars
<1>39. ASSUME NEW c \in OpCmds, NEW t \in Tasks, NEW nb \in Gens,
               NEW sup \in Commands \cup {None}, Admit(c, t, nb, sup)
       
      PROVE   AttSteady \/ \E u \in Tasks : Commit(u)
  BY <1>39 DEF Admit, AttSteady, store, memory, outside, history, vars
<1>40. ASSUME NEW c \in Commands, Withdraw(c) PROVE AttSteady \/ \E u \in Tasks : Commit(u)
  BY <1>40 DEF Withdraw, AttSteady, store, memory, outside, history, vars
<1>41. CASE UNCHANGED vars
  BY <1>41 DEF AttSteady, store, memory, outside, history, vars
<1> QED
  BY <1>1, <1>2, <1>3, <1>4, <1>5, <1>6, <1>7, <1>8, <1>9, <1>10, <1>11, <1>12, <1>13,
     <1>14, <1>15, <1>16, <1>17, <1>18, <1>19, <1>20, <1>21, <1>22, <1>23, <1>24, <1>25,
     <1>26, <1>27, <1>28, <1>29, <1>30, <1>31, <1>32, <1>33, <1>34, <1>35, <1>36, <1>37,
     <1>38, <1>39, <1>40, <1>41
     DEF Next, Recovery, MainLine, Dispatching, Operator

\* Only the commit includes a command, and an admission is the newest one.
LEMMA CmdMoves ==
    ASSUME Types, Carried, [Next]_vars
    PROVE  (CmdSteady /\ head <= head') \/ \E u \in Tasks : Commit(u)
<1>1. CASE Boot
  BY <1>1 DEF Boot, CmdSteady, Types, store, memory, outside, history, vars
<1>2. CASE Reap
  BY <1>2 DEF Reap, CmdSteady, Types, store, memory, outside, history, vars
<1>3. CASE ReapUnresolved
  BY <1>3 DEF ReapUnresolved, CmdSteady, Types, store, memory, outside, history, vars
<1>4. CASE IdentityBlocked
  BY <1>4 DEF IdentityBlocked, CmdSteady, Types, store, memory, outside, history, vars
<1>5. CASE RefuseTerminal
  <2>1. \A c \in Commands :
            cmd'[c] = cmd[c] \/ (cmd[c].st = "pending" /\ cmd'[c] = [cmd[c] EXCEPT !.st = "refused"])
    BY <1>5 DEF RefuseTerminal, TerminalPending
  <2>2. \A c \in Commands :
            LET y == [cmd[c] EXCEPT !.st = "refused"] IN y.st = "refused" /\ y.adm = cmd[c].adm
    BY CmdIs DEF Types, CmdStates
  <2>3. head' = head /\ head \in Nat /\ \A c \in Commands : cmd[c].adm \in Nat
    BY <1>5 DEF RefuseTerminal, Types, CmdRec
  <2>4. CmdSteady
    BY <2>1, <2>2, <2>3 DEF CmdSteady, Carried, Admissions
  <2> QED
    BY <2>3, <2>4
<1>6. CASE Reconciled
  BY <1>6 DEF Reconciled, CmdSteady, Types, store, memory, outside, history, vars
<1>7. CASE BeginReclaim
  BY <1>7 DEF BeginReclaim, CmdSteady, Types, store, memory, outside, history, vars
<1>8. CASE EndReclaim
  BY <1>8 DEF EndReclaim, CmdSteady, Types, store, memory, outside, history, vars
<1>9. CASE StartIteration
  BY <1>9 DEF StartIteration, CmdSteady, Types, store, memory, outside, history, vars
<1>10. CASE EndDispatch
  BY <1>10 DEF EndDispatch, CmdSteady, Types, store, memory, outside, history, vars
<1>11. CASE EndReview
  BY <1>11 DEF EndReview, CmdSteady, Types, store, memory, outside, history, vars
<1>12. CASE EndEscalate
  BY <1>12 DEF EndEscalate, CmdSteady, Types, store, memory, outside, history, vars
<1>13. CASE Crash
  BY <1>13 DEF Crash, CmdSteady, Types, store, memory, outside, history, vars
<1>14. ASSUME NEW a \in Tasks \X Gens, AbandonPrepared(a)
      PROVE  (CmdSteady /\ head <= head') \/ \E u \in Tasks : Commit(u)
  BY <1>14 DEF AbandonPrepared, CmdSteady, Types, store, memory, outside, history, vars
<1>15. ASSUME NEW a \in Tasks \X Gens, RecordExit(a)
      PROVE  (CmdSteady /\ head <= head') \/ \E u \in Tasks : Commit(u)
  BY <1>15 DEF RecordExit, CmdSteady, Types, store, memory, outside, history, vars
<1>16. ASSUME NEW a \in Tasks \X Gens, Settle(a)
      PROVE  (CmdSteady /\ head <= head') \/ \E u \in Tasks : Commit(u)
  BY <1>16 DEF Settle, CmdSteady, Types, store, memory, outside, history, vars
<1>17. ASSUME NEW a \in Tasks \X Gens, OrphanExit(a)
      PROVE  (CmdSteady /\ head <= head') \/ \E u \in Tasks : Commit(u)
  BY <1>17 DEF OrphanExit, CmdSteady, Types, store, memory, outside, history, vars
<1>18. ASSUME NEW t \in Tasks, Reclaim(t)
      PROVE  (CmdSteady /\ head <= head') \/ \E u \in Tasks : Commit(u)
  BY <1>18 DEF Reclaim, CmdSteady, Types, store, memory, outside, history, vars
<1>19. ASSUME NEW t \in Tasks, Review(t)
      PROVE  (CmdSteady /\ head <= head') \/ \E u \in Tasks : Commit(u)
  BY <1>19 DEF Review, CmdSteady, Types, store, memory, outside, history, vars
<1>20. ASSUME NEW t \in Tasks, Escalate(t)
      PROVE  (CmdSteady /\ head <= head') \/ \E u \in Tasks : Commit(u)
  BY <1>20 DEF Escalate, CmdSteady, Types, store, memory, outside, history, vars
<1>21. ASSUME NEW t \in Tasks, Claim(t)
      PROVE  (CmdSteady /\ head <= head') \/ \E u \in Tasks : Commit(u)
  BY <1>21 DEF Claim, CmdSteady, Types, store, memory, outside, history, vars
<1>22. ASSUME NEW t \in Tasks, CannotClaim(t)
      PROVE  (CmdSteady /\ head <= head') \/ \E u \in Tasks : Commit(u)
  BY <1>22 DEF CannotClaim, CmdSteady, Types, store, memory, outside, history, vars
<1>23. ASSUME NEW t \in Tasks, Throws(t)
      PROVE  (CmdSteady /\ head <= head') \/ \E u \in Tasks : Commit(u)
  BY <1>23 DEF Throws, CmdSteady, Types, store, memory, outside, history, vars
<1>24. ASSUME NEW t \in Tasks, Boundary(t)
      PROVE  (CmdSteady /\ head <= head') \/ \E u \in Tasks : Commit(u)
  BY <1>24 DEF Boundary, CmdSteady, Types, store, memory, outside, history, vars
<1>25. ASSUME NEW t \in Tasks, Feed(t)
      PROVE  (CmdSteady /\ head <= head') \/ \E u \in Tasks : Commit(u)
  <2> DEFINE k == <<t, repairs[t]>>
             q == [st |-> "refused", task |-> t, adm |-> 0, nb |-> 0]
             p == [st |-> "pending", task |-> t, adm |-> head + 1, nb |-> NextGen(t)]
  <2>1. head \in Nat
    BY DEF Types
  <2>2. CASE UNCHANGED <<cmd, head>>
    BY <2>1, <2>2 DEF CmdSteady
  <2>3. CASE cmd[k].st = "unknown" /\ cmd' = [cmd EXCEPT ![k] = q] /\ head' = head
    <3>1. q.st = "refused" /\ q.adm = 0
      OBVIOUS
    <3> HIDE DEF q, k
    <3> QED
      BY <2>1, <2>3, <3>1 DEF CmdSteady, Types
  <2>4. CASE cmd[k].st = "unknown" /\ cmd' = [cmd EXCEPT ![k] = p] /\ head' = head + 1
    <3>1. p.st = "pending" /\ p.adm = head + 1
      OBVIOUS
    <3> HIDE DEF p, k
    <3> QED
      BY <2>1, <2>4, <3>1 DEF CmdSteady, Types
  <2> QED
    BY <1>25, <2>2, <2>3, <2>4 DEF Feed
<1>26. ASSUME NEW t \in Tasks, Publish(t)
      PROVE  (CmdSteady /\ head <= head') \/ \E u \in Tasks : Commit(u)
  BY <1>26 DEF Publish, CmdSteady, Types, store, memory, outside, history, vars
<1>27. ASSUME NEW t \in Tasks, CannotPublish(t)
      PROVE  (CmdSteady /\ head <= head') \/ \E u \in Tasks : Commit(u)
  BY <1>27 DEF CannotPublish, CmdSteady, Types, store, memory, outside, history, vars
<1>28. ASSUME NEW t \in Tasks, Commit(t)
      PROVE  (CmdSteady /\ head <= head') \/ \E u \in Tasks : Commit(u)
  BY <1>28
<1>29. ASSUME NEW t \in Tasks, Refused(t)
      PROVE  (CmdSteady /\ head <= head') \/ \E u \in Tasks : Commit(u)
  BY <1>29 DEF Refused, CmdSteady, Types, store, memory, outside, history, vars
<1>30. ASSUME NEW t \in Tasks, Plan(t)
      PROVE  (CmdSteady /\ head <= head') \/ \E u \in Tasks : Commit(u)
  BY <1>30 DEF Plan, CmdSteady, Types, store, memory, outside, history, vars
<1>31. ASSUME NEW t \in Tasks, Record(t)
      PROVE  (CmdSteady /\ head <= head') \/ \E u \in Tasks : Commit(u)
  BY <1>31 DEF Record, CmdSteady, Types, store, memory, outside, history, vars
<1>32. ASSUME NEW t \in Tasks, LaunchFails(t)
      PROVE  (CmdSteady /\ head <= head') \/ \E u \in Tasks : Commit(u)
  BY <1>32 DEF LaunchFails, CmdSteady, Types, store, memory, outside, history, vars
<1>33. ASSUME NEW t \in Tasks, Started(t)
      PROVE  (CmdSteady /\ head <= head') \/ \E u \in Tasks : Commit(u)
  BY <1>33 DEF Started, CmdSteady, Types, store, memory, outside, history, vars
<1>34. ASSUME NEW t \in Tasks, Release(t)
      PROVE  (CmdSteady /\ head <= head') \/ \E u \in Tasks : Commit(u)
  BY <1>34 DEF Release, CmdSteady, Types, store, memory, outside, history, vars
<1>35. ASSUME NEW t \in Tasks, Exit(t)
      PROVE  (CmdSteady /\ head <= head') \/ \E u \in Tasks : Commit(u)
  BY <1>35 DEF Exit, CmdSteady, Types, store, memory, outside, history, vars
<1>36. ASSUME NEW t \in Tasks, SettleAttempt(t)
      PROVE  (CmdSteady /\ head <= head') \/ \E u \in Tasks : Commit(u)
  BY <1>36 DEF SettleAttempt, Ended, CmdSteady, Types, outside, history
<1>37. ASSUME NEW t \in Tasks, Verify(t)
      PROVE  (CmdSteady /\ head <= head') \/ \E u \in Tasks : Commit(u)
  BY <1>37 DEF Verify, CmdSteady, Types, store, memory, outside, history, vars
<1>38. ASSUME NEW t \in Tasks, Finish(t)
      PROVE  (CmdSteady /\ head <= head') \/ \E u \in Tasks : Commit(u)
  BY <1>38 DEF Finish, CmdSteady, Types, store, memory, outside, history, vars
<1>39. ASSUME NEW c \in OpCmds, NEW t \in Tasks, NEW nb \in Gens,
               NEW sup \in Commands \cup {None}, Admit(c, t, nb, sup)
       
      PROVE   (CmdSteady /\ head <= head') \/ \E u \in Tasks : Commit(u)
  <2> DEFINE q == [st |-> "refused", task |-> t, adm |-> 0, nb |-> nb]
             p == [st |-> "pending", task |-> t, adm |-> head + 1, nb |-> nb]
  <2>1. head \in Nat /\ c \in Commands /\ cmd[c].st = "unknown" /\ sup # c
    BY <1>39 DEF Types, Commands, Admit
  <2>2. CASE cmd' = [cmd EXCEPT ![c] = q] /\ head' = head
    <3>1. q.st = "refused" /\ q.adm = 0
      OBVIOUS
    <3> HIDE DEF q
    <3> QED
      BY <2>1, <2>2, <3>1 DEF CmdSteady, Types
  <2>3. CASE /\ (sup = None \/ Free(sup)) /\ head' = head + 1
             /\ cmd' = [d \in Commands |-> IF d = c THEN p
                           ELSE IF d = sup THEN [cmd[d] EXCEPT !.st = "superseded"] ELSE cmd[d]]
    <3>1. p.st = "pending" /\ p.adm = head + 1
      OBVIOUS
    <3>2. cmd'[c] = p /\ \A d \in Commands : d # c /\ d # sup => cmd'[d] = cmd[d]
      BY <2>1, <2>3
    <3>3. ASSUME sup \in Commands
          PROVE  /\ cmd[sup].st = "pending" /\ cmd'[sup].st = "superseded"
                 /\ cmd'[sup].adm = cmd[sup].adm
      <4>1. cmd[sup].st = "pending"
        BY <2>3, <3>3, CommandsAssumption DEF Free
      <4>2. cmd'[sup] = [cmd[sup] EXCEPT !.st = "superseded"]
        BY <2>1, <2>3, <3>3
      <4> QED
        BY <3>3, <4>1, <4>2, CmdIs DEF Types, CmdStates
    <3>4. \A d \in Commands : cmd[d].adm \in Nat /\ cmd[d].adm <= head
      BY DEF Carried, Admissions, Types, CmdRec
    <3> HIDE DEF p
    <3> QED
      BY <2>1, <2>3, <3>1, <3>2, <3>3, <3>4 DEF CmdSteady
  <2> QED
    BY <1>39, <2>2, <2>3 DEF Admit
<1>40. ASSUME NEW c \in Commands, Withdraw(c)
      PROVE  (CmdSteady /\ head <= head') \/ \E u \in Tasks : Commit(u)
  <2>1. /\ \A d \in Commands : d # c => cmd'[d] = cmd[d]
        /\ cmd'[c] = [cmd[c] EXCEPT !.st = "withdrawn"] /\ cmd[c].st = "pending"
    BY <1>40 DEF Withdraw, Free, Types
  <2>2. cmd'[c].st = "withdrawn" /\ cmd'[c].adm = cmd[c].adm
    BY <2>1, CmdIs DEF Types, CmdStates
  <2>3. head' = head /\ head \in Nat
    BY <1>40 DEF Withdraw, Types
  <2>4. CmdSteady
    BY <2>1, <2>2, <2>3 DEF CmdSteady, Carried, Admissions
  <2> QED
    BY <2>3, <2>4
<1>41. CASE UNCHANGED vars
  BY <1>41 DEF CmdSteady, Types, store, memory, outside, history, vars
<1> QED
  BY <1>1, <1>2, <1>3, <1>4, <1>5, <1>6, <1>7, <1>8, <1>9, <1>10, <1>11, <1>12, <1>13,
     <1>14, <1>15, <1>16, <1>17, <1>18, <1>19, <1>20, <1>21, <1>22, <1>23, <1>24, <1>25,
     <1>26, <1>27, <1>28, <1>29, <1>30, <1>31, <1>32, <1>33, <1>34, <1>35, <1>36, <1>37,
     <1>38, <1>39, <1>40, <1>41
     DEF Next, Recovery, MainLine, Dispatching, Operator

\* No step rewrites the artifact of an attempt that exists.
LEMMA FileMoves ==
    ASSUME Types, Counts, [Next]_vars PROVE  FileSteady
<1>1. CASE Boot
  BY <1>1 DEF Boot, FileSteady, store, memory, outside, history, vars
<1>2. CASE Reap
  BY <1>2 DEF Reap, FileSteady, store, memory, outside, history, vars
<1>3. CASE ReapUnresolved
  BY <1>3 DEF ReapUnresolved, FileSteady, store, memory, outside, history, vars
<1>4. CASE IdentityBlocked
  BY <1>4 DEF IdentityBlocked, FileSteady, store, memory, outside, history, vars
<1>5. CASE RefuseTerminal
  BY <1>5 DEF RefuseTerminal, FileSteady, store, memory, outside, history, vars
<1>6. CASE Reconciled
  BY <1>6 DEF Reconciled, FileSteady, store, memory, outside, history, vars
<1>7. CASE BeginReclaim
  BY <1>7 DEF BeginReclaim, FileSteady, store, memory, outside, history, vars
<1>8. CASE EndReclaim
  BY <1>8 DEF EndReclaim, FileSteady, store, memory, outside, history, vars
<1>9. CASE StartIteration
  BY <1>9 DEF StartIteration, FileSteady, store, memory, outside, history, vars
<1>10. CASE EndDispatch
  BY <1>10 DEF EndDispatch, FileSteady, store, memory, outside, history, vars
<1>11. CASE EndReview
  BY <1>11 DEF EndReview, FileSteady, store, memory, outside, history, vars
<1>12. CASE EndEscalate
  BY <1>12 DEF EndEscalate, FileSteady, store, memory, outside, history, vars
<1>13. CASE Crash
  <2>1. CASE UNCHANGED file
    BY <2>1 DEF FileSteady
  <2>2. ASSUME NEW t \in Tasks, file' = [file EXCEPT ![t][NextGen(t)].st = "torn"]
        PROVE  FileSteady
    <3>1. \A u \in Tasks : \A h \in 1 .. Len(att[u]) : u = t => h # NextGen(t)
      BY AttElem DEF NextGen
    <3>2. file' = [file EXCEPT ![t] = [file[t] EXCEPT ![NextGen(t)] =
                      [file[t][NextGen(t)] EXCEPT !.st = "torn"]]]
      BY <2>2
    <3>3. /\ \A u \in Tasks : u # t => file'[u] = file[u]
          /\ \A h \in Gens : h # NextGen(t) => file'[t][h] = file[t][h]
      BY <3>2 DEF Types
    <3>4. \A h \in 1 .. Len(att[t]) : h \in Gens
      BY RepairsAssumption, AttElem DEF Gens, Counts, Counting, Types
    <3> QED
      BY <3>1, <3>3, <3>4 DEF FileSteady
  <2> QED
    BY <1>13, <2>1, <2>2 DEF Crash
<1>14. ASSUME NEW a \in Tasks \X Gens, AbandonPrepared(a) PROVE FileSteady
  BY <1>14 DEF AbandonPrepared, FileSteady, store, memory, outside, history, vars
<1>15. ASSUME NEW a \in Tasks \X Gens, RecordExit(a) PROVE FileSteady
  BY <1>15 DEF RecordExit, FileSteady, store, memory, outside, history, vars
<1>16. ASSUME NEW a \in Tasks \X Gens, Settle(a) PROVE FileSteady
  BY <1>16 DEF Settle, FileSteady, store, memory, outside, history, vars
<1>17. ASSUME NEW a \in Tasks \X Gens, OrphanExit(a) PROVE FileSteady
  BY <1>17 DEF OrphanExit, FileSteady, store, memory, outside, history, vars
<1>18. ASSUME NEW t \in Tasks, Reclaim(t) PROVE FileSteady
  BY <1>18 DEF Reclaim, FileSteady, store, memory, outside, history, vars
<1>19. ASSUME NEW t \in Tasks, Review(t) PROVE FileSteady
  BY <1>19 DEF Review, FileSteady, store, memory, outside, history, vars
<1>20. ASSUME NEW t \in Tasks, Escalate(t) PROVE FileSteady
  BY <1>20 DEF Escalate, FileSteady, store, memory, outside, history, vars
<1>21. ASSUME NEW t \in Tasks, Claim(t) PROVE FileSteady
  BY <1>21 DEF Claim, FileSteady, store, memory, outside, history, vars
<1>22. ASSUME NEW t \in Tasks, CannotClaim(t) PROVE FileSteady
  BY <1>22 DEF CannotClaim, FileSteady, store, memory, outside, history, vars
<1>23. ASSUME NEW t \in Tasks, Throws(t) PROVE FileSteady
  BY <1>23 DEF Throws, FileSteady, store, memory, outside, history, vars
<1>24. ASSUME NEW t \in Tasks, Boundary(t) PROVE FileSteady
  BY <1>24 DEF Boundary, FileSteady, store, memory, outside, history, vars
<1>25. ASSUME NEW t \in Tasks, Feed(t) PROVE FileSteady
  BY <1>25 DEF Feed, FileSteady, store, memory, outside, history, vars
<1>26. ASSUME NEW t \in Tasks, Publish(t) PROVE FileSteady
  <2>1. \A u \in Tasks : \A h \in 1 .. Len(att[u]) : u = t => h # NextGen(t)
    BY AttElem DEF NextGen
  <2>2. file' = [file EXCEPT ![t] = [file[t] EXCEPT ![NextGen(t)] = Prompt(t)]]
    BY <1>26 DEF Publish
  <2>3. /\ \A u \in Tasks : u # t => file'[u] = file[u]
        /\ \A h \in Gens : h # NextGen(t) => file'[t][h] = file[t][h]
    BY <2>2 DEF Types
  <2>4. \A h \in 1 .. Len(att[t]) : h \in Gens
    BY RepairsAssumption, AttElem DEF Gens, Counts, Counting, Types
  <2> QED
    BY <2>1, <2>3, <2>4 DEF FileSteady
<1>27. ASSUME NEW t \in Tasks, CannotPublish(t) PROVE FileSteady
  BY <1>27 DEF CannotPublish, FileSteady, store, memory, outside, history, vars
<1>28. ASSUME NEW t \in Tasks, Commit(t) PROVE FileSteady
  BY <1>28 DEF Commit, FileSteady, store, memory, outside, history, vars
<1>29. ASSUME NEW t \in Tasks, Refused(t) PROVE FileSteady
  BY <1>29 DEF Refused, FileSteady, store, memory, outside, history, vars
<1>30. ASSUME NEW t \in Tasks, Plan(t) PROVE FileSteady
  BY <1>30 DEF Plan, FileSteady, store, memory, outside, history, vars
<1>31. ASSUME NEW t \in Tasks, Record(t) PROVE FileSteady
  BY <1>31 DEF Record, FileSteady, store, memory, outside, history, vars
<1>32. ASSUME NEW t \in Tasks, LaunchFails(t) PROVE FileSteady
  BY <1>32 DEF LaunchFails, FileSteady, store, memory, outside, history, vars
<1>33. ASSUME NEW t \in Tasks, Started(t) PROVE FileSteady
  BY <1>33 DEF Started, FileSteady, store, memory, outside, history, vars
<1>34. ASSUME NEW t \in Tasks, Release(t) PROVE FileSteady
  BY <1>34 DEF Release, FileSteady, store, memory, outside, history, vars
<1>35. ASSUME NEW t \in Tasks, Exit(t) PROVE FileSteady
  BY <1>35 DEF Exit, FileSteady, store, memory, outside, history, vars
<1>36. ASSUME NEW t \in Tasks, SettleAttempt(t) PROVE FileSteady
  BY <1>36 DEF SettleAttempt, FileSteady, store, memory, outside, history, vars
<1>37. ASSUME NEW t \in Tasks, Verify(t) PROVE FileSteady
  BY <1>37 DEF Verify, FileSteady, store, memory, outside, history, vars
<1>38. ASSUME NEW t \in Tasks, Finish(t) PROVE FileSteady
  BY <1>38 DEF Finish, FileSteady, store, memory, outside, history, vars
<1>39. ASSUME NEW c \in OpCmds, NEW t \in Tasks, NEW nb \in Gens,
               NEW sup \in Commands \cup {None}, Admit(c, t, nb, sup)
       
      PROVE   FileSteady
  BY <1>39 DEF Admit, FileSteady, store, memory, outside, history, vars
<1>40. ASSUME NEW c \in Commands, Withdraw(c) PROVE FileSteady
  BY <1>40 DEF Withdraw, FileSteady, store, memory, outside, history, vars
<1>41. CASE UNCHANGED vars
  BY <1>41 DEF FileSteady, store, memory, outside, history, vars
<1> QED
  BY <1>1, <1>2, <1>3, <1>4, <1>5, <1>6, <1>7, <1>8, <1>9, <1>10, <1>11, <1>12, <1>13,
     <1>14, <1>15, <1>16, <1>17, <1>18, <1>19, <1>20, <1>21, <1>22, <1>23, <1>24, <1>25,
     <1>26, <1>27, <1>28, <1>29, <1>30, <1>31, <1>32, <1>33, <1>34, <1>35, <1>36, <1>37,
     <1>38, <1>39, <1>40, <1>41
     DEF Next, Recovery, MainLine, Dispatching, Operator

\* Between the artifact and its commit nothing else runs.
LEMMA PublishedMoves ==
    ASSUME Types, Control, [Next]_vars PROVE  PublishedSteady
<1>1. CASE Boot
  BY <1>1, TasksAssumption DEF Boot, PublishedSteady, Types, Control, InHand, store, memory,
     outside, history, vars
<1>2. CASE Reap
  BY <1>2, TasksAssumption DEF Reap, PublishedSteady, Types, Control, InHand, store, memory,
     outside, history, vars
<1>3. CASE ReapUnresolved
  BY <1>3, TasksAssumption DEF ReapUnresolved, PublishedSteady, Types, Control, InHand, store,
     memory, outside, history, vars
<1>4. CASE IdentityBlocked
  BY <1>4, TasksAssumption DEF IdentityBlocked, PublishedSteady, Types, Control, InHand,
     store, memory, outside, history, vars
<1>5. CASE RefuseTerminal
  BY <1>5 DEF RefuseTerminal, Reconciling, PublishedSteady, Control, memory
<1>6. CASE Reconciled
  BY <1>6, TasksAssumption DEF Reconciled, PublishedSteady, Types, Control, InHand, store,
     memory, outside, history, vars
<1>7. CASE BeginReclaim
  BY <1>7, TasksAssumption DEF BeginReclaim, PublishedSteady, Types, Control, InHand, store,
     memory, outside, history, vars
<1>8. CASE EndReclaim
  BY <1>8, TasksAssumption DEF EndReclaim, PublishedSteady, Types, Control, InHand, store,
     memory, outside, history, vars
<1>9. CASE StartIteration
  BY <1>9, TasksAssumption DEF StartIteration, PublishedSteady, Types, Control, InHand, store,
     memory, outside, history, vars
<1>10. CASE EndDispatch
  BY <1>10, TasksAssumption DEF EndDispatch, PublishedSteady, Types, Control, InHand, store,
     memory, outside, history, vars
<1>11. CASE EndReview
  BY <1>11, TasksAssumption DEF EndReview, PublishedSteady, Types, Control, InHand, store,
     memory, outside, history, vars
<1>12. CASE EndEscalate
  BY <1>12, TasksAssumption DEF EndEscalate, PublishedSteady, Types, Control, InHand, store,
     memory, outside, history, vars
<1>13. CASE Crash
  BY <1>13, TasksAssumption DEF Crash, PublishedSteady, Types, Control, InHand, store, memory,
     outside, history, vars
<1>14. ASSUME NEW a \in Tasks \X Gens, AbandonPrepared(a) PROVE PublishedSteady
  BY <1>14 DEF AbandonPrepared, Reconciling, PublishedSteady, Control, memory
<1>15. ASSUME NEW a \in Tasks \X Gens, RecordExit(a) PROVE PublishedSteady
  BY <1>15 DEF RecordExit, Reconciling, PublishedSteady, Control, memory
<1>16. ASSUME NEW a \in Tasks \X Gens, Settle(a) PROVE PublishedSteady
  BY <1>16 DEF Settle, Reconciling, PublishedSteady, Control, memory
<1>17. ASSUME NEW a \in Tasks \X Gens, OrphanExit(a) PROVE PublishedSteady
  BY <1>17, TasksAssumption DEF OrphanExit, PublishedSteady, Types, Control, InHand, store,
     memory, outside, history, vars
<1>18. ASSUME NEW t \in Tasks, Reclaim(t) PROVE PublishedSteady
  BY <1>18, TasksAssumption DEF Reclaim, At, Goes, PublishedSteady, Types, Control, InHand,
     store, memory, outside, history
<1>19. ASSUME NEW t \in Tasks, Review(t) PROVE PublishedSteady
  BY <1>19, TasksAssumption DEF Review, At, Goes, PublishedSteady, Types, Control, InHand,
     store, memory, outside, history
<1>20. ASSUME NEW t \in Tasks, Escalate(t) PROVE PublishedSteady
  BY <1>20, TasksAssumption DEF Escalate, At, Goes, PublishedSteady, Types, Control, InHand,
     store, memory, outside, history
<1>21. ASSUME NEW t \in Tasks, Claim(t) PROVE PublishedSteady
  BY <1>21, TasksAssumption DEF Claim, At, Goes, PublishedSteady, Types, Control, InHand,
     store, memory, outside, history
<1>22. ASSUME NEW t \in Tasks, CannotClaim(t) PROVE PublishedSteady
  BY <1>22, TasksAssumption DEF CannotClaim, At, Goes, PublishedSteady, Types, Control,
     InHand, store, memory, outside, history
<1>23. ASSUME NEW t \in Tasks, Throws(t) PROVE PublishedSteady
  BY <1>23, TasksAssumption DEF Throws, At, Goes, PublishedSteady, Types, Control, InHand,
     store, memory, outside, history
<1>24. ASSUME NEW t \in Tasks, Boundary(t) PROVE PublishedSteady
  BY <1>24, TasksAssumption DEF Boundary, At, Goes, PublishedSteady, Types, Control, InHand,
     store, memory, outside, history
<1>25. ASSUME NEW t \in Tasks, Feed(t) PROVE PublishedSteady
  BY <1>25, TasksAssumption DEF Feed, At, Goes, PublishedSteady, Types, Control, InHand,
     store, memory, outside, history
<1>26. ASSUME NEW t \in Tasks, Publish(t) PROVE PublishedSteady
  <2>1. /\ busy = t /\ \A u \in Tasks : u # t => disp'[u] = disp[u]
    BY <1>26 DEF Publish, Goes, Types
  <2>2. \A u \in Tasks : u # t => disp[u] # "published"
    BY <2>1 DEF Control, InHand
  <2> QED
    BY <1>26, <2>1, <2>2 DEF PublishedSteady
<1>27. ASSUME NEW t \in Tasks, CannotPublish(t) PROVE PublishedSteady
  BY <1>27, TasksAssumption DEF CannotPublish, At, Goes, PublishedSteady, Types, Control,
     InHand, store, memory, outside, history
<1>28. ASSUME NEW t \in Tasks, Commit(t) PROVE PublishedSteady
  BY <1>28, TasksAssumption DEF Commit, At, Goes, PublishedSteady, Types, Control, InHand,
     store, memory, outside, history
<1>29. ASSUME NEW t \in Tasks, Refused(t) PROVE PublishedSteady
  BY <1>29, TasksAssumption DEF Refused, At, Goes, PublishedSteady, Types, Control, InHand,
     store, memory, outside, history
<1>30. ASSUME NEW t \in Tasks, Plan(t) PROVE PublishedSteady
  BY <1>30, TasksAssumption DEF Plan, At, Goes, PublishedSteady, Types, Control, InHand,
     store, memory, outside, history
<1>31. ASSUME NEW t \in Tasks, Record(t) PROVE PublishedSteady
  BY <1>31, TasksAssumption DEF Record, At, Goes, PublishedSteady, Types, Control, InHand,
     store, memory, outside, history
<1>32. ASSUME NEW t \in Tasks, LaunchFails(t) PROVE PublishedSteady
  BY <1>32, TasksAssumption DEF LaunchFails, At, Goes, PublishedSteady, Types, Control,
     InHand, store, memory, outside, history
<1>33. ASSUME NEW t \in Tasks, Started(t) PROVE PublishedSteady
  BY <1>33, TasksAssumption DEF Started, At, Goes, PublishedSteady, Types, Control, InHand,
     store, memory, outside, history
<1>34. ASSUME NEW t \in Tasks, Release(t) PROVE PublishedSteady
  BY <1>34, TasksAssumption DEF Release, At, Goes, PublishedSteady, Types, Control, InHand,
     store, memory, outside, history
<1>35. ASSUME NEW t \in Tasks, Exit(t) PROVE PublishedSteady
  BY <1>35, TasksAssumption DEF Exit, At, Goes, PublishedSteady, Types, Control, InHand,
     store, memory, outside, history
<1>36. ASSUME NEW t \in Tasks, SettleAttempt(t) PROVE PublishedSteady
  BY <1>36, TasksAssumption DEF SettleAttempt, At, Goes, PublishedSteady, Types, Control,
     InHand, store, memory, outside, history
<1>37. ASSUME NEW t \in Tasks, Verify(t) PROVE PublishedSteady
  BY <1>37, TasksAssumption DEF Verify, At, Goes, PublishedSteady, Types, Control, InHand,
     store, memory, outside, history
<1>38. ASSUME NEW t \in Tasks, Finish(t) PROVE PublishedSteady
  BY <1>38, TasksAssumption DEF Finish, At, Goes, PublishedSteady, Types, Control, InHand,
     store, memory, outside, history
<1>39. ASSUME NEW c \in OpCmds, NEW t \in Tasks, NEW nb \in Gens,
               NEW sup \in Commands \cup {None}, Admit(c, t, nb, sup)
       
      PROVE   PublishedSteady
  BY <1>39, TasksAssumption DEF Admit, Serving, PublishedSteady, Control, InHand, memory
<1>40. ASSUME NEW c \in Commands, Withdraw(c) PROVE PublishedSteady
  BY <1>40, TasksAssumption DEF Withdraw, Serving, PublishedSteady, Control, InHand, memory
<1>41. CASE UNCHANGED vars
  BY <1>41, TasksAssumption DEF PublishedSteady, Types, Control, InHand, store, memory,
     outside, history, vars
<1> QED
  BY <1>1, <1>2, <1>3, <1>4, <1>5, <1>6, <1>7, <1>8, <1>9, <1>10, <1>11, <1>12, <1>13,
     <1>14, <1>15, <1>16, <1>17, <1>18, <1>19, <1>20, <1>21, <1>22, <1>23, <1>24, <1>25,
     <1>26, <1>27, <1>28, <1>29, <1>30, <1>31, <1>32, <1>33, <1>34, <1>35, <1>36, <1>37,
     <1>38, <1>39, <1>40, <1>41
     DEF Next, Recovery, MainLine, Dispatching, Operator
\* Elements of the commands.
LEMMA CmdElem ==
    ASSUME Types
    PROVE  /\ head \in Nat
           /\ \A c \in Commands : cmd[c] \in CmdRec /\ cmd[c].adm \in Nat /\ cmd[c].nb \in Nat
           /\ \A t \in Tasks : \A g \in 1 .. Len(att[t]) : att[t][g].cmds \subseteq Commands
<1>1. \A t \in Tasks : \A g \in 1 .. Len(att[t]) : att[t][g].cmds \subseteq Commands
  BY AttElem DEF AttRec
<1> QED
  BY <1>1 DEF Types, CmdRec

\* Steps other than the commit take no command and admit only at the end of the log.
LEMMA CarriedSteady ==
    ASSUME Types, Types', Carried, AttSteady, CmdSteady, head <= head'
    PROVE  Carried'
<1>1. head \in Nat /\ head' \in Nat /\ \A c \in Commands : cmd[c].adm \in Nat
  BY CmdElem DEF Types
<1>2. Admissions'
  BY <1>1 DEF Carried, Admissions, CmdSteady
<1>3. \A t \in Tasks : \A g \in 1 .. Len(att[t]) : \A c \in att[t][g].cmds :
          c \in Commands /\ cmd'[c] = cmd[c]
  BY CmdElem DEF Carried, HeldIncluded, CmdSteady
<1>4. HeldIncluded'
  BY <1>3 DEF Carried, HeldIncluded, AttSteady
<1>5. HeldApart'
  BY DEF Carried, HeldApart, AttSteady
<1>6. IncludedHeld'
  BY DEF Carried, IncludedHeld, AttSteady, CmdSteady, Reserved
<1>7. Ordered'
  <2> SUFFICES ASSUME NEW t \in Tasks, NEW g \in 1 .. Len(att[t]), NEW c \in att[t][g].cmds,
                      NEW d \in Commands,
                      cmd'[d].st = "pending", cmd'[d].task = t, cmd'[d].nb <= g
               PROVE  cmd'[c].adm < cmd'[d].adm
    BY DEF Ordered, AttSteady
  <2>1. c \in Commands /\ cmd'[c] = cmd[c] /\ cmd[c].adm <= head
    BY <1>3 DEF Carried, Admissions
  <2>2. CASE cmd'[d] = cmd[d]
    BY <2>1, <2>2 DEF Carried, Ordered
  <2>3. CASE cmd'[d].adm > head
    <3>1. cmd'[d].adm \in Nat
      BY DEF Types, CmdRec
    <3> QED
      BY <1>1, <2>1, <2>3, <3>1
  <2> QED
    BY <2>2, <2>3 DEF CmdSteady
<1> QED
  BY <1>2, <1>4, <1>5, <1>6, <1>7 DEF Carried

\* Finitely many commands can exist, so a boundary can count them.
LEMMA CommandsFinite == IsFiniteSet(Commands)
<1>1. IsFiniteSet(1 .. MaxRepairs)
  BY FS_Interval, RepairsAssumption
<1>2. IsFiniteSet(Tasks \X (1 .. MaxRepairs))
  BY <1>1, FS_Product, BoardAssumption
<1> QED
  BY <1>2, FS_Union, BoardAssumption DEF Commands, Feedback

\* A boundary takes a prefix: what it leaves was admitted after all that it takes.
LEMMA SelectedPrefix ==
    ASSUME Types, NEW t \in Tasks, NEW g \in Nat,
           NEW c \in Selected(t, g), NEW d \in Eligible(t, g), d \notin Selected(t, g)
    PROVE  cmd[c].adm < cmd[d].adm
<1> DEFINE E == Eligible(t, g)
           P(x) == {e \in E : cmd[e].adm < cmd[x].adm}
<1>1. E \subseteq Commands
  BY DEF Eligible
<1>2. IsFiniteSet(E)
  BY <1>1, CommandsFinite, FS_Subset
<1>3. c \in E /\ Cardinality(P(c)) < BoundaryMax /\ ~(Cardinality(P(d)) < BoundaryMax)
  BY DEF Selected
<1>4. \A e \in E : cmd[e].adm \in Nat
  BY <1>1, CmdElem
<1>5. ASSUME cmd[d].adm <= cmd[c].adm PROVE FALSE
  <2>1. P(d) \subseteq P(c)
    BY <1>3, <1>4, <1>5
  <2>2. IsFiniteSet(P(c))
    BY <1>2, FS_Subset
  <2>3. Cardinality(P(d)) <= Cardinality(P(c))
    BY <2>1, <2>2, FS_Subset
  <2>4. Cardinality(P(c)) \in Nat /\ Cardinality(P(d)) \in Nat
    BY <2>1, <2>2, FS_Subset, FS_CardinalityType
  <2> QED
    BY <1>3, <2>3, <2>4, BoundaryAssumption
<1> QED
  BY <1>3, <1>4, <1>5

\* The commit takes what the boundary selected and nothing that was taken before.
LEMMA CarriedCommit ==
    ASSUME Types, Types', Carried, NEW t \in Tasks, Commit(t)
    PROVE  Carried'
<1> DEFINE n == NextGen(t)
           taken == Selected(t, n)
           r == [st |-> "prepared", cmds |-> taken, base |-> repairs[t], planned |-> FALSE,
                 end |-> 0]
<1>1. Appended(t, r) /\ r.cmds = taken
  BY CommitShape
<1>2. n = Len(att[t]) + 1 /\ n \in Nat /\ Len(att[t]) \in Nat
  BY AttElem DEF NextGen
<1>3. taken \subseteq Eligible(t, n) /\ Eligible(t, n) \subseteq Commands
  BY DEF Selected, Eligible
<1>4. \A c \in taken : /\ c \in Commands /\ cmd[c].st = "pending" /\ ~Reserved(c)
                       /\ cmd[c].task = t /\ cmd[c].nb <= n
  BY <1>3 DEF Eligible, Free
<1>5. \A c \in Commands \ taken : cmd'[c] = cmd[c]
  BY DEF Commit
<1>6. \A c \in taken : cmd'[c] = [cmd[c] EXCEPT !.st = "included"]
  BY <1>4 DEF Commit
<1>7. \A c \in taken : /\ cmd'[c].st = "included" /\ cmd'[c].task = cmd[c].task
                       /\ cmd'[c].adm = cmd[c].adm /\ cmd'[c].nb = cmd[c].nb
  <2>1. \A c \in Commands : [cmd[c] EXCEPT !.st = "included"] =
            [st |-> "included", task |-> cmd[c].task, adm |-> cmd[c].adm, nb |-> cmd[c].nb]
    BY CmdElem, CmdIs DEF CmdStates
  <2> HIDE DEF taken
  <2>2. \A c \in taken : cmd'[c] =
            [st |-> "included", task |-> cmd[c].task, adm |-> cmd[c].adm, nb |-> cmd[c].nb]
    BY <1>4, <1>6, <2>1
  <2> SUFFICES ASSUME NEW c \in taken
               PROVE  /\ cmd'[c].st = "included" /\ cmd'[c].task = cmd[c].task
                      /\ cmd'[c].adm = cmd[c].adm /\ cmd'[c].nb = cmd[c].nb
    OBVIOUS
  <2>3. cmd'[c] = [st |-> "included", task |-> cmd[c].task, adm |-> cmd[c].adm,
                   nb |-> cmd[c].nb]
    BY <2>2
  <2> QED
    BY <2>3
<1>8. head' = head
  BY DEF Commit
<1> HIDE DEF n, taken, r
<1>9. ASSUME NEW u \in Tasks, NEW h \in 1 .. Len(att'[u])
      PROVE  \/ h \in 1 .. Len(att[u]) /\ att'[u][h] = att[u][h]
             \/ u = t /\ h = n /\ att'[u][h].cmds = taken
  BY <1>1, <1>2, AttElem DEF Appended
<1>10. \A c \in Commands : cmd'[c].task = cmd[c].task /\ cmd'[c].adm = cmd[c].adm
                           /\ cmd'[c].nb = cmd[c].nb
                           /\ (cmd'[c].st = "pending" => cmd[c].st = "pending" /\ c \notin taken)
  BY <1>5, <1>7
<1>11. \A u \in Tasks : \A h \in 1 .. Len(att[u]) : \A c \in att[u][h].cmds :
           c \in Commands /\ c \notin taken /\ cmd'[c] = cmd[c] /\ cmd[c].st = "included"
  BY <1>4, <1>5, CmdElem DEF Reserved, Carried, HeldIncluded
<1>12. Admissions'
  BY <1>8, <1>10 DEF Carried, Admissions
<1>13. HeldIncluded'
  BY <1>4, <1>7, <1>9, <1>11 DEF Carried, HeldIncluded
<1>14. HeldApart'
  <2> SUFFICES ASSUME NEW u \in Tasks, NEW v \in Tasks, NEW h \in 1 .. Len(att'[u]),
                      NEW k \in 1 .. Len(att'[v]), NEW c \in Commands,
                      c \in att'[u][h].cmds, c \in att'[v][k].cmds
               PROVE  u = v /\ h = k
    BY DEF HeldApart
  <2>1. \/ h \in 1 .. Len(att[u]) /\ att'[u][h] = att[u][h]
        \/ u = t /\ h = n /\ att'[u][h].cmds = taken
    BY <1>9
  <2>2. \/ k \in 1 .. Len(att[v]) /\ att'[v][k] = att[v][k]
        \/ v = t /\ k = n /\ att'[v][k].cmds = taken
    BY <1>9
  <2> QED
    BY SMTT(40), <2>1, <2>2, <1>11 DEF Carried, HeldApart
<1>15. IncludedHeld'
  <2> SUFFICES ASSUME NEW c \in Commands, cmd'[c].st = "included" PROVE Reserved(c)'
    BY DEF IncludedHeld
  <2>1. CASE c \in taken
    <3>1. n \in 1 .. Len(att'[t]) /\ c \in att'[t][n].cmds
      BY <1>1, <1>2, <2>1 DEF Appended
    <3> QED
      BY <3>1 DEF Reserved
  <2>2. CASE c \notin taken
    <3>1. PICK u \in Tasks : \E g \in 1 .. Len(att[u]) : c \in att[u][g].cmds
      BY <1>5, <2>2 DEF Carried, IncludedHeld, Reserved
    <3>2. PICK g \in 1 .. Len(att[u]) : c \in att[u][g].cmds
      BY <3>1
    <3>3. Len(att[u]) \in Nat /\ (Len(att'[u]) = Len(att[u]) \/ Len(att'[u]) = Len(att[u]) + 1)
      BY <1>1, AttElem DEF Appended
    <3>4. g \in 1 .. Len(att'[u]) /\ att'[u][g] = att[u][g]
      BY <1>1, <3>3 DEF Appended
    <3> QED
      BY <3>2, <3>4 DEF Reserved
  <2> QED
    BY <2>1, <2>2
<1>16. Ordered'
  <2> SUFFICES ASSUME NEW u \in Tasks, NEW h \in 1 .. Len(att'[u]), NEW c \in att'[u][h].cmds,
                      NEW d \in Commands,
                      cmd'[d].st = "pending", cmd'[d].task = u, cmd'[d].nb <= h
               PROVE  cmd'[c].adm < cmd'[d].adm
    BY DEF Ordered
  <2>1. cmd[d].st = "pending" /\ d \notin taken /\ cmd[d].task = u /\ cmd[d].nb <= h
        /\ cmd'[d].adm = cmd[d].adm
    BY <1>10
  <2>2. CASE h \in 1 .. Len(att[u]) /\ att'[u][h] = att[u][h]
    BY <1>11, <2>1, <2>2 DEF Carried, Ordered
  <2>3. CASE u = t /\ h = n /\ att'[u][h].cmds = taken
    <3>1. ~Reserved(d)
      BY <2>1 DEF Reserved, Carried, HeldIncluded
    <3>2. d \in Eligible(t, n)
      BY <2>1, <2>3, <3>1 DEF Eligible, Free
    <3>3. cmd[c].adm < cmd[d].adm
      BY <1>2, <2>1, <2>3, <3>2, SelectedPrefix DEF taken
    <3>4. cmd'[c].adm = cmd[c].adm
      BY <1>7, <2>3
    <3> QED
      BY <2>1, <3>3, <3>4
  <2> QED
    BY <1>9, <2>2, <2>3
<1> QED
  BY <1>12, <1>13, <1>14, <1>15, <1>16 DEF Carried

\* Carried is inductive.
LEMMA CarriedNext ==
    ASSUME Types, Types', Launches, Carried, [Next]_vars PROVE Carried'
  BY AttMoves, CmdMoves, CarriedSteady, CarriedCommit

\* Published is inductive.
LEMMA PublishedNext ==
    ASSUME Types, Types', Control, Counts, Launches, Published, [Next]_vars PROVE Published'
<1>1. FileSteady /\ PublishedSteady /\ (AttSteady \/ \E u \in Tasks : Commit(u))
  BY FileMoves, PublishedMoves, AttMoves
<1>2. ASSUME NEW t \in Tasks, disp'[t] = "published" PROVE file'[t][NextGen(t)'] = Prompt(t)'
  <2>1. CASE Publish(t)
    <3>1. NextGen(t) \in Gens
      BY <2>1, RepairsAssumption, AttElem
         DEF Publish, At, NextGen, Gens, Counts, Counting, InPrompt, Types
    <3>2. file'[t][NextGen(t)] = Prompt(t)
      BY <2>1, <3>1 DEF Publish, Types
    <3>3. att' = att /\ cmd' = cmd /\ repairs' = repairs
      BY <2>1 DEF Publish, store
    <3>4. NextGen(t)' = NextGen(t) /\ Prompt(t)' = Prompt(t)
      BY <3>3 DEF NextGen, Prompt, Selected, Eligible, Free, Reserved
    <3> QED
      BY <3>2, <3>4
  <2>2. CASE disp[t] = "published" /\ UNCHANGED <<att, cmd, repairs, file>>
    <3>1. NextGen(t)' = NextGen(t) /\ Prompt(t)' = Prompt(t)
      BY <2>2 DEF NextGen, Prompt, Selected, Eligible, Free, Reserved
    <3> QED
      BY <2>2, <3>1 DEF Published
  <2> QED
    BY <1>1, <1>2, <2>1, <2>2 DEF PublishedSteady
<1>3. CASE AttSteady
  <2>1. ASSUME NEW t \in Tasks, NEW g \in 1 .. Len(att'[t]), att'[t][g].st # "abandoned"
        PROVE  file'[t][g] = Named(att'[t][g])
    <3>1. g \in 1 .. Len(att[t]) /\ att'[t][g].cmds = att[t][g].cmds
          /\ att'[t][g].base = att[t][g].base /\ att[t][g].st # "abandoned"
      BY <1>3, <2>1 DEF AttSteady
    <3> QED
      BY <1>1, <3>1 DEF FileSteady, Published, Named
  <2> QED
    BY <1>2, <2>1 DEF Published
<1>4. ASSUME NEW u \in Tasks, Commit(u) PROVE Published'
  <2> DEFINE r == [st |-> "prepared", cmds |-> Selected(u, NextGen(u)), base |-> repairs[u],
                   planned |-> FALSE, end |-> 0]
  <2>1. Appended(u, r)
    BY <1>4, CommitShape
  <2>2. file[u][NextGen(u)] = Prompt(u) /\ Prompt(u) = Named(r)
    BY <1>4 DEF Commit, At, Published, Prompt, Named
  <2>3. file' = file /\ NextGen(u) = Len(att[u]) + 1
    BY <1>4 DEF Commit, outside, NextGen
  <2> HIDE DEF r
  <2>4. ASSUME NEW t \in Tasks, NEW g \in 1 .. Len(att'[t]), att'[t][g].st # "abandoned"
        PROVE  file'[t][g] = Named(att'[t][g])
    <3>1. \/ g \in 1 .. Len(att[t]) /\ att'[t][g] = att[t][g]
          \/ t = u /\ g = Len(att[u]) + 1 /\ att'[t][g] = r
      BY <2>1, AttElem DEF Appended
    <3> QED
      BY <2>2, <2>3, <2>4, <3>1 DEF Published
  <2> QED
    BY <1>2, <2>4 DEF Published
<1> QED
  BY <1>1, <1>3, <1>4

SteeringInv == DispatchInv /\ Carried /\ Published

LEMMA SteeringInvAlways == Spec => []SteeringInv
<1>1. ASSUME Init PROVE SteeringInv
  <2>1. DispatchInv
    BY <1>1, DispatchInvInit
  <2>2. /\ \A t \in Tasks : Len(att[t]) = 0 /\ disp[t] = "none"
        /\ \A c \in Commands : cmd[c] = NoCmd
        /\ head = 0
    BY <1>1 DEF Init
  <2>3. Carried
    BY <2>2 DEF Carried, Admissions, HeldIncluded, HeldApart, IncludedHeld, Ordered, NoCmd
  <2>4. Published
    BY <2>2 DEF Published
  <2> QED
    BY <2>1, <2>3, <2>4 DEF SteeringInv
<1>2. SteeringInv /\ [Next]_vars => SteeringInv'
  BY DispatchInvNext, CarriedNext, PublishedNext DEF SteeringInv, DispatchInv
<1> QED
  BY <1>1, <1>2, PTL DEF Spec

\* Attempts are the pairs of a task and a generation it has reached.
LEMMA AttemptPairs ==
    ASSUME Types, Counts
    PROVE  /\ \A a \in Attempts : a[1] \in Tasks /\ a[2] \in 1 .. Len(att[a[1]]) /\ a = <<a[1], a[2]>>
           /\ \A t \in Tasks : \A g \in 1 .. Len(att[t]) : <<t, g>> \in Attempts
<1>1. \A t \in Tasks : Len(att[t]) \in Nat /\ Len(att[t]) <= MaxRepairs + 1
  BY RepairsAssumption, AttElem DEF Counts, Counting, Types
<1>2. ASSUME NEW a \in Attempts
      PROVE  a[1] \in Tasks /\ a[2] \in 1 .. Len(att[a[1]]) /\ a = <<a[1], a[2]>>
  BY <1>1, RepairsAssumption DEF Attempts, Gens
<1>3. ASSUME NEW t \in Tasks, NEW g \in 1 .. Len(att[t]) PROVE <<t, g>> \in Attempts
  <2>1. <<t, g>> \in Tasks \X Gens /\ g <= Len(att[t])
    BY <1>1, RepairsAssumption DEF Gens
  <2> QED
    BY <2>1 DEF Attempts
<1> QED
  BY <1>2, <1>3

\* Carried and Published give the property.
LEMMA DeliveredFromInv == SteeringInv => DeliveredOnce
<1> SUFFICES ASSUME SteeringInv PROVE DeliveredOnce
  OBVIOUS
<1> USE DEF SteeringInv, DispatchInv
<1>1. ASSUME NEW c \in Commands
      PROVE  LET holders == {a \in Attempts : c \in att[a[1]][a[2]].cmds} IN
             /\ Cardinality(holders) <= 1
             /\ (cmd[c].st = "included") <=> (holders # {})
             /\ \A a \in holders : a[1] = cmd[c].task /\ cmd[c].nb <= a[2]
  <2> DEFINE H == {a \in Attempts : c \in att[a[1]][a[2]].cmds}
  <2>1. \A a \in H : /\ a[1] \in Tasks /\ a[2] \in 1 .. Len(att[a[1]]) /\ a = <<a[1], a[2]>>
                     /\ c \in att[a[1]][a[2]].cmds
    BY AttemptPairs
  <2>2. \A a, b \in H : a = b
    BY <2>1 DEF Carried, HeldApart
  <2>3. Cardinality(H) <= 1
    <3>1. CASE H = {}
      <4>1. Cardinality(H) = 0
        BY <3>1, FS_EmptySet
      <4> HIDE DEF H
      <4> QED
        BY <4>1
    <3>2. CASE H # {}
      <4>1. PICK a \in H : TRUE
        BY <3>2
      <4>2. H = {a}
        BY <2>2, <4>1
      <4>3. Cardinality(H) = 1
        BY <4>2, FS_Singleton
      <4> HIDE DEF H
      <4> QED
        BY <4>3
    <3> QED
      BY <3>1, <3>2
  <2>4. ASSUME cmd[c].st = "included" PROVE H # {}
    <3>1. PICK t \in Tasks : \E g \in 1 .. Len(att[t]) : c \in att[t][g].cmds
      BY <2>4 DEF Carried, IncludedHeld, Reserved
    <3>2. PICK g \in 1 .. Len(att[t]) : c \in att[t][g].cmds
      BY <3>1
    <3>3. <<t, g>> \in Attempts
      BY AttemptPairs
    <3>4. <<t, g>> \in H
      BY <3>2, <3>3
    <3> QED
      BY <3>4
  <2>5. \A a \in H : cmd[c].st = "included" /\ a[1] = cmd[c].task /\ cmd[c].nb <= a[2]
    BY <2>1 DEF Carried, HeldIncluded
  <2> QED
    BY <2>3, <2>4, <2>5
<1>2. IncludedOnce
  BY <1>1 DEF IncludedOnce
<1>3. NoLeapfrog
  BY AttemptPairs DEF NoLeapfrog, Carried, Ordered
<1>4. PromptIsManifest
  BY AttemptPairs DEF PromptIsManifest, ArtifactsVerified, StateOf, Verified, Published, Named
<1> QED
  BY <1>2, <1>3, <1>4 DEF DeliveredOnce

(* A steering command reaches an agent in one prompt or in none, in the    *)
(* order of admission, and the prompt on disk is the one the manifest      *)
(* describes, wherever the parent dies between the artifact and the commit *)
(* (selectSteeringBoundary, publishPromptArtifact, prepareAttemptPrompt).  *)
THEOREM AlwaysDeliveredOnce == Spec => []DeliveredOnce
  BY SteeringInvAlways, DeliveredFromInv, PTL

=============================================================================
