------------------------------ MODULE Dispatch ------------------------------
(***************************************************************************)
(* The delivery loop of one run (src/orchestrator.ts) over its             *)
(* canonical control store: tasks are dispatched to providers, every       *)
(* provider turn gets an immutable prompt that carries the parent's        *)
(* steering commands (src/steering/), and a parent that is killed is       *)
(* started again and reconciles what its predecessor left behind.          *)
(*                                                                         *)
(* The store is written by the one parent that holds the run lease, and    *)
(* every append is one SQLite transaction, so the projection of the store  *)
(* (control/reducer.ts) is the state below.  Node runs one callback at a   *)
(* time: dispatches of different tasks and steering requests interleave    *)
(* only where the code awaits.  `busy' names the task whose synchronous    *)
(* section is running; a crash is the only thing that can cut it.          *)
(*                                                                         *)
(* A task belongs to one role and a role has one session per task, so a    *)
(* session is named by its task and the generation of both is 1 (no code   *)
(* of the product reopens a task).  `head' counts the two kinds of event   *)
(* whose sequence numbers are compared: admissions and exits.              *)
(***************************************************************************)
EXTENDS Naturals, Sequences, FiniteSets

CONSTANTS
    Tasks,          \* the tasks of the board
    OpCmds,         \* command ids the operator's CLI has minted
    MaxRepairs,     \* loop.maxRepairs: repairs after the first attempt
    BoundaryMax,    \* STEERING_BOUNDARY_MAX_COMMANDS
    MaxCrashes,     \* bound: how often the parent dies
    None            \* no task

ASSUME TasksAssumption == None \notin Tasks
ASSUME BoardAssumption == IsFiniteSet(Tasks) /\ IsFiniteSet(OpCmds)
ASSUME RepairsAssumption == MaxRepairs \in Nat \ {0}
ASSUME BoundaryAssumption == BoundaryMax \in Nat \ {0}
ASSUME CrashesAssumption == MaxCrashes \in Nat

VARIABLES
    phase,      \* where the parent's main line is; "down" when it is dead
    busy,       \* the task whose synchronous section runs, or None
    worked,     \* whether this iteration dispatched anything
    status,     \* task.status
    repairs,    \* task.attempts: how many blocked/rejected events
    att,        \* the attempts of a task; the generation is the index
    seen,       \* the session's waiting_input observation
    cmd,        \* the steering commands
    head,       \* sequence number of the last admission or exit
    cursor,     \* the settlement consumer's cursor
    disp,       \* how far this incarnation's dispatch of a task is
    kept,       \* tasks with an attempt worktree in this incarnation's memory
    file,       \* prompt artifacts under steering/prompts, by attempt id
    journal,    \* the scope journal: launches a successor can name
    live,       \* attempts with a provider process in their scope, past the launch gate
    unproven,   \* attempts whose turn this incarnation resolved over a live scope
    crashes,
    dispatched, \* history: dispatches of the task that the board has heard of
    claimGen    \* history: the attempt generation the last claim is for

store    == <<status, repairs, att, seen, cmd, head, cursor>>
memory   == <<phase, busy, worked, disp, kept>>
outside  == <<file, journal, live, unproven>>
history  == <<dispatched, claimGen>>
vars     == <<store, memory, outside, history, crashes>>

Gens     == 1..(MaxRepairs + 1)
Feedback == Tasks \X (1..MaxRepairs)
Commands == OpCmds \cup Feedback

ASSUME CommandsAssumption == None \notin Commands

Statuses  == {"open", "claimed", "needs-review", "blocked", "rejected", "done", "escalated"}
AttStates == {"prepared", "active", "exited", "abandoned"}
CmdStates == {"unknown", "pending", "included", "refused", "withdrawn", "superseded"}
DispSteps == {"none", "selected", "claimed", "boundary", "fed", "published", "prepared",
              "planned", "recorded", "started", "running", "gone", "settled", "verifying",
              "review"}
Phases    == {"down", "reap", "recover", "ready", "reclaim", "top", "dispatch", "review",
              "escalate", "post", "stopped", "finished"}

NoFile  == [st |-> "none", cmds |-> {}, base |-> 0]
NoCmd   == [st |-> "unknown", task |-> None, adm |-> 0, nb |-> 0]

(* A new run: the cutover has created the store and the board's tasks.     *)
Init ==
    /\ phase = "down" /\ busy = None /\ worked = FALSE
    /\ status = [t \in Tasks |-> "open"]
    /\ repairs = [t \in Tasks |-> 0]
    /\ att = [t \in Tasks |-> <<>>]
    /\ seen = [t \in Tasks |-> "never"]
    /\ cmd = [c \in Commands |-> NoCmd]
    /\ head = 0 /\ cursor = 0
    /\ disp = [t \in Tasks |-> "none"]
    /\ kept = {}
    /\ file = [t \in Tasks |-> [g \in Gens |-> NoFile]]
    /\ journal = {} /\ live = {} /\ unproven = {}
    /\ crashes = 0
    /\ dispatched = [t \in Tasks |-> 0]
    /\ claimGen = [t \in Tasks |-> 0]

-----------------------------------------------------------------------------
(* What the projection says of a task and its session.                     *)

TaskOver(t) == status[t] \in {"done", "escalated"}

NextGen(t) == Len(att[t]) + 1

(* deriveSteeringActivity: `seen' is "fresh" when the waiting_input        *)
(* observation is later than the end of the latest attempt.                *)
Activity(t) ==
    CASE seen[t] = "never" -> "idle"
      [] seen[t] # "never" /\ TaskOver(t) -> "exited"
      [] seen[t] # "never" /\ status[t] = "blocked" -> "blocked"
      [] OTHER ->
           IF att[t] = <<>> THEN "waiting_input"
           ELSE LET last == att[t][Len(att[t])].st IN
                CASE last = "prepared" -> "dispatching"
                  [] last = "active" -> "active"
                  [] OTHER -> IF seen[t] = "fresh" THEN "waiting_input" ELSE "settling"

(* refusalDecision for a command that targets task t's session.            *)
Refuses(t) ==
    \/ TaskOver(t)
    \/ seen[t] = "never"
    \/ Activity(t) \in {"blocked", "exited"}

Reserved(c) == \E t \in Tasks : \E g \in 1..Len(att[t]) : c \in att[t][g].cmds

(* A pending command that no prepared prompt has taken.                    *)
Free(c) == cmd[c].st = "pending" /\ ~Reserved(c)

(* selectSteeringBoundary: the longest prefix, in order of admission, of   *)
(* the pending commands that may enter attempt g of task t.                *)
Eligible(t, g) == {c \in Commands : Free(c) /\ cmd[c].task = t /\ cmd[c].nb <= g}

Selected(t, g) ==
    LET e == Eligible(t, g) IN
    {c \in e : Cardinality({d \in e : cmd[d].adm < cmd[c].adm}) < BoundaryMax}

(* composeAttemptPrompt: the task text names the repair it is for.         *)
Prompt(t) == [st |-> "whole", cmds |-> Selected(t, NextGen(t)), base |-> repairs[t]]

(* allowedTransitions, and a status may be repeated.  The reducer refuses  *)
(* any other event: the append throws and nothing changes.                 *)
allowedTransitions(s) ==
    CASE s = "open" -> {"claimed", "blocked", "escalated"}
      [] s = "claimed" -> {"needs-review", "blocked", "rejected", "escalated"}
      [] s = "needs-review" -> {"done", "rejected", "blocked", "escalated"}
      [] s \in {"blocked", "rejected"} -> {"claimed", "escalated"}
      [] OTHER -> {}

Legal(t, s) == s \in allowedTransitions(status[t]) \cup {status[t]}

(* A task.status_changed event; blocked and rejected count as an attempt.  *)
Becomes(t, s) ==
    /\ Legal(t, s)
    /\ status' = [status EXCEPT ![t] = s]
    /\ repairs' = IF s \in {"blocked", "rejected"}
                  THEN [repairs EXCEPT ![t] = @ + 1] ELSE repairs

(* openTasksFor and retryableTasksFor.                                     *)
Dispatchable(t) ==
    \/ status[t] = "open"
    \/ status[t] \in {"blocked", "rejected"} /\ repairs[t] <= MaxRepairs

-----------------------------------------------------------------------------
(* The parent starts, proves its predecessor's providers gone, and         *)
(* reconciles the store before anything else may run.                      *)

(* A stopped run is resumed only while it has something left to do.        *)
Boot ==
    /\ \/ phase = "down"
       \/ phase = "stopped" /\ \E t \in Tasks : ~TaskOver(t)
    /\ phase' = "reap"
    /\ unproven' = {}
    /\ UNCHANGED <<store, busy, worked, disp, kept, file, journal, live, history, crashes>>

(* reapAbandonedScopes with every recorded scope proven empty.  A journal  *)
(* that cannot be rewritten stays as it was.                               *)
Reap ==
    /\ phase = "reap"
    /\ live' = live \ journal
    /\ journal' \in {{}, journal}
    /\ phase' = "recover"
    /\ UNCHANGED <<store, busy, worked, disp, kept, file, unproven, history, crashes>>

(* Some scope cannot be proven empty: only the others are discharged, and  *)
(* the run refuses to open the store.                                      *)
ReapUnresolved ==
    /\ phase = "reap"
    /\ \E owing \in (SUBSET journal) \ {{}} :
        /\ live' = live \ (journal \ owing)
        /\ journal' = owing
    /\ phase' = "down"
    /\ UNCHANGED <<store, busy, worked, disp, kept, file, unproven, history, crashes>>

Attempts == {a \in Tasks \X Gens : a[2] <= Len(att[a[1]])}
StateOf(a) == att[a[1]][a[2]].st
Mutable == {a \in Attempts : StateOf(a) \in {"prepared", "active"}}
Unsettled == {a \in Attempts : StateOf(a) = "exited" /\ att[a[1]][a[2]].end > cursor}

(* verifyAttempt: the artifact the manifest names, byte for byte.          *)
Verified(a) ==
    LET m == att[a[1]][a[2]] f == file[a[1]][a[2]] IN
    f = [st |-> "whole", cmds |-> m.cmds, base |-> m.base]

ArtifactsVerified == \A a \in Attempts : StateOf(a) # "abandoned" => Verified(a)

Reconciling == phase \in {"recover", "post"}

(* abandon_prepared: no pid was ever recorded, so nothing can be running.  *)
AbandonPrepared(a) ==
    /\ Reconciling /\ ArtifactsVerified /\ a \in Mutable /\ StateOf(a) = "prepared"
    /\ att' = [att EXCEPT ![a[1]][a[2]].st = "abandoned"]
    /\ seen' = [seen EXCEPT ![a[1]] = "stale"]
    /\ UNCHANGED <<status, repairs, cmd, head, cursor, memory, outside, history, crashes>>

(* record_active_exit: the recorded process is absent.                     *)
RecordExit(a) ==
    /\ Reconciling /\ ArtifactsVerified /\ a \in Mutable /\ StateOf(a) = "active"
    /\ a \notin live
    /\ head' = head + 1
    /\ att' = [att EXCEPT ![a[1]][a[2]] = [@ EXCEPT !.st = "exited", !.end = head + 1]]
    /\ seen' = [seen EXCEPT ![a[1]] = "stale"]
    /\ UNCHANGED <<status, repairs, cmd, cursor, memory, outside, history, crashes>>

(* blocked_identity: the recorded pid still names a process, the provider  *)
(* itself or a stranger that reuses the number; the parent gives up.       *)
IdentityBlocked ==
    /\ Reconciling /\ \E a \in Mutable : StateOf(a) = "active"
    /\ phase' = "down" /\ busy' = None
    /\ disp' = [t \in Tasks |-> "none"] /\ kept' = {} /\ unproven' = {}
    /\ UNCHANGED <<store, worked, file, journal, live, history, crashes>>

\* Mutant: the cursor is advanced without the task's consequence.
Settle_CursorOnly(a) ==
    /\ Reconciling /\ ArtifactsVerified /\ Mutable = {}
    /\ a \in Unsettled
    /\ \A b \in Unsettled : att[a[1]][a[2]].end <= att[b[1]][b[2]].end
    /\ cursor' = att[a[1]][a[2]].end
    /\ UNCHANGED <<status, repairs, att, seen, cmd, head, memory, outside, history, crashes>>

(* settle_exited: the oldest unsettled exit; the task's consequence and    *)
(* the cursor are one transaction (completeExitedSettlement).              *)
Settle(a) ==
    /\ Reconciling /\ ArtifactsVerified /\ Mutable = {}
    /\ a \in Unsettled
    /\ \A b \in Unsettled : att[a[1]][a[2]].end <= att[b[1]][b[2]].end
    /\ cursor' = att[a[1]][a[2]].end
    /\ IF status[a[1]] = "claimed" THEN Becomes(a[1], "blocked")
       ELSE UNCHANGED <<status, repairs>>
    /\ UNCHANGED <<att, seen, cmd, head, memory, outside, history, crashes>>

(* pendingPlans: commands whose target can no longer reach a boundary.     *)
TerminalPending == {c \in Commands : cmd[c].st = "pending" /\ TaskOver(cmd[c].task)}

(* reconcileTerminalPendingCommands: one batch refuses them all.           *)
RefuseTerminal ==
    /\ Reconciling /\ ArtifactsVerified /\ Mutable = {} /\ Unsettled = {}
    /\ TerminalPending # {}
    /\ cmd' = [c \in Commands |-> IF c \in TerminalPending
                                  THEN [cmd[c] EXCEPT !.st = "refused"] ELSE cmd[c]]
    /\ UNCHANGED <<status, repairs, att, seen, head, cursor, memory, outside, history, crashes>>

AfterIteration ==
    IF \A t \in Tasks : status[t] = "done" THEN "finished"
    ELSE IF worked THEN "top" ELSE "stopped"

(* The reconciliation has nothing left to do.  After an iteration that     *)
(* dispatched nothing the run stops: "no dispatchable work found".         *)
Reconciled ==
    /\ Reconciling /\ ArtifactsVerified
    /\ Mutable = {} /\ Unsettled = {} /\ TerminalPending = {}
    /\ phase' = IF phase = "recover" THEN "ready" ELSE AfterIteration
    /\ UNCHANGED <<store, busy, worked, disp, kept, outside, history, crashes>>

(* The steering endpoint is up from here on; the plan and the worktrees    *)
(* are prepared before the stale claims are taken back.                    *)
BeginReclaim ==
    /\ phase = "ready"
    /\ phase' = "reclaim"
    /\ UNCHANGED <<store, busy, worked, disp, kept, outside, history, crashes>>

(* reclaimStaleClaims, one event per claimed task.                         *)
Reclaim(t) ==
    /\ phase = "reclaim" /\ status[t] = "claimed"
    /\ Becomes(t, "blocked")
    /\ UNCHANGED <<att, seen, cmd, head, cursor, memory, outside, history, crashes>>

\* Mutant: the claims of a dead parent are believed.
EndReclaim_Trusting ==
    /\ phase = "reclaim"
    /\ phase' = "top"
    /\ UNCHANGED <<store, busy, worked, disp, kept, outside, history, crashes>>

EndReclaim ==
    /\ phase = "reclaim" /\ \A t \in Tasks : status[t] # "claimed"
    /\ phase' = "top"
    /\ UNCHANGED <<store, busy, worked, disp, kept, outside, history, crashes>>

-----------------------------------------------------------------------------
(* One iteration: dispatch a batch, review it, escalate, reconcile.        *)

StartIteration ==
    /\ phase = "top"
    /\ LET batch == {t \in Tasks : Dispatchable(t)} IN
        /\ disp' = [t \in Tasks |-> IF t \in batch THEN "selected" ELSE "none"]
        /\ worked' = (batch # {})
    /\ phase' = "dispatch"
    /\ UNCHANGED <<store, busy, kept, outside, history, crashes>>

At(t, step) == phase = "dispatch" /\ disp[t] = step /\ busy \in {None, t}
Goes(t, step) == disp' = [disp EXCEPT ![t] = step]

(* dispatchTask: the claim is the first thing the board hears.             *)
Claim(t) ==
    /\ At(t, "selected") /\ busy = None
    /\ Becomes(t, "claimed")
    /\ Goes(t, "claimed")
    /\ dispatched' = [dispatched EXCEPT ![t] = @ + 1]
    /\ claimGen' = [claimGen EXCEPT ![t] = NextGen(t)]
    /\ UNCHANGED <<att, seen, cmd, head, cursor, phase, busy, worked, kept, outside, crashes>>

(* No provider, no isolation, or no worktree: blocked without a claim.  A  *)
(* rejected task cannot become blocked: the append throws, the handler's   *)
(* own append throws again, and the task stays rejected.                   *)
CannotClaim(t) ==
    /\ At(t, "selected") /\ busy = None
    /\ \/ /\ Becomes(t, "blocked")
          /\ dispatched' = [dispatched EXCEPT ![t] = @ + 1]
       \/ /\ ~Legal(t, "blocked")
          /\ UNCHANGED <<status, repairs, dispatched>>
    /\ Goes(t, "none")
    /\ UNCHANGED <<att, seen, cmd, head, cursor, phase, busy, worked, kept, outside,
                   claimGen, crashes>>

(* observeWaitingBoundary, after the baseline verification was awaited.    *)
Boundary(t) ==
    /\ At(t, "claimed") /\ busy = None
    /\ busy' = t
    /\ seen' = [seen EXCEPT ![t] = "fresh"]
    /\ Goes(t, "boundary")
    /\ UNCHANGED <<status, repairs, att, cmd, head, cursor, phase, worked, kept, outside,
                   history, crashes>>

(* A repair carries the last failure as a command of the control plane.    *)
Feed(t) ==
    /\ At(t, "boundary") /\ busy = t
    /\ Goes(t, "fed")
    /\ IF repairs[t] = 0
       THEN UNCHANGED <<cmd, head>>
       ELSE LET c == <<t, repairs[t]>> IN
            IF cmd[c].st # "unknown" THEN UNCHANGED <<cmd, head>>
            ELSE IF Refuses(t)
            THEN /\ cmd' = [cmd EXCEPT ![c] = [st |-> "refused", task |-> t, adm |-> 0, nb |-> 0]]
                 /\ UNCHANGED head
            ELSE /\ cmd' = [cmd EXCEPT ![c] = [st |-> "pending", task |-> t, adm |-> head + 1,
                                               nb |-> NextGen(t)]]
                 /\ head' = head + 1
    /\ UNCHANGED <<status, repairs, att, seen, cursor, phase, busy, worked, kept, outside,
                   history, crashes>>

(* The locator is named by task and attempt generation, and the file is    *)
(* created exclusively: an existing one will do only if it is identical.   *)
Locator(t) == file[t][NextGen(t)]

(* publishPromptArtifact, written and synced before it is committed.       *)
Publish(t) ==
    /\ At(t, "fed") /\ busy = t
    /\ Activity(t) = "waiting_input"
    /\ Locator(t) \in {NoFile, Prompt(t)}
    /\ file' = [file EXCEPT ![t][NextGen(t)] = Prompt(t)]
    /\ Goes(t, "published")
    /\ UNCHANGED <<store, phase, busy, worked, kept, journal, live, unproven, history, crashes>>

(* ARTIFACT_EXISTS or BOUNDARY_UNAVAILABLE: the dispatch throws and its    *)
(* handler blocks the task.                                                *)
CannotPublish(t) ==
    /\ At(t, "fed") /\ busy = t
    /\ \/ Activity(t) # "waiting_input"
       \/ Locator(t) \notin {NoFile, Prompt(t)}
    /\ Becomes(t, "blocked")
    /\ busy' = None
    /\ Goes(t, "none")
    /\ UNCHANGED <<att, seen, cmd, head, cursor, phase, worked, kept, outside, history, crashes>>

\* Mutant: the inclusion events are not part of the transaction.
Commit_KeepsPending(t) ==
    /\ At(t, "published") /\ busy = t
    /\ att' = [att EXCEPT ![t] = Append(@, [st |-> "prepared", cmds |-> Selected(t, NextGen(t)),
                                            base |-> repairs[t], planned |-> FALSE, end |-> 0])]
    /\ busy' = None
    /\ Goes(t, "prepared")
    /\ UNCHANGED <<status, repairs, seen, cmd, head, cursor, phase, worked, kept, outside,
                   history, crashes>>

(* prepareAttemptPrompt's transaction: attempt.prompt_prepared and one     *)
(* steering.command_included for every command in the prompt.              *)
Commit(t) ==
    /\ At(t, "published") /\ busy = t
    /\ LET taken == Selected(t, NextGen(t)) IN
        /\ att' = [att EXCEPT ![t] = Append(@, [st |-> "prepared", cmds |-> taken,
                                                base |-> repairs[t], planned |-> FALSE,
                                                end |-> 0])]
        /\ cmd' = [c \in Commands |-> IF c \in taken
                                      THEN [cmd[c] EXCEPT !.st = "included"] ELSE cmd[c]]
    /\ busy' = None
    /\ Goes(t, "prepared")
    /\ UNCHANGED <<status, repairs, seen, head, cursor, phase, worked, kept, outside,
                   history, crashes>>

(* The dispatch throws while the baseline is verified: the handler of the  *)
(* iteration turns every throw into a blocked task.                        *)
Throws(t) ==
    /\ At(t, "claimed") /\ busy = None
    /\ Becomes(t, "blocked")
    /\ Goes(t, "none")
    /\ UNCHANGED <<att, seen, cmd, head, cursor, phase, busy, worked, kept, outside,
                   history, crashes>>

Last(t) == <<t, Len(att[t])>>

(* The ledger denies the reservation, or the router throws.                *)
Refused(t) ==
    /\ At(t, "prepared") /\ busy = None
    /\ Goes(t, "gone")
    /\ UNCHANGED <<store, phase, busy, worked, kept, outside, history, crashes>>

(* attempt.launch_planned, after the reservation and before the spawn.     *)
Plan(t) ==
    /\ At(t, "prepared") /\ busy = None
    /\ att' = [att EXCEPT ![t][Len(att[t])].planned = TRUE]
    /\ Goes(t, "planned")
    /\ UNCHANGED <<status, repairs, seen, cmd, head, cursor, phase, busy, worked, kept, outside,
                   history, crashes>>

-----------------------------------------------------------------------------
(* The launch gate.  The child is forked into its scope and waits; the     *)
(* parent journals the scope, appends attempt.started and only then lets   *)
(* the provider exec (journalAndRelease, one synchronous section).         *)

\* Mutant: the scope line never reaches the disk.
Record_Unsynced(t) ==
    /\ At(t, "planned") /\ busy = None
    /\ busy' = t
    /\ Goes(t, "recorded")
    /\ UNCHANGED <<store, phase, worked, kept, outside, history, crashes>>

Record(t) ==
    /\ At(t, "planned") /\ busy = None
    /\ busy' = t
    /\ journal' = journal \cup {Last(t)}
    /\ Goes(t, "recorded")
    /\ UNCHANGED <<store, phase, worked, kept, file, live, unproven, history, crashes>>

(* refuseLaunch: the spawn, the enrollment, the journal or the start event *)
(* fails; the gate closes and the gated child is reaped unexecuted.        *)
LaunchFails(t) ==
    /\ \/ At(t, "planned") /\ busy = None
       \/ At(t, "recorded") /\ busy = t
    /\ busy' = None
    /\ Goes(t, "gone")
    /\ UNCHANGED <<store, phase, worked, kept, outside, history, crashes>>

Started(t) ==
    /\ At(t, "recorded") /\ busy = t
    /\ att' = [att EXCEPT ![t][Len(att[t])].st = "active"]
    /\ Goes(t, "started")
    /\ UNCHANGED <<status, repairs, seen, cmd, head, cursor, phase, busy, worked, kept, outside,
                   history, crashes>>

Release(t) ==
    /\ At(t, "started") /\ busy = t
    /\ live' = live \cup {Last(t)}
    /\ busy' = None
    /\ Goes(t, "running")
    /\ UNCHANGED <<store, phase, worked, kept, file, journal, unproven, history, crashes>>

(* The turn resolves (doFinish).  As a rule its scope is empty by then: the *)
(* leader closed and nothing was left, or a teardown proved it.  But when  *)
(* the reap of a timeout or of a close cannot prove it, and when standard  *)
(* input has not settled two seconds after the close, the turn resolves    *)
(* over a scope that may be populated: its result is not ok and the scope  *)
(* stays in ctx.ownedScopes, which nothing looks at before finalize.       *)
Exit(t) ==
    /\ At(t, "running")
    /\ \/ live' = live \ {Last(t)} /\ UNCHANGED unproven
       \/ unproven' = unproven \cup {Last(t)} /\ UNCHANGED live
    /\ Goes(t, "gone")
    /\ UNCHANGED <<store, phase, busy, worked, kept, file, journal, history, crashes>>

Running(a) == disp[a[1]] = "running" /\ a = Last(a[1])

(* A provider no turn waits for ends by itself, or finalize tears it down: *)
(* its parent is dead, or has resolved the turn without it.                *)
OrphanExit(a) ==
    /\ a \in live /\ ~Running(a)
    /\ live' = live \ {a}
    /\ UNCHANGED <<store, memory, file, journal, unproven, history, crashes>>

Ended(t) ==
    LET a == att[t][Len(att[t])] IN
    /\ seen' = [seen EXCEPT ![t] = "stale"]
    /\ IF a.st = "active"
       THEN /\ head' = head + 1
            /\ att' = [att EXCEPT ![t][Len(att[t])] = [@ EXCEPT !.st = "exited", !.end = head + 1]]
       ELSE /\ att' = [att EXCEPT ![t][Len(att[t])].st = "abandoned"]
            /\ UNCHANGED head

(* settleDispatchAttempt: exited if it ever started, abandoned if not.     *)
SettleAttempt(t) ==
    /\ At(t, "gone")
    /\ busy = None /\ busy' = t
    /\ Ended(t)
    /\ Goes(t, "settled")
    /\ UNCHANGED <<status, repairs, cmd, cursor, phase, worked, kept, outside, history, crashes>>

(* The result is ok, which it never is over a scope that was populated     *)
(* when the turn resolved; it passes the tampering and no-change checks    *)
(* and is verified.                                                        *)
Verify(t) ==
    /\ At(t, "settled") /\ StateOf(Last(t)) = "exited" /\ Last(t) \notin unproven
    /\ busy' = None
    /\ Goes(t, "verifying")
    /\ UNCHANGED <<store, phase, worked, kept, outside, history, crashes>>

(* The outcome of the dispatch; a blocked attempt loses its worktree.      *)
Finish(t) ==
    /\ \/ At(t, "settled") /\ Becomes(t, "blocked") /\ kept' = kept \ {t}
       \/ At(t, "verifying") /\ busy = None /\ Becomes(t, "blocked") /\ kept' = kept \ {t}
       \/ At(t, "verifying") /\ busy = None /\ Becomes(t, "needs-review") /\ kept' = kept \cup {t}
    /\ busy' = None
    /\ Goes(t, "none")
    /\ UNCHANGED <<att, seen, cmd, head, cursor, phase, worked, outside, history, crashes>>

(* reviewPass folds the board once and goes through what needs review.     *)
EndDispatch ==
    /\ phase = "dispatch" /\ \A t \in Tasks : disp[t] = "none"
    /\ phase' = "review"
    /\ disp' = [t \in Tasks |-> IF status[t] = "needs-review" THEN "review" ELSE "none"]
    /\ UNCHANGED <<store, busy, worked, kept, outside, history, crashes>>

(* One task of the pass: accepted and merged, or rejected.  Without a      *)
(* worktree there is nothing to review; when the integration tip cannot be *)
(* read the worktree is dropped and the task left as it is.                *)
Review(t) ==
    /\ phase = "review" /\ disp[t] = "review"
    /\ Goes(t, "none")
    /\ kept' = kept \ {t}
    /\ \/ Becomes(t, "rejected")
       \/ t \in kept /\ Becomes(t, "done")
       \/ t \in kept /\ UNCHANGED <<status, repairs>>
    /\ UNCHANGED <<att, seen, cmd, head, cursor, phase, busy, worked, outside, history, crashes>>

EndReview ==
    /\ phase = "review" /\ \A t \in Tasks : disp[t] = "none"
    /\ phase' = "escalate"
    /\ UNCHANGED <<store, busy, worked, disp, kept, outside, history, crashes>>

(* escalateExhausted, one event per task.                                  *)
Exhausted(t) == status[t] \in {"blocked", "rejected"} /\ repairs[t] > MaxRepairs

Escalate(t) ==
    /\ phase = "escalate" /\ Exhausted(t)
    /\ Becomes(t, "escalated")
    /\ UNCHANGED <<att, seen, cmd, head, cursor, memory, outside, history, crashes>>

EndEscalate ==
    /\ phase = "escalate" /\ \A t \in Tasks : ~Exhausted(t)
    /\ phase' = "post"
    /\ UNCHANGED <<store, busy, worked, disp, kept, outside, history, crashes>>

-----------------------------------------------------------------------------
(* The parent dies, or a limit of the run (budget, iterations, repeated    *)
(* failure, cancellation) ends it early: what it had in memory is gone.    *)
(* The prompt artifact it was writing may be there in part.                *)
Crash ==
    /\ phase \notin {"down", "stopped", "finished"} /\ crashes < MaxCrashes
    /\ crashes' = crashes + 1
    /\ phase' = "down" /\ busy' = None /\ kept' = {} /\ worked' = FALSE
    /\ disp' = [t \in Tasks |-> "none"]
    /\ \/ UNCHANGED file
       \/ \E t \in Tasks :
             /\ busy = t /\ disp[t] = "fed" /\ Locator(t) = NoFile
             /\ file' = [file EXCEPT ![t][NextGen(t)].st = "torn"]
    /\ unproven' = {}
    /\ UNCHANGED <<store, journal, live, history>>

-----------------------------------------------------------------------------
(* The operator steers over the run's socket while the parent awaits.      *)

Serving == phase \in {"ready", "top", "dispatch", "review"} /\ busy = None

(* admit: a new command for task t, not before attempt nb, optionally in   *)
(* place of an earlier one.  A refusal is recorded too; a retry of a known *)
(* id changes nothing.                                                     *)
Admit(c, t, nb, sup) ==
    /\ Serving /\ cmd[c].st = "unknown" /\ sup # c
    /\ IF Refuses(t) \/ (sup # None /\ ~(Free(sup) /\ cmd[sup].task = t))
       THEN /\ cmd' = [cmd EXCEPT ![c] = [st |-> "refused", task |-> t, adm |-> 0, nb |-> nb]]
            /\ UNCHANGED head
       ELSE /\ head' = head + 1
            /\ cmd' = [d \in Commands |->
                   IF d = c THEN [st |-> "pending", task |-> t, adm |-> head + 1, nb |-> nb]
                   ELSE IF d = sup THEN [cmd[d] EXCEPT !.st = "superseded"] ELSE cmd[d]]
    /\ UNCHANGED <<status, repairs, att, seen, cursor, memory, outside, history, crashes>>

Withdraw(c) ==
    /\ Serving /\ Free(c)
    /\ cmd' = [cmd EXCEPT ![c].st = "withdrawn"]
    /\ UNCHANGED <<status, repairs, att, seen, head, cursor, memory, outside, history, crashes>>

-----------------------------------------------------------------------------

Recovery ==
    \/ \E a \in Tasks \X Gens : AbandonPrepared(a) \/ RecordExit(a) \/ Settle(a)
    \/ RefuseTerminal \/ Reconciled

MainLine ==
    \/ BeginReclaim \/ EndReclaim \/ StartIteration \/ EndDispatch \/ EndReview \/ EndEscalate
    \/ \E t \in Tasks : Reclaim(t) \/ Review(t) \/ Escalate(t)

Dispatching(t) ==
    \/ Claim(t) \/ CannotClaim(t) \/ Throws(t) \/ Boundary(t) \/ Feed(t)
    \/ Publish(t) \/ CannotPublish(t) \/ Commit(t) \/ Refused(t) \/ Plan(t)
    \/ Record(t) \/ LaunchFails(t) \/ Started(t) \/ Release(t) \/ Exit(t)
    \/ SettleAttempt(t) \/ Verify(t) \/ Finish(t)

Operator ==
    \/ \E c \in OpCmds, t \in Tasks, nb \in Gens, sup \in Commands \cup {None} :
            Admit(c, t, nb, sup)
    \/ \E c \in Commands : Withdraw(c)

Next ==
    \/ Boot \/ Reap \/ ReapUnresolved \/ Recovery \/ IdentityBlocked
    \/ MainLine
    \/ \E t \in Tasks : Dispatching(t)
    \/ \E a \in Tasks \X Gens : OrphanExit(a)
    \/ Operator
    \/ Crash

(* Node runs every ready callback, providers are bounded by their timeout, *)
(* and an operator starts a stopped run again.  A scope that cannot be     *)
(* emptied or a reused pid may send the parent back any number of times,   *)
(* not for ever: hence strong fairness there.                              *)
Fairness ==
    /\ WF_vars(Boot) /\ SF_vars(Reap) /\ SF_vars(Recovery)
    /\ WF_vars(MainLine)
    /\ \A t \in Tasks : WF_vars(Dispatching(t))

Spec == Init /\ [][Next]_vars /\ Fairness

(* The host can make a worktree for every task now and then.               *)
SteadySpec == Spec /\ \A t \in Tasks : SF_vars(Claim(t))

-----------------------------------------------------------------------------
(* Properties                                                              *)

AttemptRecord == [st : AttStates, cmds : SUBSET Commands, base : 0..MaxRepairs,
                  planned : BOOLEAN, end : Nat]

(* The state the projections and the parent's memory can hold; the repair  *)
(* count never passes the one that escalates (maxRepairs + 1).             *)
TypeOK ==
    /\ phase \in Phases /\ busy \in Tasks \cup {None} /\ worked \in BOOLEAN
    /\ status \in [Tasks -> Statuses]
    /\ repairs \in [Tasks -> 0..(MaxRepairs + 1)]
    /\ \A t \in Tasks :
        /\ Len(att[t]) <= MaxRepairs + 1
        /\ \A g \in 1..Len(att[t]) : att[t][g] \in AttemptRecord
    /\ seen \in [Tasks -> {"never", "fresh", "stale"}]
    /\ cmd \in [Commands -> [st : CmdStates, task : Tasks \cup {None}, adm : Nat, nb : Nat]]
    /\ head \in Nat /\ cursor \in 0..head
    /\ disp \in [Tasks -> DispSteps] /\ kept \subseteq Tasks
    /\ file \in [Tasks -> [Gens -> [st : {"none", "torn", "whole"}, cmds : SUBSET Commands,
                                    base : 0..MaxRepairs]]]
    /\ journal \subseteq Tasks \X Gens /\ live \subseteq Tasks \X Gens
    /\ unproven \subseteq Tasks \X Gens
    /\ crashes \in 0..MaxCrashes
    /\ dispatched \in [Tasks -> Nat] /\ claimGen \in [Tasks -> 0..(MaxRepairs + 1)]

(* The launch gate: a provider that may exec is one a later incarnation    *)
(* can find and kill (its scope is journalled) and whose start the store   *)
(* has recorded under a planned launch.                                    *)
RunningIsRecorded ==
    \A a \in live :
        /\ a \in journal
        /\ a \in Attempts /\ StateOf(a) \in {"active", "exited"} /\ att[a[1]][a[2]].planned

(* reapAbandonedScopes: once recovery has begun, no provider of an earlier *)
(* incarnation is left.  A live one is the one its dispatch waits for, or  *)
(* one whose turn this incarnation has resolved over a live scope.         *)
NoGhost ==
    phase \notin {"down", "reap"} => \A a \in live : Running(a) \/ a \in unproven

(* dispatchTask and reviewPass: the attempt whose work is being verified,  *)
(* waits for its review or was accepted has no process that could still    *)
(* write to its worktree, in whatever way its turn was resolved.           *)
ReviewedIsQuiet ==
    \A a \in live : a = Last(a[1]) =>
        disp[a[1]] # "verifying" /\ status[a[1]] \notin {"needs-review", "done"}

(* However parents die and restart and scopes fail to empty, every         *)
(* provider process is one that recovery can name and kill, none outlives  *)
(* the reap of a successor into the dispatches of that successor, and none *)
(* belongs to the work that is under review.                               *)
AgentsKnown == RunningIsRecorded /\ NoGhost /\ ReviewedIsQuiet

(* prepareAttemptPrompt: a command is delivered in one prompt or in none,  *)
(* and it counts as included exactly when a manifest holds it.             *)
IncludedOnce ==
    \A c \in Commands :
        LET holders == {a \in Attempts : c \in att[a[1]][a[2]].cmds} IN
        /\ Cardinality(holders) <= 1
        /\ (cmd[c].st = "included") <=> (holders # {})
        /\ \A a \in holders : a[1] = cmd[c].task /\ cmd[c].nb <= a[2]

(* publishPromptArtifact before the commit: what a manifest names is what  *)
(* is on disk, so recovery's verifyAttempt never finds another prompt.     *)
PromptIsManifest == ArtifactsVerified

(* selectSteeringBoundary takes a prefix: a command never overtakes one    *)
(* for the same session that was admitted earlier, was allowed at that     *)
(* attempt and is still waiting.                                           *)
NoLeapfrog ==
    \A a \in Attempts : \A c \in att[a[1]][a[2]].cmds : \A d \in Commands :
        (cmd[d].st = "pending" /\ cmd[d].task = a[1] /\ cmd[d].nb <= a[2])
            => cmd[c].adm < cmd[d].adm

(* Commands reach an agent once, in order, and in the prompt the manifest  *)
(* of the attempt describes.                                               *)
DeliveredOnce == IncludedOnce /\ NoLeapfrog /\ PromptIsManifest

(* completeExitedSettlement: the settlement cursor passes an exit only     *)
(* together with its consequence for the task the attempt was claimed for. *)
CursorMeansSettled ==
    \A t \in Tasks :
        (status[t] = "claimed" /\ claimGen[t] <= Len(att[t])
            /\ att[t][claimGen[t]].st = "exited")
        => att[t][claimGen[t]].end > cursor

(* One attempt costs one repair: however a dispatch ends - blocked by its  *)
(* outcome, its handler, a crash, recovery's settlement, the reclaim or    *)
(* the review - exactly one failure is counted for it.                     *)
OneRepairPerDispatch ==
    \A t \in Tasks :
        /\ dispatched[t] = repairs[t]
                + (IF status[t] \in {"claimed", "needs-review", "done"} THEN 1 ELSE 0)
        /\ dispatched[t] <= MaxRepairs + 1

(* The exits a cursor has passed are settled and each dispatch is charged  *)
(* to its task once, by whichever of the five places saw it end.           *)
AttemptsCounted == CursorMeansSettled /\ OneRepairPerDispatch

(* Every task is accepted or handed to a human, crashes notwithstanding:   *)
(* repaired up to maxRepairs and then escalated, however its dispatches    *)
(* fail.                                                                   *)
TasksEnd == \A t \in Tasks : <>[]TaskOver(t)

(* No admitted command stays pending for ever: it is delivered, refused,   *)
(* withdrawn or superseded.                                                *)
CommandsResolve == \A c \in Commands : cmd[c].st = "pending" ~> cmd[c].st # "pending"

(* Nothing waits for ever: tasks end, and so does the wait of a command,   *)
(* also of one whose task ends before another attempt.                     *)
WorkEnds == TasksEnd /\ CommandsResolve

(* What a comment of prompt-manifest.ts promises of recovery: an artifact  *)
(* no manifest names does not stand in the way of the next attempt.        *)
LocatorFree ==
    phase = "top" => \A t \in Tasks : Dispatchable(t) => Locator(t) = NoFile

(* The reason a stopped run reports, "no dispatchable work found".         *)
StoppedMeansNoWork ==
    phase = "stopped" => \A t \in Tasks : ~Dispatchable(t)

(* What a comment of the launch transport says of every turn, "never over  *)
(* a live provider-owned scope", would give: one agent per task.           *)
OneAgentPerTask == \A a, b \in live : a[1] = b[1] => a = b
====
