--------------------------- MODULE ControlReducer ---------------------------
(***************************************************************************)
(* The reducer of the control store (src/control/reducer.ts): how one      *)
(* event changes the projection of a run, when it is refused, and which    *)
(* rows of the projection tables it rewrites (control/store.ts).           *)
(*                                                                         *)
(* A projection is a record.  A row that does not exist is written with    *)
(* generation 0, status "none" or version Absent.  Texts, digests and      *)
(* clocks are left out, and so are the extension facts (source control,    *)
(* observations and multi-repository), which have no rows: every load      *)
(* replays them from the log.  The counters of a checkpoint are abstracted *)
(* to whether it is final.                                                 *)
(***************************************************************************)
EXTENDS Integers, Sequences, FiniteSets

CONSTANTS
    Tasks, Sessions, Attempts, Commands,    \* the names events may carry
    EventIds, Sources, Roles,
    MaxGen,                                 \* bound: generations of a task or session
    None

ASSUME MaxGenAssumption == MaxGen \in Nat \ {0}
ASSUME NoneAssumption == None \notin Tasks \cup Sessions \cup Attempts \cup Commands \cup Roles
                                       \cup Sources

Absent == -1

Statuses == {"open", "claimed", "in-progress", "needs-review", "blocked",
             "rejected", "done", "escalated"}
Observations == {"available", "waiting_input", "blocked", "exited", "probe_failed"}
RunEnds == {"run.completed", "run.failed", "run.cancelled"}
CommandEnds == {"steering.command_withdrawn", "steering.command_superseded",
                "steering.command_expired"}
SteeringTypes == CommandEnds \cup
    {"steering.command_admitted", "steering.command_refused",
     "steering.command_terminal_refused", "steering.command_included"}
AttemptTypes == {"attempt.prompt_prepared", "attempt.launch_planned",
                 "attempt.started", "attempt.exited", "attempt.abandoned"}
TaskTypes == {"task.created", "task.status_changed", "task.reopened"}
RunTypes == RunEnds \cup {"run.started", "run.checkpointed"}
EventTypes == RunTypes \cup TaskTypes \cup AttemptTypes \cup SteeringTypes
                \cup {"message.posted", "runtime.observed"}

Generations == 1 .. MaxGen
RunKey == <<"run", None, 1>>
TaskKey(t, g) == <<"task", t, g>>
SessionKey(s, g) == <<"session", s, g>>
Keys == {RunKey}
          \cup {TaskKey(t, g) : t \in Tasks, g \in Generations}
          \cup {SessionKey(s, g) : s \in Sessions, g \in Generations}

NoRun == [status |-> "none", ver |-> 0, ckpt |-> "none"]
NoTask == [gen |-> 0, status |-> "none", by |-> None, fails |-> 0, ver |-> 0]
NoRuntime == [gen |-> 0, obs |-> "none", task |-> None, tgen |-> 0]
NoAttempt == [state |-> "none", gen |-> 0, task |-> None, tgen |-> 0,
              sess |-> None, sgen |-> 0, launch |-> FALSE, cmds |-> {}]
NoCommand == [status |-> "none", task |-> None, tgen |-> 0,
              sess |-> None, sgen |-> 0]

emptyControlProjection ==
    [head     |-> 0,
     run      |-> NoRun,
     tasks    |-> [t \in Tasks |-> NoTask],
     messages |-> {},
     runtimes |-> [s \in Sessions |-> NoRuntime],
     attempts |-> [a \in Attempts |-> NoAttempt],
     steering |-> [k \in Commands |-> NoCommand],
     versions |-> [k \in Keys |-> Absent]]

allowedTransitions ==
    [s \in Statuses |->
        CASE s = "open"         -> {"claimed", "blocked", "escalated"}
          [] s = "claimed"      -> {"in-progress", "needs-review", "blocked", "rejected",
                                    "escalated"}
          [] s = "in-progress"  -> {"needs-review", "blocked", "rejected", "escalated"}
          [] s = "needs-review" -> {"done", "rejected", "blocked", "escalated"}
          [] s \in {"blocked", "rejected"} -> {"claimed", "in-progress", "escalated"}
          [] OTHER              -> {}]

-----------------------------------------------------------------------------
(* An event: its id, its type, the task and session it is fenced by, the    *)
(* version it expects, the role, and of its payload the name of the message,*)
(* attempt or command (key), a status or observation (st), a generation     *)
(* (num), the attempt a command went into (att), the commands of a prompt   *)
(* (cmds), the external source it came from (src) and, for the effect of a  *)
(* consumer, the events it has handled (range).                             *)

ControlEvents ==
    [id : EventIds, type : EventTypes, task : Tasks \cup {None}, tgen : Nat,
     sess : Sessions \cup {None}, sgen : Nat, ver : Nat, who : Roles,
     key : EventIds \cup Attempts \cup Commands \cup {None},
     st : Statuses \cup Observations \cup {"running", "final", "none"}, num : Nat,
     att : Attempts \cup {None}, cmds : SUBSET Commands, src : Sources \cup {None},
     range : Nat \X Nat]

Event(id, i, tgen, sgen, ver, key, num, range) ==
    [id |-> id, type |-> i.type, task |-> i.task, tgen |-> tgen, sess |-> i.sess, sgen |-> sgen,
     ver |-> ver, who |-> i.who, key |-> key, st |-> i.st, num |-> num, att |-> i.att,
     cmds |-> i.cmds, src |-> i.src, range |-> range]

(* The aggregate an event is versioned under (events.ts aggregateForEvent): *)
(* attempts and messages of a task share the task's aggregate, steering     *)
(* shares the session's.                                                    *)

aggregateForEvent(e) ==
    IF e.type \in SteeringTypes \cup {"runtime.observed"} THEN SessionKey(e.sess, e.sgen)
    ELSE IF e.task # None THEN TaskKey(e.task, e.tgen)
    ELSE RunKey

VersionOf(p, k) == IF k \in Keys /\ p.versions[k] # Absent THEN p.versions[k] ELSE 0

\* events.ts: the scope an event type must have.
assertControlEventScope(e) ==
    /\ e.type \in TaskTypes \cup AttemptTypes \cup SteeringTypes => e.task # None
    /\ e.type \in RunTypes => e.task = None
    /\ (e.task = None) <=> (e.tgen = 0)

assertTask(p, t, g) == p.tasks[t].gen = g /\ g # 0
assertSession(p, s, g) == p.runtimes[s].gen = g /\ g # 0

Assigned(p, e) ==
    /\ assertTask(p, e.task, e.tgen)
    /\ assertSession(p, e.sess, e.sgen)
    /\ p.runtimes[e.sess].task = e.task
    /\ p.runtimes[e.sess].tgen = e.tgen

SameAttempt(p, e) ==
    LET a == p.attempts[e.key]
    IN  a.gen = e.num /\ a.sess = e.sess /\ a.sgen = e.sgen

\* n is one more than the largest attempt generation of task t at generation g.
NextAttempt(p, t, g, n) ==
    LET prior == {a \in Attempts : p.attempts[a].task = t /\ p.attempts[a].tgen = g}
    IN  /\ \A a \in prior : p.attempts[a].gen < n
        /\ n = 1 \/ \E a \in prior : p.attempts[a].gen = n - 1

-----------------------------------------------------------------------------
(* store.ts validateFences: what a transaction checks before it inserts.    *)

\* A writer that only checked that the task exists.
TaskFence_AnyGeneration(p, e) ==
    IF e.type = "task.created" THEN p.tasks[e.task].gen = 0 /\ e.tgen = 1
    ELSE e.task = None \/ p.tasks[e.task].gen # 0

TaskFence(p, e) ==
    IF e.type = "task.created" THEN p.tasks[e.task].gen = 0 /\ e.tgen = 1
    ELSE \/ e.task = None
         \/ e.type \in {"steering.command_refused", "steering.command_terminal_refused"}
         \/ assertTask(p, e.task, e.tgen)

SessionFence(p, e) ==
    /\ e.type = "runtime.observed" => e.sgen >= p.runtimes[e.sess].gen
    /\ e.type \in CommandEnds \cup {"steering.command_admitted", "steering.command_included"}
        => assertSession(p, e.sess, e.sgen)

validateFences(p, e) ==
    /\ TaskFence(p, e)
    /\ SessionFence(p, e)
    /\ e.ver = VersionOf(p, aggregateForEvent(e))

-----------------------------------------------------------------------------
(* reducer.ts applyControlEvent: when an event is refused, one conjunct per *)
(* family, and what it does to the state, one operator per family.          *)

RunAllows(p, e) ==
    CASE e.type = "run.started" -> p.run.status = "none" /\ e.ver = 0
      [] e.type = "run.checkpointed" -> p.run.status = "started" /\ p.run.ckpt # "final"
      [] OTHER -> p.run.status = "started"

TaskAllows(p, e) ==
    LET t == p.tasks[e.task]
    IN  CASE e.type = "task.created" -> t.gen = 0
          [] e.type = "task.reopened" ->
                /\ assertTask(p, e.task, e.tgen)
                /\ t.status \in {"done", "escalated"}
                /\ e.num = t.gen + 1
          [] OTHER ->
                /\ assertTask(p, e.task, e.tgen)
                /\ e.st = t.status \/ e.st \in allowedTransitions[t.status]
                /\ \/ t.by \in {None, e.who}
                   \/ e.st \in {"blocked", "rejected", "escalated"}

RuntimeAllows(p, e) ==
    LET r == p.runtimes[e.sess]
    IN  /\ e.task # None => assertTask(p, e.task, e.tgen)
        /\ e.sgen >= r.gen
        /\ (r.gen # 0 /\ e.sgen > r.gen) => r.obs = "exited"
        /\ (r.gen # 0 /\ e.sgen = r.gen) =>
              /\ r.obs = "exited" => e.st = "exited"
              /\ r.task = e.task /\ r.tgen = e.tgen

\* attempt.launch_planned, started, exited and abandoned name an attempt in a given state.
AttemptAllows(p, e) ==
    LET a == p.attempts[e.key]
    IN  CASE e.type = "attempt.prompt_prepared" ->
                /\ Assigned(p, e)
                /\ a.state = "none"
                /\ NextAttempt(p, e.task, e.tgen, e.num)
          [] e.type = "attempt.launch_planned" ->
                a.state = "prepared" /\ ~a.launch /\ SameAttempt(p, e)
          [] e.type = "attempt.started" ->
                a.state = "prepared" /\ a.launch /\ SameAttempt(p, e)
          [] e.type = "attempt.exited"         -> a.state = "active" /\ SameAttempt(p, e)
          [] e.type = "attempt.abandoned"      -> a.state = "prepared" /\ SameAttempt(p, e)

SteeringAllows(p, e) ==
    LET k == p.steering[e.key]
    IN  CASE e.type = "steering.command_admitted" -> Assigned(p, e) /\ k.status = "none"
          [] e.type = "steering.command_refused"  -> k.status = "none"
          [] e.type = "steering.command_terminal_refused" ->
                /\ k.status = "pending"
                /\ k.task = e.task /\ k.tgen = e.tgen
                /\ k.sess = e.sess /\ k.sgen = e.sgen
          [] e.type = "steering.command_included" ->
                /\ k.status = "pending"
                /\ e.att \in Attempts
                /\ p.attempts[e.att].state = "prepared"
                /\ e.key \in p.attempts[e.att].cmds
          [] OTHER -> k.status = "pending"

MessageAllows(p, e) ==
    /\ e.task # None => assertTask(p, e.task, e.tgen)
    /\ e.key \notin p.messages

\* What applyControlEvent demands of event e at sequence number seq.
Reducible(p, e, seq) ==
    /\ assertControlEventScope(e)
    /\ seq = p.head + 1
    /\ e.ver = VersionOf(p, aggregateForEvent(e))
    /\ CASE e.type \in RunTypes          -> RunAllows(p, e)
         [] e.type \in TaskTypes         -> TaskAllows(p, e)
         [] e.type \in AttemptTypes      -> AttemptAllows(p, e)
         [] e.type \in SteeringTypes     -> SteeringAllows(p, e)
         [] e.type = "message.posted"    -> MessageAllows(p, e)
         [] e.type = "runtime.observed"  -> RuntimeAllows(p, e)

ReduceRun(r, e) ==
    CASE e.type = "run.started"      -> [status |-> "started", ver |-> 1, ckpt |-> "none"]
      [] e.type = "run.checkpointed" -> [r EXCEPT !.ckpt = e.st, !.ver = e.ver + 1]
      [] OTHER                       -> [r EXCEPT !.status = e.type, !.ver = e.ver + 1]

ReduceTask(t, e) ==
    CASE e.type = "task.created" ->
            [gen |-> e.tgen, status |-> "open", by |-> None, fails |-> 0, ver |-> e.ver + 1]
      [] e.type = "task.reopened" ->
            [gen |-> e.num, status |-> "open", by |-> None, fails |-> 0, ver |-> 0]
      [] OTHER ->
            [t EXCEPT !.status = e.st,
                      !.by     = IF e.st = "claimed" THEN e.who ELSE @,
                      !.fails  = IF e.st \in {"blocked", "rejected"} THEN @ + 1 ELSE @,
                      !.ver    = e.ver + 1]

ReduceAttempt(a, e) ==
    CASE e.type = "attempt.prompt_prepared" ->
            [state |-> "prepared", gen |-> e.num, task |-> e.task, tgen |-> e.tgen,
             sess |-> e.sess, sgen |-> e.sgen, launch |-> FALSE, cmds |-> e.cmds]
      [] e.type = "attempt.launch_planned" -> [a EXCEPT !.launch = TRUE]
      [] e.type = "attempt.started"        -> [a EXCEPT !.state = "active"]
      [] e.type = "attempt.exited"         -> [a EXCEPT !.state = "exited"]
      [] e.type = "attempt.abandoned"      -> [a EXCEPT !.state = "abandoned"]

ReduceCommand(k, e) ==
    CASE e.type \in {"steering.command_admitted", "steering.command_refused"} ->
            [status |-> IF e.type = "steering.command_admitted" THEN "pending" ELSE "refused",
             task |-> e.task, tgen |-> e.tgen, sess |-> e.sess, sgen |-> e.sgen]
      [] e.type = "steering.command_terminal_refused" -> [k EXCEPT !.status = "refused"]
      [] e.type = "steering.command_included"         -> [k EXCEPT !.status = "included"]
      [] OTHER                                        -> [k EXCEPT !.status = e.type]

\* The version rows after e: its own aggregate moves on, and reopening a task opens the
\* aggregate of the new generation at version 0.
ReduceVersions(v, e) ==
    [k \in Keys |->
        IF k = aggregateForEvent(e) THEN e.ver + 1
        ELSE IF e.type = "task.reopened" /\ k = TaskKey(e.task, e.num) THEN 0
        ELSE v[k]]

applyControlEvent(p, e) ==
    [head     |-> p.head + 1,
     run      |-> IF e.type \in RunTypes THEN ReduceRun(p.run, e) ELSE p.run,
     tasks    |-> IF e.type \in TaskTypes
                  THEN [p.tasks EXCEPT ![e.task] = ReduceTask(@, e)] ELSE p.tasks,
     messages |-> IF e.type = "message.posted" THEN p.messages \cup {e.key} ELSE p.messages,
     runtimes |-> IF e.type = "runtime.observed"
                  THEN [p.runtimes EXCEPT ![e.sess] =
                          [gen |-> e.sgen, obs |-> e.st, task |-> e.task, tgen |-> e.tgen]]
                  ELSE p.runtimes,
     attempts |-> IF e.type \in AttemptTypes
                  THEN [p.attempts EXCEPT ![e.key] = ReduceAttempt(@, e)] ELSE p.attempts,
     steering |-> IF e.type \in SteeringTypes
                  THEN [p.steering EXCEPT ![e.key] = ReduceCommand(@, e)] ELSE p.steering,
     versions |-> ReduceVersions(p.versions, e)]

\* reduceControlEvents, from state p: the state after log, and whether every event of log was
\* accepted on the state before it (the code throws at the first that is not).
Replay(p, log) ==
    LET f[n \in 0 .. Len(log)] ==
            IF n = 0 THEN [state |-> p, ok |-> TRUE]
            ELSE LET q == f[n - 1]
                 IN  [state |-> applyControlEvent(q.state, log[n]),
                      ok    |-> q.ok /\ Reducible(q.state, log[n], p.head + n)]
    IN  f[Len(log)]

reduceControlEvents(p, log) == Replay(p, log).state

Replays(log) == Replay(emptyControlProjection, log).ok

-----------------------------------------------------------------------------
(* store.ts persistProjectionDelta: the rows of tables rewritten from the   *)
(* reduced state p after event e; every other row keeps its old content.    *)

DeltaKeys(e) ==
    {aggregateForEvent(e)} \cup
        (IF e.type = "task.reopened" THEN {TaskKey(e.task, e.num)} ELSE {})

persistProjectionDelta(tables, p, e) ==
    [tables EXCEPT
        !.run      = IF e.type \in RunTypes THEN p.run ELSE @,
        !.tasks    = [t \in Tasks |-> IF e.type \in TaskTypes /\ t = e.task
                                      THEN p.tasks[t] ELSE tables.tasks[t]],
        !.messages = @ \cup (IF e.type = "message.posted" THEN {e.key} ELSE {}),
        !.runtimes = [s \in Sessions |-> IF e.type = "runtime.observed" /\ s = e.sess
                                         THEN p.runtimes[s] ELSE tables.runtimes[s]],
        !.attempts = [a \in Attempts |-> IF e.type \in AttemptTypes /\ a = e.key
                                         THEN p.attempts[a] ELSE tables.attempts[a]],
        !.steering = [k \in Commands |-> IF e.type \in SteeringTypes /\ k = e.key
                                         THEN p.steering[k] ELSE tables.steering[k]],
        !.versions = [k \in Keys |-> IF k \in DeltaKeys(e) THEN p.versions[k]
                                     ELSE tables.versions[k]]]
=============================================================================
