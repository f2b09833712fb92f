--------------------------- MODULE MCControlStore ---------------------------
(***************************************************************************)
(* Small instances of ControlStore: one task, one session, two attempts   *)
(* and one command; a store to be created and two with a history.          *)
(***************************************************************************)
EXTENDS ControlStore, TLC

\* An event to be of type ty about task t, session s and name k, with status st.
Want(ty, t, s, k, st) ==
    [type |-> ty, task |-> t, sess |-> s, key |-> k, st |-> st, who |-> "dev", att |-> "a1",
     cmds |-> {"k1"}, src |-> None]

Plain(ty, t) == Want(ty, t, None, None, "none")
Turn(st) == Want("task.status_changed", "t1", None, None, st)
See(st) == Want("runtime.observed", "t1", "s1", None, st)
Try(ty, a) == [Want(ty, "t1", "s1", a, "none") EXCEPT !.cmds = IF a = "a1" THEN {"k1"} ELSE {}]
Steer(ty) == Want(ty, "t1", "s1", "k1", "none")

Post == Plain("message.posted", "t1")

MCBatches ==
    {<<Plain("run.started", None), Want("run.checkpointed", None, None, None, "running")>>,
     <<Plain("task.created", "t1")>>,
     <<Plain("task.reopened", "t1")>>,
     <<[Post EXCEPT !.src = "x1"]>>,
     <<Try("attempt.prompt_prepared", "a1"), Steer("steering.command_included")>>,
     <<Steer("steering.command_withdrawn")>>,
     <<Try("attempt.exited", "a2")>>}

\* What a settlement writes along with its cursor; the store does not look at what it is.
MCEffects == {Post}

History(i) == ComposeAll(emptyControlProjection, i, [n \in 1 .. Len(i) |-> <<"seed", n>>])

Assignment == <<Plain("run.started", None), Plain("task.created", "t1"), See("available")>>

Ran(a) ==
    <<Try("attempt.prompt_prepared", a), Try("attempt.launch_planned", a), Try("attempt.started", a)>>

MCSeeds ==
    {<< >>,
     History(Assignment \o <<Steer("steering.command_admitted")>>),
     History(Assignment \o Ran("a1") \o <<Try("attempt.exited", "a1")>> \o Ran("a2")
                \o <<Turn("escalated")>>)}

MCEventIds == Ids \cup {<<"seed", n>> : n \in 1 .. 11}

Symmetry == Permutations(Clients) \cup Permutations(Ids)
=============================================================================
