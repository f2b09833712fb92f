---------------------------- MODULE MCMultiRepo ----------------------------
(* The four parts of a multi-repository run.  They meet only through their *)
(* outcomes, so each behaviour exercises one of them, the subject.         *)
EXTENDS WorktreeGroup, RepoTransaction, RepoTask, RepoAuthority

CONSTANT Subjects    \* the parts this run looks at

VARIABLE focus       \* the subject of this behaviour

mcVars == <<focus, groupVars, vectorVars, taskVars, lockVars>>

Init ==
  focus \in Subjects /\ GroupInit /\ VectorInit /\ TaskInit /\ LockInit

Next ==
  /\ UNCHANGED focus
  /\ \/ focus = "group" /\ GroupNext /\ UNCHANGED <<vectorVars, taskVars, lockVars>>
     \/ focus = "vector" /\ VectorNext /\ UNCHANGED <<groupVars, taskVars, lockVars>>
     \/ focus = "task" /\ TaskNext /\ UNCHANGED <<groupVars, vectorVars, lockVars>>
     \/ focus = "lock" /\ LockNext /\ UNCHANGED <<groupVars, vectorVars, taskVars>>

(* VectorFairness and TaskFairness of the behaviours that have the subject. *)
Spec ==
  /\ Init /\ [][Next]_mcVars
  /\ WF_vectorVars(focus = "vector" /\ VectorProgress)
  /\ WF_vectorVars(focus = "vector" /\ appendIntegrationFact)
  /\ WF_taskVars(focus = "task" /\ ParentStep)
  /\ WF_taskVars(focus = "task" /\ workerStops)
  /\ WF_taskVars(focus = "task" /\ TaskRestart)
============================================================================
