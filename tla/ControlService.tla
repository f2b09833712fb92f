--------------------------- MODULE ControlService ---------------------------
(* Who may hold a configuration's stores open, and who says it serves them   *)
(* (control/lease.ts, runfile.ts, service.ts, client.ts, the lifecycle of    *)
(* ControlHttpServer, disposePreparedRun).  A process is a standalone        *)
(* service, which opens every store itself, or a run, which lends its own    *)
(* store to the service it starts.  Both take the configuration's lease      *)
(* first: a SQLite transaction the kernel ends with the process.  Handles    *)
(* are closed, the discovery file is removed and the lease is released one   *)
(* after the other, with the other processes in between.                     *)
EXTENDS Integers

CONSTANTS Processes,        \* process incarnations
          MaxCloseFailures  \* stores that fail to close

ASSUME ServiceBounds == Processes \subseteq Nat \ {0} /\ MaxCloseFailures \in Nat

VARIABLES
  kind,        \* [Processes -> {"serve", "run"}]
  at,          \* [Processes -> where its lifecycle is]
  handles,     \* processes with a store open for writing
  claimed,     \* processes whose service borrows the lease
  lease,       \* the owner of the lifetime lease, 0 for none
  runLease,    \* the writer named by .loop.lease, 0 for none
  port,        \* the process listening on the port, 0 for none
  runFile,     \* the process the discovery file names, 0 for none
  stopper,     \* `loop serve stop`: [at, round, target]
  closeFailures

serviceVars == <<kind, at, handles, claimed, lease, runLease, port, runFile,
                 stopper, closeFailures>>

ServiceInit ==
  /\ kind \in [Processes -> {"serve", "run"}]
  /\ at = [i \in Processes |-> "idle"] /\ handles = {} /\ claimed = {}
  /\ lease = 0 /\ runLease = 0 /\ port = 0 /\ runFile = 0
  /\ stopper = [at |-> "idle", round |-> 1, target |-> 0] /\ closeFailures = 0

Alive(i) == at[i] \notin {"idle", "exited"}
Goes(i, phase) == at' = [at EXCEPT ![i] = phase]

-----------------------------------------------------------------------------
(* Taking the lease and opening the stores.                                   *)

\* BEGIN IMMEDIATE without waiting: refused while another process holds it, and
\* also while a probe is trying it.
acquireControlLease(i) ==
  /\ at[i] = "idle"
  /\ \/ lease = 0 /\ lease' = i /\ Goes(i, "owner")
     \/ lease' = lease /\ Goes(i, "exited")
  /\ UNCHANGED <<kind, handles, claimed, runLease, port, runFile, stopper, closeFailures>>

\* A run takes its own lease and opens its store; its service is optional.
openRun(i) ==
  /\ at[i] = "owner" /\ kind[i] = "run"
  /\ handles' = handles \cup {i} /\ runLease' = i
  /\ \/ claimed' = claimed \cup {i} /\ Goes(i, "opened")
     \/ claimed' = claimed /\ Goes(i, "closed")
  /\ UNCHANGED <<kind, lease, port, runFile, stopper, closeFailures>>

assertNoActiveRunWriter == runLease # 0 => ~Alive(runLease)

\* The run lease is looked at before and after a store is opened.
discoverStandaloneSources(i) ==
  /\ at[i] = "owner" /\ kind[i] = "serve"
  /\ claimed' = claimed \cup {i}
  /\ IF assertNoActiveRunWriter
       THEN handles' = handles \cup {i} /\ Goes(i, "checking")
       ELSE handles' = handles /\ Goes(i, "unwinding")
  /\ UNCHANGED <<kind, lease, runLease, port, runFile, stopper, closeFailures>>

\* Another run, project or registry entry may still refuse the discovery.
discoveryEnds(i) ==
  /\ at[i] = "checking"
  /\ \/ assertNoActiveRunWriter /\ Goes(i, "opened")
     \/ Goes(i, "unwinding")
  /\ UNCHANGED <<kind, handles, claimed, lease, runLease, port, runFile, stopper, closeFailures>>

-----------------------------------------------------------------------------
(* Closing, in the order the server enforces.  A run's service closes no      *)
(* store and gives the lease back to its run.                                 *)

\* Mutant: the cleanup is best effort, and goes on when a store did not close.
closeStores_BestEffort(i, onFailure, next) ==
  /\ \/ handles' = (IF kind[i] = "serve" THEN handles \ {i} ELSE handles)
        /\ closeFailures' = closeFailures
     \/ /\ kind[i] = "serve" /\ i \in handles /\ closeFailures < MaxCloseFailures
        /\ closeFailures' = closeFailures + 1 /\ handles' = handles
  /\ Goes(i, next)

closeStores(i, onFailure, next) ==
  \/ /\ handles' = (IF kind[i] = "serve" THEN handles \ {i} ELSE handles)
     /\ closeFailures' = closeFailures /\ Goes(i, next)
  \/ /\ kind[i] = "serve" /\ i \in handles /\ closeFailures < MaxCloseFailures
     /\ closeFailures' = closeFailures + 1 /\ handles' = handles /\ Goes(i, onFailure)

\* A startup that failed before there was a server.
unwindStartup(i) ==
  /\ at[i] = "unwinding"
  /\ closeStores(i, "stuck", "release")
  /\ UNCHANGED <<kind, claimed, lease, runLease, port, runFile, stopper>>

\* rollbackStartup and shutdownInternal: the listener and its streams go first.
closeListener(i) ==
  /\ at[i] \in {"rollback", "closing"}
  /\ port' = (IF port = i THEN 0 ELSE port) /\ Goes(i, "stores")
  /\ UNCHANGED <<kind, handles, claimed, lease, runLease, runFile, stopper, closeFailures>>

closeServiceStores(i) ==
  /\ at[i] = "stores"
  /\ closeStores(i, "failed", "runfile")
  /\ UNCHANGED <<kind, claimed, lease, runLease, port, runFile, stopper>>

\* Only its own file; a failed removal does not keep the lease.
removeRunFileIfOwned(i) ==
  /\ at[i] = "runfile"
  /\ runFile' \in (IF runFile = i THEN {0, i} ELSE {runFile})
  /\ Goes(i, "release")
  /\ UNCHANGED <<kind, handles, claimed, lease, runLease, port, stopper, closeFailures>>

\* finishOwnershipServiceClaim: a standalone service releases, a run goes on.
releaseLease(i) ==
  /\ at[i] = "release"
  /\ claimed' = claimed \ {i}
  /\ lease' = (IF kind[i] = "serve" THEN 0 ELSE lease)
  /\ Goes(i, IF kind[i] = "serve" THEN "done" ELSE "closed")
  /\ UNCHANGED <<kind, handles, runLease, port, runFile, stopper, closeFailures>>

\* A shutdown that kept the lease may be asked for again.
retryShutdown(i) ==
  /\ at[i] = "failed" /\ Goes(i, "closing")
  /\ UNCHANGED <<kind, handles, claimed, lease, runLease, port, runFile, stopper, closeFailures>>

-----------------------------------------------------------------------------
(* Serving.                                                                   *)

\* The port may also be in use by a program of its own.
listenExactly(i) ==
  /\ at[i] = "opened"
  /\ \/ port = 0 /\ port' = i /\ Goes(i, "bound")
     \/ port' = port /\ Goes(i, "rollback")
  /\ UNCHANGED <<kind, handles, claimed, lease, runLease, runFile, stopper, closeFailures>>

publishRunFile(i) ==
  /\ at[i] = "bound"
  /\ \/ runFile' = i /\ Goes(i, "ready")
     \/ runFile' \in {runFile, i} /\ Goes(i, "rollback")
  /\ UNCHANGED <<kind, handles, claimed, lease, runLease, port, stopper, closeFailures>>

\* The end of the run, or a signal.
shutdown(i) ==
  /\ at[i] = "ready" /\ Goes(i, "closing")
  /\ UNCHANGED <<kind, handles, claimed, lease, runLease, port, runFile, stopper, closeFailures>>

\* disposePreparedRun: the store, then the run lease, then the control lease; a
\* store that does not close keeps both leases until the process is gone.
disposePreparedRun(i) ==
  /\ at[i] = "closed" /\ kind[i] = "run"
  /\ \/ /\ handles' = handles \ {i} /\ closeFailures' = closeFailures
        /\ runLease' = 0 /\ lease' = 0 /\ Goes(i, "done")
     \/ /\ closeFailures < MaxCloseFailures /\ closeFailures' = closeFailures + 1
        /\ UNCHANGED <<handles, runLease, lease>> /\ Goes(i, "stuck")
  /\ UNCHANGED <<kind, claimed, port, runFile, stopper>>

\* A process ends, by itself or killed: the kernel closes what it held, and the
\* files it wrote stay.
processExits(i) ==
  /\ Alive(i) /\ Goes(i, "exited")
  /\ handles' = handles \ {i} /\ claimed' = claimed \ {i}
  /\ lease' = (IF lease = i THEN 0 ELSE lease)
  /\ port' = (IF port = i THEN 0 ELSE port)
  /\ UNCHANGED <<kind, runLease, runFile, stopper, closeFailures>>

-----------------------------------------------------------------------------
(* `loop serve stop`: the discovery file and the lease, the health of who     *)
(* listens, and both again; all of it twice, before one signal is sent.       *)

Stopper(phase, round, target) ==
  stopper' = [at |-> phase, round |-> round, target |-> target]
KeepService == UNCHANGED <<kind, handles, claimed, lease, runLease, port, runFile, closeFailures>>

inspectOwner ==
  /\ stopper.at = "idle"
  /\ IF runFile # 0 /\ lease # 0 /\ stopper.target \in {0, runFile}
       THEN Stopper("health", stopper.round, runFile) ELSE Stopper("refused", 1, 0)
  /\ KeepService /\ UNCHANGED at

inspectHealth ==
  /\ stopper.at = "health"
  /\ IF port = stopper.target /\ at[port] = "ready"
       THEN Stopper("again", stopper.round, stopper.target) ELSE Stopper("refused", 1, 0)
  /\ KeepService /\ UNCHANGED at

inspectAgain ==
  /\ stopper.at = "again"
  /\ IF runFile = stopper.target /\ lease # 0 /\ Alive(stopper.target)
       THEN IF stopper.round = 1 THEN Stopper("idle", 2, stopper.target)
                                 ELSE Stopper("signal", 2, stopper.target)
       ELSE Stopper("refused", 1, 0)
  /\ KeepService /\ UNCHANGED at

\* SIGTERM: a ready service closes; a run stops at its next iteration.
sendSignal ==
  /\ stopper.at = "signal"
  /\ Stopper("waiting", 2, stopper.target)
  /\ at' = [at EXCEPT ![stopper.target] = IF @ = "ready" THEN "closing" ELSE @]
  /\ KeepService

\* Stopped once the process, its file and any owner are gone; else it times out.
awaitExit ==
  /\ stopper.at = "waiting"
  /\ \/ /\ ~Alive(stopper.target) /\ runFile # stopper.target /\ lease = 0
        /\ Stopper("stopped", 2, stopper.target)
     \/ Stopper("refused", 1, 0)
  /\ KeepService /\ UNCHANGED at

ServiceNext ==
  \/ \E i \in Processes :
       \/ acquireControlLease(i) \/ openRun(i) \/ discoverStandaloneSources(i)
       \/ discoveryEnds(i) \/ unwindStartup(i) \/ closeListener(i)
       \/ closeServiceStores(i) \/ removeRunFileIfOwned(i) \/ releaseLease(i)
       \/ retryShutdown(i) \/ listenExactly(i) \/ publishRunFile(i) \/ shutdown(i)
       \/ disposePreparedRun(i) \/ processExits(i)
  \/ inspectOwner \/ inspectHealth \/ inspectAgain \/ sendSignal \/ awaitExit

ServiceSpec == ServiceInit /\ [][ServiceNext]_serviceVars

-----------------------------------------------------------------------------
\* No process has a store open without the configuration's lease, whatever failed
\* on the way in or out; a service that says it is ready is the one the discovery
\* file and the port lead to; and what a stop has pinned is the service it named.
StoresBehindLease ==
  /\ \A i \in handles \cup claimed : lease = i
  /\ \A i \in Processes : at[i] = "ready" => port = i /\ runFile = i
  /\ stopper.at = "signal" /\ lease # stopper.target =>
       at[stopper.target] \in {"done", "closed", "exited"}
=============================================================================
