--------------------------- MODULE ServiceProofs ---------------------------
(***************************************************************************)
(* What holds of the processes of a configuration for every number of      *)
(* them: the stores stay behind the lease (ControlService), the providers  *)
(* a run starts stay accounted for (ProviderTurn), what a turn of any      *)
(* length may authorise (Normalizer), and what the verdict on a structured *)
(* turn says of all that its provider wrote (AdapterSession).              *)
(***************************************************************************)
EXTENDS ControlService, ProviderTurn, Normalizer, AdapterSession, FiniteSetTheorems,
        NaturalsInduction, WellFoundedInduction, TLAPS

-----------------------------------------------------------------------------
(* The lease and the stores.  Where a process is in its lifecycle says what  *)
(* it holds: between the lease and its release it is the lease's one owner,  *)
(* and only there can it have opened anything.                               *)

\* The phases in which a process owns the lease.
Holding == {"owner", "checking", "unwinding", "opened", "bound", "ready", "rollback",
            "closing", "stores", "runfile", "release", "failed", "stuck", "closed"}
Phases == Holding \cup {"idle", "exited", "done"}

ServiceTypeOK ==
  /\ kind \in [Processes -> {"serve", "run"}]
  /\ at \in [Processes -> Phases]
  /\ handles \subseteq Processes /\ claimed \subseteq Processes
  /\ lease \in Processes \cup {0} /\ port \in Processes \cup {0}
  /\ runFile \in Processes \cup {0}

\* The stopper's record is written whole.
StopperTypeOK ==
  stopper \in [at : {"idle", "health", "again", "signal", "waiting", "refused", "stopped"},
               round : {1, 2}, target : Processes \cup {0}]

\* The lease names the one process in a holding phase.
LeaseIsPhase == \A i \in Processes : at[i] \in Holding <=> lease = i

\* A store or a claim is taken after the lease and given back before it: a
\* service that reached the discovery file has closed its stores.
OpenedInPhase ==
  \A i \in Processes :
    /\ i \in handles \cup claimed => at[i] \in Holding \ {"owner"}
    /\ i \in handles /\ kind[i] = "serve" => at[i] \notin {"runfile", "release", "closed"}
    /\ i \in claimed => at[i] # "closed"
    /\ at[i] = "closed" => kind[i] = "run"

\* Who has bound the port listens on it, and who is ready is the one to find.
ServingInPhase ==
  \A i \in Processes :
    /\ at[i] \in {"bound", "ready"} => port = i
    /\ at[i] = "ready" => runFile = i

\* The process a stop is after has been ready once.
PinnedStarted ==
  /\ stopper.at = "health" => stopper.target # 0
  /\ stopper.at \in {"again", "signal", "waiting"} =>
       stopper.target # 0 /\ at[stopper.target] # "idle"

ServiceInv == /\ ServiceTypeOK /\ StopperTypeOK /\ LeaseIsPhase /\ OpenedInPhase
              /\ ServingInPhase /\ PinnedStarted

LEMMA ServiceInitially == ServiceInit => ServiceInv
  BY ServiceBounds DEF ServiceInit, ServiceInv, ServiceTypeOK, StopperTypeOK, LeaseIsPhase,
     OpenedInPhase, ServingInPhase, PinnedStarted, Phases, Holding

\* No process goes back to the start, so what a stop has pinned stays started.
LEMMA PinnedKept ==
  ASSUME ServiceTypeOK, StopperTypeOK, PinnedStarted, UNCHANGED stopper,
         NEW i \in Processes, NEW phase \in Phases \ {"idle"}, Goes(i, phase)
  PROVE  PinnedStarted'
  BY DEF ServiceTypeOK, StopperTypeOK, PinnedStarted, Phases, Goes

\* A step of process i leaves the other processes' lifecycles alone.
LEMMA ServiceStepKeeps ==
  ASSUME ServiceInv, NEW i \in Processes,
         \/ acquireControlLease(i) \/ openRun(i) \/ discoverStandaloneSources(i)
         \/ discoveryEnds(i) \/ unwindStartup(i) \/ closeListener(i)
         \/ closeServiceStores(i) \/ removeRunFileIfOwned(i) \/ releaseLease(i)
         \/ retryShutdown(i) \/ listenExactly(i) \/ publishRunFile(i) \/ shutdown(i)
         \/ disposePreparedRun(i) \/ processExits(i)
  PROVE  ServiceInv'
<1> USE ServiceBounds DEF ServiceInv, ServiceTypeOK, StopperTypeOK, LeaseIsPhase,
     OpenedInPhase, ServingInPhase, PinnedStarted, Phases, Holding, Goes, Alive
<1>1. CASE acquireControlLease(i)
  <2>1. ServiceTypeOK'
      BY <1>1 DEF acquireControlLease
  <2>2. StopperTypeOK'
      BY <1>1 DEF acquireControlLease
  <2>3. LeaseIsPhase'
      BY <1>1 DEF acquireControlLease
  <2>4. OpenedInPhase'
      BY <1>1 DEF acquireControlLease
  <2>5. ServingInPhase'
      BY <1>1 DEF acquireControlLease
  <2>6. PinnedStarted'
      BY ZenonT(40), <1>1 DEF acquireControlLease
  <2> QED
      BY <2>1, <2>2, <2>3, <2>4, <2>5, <2>6
<1>2. CASE openRun(i)
  <2>1. ServiceTypeOK'
      BY ZenonT(40), <1>2 DEF openRun
  <2>2. StopperTypeOK'
      BY <1>2 DEF openRun
  <2>3. LeaseIsPhase'
      BY <1>2 DEF openRun
  <2>4. OpenedInPhase'
      BY <1>2 DEF openRun
  <2>5. ServingInPhase'
      BY <1>2 DEF openRun
  <2>6. PinnedStarted'
      BY ONLY ServiceInv, i \in Processes, <1>2, PinnedKept DEF openRun, ServiceInv, Phases, Holding
  <2> QED
      BY <2>1, <2>2, <2>3, <2>4, <2>5, <2>6
<1>3. CASE discoverStandaloneSources(i)
  <2>1. ServiceTypeOK'
    <3>1. at' \in [Processes -> Phases]
      BY <1>3 DEF discoverStandaloneSources
    <3> QED
      BY ONLY ServiceTypeOK, i \in Processes, <1>3, <3>1
      DEF ServiceTypeOK, discoverStandaloneSources
  <2>2. StopperTypeOK'
      BY <1>3 DEF discoverStandaloneSources
  <2>3. LeaseIsPhase'
      BY <1>3 DEF discoverStandaloneSources
  <2>4. OpenedInPhase'
      BY <1>3 DEF discoverStandaloneSources
  <2>5. ServingInPhase'
      BY <1>3 DEF discoverStandaloneSources
  <2>6. PinnedStarted'
      BY ONLY ServiceInv, i \in Processes, <1>3, PinnedKept DEF discoverStandaloneSources, ServiceInv, Phases, Holding
  <2> QED
      BY <2>1, <2>2, <2>3, <2>4, <2>5, <2>6
<1>4. CASE discoveryEnds(i)
  <2>1. ServiceTypeOK'
      BY <1>4 DEF discoveryEnds
  <2>2. StopperTypeOK'
      BY <1>4 DEF discoveryEnds
  <2>3. LeaseIsPhase'
      BY <1>4 DEF discoveryEnds
  <2>4. OpenedInPhase'
      BY <1>4 DEF discoveryEnds
  <2>5. ServingInPhase'
      BY <1>4 DEF discoveryEnds
  <2>6. PinnedStarted'
      BY ZenonT(40), <1>4 DEF discoveryEnds
  <2> QED
      BY <2>1, <2>2, <2>3, <2>4, <2>5, <2>6
<1>5. CASE unwindStartup(i)
  <2>1. ServiceTypeOK'
      BY ZenonT(40), <1>5 DEF unwindStartup, closeStores
  <2>2. StopperTypeOK'
      BY <1>5 DEF unwindStartup, closeStores
  <2>3. LeaseIsPhase'
      BY <1>5 DEF unwindStartup, closeStores
  <2>4. OpenedInPhase'
      BY <1>5 DEF unwindStartup, closeStores
  <2>5. ServingInPhase'
      BY <1>5 DEF unwindStartup, closeStores
  <2>6. PinnedStarted'
      BY ONLY ServiceInv, i \in Processes, <1>5, PinnedKept DEF unwindStartup, closeStores, ServiceInv, Phases, Holding
  <2> QED
      BY <2>1, <2>2, <2>3, <2>4, <2>5, <2>6
<1>6. CASE closeListener(i)
  BY <1>6 DEF closeListener
<1>7. CASE closeServiceStores(i)
  <2>1. ServiceTypeOK'
      BY ZenonT(40), <1>7 DEF closeServiceStores, closeStores
  <2>2. StopperTypeOK'
      BY <1>7 DEF closeServiceStores, closeStores
  <2>3. LeaseIsPhase'
      BY <1>7 DEF closeServiceStores, closeStores
  <2>4. OpenedInPhase'
      BY <1>7 DEF closeServiceStores, closeStores
  <2>5. ServingInPhase'
      BY <1>7 DEF closeServiceStores, closeStores
  <2>6. PinnedStarted'
      BY ONLY ServiceInv, i \in Processes, <1>7, PinnedKept DEF closeServiceStores, closeStores, ServiceInv, Phases, Holding
  <2> QED
      BY <2>1, <2>2, <2>3, <2>4, <2>5, <2>6
<1>8. CASE removeRunFileIfOwned(i)
  BY <1>8 DEF removeRunFileIfOwned
<1>9. CASE releaseLease(i)
  BY <1>9 DEF releaseLease
<1>10. CASE retryShutdown(i)
  BY <1>10 DEF retryShutdown
<1>11. CASE listenExactly(i)
  <2>1. ServiceTypeOK'
      BY <1>11 DEF listenExactly
  <2>2. StopperTypeOK'
      BY <1>11 DEF listenExactly
  <2>3. LeaseIsPhase'
      BY <1>11 DEF listenExactly
  <2>4. OpenedInPhase'
      BY <1>11 DEF listenExactly
  <2>5. ServingInPhase'
      BY <1>11 DEF listenExactly
  <2>6. PinnedStarted'
      BY ONLY ServiceInv, i \in Processes, <1>11, PinnedKept DEF listenExactly, ServiceInv, Phases, Holding
  <2> QED
      BY <2>1, <2>2, <2>3, <2>4, <2>5, <2>6
<1>12. CASE publishRunFile(i)
  <2>1. ServiceTypeOK'
      BY <1>12 DEF publishRunFile
  <2>2. StopperTypeOK'
      BY <1>12 DEF publishRunFile
  <2>3. LeaseIsPhase'
      BY <1>12 DEF publishRunFile
  <2>4. OpenedInPhase'
      BY <1>12 DEF publishRunFile
  <2>5. ServingInPhase'
      BY <1>12 DEF publishRunFile
  <2>6. PinnedStarted'
      BY ONLY ServiceInv, i \in Processes, <1>12, PinnedKept DEF publishRunFile, ServiceInv, Phases, Holding
  <2> QED
      BY <2>1, <2>2, <2>3, <2>4, <2>5, <2>6
<1>13. CASE shutdown(i)
  BY <1>13 DEF shutdown
<1>14. CASE disposePreparedRun(i)
  <2>1. ServiceTypeOK'
      BY ZenonT(40), <1>14 DEF disposePreparedRun
  <2>2. StopperTypeOK'
      BY <1>14 DEF disposePreparedRun
  <2>3. LeaseIsPhase'
      BY <1>14 DEF disposePreparedRun
  <2>4. OpenedInPhase'
      BY <1>14 DEF disposePreparedRun
  <2>5. ServingInPhase'
      BY <1>14 DEF disposePreparedRun
  <2>6. PinnedStarted'
      BY ZenonT(40), <1>14 DEF disposePreparedRun
  <2> QED
      BY <2>1, <2>2, <2>3, <2>4, <2>5, <2>6
<1>15. CASE processExits(i)
  BY <1>15 DEF processExits
<1> QED
  BY <1>1, <1>2, <1>3, <1>4, <1>5, <1>6, <1>7, <1>8, <1>9, <1>10, <1>11, <1>12, <1>13,
     <1>14, <1>15

LEMMA StopStepKeeps ==
  ASSUME ServiceInv,
         inspectOwner \/ inspectHealth \/ inspectAgain \/ sendSignal \/ awaitExit
  PROVE  ServiceInv'
<1> USE ServiceBounds DEF ServiceInv, ServiceTypeOK, StopperTypeOK, LeaseIsPhase,
     OpenedInPhase, ServingInPhase, PinnedStarted, Phases, Holding, Stopper, KeepService
<1>1. CASE inspectOwner
  BY <1>1 DEF inspectOwner
<1>2. CASE inspectHealth
  BY <1>2 DEF inspectHealth
<1>3. CASE inspectAgain
  BY <1>3 DEF inspectAgain
<1>4. CASE sendSignal
  <2>1. ServiceTypeOK'
      BY <1>4 DEF sendSignal
  <2>2. StopperTypeOK'
      BY <1>4 DEF sendSignal
  <2>3. LeaseIsPhase'
      BY <1>4 DEF sendSignal
  <2>4. OpenedInPhase'
      BY <1>4 DEF sendSignal
  <2>5. ServingInPhase'
      BY <1>4 DEF sendSignal
  <2>6. PinnedStarted'
      BY <1>4 DEF sendSignal
  <2> QED
      BY <2>1, <2>2, <2>3, <2>4, <2>5, <2>6
<1>5. CASE awaitExit
  BY <1>5 DEF awaitExit
<1> QED
  BY <1>1, <1>2, <1>3, <1>4, <1>5

\* No process has a store open or a claim borrowed without the configuration's
\* lease, a ready service is where the port and the discovery file lead, and a
\* stop signals only the service it pinned or one that is gone.
THEOREM StoresAlwaysBehindLease == ServiceSpec => []StoresBehindLease
<1>1. ServiceInv /\ [ServiceNext]_serviceVars => ServiceInv'
  <2> SUFFICES ASSUME ServiceInv, [ServiceNext]_serviceVars PROVE ServiceInv'
    OBVIOUS
  <2>1. CASE UNCHANGED serviceVars
    BY <2>1 DEF serviceVars, ServiceInv, ServiceTypeOK, StopperTypeOK, LeaseIsPhase,
       OpenedInPhase, ServingInPhase, PinnedStarted
  <2> QED
    BY <2>1, ServiceStepKeeps, StopStepKeeps DEF ServiceNext
<1>2. ServiceInv => StoresBehindLease
  BY DEF ServiceInv, ServiceTypeOK, StopperTypeOK, LeaseIsPhase, OpenedInPhase,
     ServingInPhase, PinnedStarted, StoresBehindLease, Holding, Phases
<1> QED
  BY <1>1, <1>2, ServiceInitially, PTL DEF ServiceSpec

-----------------------------------------------------------------------------
(* The provider turns.  Everything is said of the call in progress, by where *)
(* the turn is, and of the calls already made, which are 1..k.               *)

Launching == {"open", "scope", "spawn"}
Unsettled == Launching \cup {"gated", "recorded", "refused", "running", "reaping",
                             "finish", "settle"}
Settled == {"routed", "cooled", "bumped"}
Preparing == {"prepare", "boundary", "reserve"}
Places == {"idle"} \cup Preparing \cup Unsettled \cup Settled
Tags == {"none", "primary", "alternate", "fallback"}

TurnRecord == [at : Places, n : Nat, tag : Tags, proxy : BOOLEAN,
               stdin : {"pending", "complete", "broken"}, closed : BOOLEAN,
               fatal : BOOLEAN, late : BOOLEAN, survived : BOOLEAN]
CallRecord == [state : {"none", "reserved", "trusted", "fallback", "uncertain"},
               tag : Tags, epoch : Nat]

TurnTypeOK ==
  /\ turn \in TurnRecord
  /\ members \in [Calls -> SUBSET {"leader", "descendant"}]
  /\ execd \subseteq Calls /\ owned \subseteq Calls /\ recorded \subseteq Calls
  /\ teardown \in [Calls -> {"none", "going", "proven", "failed"}]
  /\ calls \in [Calls -> CallRecord] /\ DOMAIN answer = Calls /\ epoch \in Nat

\* No turn is in progress in a run that has crashed or ended.
RestsWhenDown == parent # "up" => turn.at = "idle"

\* Calls are numbered as they are reserved, and only a reserved one has a scope.
CallsInOrder ==
  /\ execd \cup owned \subseteq Made
  /\ \A n \in Calls \ Made :
       calls[n].tag # "fallback" /\ members[n] = {} /\ teardown[n] = "none"
  /\ turn.at \in Unsettled \cup Settled => turn.n \in Calls /\ Made = 1..turn.n

\* The gate of the call in progress opens once, after its scope is owned and its
\* line is in the journal.
GateInOrder ==
  /\ turn.at \in Unsettled => calls[turn.n].state = "reserved"
  /\ turn.at \in Launching => turn.n \notin execd \cup owned /\ teardown[turn.n] = "none"
  /\ turn.at \in {"gated", "recorded"} => turn.n \notin execd /\ turn.n \in owned
  /\ turn.at = "recorded" => turn.n \in recorded

\* A teardown is proven by the removal of an empty cgroup, which stays empty.
ProvenIsEmpty == \A n \in Calls : teardown[n] = "proven" => members[n] = {}

\* A rejection the ledger granted authority over: transport sound, scope empty.
RejectionHolds ==
  \A n \in Calls : calls[n].state = "fallback" => members[n] = {} /\ answer[n].transportOk

\* The route epoch never falls behind a call, and the bump puts it ahead.
EpochAhead ==
  /\ \A n \in Calls : calls[n].epoch <= epoch
  /\ turn.at \in {"cooled", "bumped"} => calls[turn.n].state = "fallback"
  /\ turn.at = "bumped" => calls[turn.n].epoch < epoch

\* A fallback being prepared follows the rejection of the last call made.
FallbackFollows ==
  turn.at \in Preparing /\ turn.tag = "fallback" =>
    \E k \in Calls : Made = 1..k /\ calls[k].state = "fallback" /\ calls[k].epoch < epoch

FallbackOfRejection ==
  \A n \in Calls : calls[n].tag = "fallback" =>
    /\ n - 1 \in Calls /\ calls[n - 1].state = "fallback"
    /\ calls[n - 1].epoch < calls[n].epoch

TurnInv ==
  /\ TurnTypeOK /\ RestsWhenDown /\ CallsInOrder /\ GateInOrder /\ ProvenIsEmpty
  /\ ProvidersAccountedFor /\ RejectionHolds /\ EpochAhead /\ FallbackFollows
  /\ FallbackOfRejection

LEMMA NoTurnIs ==
  NoTurn \in TurnRecord /\ NoTurn.at = "idle"
  BY DEF NoTurn, TurnRecord, Places, Tags

LEMMA ToIs ==
  ASSUME turn \in TurnRecord, NEW place \in Places, To(place)
  PROVE  turn' \in TurnRecord /\ turn'.at = place /\ turn'.n = turn.n /\ turn'.tag = turn.tag
  BY DEF To, TurnRecord

LEMMA TurnInitially == TurnInit => TurnInv
<1> SUFFICES ASSUME TurnInit PROVE TurnInv
  OBVIOUS
<1>1. \A n \in Calls : calls[n] = NoCall /\ members[n] = {} /\ teardown[n] = "none"
  BY DEF TurnInit
<1>2. NoCall \in CallRecord /\ NoCall.state = "none" /\ NoCall.tag = "none" /\ NoCall.epoch = 0
  BY DEF NoCall, CallRecord, Tags
<1>3. Made = {}
  BY <1>1, <1>2 DEF Made
<1>4. turn \in TurnRecord /\ turn.at = "idle"
  BY NoTurnIs DEF TurnInit
<1>5. TurnTypeOK
  BY <1>2, <1>4 DEF TurnTypeOK, TurnInit
<1>6. ProvidersAccountedFor
  BY DEF TurnInit, ProvidersAccountedFor, Live
<1> QED
  BY <1>1, <1>2, <1>3, <1>4, <1>5, <1>6
  DEF TurnInit, TurnInv, RestsWhenDown, CallsInOrder, GateInOrder, ProvenIsEmpty, RejectionHolds,
      EpochAhead, FallbackFollows, FallbackOfRejection, Preparing, Unsettled, Launching, Settled

\* The moves of a turn that open no gate and write no call: none at all, the end of
\* the turn, the preparation of a call, its launch, its way to the settlement.
Moved ==
  \/ turn' = turn
  \/ turn'.at = "idle"
  \/ turn.at \in Preparing /\ turn'.at \in Preparing /\ turn'.tag = turn.tag
  \/ turn.at = "idle" /\ parent = "up" /\ turn'.at = "prepare" /\ turn'.tag # "fallback"
  \/ turn.at \in Launching /\ turn'.at \in Launching /\ turn'.n = turn.n
  \/ /\ turn.at \in Unsettled /\ turn'.n = turn.n
     /\ turn'.at \in Unsettled \ (Launching \cup {"gated", "recorded"})

\* Scopes that only lose processes, are torn down if they were launched, and are
\* given up only when empty.
ScopesWane ==
  /\ members' \in [Calls -> SUBSET {"leader", "descendant"}]
  /\ \A n \in Calls : members'[n] \subseteq members[n]
  /\ teardown' \in [Calls -> {"none", "going", "proven", "failed"}]
  /\ \A n \in Calls : teardown'[n] # teardown[n] =>
       /\ n \in Made /\ (turn'.at \in Launching => n # turn'.n)
       /\ teardown'[n] = "proven" => members'[n] = {}
  /\ recorded \subseteq recorded' /\ recorded' \subseteq Calls
  /\ owned' \subseteq owned
  /\ owned' # owned => turn'.at \notin {"gated", "recorded"}
  /\ \A n \in owned \ owned' : members'[n] = {}

\* The answer of a call whose rejection was granted is not written again.
AnswersStand ==
  /\ DOMAIN answer' = Calls
  /\ \A n \in Calls : calls[n].state = "fallback" => answer'[n] = answer[n]

LEMMA QuietKeeps ==
  ASSUME TurnInv, Moved, turn' \in TurnRecord, ScopesWane, AnswersStand,
         UNCHANGED <<parent, execd, calls, epoch>>
  PROVE  TurnInv'
<1>1. Made' = Made /\ Live' \subseteq Live
  BY DEF Made, Live, ScopesWane, TurnInv, TurnTypeOK
<1>2. TurnTypeOK'
  BY DEF TurnInv, TurnTypeOK, ScopesWane, AnswersStand
<1>3. RestsWhenDown'
  BY DEF TurnInv, RestsWhenDown, Moved, Preparing, Unsettled, Launching
<1>4. CallsInOrder'
  <2>1. (execd \cup owned \subseteq Made)'
    BY <1>1 DEF TurnInv, CallsInOrder, ScopesWane
  <2>2. (\A n \in Calls \ Made :
           calls[n].tag # "fallback" /\ members[n] = {} /\ teardown[n] = "none")'
    BY <1>1 DEF TurnInv, CallsInOrder, ScopesWane
  <2>3. (turn.at \in Unsettled \cup Settled => turn.n \in Calls /\ Made = 1..turn.n)'
    BY <1>1 DEF TurnInv, CallsInOrder, Moved, Preparing, Unsettled, Launching, Settled
  <2> QED
    BY <2>1, <2>2, <2>3 DEF CallsInOrder
<1>5. GateInOrder'
  <2>1. (turn.at \in Unsettled => calls[turn.n].state = "reserved")'
    BY DEF TurnInv, GateInOrder, Moved, Preparing, Unsettled, Launching
  <2>2. (turn.at \in Launching => turn.n \notin execd \cup owned /\ teardown[turn.n] = "none")'
    BY <1>1 DEF TurnInv, CallsInOrder, GateInOrder, Moved, ScopesWane, Preparing, Unsettled,
       Launching
  <2>3. (turn.at \in {"gated", "recorded"} => turn.n \notin execd /\ turn.n \in owned)'
    BY DEF TurnInv, GateInOrder, Moved, ScopesWane, Preparing, Unsettled, Launching
  <2>4. (turn.at = "recorded" => turn.n \in recorded)'
    BY DEF TurnInv, GateInOrder, Moved, ScopesWane, Preparing, Unsettled, Launching
  <2> QED
    BY <2>1, <2>2, <2>3, <2>4 DEF GateInOrder
<1>6. ProvenIsEmpty'
  BY DEF TurnInv, ProvenIsEmpty, ScopesWane
<1>7. FallbackOfRejection'
  BY DEF TurnInv, FallbackOfRejection
<1>8. ProvidersAccountedFor'
  BY <1>1 DEF TurnInv, ProvidersAccountedFor, ScopesWane, Live
<1>9. RejectionHolds'
  BY DEF TurnInv, RejectionHolds, ScopesWane, AnswersStand
<1>10. EpochAhead'
  BY DEF TurnInv, EpochAhead, Moved, Preparing, Unsettled, Launching
<1>11. FallbackFollows'
  BY <1>1 DEF TurnInv, FallbackFollows, Moved, Preparing, Unsettled, Launching
<1> QED
  BY <1>2, <1>3, <1>4, <1>5, <1>6, <1>7, <1>8, <1>9, <1>10, <1>11 DEF TurnInv

\* Where nothing of the scopes or the answers changes.
LEMMA ScopesAlone ==
  ASSUME TurnInv, UNCHANGED <<members, teardown, owned, recorded>>
  PROVE  ScopesWane
  BY DEF TurnInv, TurnTypeOK, ScopesWane

LEMMA AnswersAlone ==
  ASSUME TurnInv, UNCHANGED answer
  PROVE  AnswersStand
  BY DEF TurnInv, TurnTypeOK, AnswersStand

\* The answer of the call in progress is written before that call is settled.
LEMMA AnswerOfCall ==
  ASSUME TurnInv, turn.at \in Unsettled, DOMAIN answer' = Calls,
         \A n \in Calls : n # turn.n => answer'[n] = answer[n]
  PROVE  AnswersStand
  BY DEF TurnInv, GateInOrder, AnswersStand

\* The teardown of the call in progress starts, if it has not, on its way out.
LEMMA ReapingWanes ==
  ASSUME TurnInv, turn.at \in Unsettled, turn'.at \notin Launching, Reaping(turn.n),
         UNCHANGED <<members, owned>>, recorded \subseteq recorded', recorded' \subseteq Calls
  PROVE  ScopesWane
<1>1. turn.n \in Made
  BY DEF TurnInv, CallsInOrder, GateInOrder, TurnTypeOK, Made, Unsettled, Settled
<1> QED
  BY <1>1 DEF TurnInv, TurnTypeOK, Reaping, ScopesWane

\* The actions of the turn that only prepare, launch or end it.
LEMMA PreparationKeeps ==
  ASSUME TurnInv,
         \/ prepareCall \/ exactNativeAvailability \/ openBoundary \/ cooldownExpires
         \/ openTranscript \/ requireScopeBackend \/ spawnThrows \/ turnEnds
  PROVE  TurnInv'
<1> USE DEF InTurn
<1>0. turn \in TurnRecord /\ DOMAIN answer = Calls
  BY DEF TurnInv, TurnTypeOK
<1>1. CASE prepareCall
  <2>1. turn' \in TurnRecord /\ turn'.at = "prepare" /\ turn'.tag # "fallback"
    BY <1>1 DEF prepareCall, chooseActiveProvider, NoTurn, TurnRecord, Places, Preparing, Tags
  <2> QED
    BY <1>1, <2>1, QuietKeeps, ScopesAlone, AnswersAlone DEF prepareCall, Moved
<1>2. CASE exactNativeAvailability
  <2>1. \/ turn' = NoTurn
        \/ turn' \in TurnRecord /\ turn'.at = "boundary" /\ turn'.tag = turn.tag
    BY <1>0, <1>2 DEF exactNativeAvailability, TurnRecord, Places, Preparing
  <2> QED
    BY <1>2, <2>1, NoTurnIs, QuietKeeps, ScopesAlone, AnswersAlone
    DEF exactNativeAvailability, Moved, Preparing
<1>3. CASE openBoundary
  <2>1. \/ turn' = NoTurn
        \/ turn' \in TurnRecord /\ turn'.at = "reserve" /\ turn'.tag = turn.tag
    BY <1>0, <1>3 DEF openBoundary, TurnRecord, Places, Preparing
  <2> QED
    BY <1>3, <2>1, NoTurnIs, QuietKeeps, ScopesAlone, AnswersAlone
    DEF openBoundary, Moved, Preparing
<1>4. CASE cooldownExpires
  BY <1>0, <1>4, QuietKeeps, ScopesAlone, AnswersAlone DEF cooldownExpires, Moved
<1>5. CASE turnEnds
  BY <1>5, NoTurnIs, QuietKeeps, ScopesAlone, AnswersAlone DEF turnEnds, Moved
<1>6. ASSUME NEW trusted \in BOOLEAN, Resolved(trusted), turn.at \in Unsettled
      PROVE  AnswersStand /\ Moved /\ turn' \in TurnRecord /\ turn'.at = "settle"
  <2>1. /\ DOMAIN answer' = Calls
        /\ \A n \in Calls : n # turn.n => answer'[n] = answer[n]
    BY <1>0, <1>6 DEF Resolved, n0
  <2>2. turn' \in TurnRecord /\ turn'.at = "settle" /\ turn'.n = turn.n
    BY <1>0, <1>6, ToIs DEF Resolved, Places, Unsettled
  <2> QED
    BY <1>6, <2>1, <2>2, AnswerOfCall DEF Moved, Unsettled, Launching
<1>7. ASSUME NEW place \in {"scope", "spawn"}, To(place), turn.at \in {"open", "scope"}
      PROVE  Moved /\ turn' \in TurnRecord
  BY <1>0, <1>7, ToIs DEF Moved, Places, Unsettled, Launching
<1>8. CASE openTranscript
  BY <1>6, <1>7, <1>8, QuietKeeps, ScopesAlone, AnswersAlone
  DEF openTranscript, Unsettled, Launching
<1>9. CASE requireScopeBackend
  BY <1>6, <1>7, <1>9, QuietKeeps, ScopesAlone, AnswersAlone
  DEF requireScopeBackend, Unsettled, Launching
<1>10. CASE spawnThrows
  BY <1>6, <1>10, QuietKeeps, ScopesAlone DEF spawnThrows, Unsettled, Launching
<1> QED
  BY <1>1, <1>2, <1>3, <1>4, <1>5, <1>8, <1>9, <1>10

\* The actions of the child and of the teardown of its scope.
LEMMA ChildKeeps ==
  ASSUME TurnInv,
         \/ beforeProviderExecFails \/ refuseLaunch \/ exits \/ onClose \/ onStdin
         \/ onFatalOutput \/ onTimeout \/ tearDownOwned \/ reap \/ maybeFinish \/ reaped
         \/ stdinGrace \/ doFinish
  PROVE  TurnInv'
<1> USE DEF InTurn
<1>0. turn \in TurnRecord /\ DOMAIN answer = Calls
  BY DEF TurnInv, TurnTypeOK
<1>01. ASSUME turn.at \in Unsettled, turn'.n = turn.n,
              turn'.at \in {"refused", "running", "reaping", "finish", "settle"}
       PROVE  Moved /\ turn'.at \notin Launching
  BY <1>01 DEF Moved, Unsettled, Launching
<1>02. ASSUME turn.at \in Unsettled, turn'.at \in {"finish", "settle"},
              owned' = Kept(turn.n), UNCHANGED <<members, teardown, recorded>>
       PROVE  ScopesWane
  BY <1>02 DEF Kept, TurnInv, TurnTypeOK, ProvenIsEmpty, ScopesWane
<1>1. CASE beforeProviderExecFails
  <2>1. turn' \in TurnRecord /\ turn'.at = "refused" /\ turn'.n = turn.n
    BY <1>0, <1>1, ToIs DEF beforeProviderExecFails, Places, Unsettled
  <2>2. ScopesWane
    BY <1>1, <2>1, <1>01, ReapingWanes
    DEF beforeProviderExecFails, n0, Unsettled, TurnInv, TurnTypeOK
  <2> QED
    BY <1>1, <2>1, <2>2, <1>01, QuietKeeps, AnswersAlone DEF beforeProviderExecFails, Unsettled
<1>2. CASE refuseLaunch
  <2>1. turn' \in TurnRecord /\ turn'.at = "settle" /\ turn'.n = turn.n
    BY <1>0, <1>2, ToIs DEF refuseLaunch, Resolved, Places, Unsettled
  <2>2. AnswersStand
    <3>1. /\ DOMAIN answer' = Calls
          /\ \A n \in Calls : n # turn.n => answer'[n] = answer[n]
      BY <1>0, <1>2 DEF refuseLaunch, Resolved, n0
    <3> QED
      BY <1>2, <3>1, AnswerOfCall DEF refuseLaunch, Unsettled
  <2>3. ScopesWane
    BY <1>2, <2>1, <1>02 DEF refuseLaunch, n0, Unsettled
  <2> QED
    BY <1>2, <2>1, <2>2, <2>3, <1>01, QuietKeeps DEF refuseLaunch, Unsettled
<1>3. CASE exits
  <2>1. ScopesWane
    BY <1>3 DEF exits, ScopesWane, TurnInv, TurnTypeOK
  <2> QED
    BY <1>0, <1>3, <2>1, QuietKeeps, AnswersAlone DEF exits, Moved
<1>4. CASE onClose \/ onStdin
  <2>1. turn' \in TurnRecord /\ turn'.at = "running" /\ turn'.n = turn.n
    BY <1>0, <1>4 DEF onClose, onStdin, TurnRecord
  <2> QED
    BY <1>4, <2>1, <1>01, QuietKeeps, ScopesAlone, AnswersAlone DEF onClose, onStdin, Unsettled
<1>5. CASE onFatalOutput \/ onTimeout \/ maybeFinish
  <2>1. turn' \in TurnRecord /\ turn'.at \in {"running", "reaping"} /\ turn'.n = turn.n
    BY <1>0, <1>5 DEF onFatalOutput, onTimeout, maybeFinish, TurnRecord, Places, Unsettled
  <2>2. ScopesWane
    BY <1>5, <2>1, <1>01, ReapingWanes
    DEF onFatalOutput, onTimeout, maybeFinish, n0, Unsettled, TurnInv, TurnTypeOK
  <2> QED
    BY <1>5, <2>1, <2>2, <1>01, QuietKeeps, AnswersAlone
    DEF onFatalOutput, onTimeout, maybeFinish, Unsettled
<1>6. CASE tearDownOwned
  <2>1. ScopesWane
    BY <1>6 DEF tearDownOwned, ScopesWane, TurnInv, TurnTypeOK, CallsInOrder, GateInOrder
  <2> QED
    BY <1>0, <1>6, <2>1, QuietKeeps, AnswersAlone DEF tearDownOwned, Moved
<1>7. CASE reap
  <2>1. PICK n \in Calls :
          /\ teardown[n] = "going"
          /\ \/ /\ teardown' = [teardown EXCEPT ![n] = "proven"]
                /\ members' = [members EXCEPT ![n] = {}]
             \/ teardown' = [teardown EXCEPT ![n] = "failed"] /\ UNCHANGED members
    BY <1>7 DEF reap
  <2>2. n \in Made /\ (turn.at \in Launching => n # turn.n)
    BY <2>1 DEF TurnInv, CallsInOrder, GateInOrder
  <2>3. ScopesWane
    BY <1>7, <2>1, <2>2 DEF reap, ScopesWane, TurnInv, TurnTypeOK
  <2> QED
    BY <1>0, <1>7, <2>3, QuietKeeps, AnswersAlone DEF reap, Moved
<1>8. CASE reaped
  <2>1. turn' \in TurnRecord /\ turn'.at = "finish" /\ turn'.n = turn.n
    BY <1>0, <1>8, ToIs DEF reaped, Places, Unsettled
  <2>2. ScopesWane
    BY <1>8, <2>1, <1>02 DEF reaped, n0, Unsettled
  <2> QED
    BY <1>8, <2>1, <2>2, <1>01, QuietKeeps, AnswersAlone DEF reaped, Unsettled
<1>9. CASE stdinGrace
  <2>1. turn' \in TurnRecord /\ turn'.at = "finish" /\ turn'.n = turn.n
    BY <1>0, <1>9 DEF stdinGrace, TurnRecord, Places, Unsettled
  <2> QED
    BY <1>9, <2>1, <1>01, QuietKeeps, ScopesAlone, AnswersAlone DEF stdinGrace, Unsettled
<1>10. CASE doFinish
  <2>1. turn' \in TurnRecord /\ turn'.at = "settle" /\ turn'.n = turn.n
    BY <1>0, <1>10, ToIs DEF doFinish, Places, Unsettled
  <2>2. AnswersStand
    <3>1. PICK a : answer' = [answer EXCEPT ![turn.n] = a]
      BY <1>10 DEF doFinish, n0
    <3> QED
      BY <1>0, <1>10, <3>1, AnswerOfCall DEF doFinish, Unsettled
  <2> QED
    BY <1>10, <2>1, <2>2, <1>01, QuietKeeps, ScopesAlone DEF doFinish, Unsettled
<1> QED
  BY <1>1, <1>2, <1>3, <1>4, <1>5, <1>6, <1>7, <1>8, <1>9, <1>10

\* The worst case of a call is reserved, as the next number.
LEMMA ReserveKeeps ==
  ASSUME TurnInv, reserve
  PROVE  TurnInv'
<1>0. turn \in TurnRecord /\ DOMAIN answer = Calls /\ InTurn("reserve")
  BY DEF TurnInv, TurnTypeOK, reserve
<1>1. CASE turn' = NoTurn /\ UNCHANGED calls
  BY <1>1, NoTurnIs, QuietKeeps, ScopesAlone, AnswersAlone DEF reserve, Moved
<1>2. ASSUME NEW n \in Calls, Made = 1..(n - 1), turn' = [turn EXCEPT !.at = "open", !.n = n],
             calls' = [calls EXCEPT ![n] =
                         [state |-> "reserved", tag |-> turn.tag, epoch |-> epoch]]
      PROVE  TurnInv'
  <2> DEFINE new == [state |-> "reserved", tag |-> turn.tag, epoch |-> epoch]
  <2>1. turn' \in TurnRecord /\ turn'.at = "open" /\ turn'.n = n /\ n \in Nat
    <3>1. n \in Nat
      BY TurnBounds DEF Calls
    <3> QED
      BY <1>0, <1>2, <3>1 DEF TurnRecord, Places, Unsettled, Launching
  <2>2. new \in CallRecord /\ new.state = "reserved" /\ new.tag = turn.tag /\ new.epoch = epoch
    BY <1>0 DEF TurnInv, TurnTypeOK, TurnRecord, CallRecord
  <2>3. /\ calls' \in [Calls -> CallRecord] /\ calls'[n] = new
        /\ \A m \in Calls : m # n => calls'[m] = calls[m]
    BY <1>2, <2>2 DEF TurnInv, TurnTypeOK
  <2> HIDE DEF new
  <2>4. n \notin Made /\ Made' = Made \cup {n}
    BY <1>2, <2>2, <2>3, TurnBounds DEF Made, Calls
  <2>5. Made' = 1..n
    BY <1>2, <2>4, TurnBounds DEF Calls
  <2>6. UNCHANGED <<parent, members, execd, teardown, owned, recorded, answer, epoch>>
    BY DEF reserve
  <2>7. TurnTypeOK'
    BY <2>1, <2>3, <2>6 DEF TurnInv, TurnTypeOK
  <2>8. RestsWhenDown' /\ ProvenIsEmpty'
    BY <1>0, <2>6 DEF TurnInv, RestsWhenDown, ProvenIsEmpty, InTurn
  <2>9. CallsInOrder'
    BY <2>1, <2>3, <2>4, <2>5, <2>6 DEF TurnInv, CallsInOrder
  <2>10. GateInOrder'
    BY <2>1, <2>2, <2>3, <2>4, <2>6 DEF TurnInv, CallsInOrder, GateInOrder, Launching
  <2>11. ProvidersAccountedFor'
    BY <2>6 DEF TurnInv, ProvidersAccountedFor, Live
  <2>12. RejectionHolds'
    BY <2>2, <2>3, <2>6 DEF TurnInv, RejectionHolds
  <2>13. EpochAhead'
    BY <2>1, <2>2, <2>3, <2>6 DEF TurnInv, TurnTypeOK, EpochAhead, CallRecord
  <2>14. FallbackFollows'
    BY <2>1 DEF FallbackFollows, Preparing
  <2>15. FallbackOfRejection'
    <3>1. ASSUME turn.tag = "fallback"
          PROVE  n - 1 \in Calls /\ calls[n - 1].state = "fallback" /\ calls[n - 1].epoch < epoch
      <4>1. PICK k \in Calls :
              Made = 1..k /\ calls[k].state = "fallback" /\ calls[k].epoch < epoch
        BY <1>0, <3>1 DEF TurnInv, FallbackFollows, Preparing, InTurn
      <4>2. k = n - 1
        BY <1>2, <4>1, TurnBounds DEF Calls
      <4> QED
        BY <4>1, <4>2
    <3>2. ASSUME NEW m \in Calls, calls'[m].tag = "fallback"
          PROVE  /\ m - 1 \in Calls /\ calls'[m - 1].state = "fallback"
                 /\ calls'[m - 1].epoch < calls'[m].epoch
      <4>1. n \in Nat /\ m \in Nat /\ calls[n].state = "none"
        BY <2>4 DEF Made, Calls
      <4>2. CASE m = n
        BY <3>1, <3>2, <4>1, <4>2, <2>2, <2>3
      <4>3. CASE m # n
        BY <3>2, <4>1, <4>3, <2>3 DEF TurnInv, FallbackOfRejection
      <4> QED
        BY <4>2, <4>3
    <3> QED
      BY <3>2 DEF FallbackOfRejection
  <2> QED
    BY <2>7, <2>8, <2>9, <2>10, <2>11, <2>12, <2>13, <2>14, <2>15 DEF TurnInv
<1> QED
  BY <1>1, <1>2 DEF reserve

\* The gate: the child is enrolled, its line is written, it is let go, it forks.
LEMMA GateKeeps ==
  ASSUME TurnInv, spawnGated \/ recordLaunchedScope \/ releaseLaunchGate \/ fork
  PROVE  TurnInv'
<1> USE DEF InTurn
<1>0. turn \in TurnRecord /\ DOMAIN answer = Calls
  BY DEF TurnInv, TurnTypeOK
<1>1. CASE spawnGated
  <2>1. turn' \in TurnRecord /\ turn'.at = "gated" /\ turn'.n = turn.n
    BY <1>0, <1>1, ToIs DEF spawnGated, Places, Unsettled
  <2>2. turn.n \in Calls /\ Made = 1..turn.n /\ turn.n \in Made
    BY <1>1 DEF spawnGated, TurnInv, CallsInOrder, GateInOrder, Made, Unsettled, Launching
  <2>3. calls[turn.n].state = "reserved" /\ turn.n \notin execd /\ teardown[turn.n] = "none"
    BY <1>1 DEF spawnGated, TurnInv, GateInOrder, Unsettled, Launching
  <2>4. /\ members' \in [Calls -> SUBSET {"leader", "descendant"}]
        /\ \A n \in Calls : n # turn.n => members'[n] = members[n]
    BY <1>1, <2>2 DEF spawnGated, n0, TurnInv, TurnTypeOK
  <2>5. /\ UNCHANGED <<parent, execd, teardown, recorded, calls, answer, epoch>>
        /\ owned' = owned \cup {turn.n} /\ Made' = Made
    BY <1>1 DEF spawnGated, n0, Made
  <2>6. Live' = Live
    BY <2>3, <2>4, <2>5 DEF Live, TurnInv, TurnTypeOK
  <2>7. TurnTypeOK'
    BY <2>1, <2>2, <2>4, <2>5 DEF TurnInv, TurnTypeOK
  <2>8. RestsWhenDown' /\ FallbackOfRejection'
    BY <1>1, <2>5 DEF spawnGated, TurnInv, RestsWhenDown, FallbackOfRejection
  <2>9. CallsInOrder'
    BY <2>1, <2>2, <2>4, <2>5 DEF TurnInv, CallsInOrder
  <2>10. GateInOrder'
    BY <2>1, <2>3, <2>5 DEF GateInOrder, Launching
  <2>11. ProvenIsEmpty' /\ RejectionHolds'
    BY <2>3, <2>4, <2>5 DEF TurnInv, ProvenIsEmpty, RejectionHolds
  <2>12. ProvidersAccountedFor'
    BY <2>5, <2>6 DEF TurnInv, ProvidersAccountedFor
  <2>13. EpochAhead' /\ FallbackFollows'
    BY <2>1, <2>5 DEF TurnInv, EpochAhead, FallbackFollows, Preparing
  <2> QED
    BY <2>7, <2>8, <2>9, <2>10, <2>11, <2>12, <2>13 DEF TurnInv
<1>2. CASE recordLaunchedScope
  <2>1. turn.n \in Calls /\ turn.at \in Unsettled
    BY <1>2 DEF recordLaunchedScope, TurnInv, CallsInOrder, Unsettled
  <2>2. CASE To("refused")
    <3>1. turn' \in TurnRecord /\ turn'.at = "refused" /\ turn'.n = turn.n
      BY <1>0, <2>2, ToIs DEF Places, Unsettled
    <3>2. Reaping(n0) /\ recorded \subseteq recorded' /\ recorded' \subseteq Calls
      <4>1. ~To("recorded")
        BY <1>0, <3>1, ToIs DEF Places, Unsettled
      <4> QED
        BY <1>2, <2>1, <4>1 DEF recordLaunchedScope, n0, TurnInv, TurnTypeOK
    <3>3. ScopesWane
      BY <1>2, <2>1, <3>1, <3>2, ReapingWanes DEF recordLaunchedScope, n0, Launching
    <3> QED
      BY <1>2, <2>1, <3>1, <3>3, QuietKeeps, AnswersAlone
      DEF recordLaunchedScope, Moved, Unsettled, Launching
  <2>3. CASE To("recorded") /\ recorded' = recorded \cup {n0} /\ UNCHANGED teardown
    <3>1. turn' \in TurnRecord /\ turn'.at = "recorded" /\ turn'.n = turn.n
      BY <1>0, <2>3, ToIs DEF Places, Unsettled
    <3>2. /\ UNCHANGED <<parent, members, execd, teardown, owned, calls, answer, epoch>>
          /\ recorded' = recorded \cup {turn.n} /\ Made' = Made /\ Live' = Live
      BY <1>2, <2>3 DEF recordLaunchedScope, n0, Made, Live
    <3>3. TurnTypeOK'
      BY <2>1, <3>1, <3>2 DEF TurnInv, TurnTypeOK
    <3>4. CallsInOrder' /\ GateInOrder'
      BY <1>2, <3>1, <3>2 DEF recordLaunchedScope, TurnInv, CallsInOrder, GateInOrder,
         Unsettled, Launching
    <3>5. RestsWhenDown' /\ FallbackOfRejection' /\ ProvenIsEmpty' /\ RejectionHolds'
      BY <1>2, <3>2 DEF recordLaunchedScope, TurnInv, RestsWhenDown, FallbackOfRejection,
         ProvenIsEmpty, RejectionHolds
    <3>6. ProvidersAccountedFor'
      BY <3>2 DEF TurnInv, ProvidersAccountedFor
    <3>7. EpochAhead' /\ FallbackFollows'
      BY <3>1, <3>2 DEF TurnInv, EpochAhead, FallbackFollows, Preparing
    <3> QED
      BY <3>3, <3>4, <3>5, <3>6, <3>7 DEF TurnInv
  <2> QED
    BY <1>2, <2>2, <2>3 DEF recordLaunchedScope
<1>3. CASE releaseLaunchGate
  <2>1. turn' \in TurnRecord /\ turn'.at = "running" /\ turn'.n = turn.n
    BY <1>0, <1>3, ToIs DEF releaseLaunchGate, Places, Unsettled
  <2>2. /\ turn.n \in Calls /\ Made = 1..turn.n /\ calls[turn.n].state = "reserved"
        /\ turn.n \in owned /\ turn.n \in recorded /\ turn.n \in Made
    BY <1>3 DEF releaseLaunchGate, TurnInv, CallsInOrder, GateInOrder, Made, Unsettled
  <2>3. /\ UNCHANGED <<parent, members, teardown, owned, recorded, calls, answer, epoch>>
        /\ execd' = execd \cup {turn.n} /\ Made' = Made /\ parent = "up"
    BY <1>3 DEF releaseLaunchGate, n0, Made
  <2>4. Live' \subseteq Live \cup {turn.n}
    BY <2>3 DEF Live
  <2>5. TurnTypeOK'
    BY <2>1, <2>2, <2>3 DEF TurnInv, TurnTypeOK
  <2>6. CallsInOrder' /\ GateInOrder'
    BY <2>1, <2>2, <2>3 DEF TurnInv, CallsInOrder, GateInOrder, Launching
  <2>7. RestsWhenDown' /\ FallbackOfRejection' /\ ProvenIsEmpty' /\ RejectionHolds'
    BY <2>3 DEF TurnInv, RestsWhenDown, FallbackOfRejection, ProvenIsEmpty, RejectionHolds
  <2>8. ProvidersAccountedFor'
    BY <2>2, <2>3, <2>4 DEF TurnInv, ProvidersAccountedFor
  <2>9. EpochAhead' /\ FallbackFollows'
    BY <2>1, <2>3 DEF TurnInv, EpochAhead, FallbackFollows, Preparing
  <2> QED
    BY <2>5, <2>6, <2>7, <2>8, <2>9 DEF TurnInv
<1>4. CASE fork
  <2>1. PICK n \in execd : /\ "leader" \in members[n]
                           /\ members' = [members EXCEPT ![n] = @ \cup {"descendant"}]
    BY <1>4 DEF fork
  <2>2. UNCHANGED <<parent, turn, execd, teardown, owned, recorded, calls, answer, epoch>>
    BY <1>4 DEF fork
  <2>3. /\ members' \in [Calls -> SUBSET {"leader", "descendant"}] /\ members[n] # {}
        /\ \A m \in Calls : m # n => members'[m] = members[m]
    BY <2>1 DEF TurnInv, TurnTypeOK
  <2>4. Made' = Made /\ Live' = Live
    BY <2>1, <2>2, <2>3 DEF Made, Live, TurnInv, TurnTypeOK
  <2>5. TurnTypeOK' /\ RestsWhenDown' /\ FallbackOfRejection' /\ GateInOrder' /\ EpochAhead'
    BY <2>2, <2>3 DEF TurnInv, TurnTypeOK, RestsWhenDown, FallbackOfRejection, GateInOrder,
       EpochAhead
  <2>6. CallsInOrder' /\ FallbackFollows'
    BY <2>2, <2>3, <2>4 DEF TurnInv, CallsInOrder, FallbackFollows
  <2>7. ProvenIsEmpty' /\ RejectionHolds'
    BY <2>2, <2>3 DEF TurnInv, ProvenIsEmpty, RejectionHolds
  <2>8. ProvidersAccountedFor'
    BY <2>2, <2>4 DEF TurnInv, ProvidersAccountedFor
  <2> QED
    BY <2>5, <2>6, <2>7, <2>8 DEF TurnInv
<1> QED
  BY <1>1, <1>2, <1>3, <1>4

\* The call in progress is settled: its record keeps its tag and its epoch.
LEMMA SettledIs ==
  ASSUME TurnInv, turn.at = "settle",
         NEW s \in {"trusted", "fallback", "uncertain"},
         calls' = [calls EXCEPT ![turn.n].state = s]
  PROVE  /\ turn.n \in Calls /\ calls' \in [Calls -> CallRecord] /\ Made' = Made
         /\ calls'[turn.n].state = s /\ calls[turn.n].state = "reserved"
         /\ \A m \in Calls : /\ calls'[m].tag = calls[m].tag /\ calls'[m].epoch = calls[m].epoch
                             /\ m # turn.n => calls'[m].state = calls[m].state
<1>1. turn.n \in Calls /\ calls[turn.n].state = "reserved" /\ calls \in [Calls -> CallRecord]
  BY DEF TurnInv, TurnTypeOK, CallsInOrder, GateInOrder, Unsettled
<1>2. /\ calls' \in [Calls -> CallRecord] /\ calls'[turn.n].state = s
      /\ \A m \in Calls : /\ calls'[m].tag = calls[m].tag /\ calls'[m].epoch = calls[m].epoch
                          /\ m # turn.n => calls'[m].state = calls[m].state
  BY <1>1 DEF CallRecord
<1>3. Made' = Made
  BY <1>1, <1>2 DEF Made
<1> QED
  BY <1>1, <1>2, <1>3

LEMMA SettlementKeeps ==
  ASSUME TurnInv, turn.at = "settle", turn' \in TurnRecord,
         turn'.at = "idle" \/ (turn'.at = "routed" /\ turn'.n = turn.n),
         NEW s \in {"trusted", "fallback", "uncertain"},
         s = "fallback" => answer[turn.n].transportOk /\ teardown[turn.n] = "proven",
         calls' = [calls EXCEPT ![turn.n].state = s],
         UNCHANGED <<parent, members, execd, teardown, owned, recorded, answer, epoch>>
  PROVE  TurnInv'
<1>1. /\ turn.n \in Calls /\ calls' \in [Calls -> CallRecord] /\ Made' = Made
      /\ calls'[turn.n].state = s /\ calls[turn.n].state = "reserved"
      /\ \A m \in Calls : /\ calls'[m].tag = calls[m].tag /\ calls'[m].epoch = calls[m].epoch
                          /\ m # turn.n => calls'[m].state = calls[m].state
  BY SettledIs
<1>2. Made = 1..turn.n
  BY DEF TurnInv, CallsInOrder, Unsettled
<1>3. TurnTypeOK'
  BY <1>1 DEF TurnInv, TurnTypeOK
<1>4. RestsWhenDown' /\ ProvenIsEmpty'
  BY DEF TurnInv, RestsWhenDown, ProvenIsEmpty
<1>5. CallsInOrder'
  BY <1>1, <1>2 DEF TurnInv, CallsInOrder, Unsettled, Settled, Launching
<1>6. GateInOrder' /\ FallbackFollows'
  BY DEF GateInOrder, FallbackFollows, Unsettled, Launching, Preparing
<1>7. ProvidersAccountedFor'
  BY DEF TurnInv, ProvidersAccountedFor, Live
<1>8. RejectionHolds'
  BY <1>1 DEF TurnInv, RejectionHolds, ProvenIsEmpty
<1>9. EpochAhead'
  BY <1>1 DEF TurnInv, EpochAhead
<1>10. FallbackOfRejection'
  BY <1>1 DEF TurnInv, FallbackOfRejection
<1> QED
  BY <1>3, <1>4, <1>5, <1>6, <1>7, <1>8, <1>9, <1>10 DEF TurnInv

\* The end of a call: its settlement, and the way to a fallback.
LEMMA RoutingKeeps ==
  ASSUME TurnInv,
         \/ closeGrokBoundary \/ settleCompleted \/ markCooldown \/ bumpRouteEpoch
         \/ runFallback
  PROVE  TurnInv'
<1> USE DEF InTurn
<1>0. turn \in TurnRecord /\ DOMAIN answer = Calls
  BY DEF TurnInv, TurnTypeOK
<1>1. CASE closeGrokBoundary
  <2>1. CASE turn' = [turn EXCEPT !.proxy = FALSE] /\ UNCHANGED calls
    <3>1. turn' \in TurnRecord /\ turn'.at = "settle" /\ turn'.n = turn.n
      BY <1>0, <1>1, <2>1 DEF closeGrokBoundary, TurnRecord
    <3> QED
      BY <1>1, <2>1, <3>1, QuietKeeps, ScopesAlone, AnswersAlone
      DEF closeGrokBoundary, Moved, Unsettled, Launching
  <2>2. CASE turn' = NoTurn /\ calls' = [calls EXCEPT ![n0].state = "uncertain"]
    BY <1>1, <2>2, NoTurnIs, SettlementKeeps DEF closeGrokBoundary, n0
  <2> QED
    BY <1>1, <2>1, <2>2 DEF closeGrokBoundary
<1>2. CASE settleCompleted
  <2>1. turn' \in TurnRecord /\ turn'.at = "routed" /\ turn'.n = turn.n
    BY <1>0, <1>2, ToIs DEF settleCompleted, Places, Settled
  <2>2. PICK s \in {"trusted", "fallback", "uncertain"} :
          /\ s = "fallback" => answer[turn.n].transportOk /\ teardown[turn.n] = "proven"
          /\ calls' = [calls EXCEPT ![turn.n].state = s]
    BY <1>2 DEF settleCompleted, n0
  <2> QED
    BY <1>2, <2>1, <2>2, SettlementKeeps DEF settleCompleted
<1>3. CASE markCooldown \/ bumpRouteEpoch \/ runFallback
  <2>1. turn.n \in Calls /\ Made = 1..turn.n /\ turn.at \in Settled /\ parent = "up"
    BY <1>3 DEF markCooldown, bumpRouteEpoch, runFallback, TurnInv, CallsInOrder, Settled
  <2>2. /\ UNCHANGED <<parent, members, execd, teardown, owned, recorded, calls, answer>>
        /\ Made' = Made /\ Live' = Live /\ epoch' \in Nat /\ epoch' >= epoch
    BY <1>3 DEF markCooldown, bumpRouteEpoch, runFallback, Made, Live, TurnInv, TurnTypeOK
  <2>3. turn' \in TurnRecord /\ turn'.at \in {"cooled", "bumped", "prepare"}
    <3>1. CASE markCooldown \/ bumpRouteEpoch
      BY <1>0, <3>1, ToIs DEF markCooldown, bumpRouteEpoch, Places, Settled
    <3>2. CASE runFallback
      BY <3>2 DEF runFallback, NoTurn, TurnRecord, Places, Preparing, Tags
    <3> QED
      BY <1>3, <3>1, <3>2
  <2>4. calls[turn.n].state = "fallback"
    BY <1>3 DEF markCooldown, bumpRouteEpoch, runFallback, FallbackAllowed, n0, TurnInv,
       EpochAhead
  <2>5. turn'.at \in {"cooled", "bumped"} => turn'.n = turn.n
    BY <1>0, <1>3, ToIs DEF markCooldown, bumpRouteEpoch, runFallback, Places, Settled, NoTurn
  <2>6. turn'.at \in {"bumped", "prepare"} => calls[turn.n].epoch < epoch'
    <3>1. CASE markCooldown
      BY <1>0, <3>1, ToIs DEF markCooldown, Places, Settled
    <3>2. CASE bumpRouteEpoch
      BY <2>1, <3>2 DEF bumpRouteEpoch, TurnInv, EpochAhead, TurnTypeOK, CallRecord
    <3>3. CASE runFallback
      BY <3>3 DEF runFallback, TurnInv, EpochAhead
    <3> QED
      BY <1>3, <3>1, <3>2, <3>3
  <2>7. TurnTypeOK'
    BY <2>2, <2>3 DEF TurnInv, TurnTypeOK
  <2>8. /\ RestsWhenDown' /\ ProvenIsEmpty' /\ ProvidersAccountedFor' /\ RejectionHolds'
        /\ FallbackOfRejection'
    BY <2>1, <2>2 DEF TurnInv, RestsWhenDown, ProvenIsEmpty, ProvidersAccountedFor,
       RejectionHolds, FallbackOfRejection
  <2>9. CallsInOrder' /\ GateInOrder'
    BY <2>1, <2>2, <2>3, <2>5 DEF TurnInv, CallsInOrder, GateInOrder, Unsettled, Launching,
       Settled
  <2>10. EpochAhead'
    BY <2>2, <2>3, <2>4, <2>5, <2>6 DEF TurnInv, EpochAhead, TurnTypeOK, CallRecord
  <2>11. FallbackFollows'
    BY <2>1, <2>2, <2>3, <2>4, <2>6 DEF FallbackFollows, Preparing
  <2> QED
    BY <2>7, <2>8, <2>9, <2>10, <2>11 DEF TurnInv
<1> QED
  BY <1>1, <1>2, <1>3

\* The end of the run, its crash, and the recovery of what it left.
LEMMA RecoveryKeeps ==
  ASSUME TurnInv, finalize \/ TurnCrash \/ reapAbandonedScopes
  PROVE  TurnInv'
<1>1. /\ turn' \in TurnRecord /\ turn'.at = "idle" /\ DOMAIN answer' = Calls
      /\ UNCHANGED <<execd, calls, answer>> /\ Made' = Made
      /\ epoch' \in Nat /\ epoch' >= epoch
  BY NoTurnIs DEF finalize, TurnCrash, reapAbandonedScopes, InTurn, Made, TurnInv, TurnTypeOK,
     RestsWhenDown
<1>2. /\ members' \in [Calls -> SUBSET {"leader", "descendant"}]
      /\ \A n \in Calls : members'[n] \subseteq members[n]
  BY DEF finalize, TurnCrash, reapAbandonedScopes, TurnInv, TurnTypeOK
<1>3. /\ teardown' \in [Calls -> {"none", "going", "proven", "failed"}]
      /\ \A n \in Calls : teardown'[n] \in {"none", teardown[n]}
  BY DEF finalize, TurnCrash, reapAbandonedScopes, TurnInv, TurnTypeOK
<1>4. owned' \subseteq owned /\ recorded' \subseteq recorded
  BY DEF finalize, TurnCrash, reapAbandonedScopes
<1>5. TurnTypeOK'
  BY <1>1, <1>2, <1>3, <1>4 DEF TurnInv, TurnTypeOK
<1>6. RestsWhenDown' /\ GateInOrder' /\ FallbackFollows'
  BY <1>1 DEF RestsWhenDown, GateInOrder, FallbackFollows, Unsettled, Launching, Preparing
<1>7. CallsInOrder'
  BY <1>1, <1>2, <1>3, <1>4 DEF TurnInv, CallsInOrder, Unsettled, Launching, Settled
<1>8. ProvenIsEmpty' /\ RejectionHolds' /\ FallbackOfRejection'
  BY <1>1, <1>2, <1>3 DEF TurnInv, ProvenIsEmpty, RejectionHolds, FallbackOfRejection
<1>9. EpochAhead'
  BY <1>1 DEF TurnInv, TurnTypeOK, EpochAhead, CallRecord
<1>10. ProvidersAccountedFor'
  <2>1. CASE finalize
    BY <2>1 DEF finalize, InTurn, TurnInv, TurnTypeOK, ProvidersAccountedFor, ProvenIsEmpty, Live
  <2>2. CASE TurnCrash
    <3>1. Live' = Live
      BY <1>1, <2>2 DEF TurnCrash, TurnInv, TurnTypeOK, Live
    <3> QED
      BY <2>2, <3>1 DEF TurnCrash, TurnInv, ProvidersAccountedFor
  <2>3. CASE reapAbandonedScopes
    <3>1. PICK dead \in SUBSET recorded :
            /\ members' = [n \in Calls |-> IF n \in dead THEN {} ELSE members[n]]
            /\ recorded' \in {recorded, recorded \ dead}
            /\ parent' = IF dead = recorded THEN "up" ELSE "down"
      BY <2>3 DEF reapAbandonedScopes
    <3>2. Live' = Live \ dead
      BY <1>1, <3>1 DEF Live, TurnInv, TurnTypeOK
    <3> QED
      BY <3>1, <3>2 DEF TurnInv, ProvidersAccountedFor
  <2> QED
    BY <2>1, <2>2, <2>3
<1> QED
  BY <1>5, <1>6, <1>7, <1>8, <1>9, <1>10 DEF TurnInv

LEMMA TurnInvStep == TurnInv /\ [TurnNext]_turnVars => TurnInv'
<1> SUFFICES ASSUME TurnInv, [TurnNext]_turnVars PROVE TurnInv'
  OBVIOUS
<1>1. CASE UNCHANGED turnVars
  BY <1>1, QuietKeeps, ScopesAlone, AnswersAlone DEF turnVars, Moved, TurnInv, TurnTypeOK
<1>2. CASE TurnNext
  BY <1>2, PreparationKeeps, ChildKeeps, ReserveKeeps, GateKeeps, RoutingKeeps, RecoveryKeeps
  DEF TurnNext
<1> QED
  BY <1>1, <1>2

\* Whatever crashed, a provider that runs has its scope in the journal; a working
\* parent owns every live scope; a released lease leaves none.
THEOREM ProvidersAlwaysAccountedFor == TurnSpec => []ProvidersAccountedFor
<1>1. TurnInv => ProvidersAccountedFor
  BY DEF TurnInv
<1> QED
  BY <1>1, TurnInitially, TurnInvStep, PTL DEF TurnSpec

\* A second provider is billed for a turn only behind the first one's settled
\* rejection, its empty scope and a later route epoch.
THEOREM FallbackAlwaysStandsAlone == TurnSpec => []FallbackStandsAlone
<1>1. TurnInv => FallbackStandsAlone
  BY DEF TurnInv, FallbackOfRejection, RejectionHolds, FallbackStandsAlone
<1> QED
  BY <1>1, TurnInitially, TurnInvStep, PTL DEF TurnSpec

-----------------------------------------------------------------------------
(* The normalizers: what their state says of the records they have read.   *)

ClaudeKinds == asRecord["claude"]
CodexKinds == asRecord["codex"]
ClaudeBody == {"assistant", "user", "allowed", "rejected"}
ClaudeEnds == {"success", "failing", "odd"}

NormRecs ==
  [drift : BOOLEAN, inits : Nat, bound : BOOLEAN, early : BOOLEAN,
   terminal : {"none"} \cup ClaudeEnds \cup {"completed", "failed"} \cup asRecord["raw"],
   rate : {"none", "allowed", "rejected"}, rateFrame : Nat, message : BOOLEAN,
   phase : {"init", "thread", "turn", "done"}]

\* What a conversation may have come to, as a set of records in their order.
Preamble(l) == \A i \in 1..Len(l) : l[i] = "user"

Opening(l, p) ==
  /\ p \in 1..Len(l) /\ l[p] = "init"
  /\ \A i \in 1..(p - 1) : l[i] = "user"

Speaking(l) == \E p \in 1..Len(l) : Opening(l, p) /\ \A i \in (p + 1)..Len(l) : l[i] \in ClaudeBody

Concluded(l, last) ==
  \E p \in 1..Len(l) :
    /\ Opening(l, p) /\ p < Len(l) /\ l[Len(l)] = last
    /\ \A i \in (p + 1)..(Len(l) - 1) : l[i] \in ClaudeBody

Rates(l) == {i \in 1..Len(l) : l[i] \in {"allowed", "rejected"}}

\* A normalizer that has seen nothing wrong.
Sound(n) == ~n.drift /\ ~n.early /\ n.inits <= 1

\* While nothing was wrong, the normalizer's state says what the records are;
\* and records that are a conversation were never found wrong.
ClaudeFollows ==
  dialect = "claude" =>
    /\ norm.bound <=> norm.inits > 0
    /\ norm.terminal \in {"none"} \cup ClaudeEnds
    /\ ~norm.bound => norm.terminal = "none"
    /\ Preamble(lines) <=> Sound(norm) /\ ~norm.bound
    /\ Speaking(lines) <=> Sound(norm) /\ norm.bound /\ norm.terminal = "none"
    /\ \A t \in ClaudeEnds : Concluded(lines, t) <=> Sound(norm) /\ norm.terminal = t
    /\ Sound(norm) => \/ norm.rate = "none" /\ norm.rateFrame = 0 /\ Rates(lines) = {}
                      \/ /\ norm.rateFrame \in Rates(lines) /\ norm.rate = lines[norm.rateFrame]
                         /\ \A j \in Rates(lines) : j <= norm.rateFrame

\* The same for the other protocol: a thread, a turn, its items and its end.
TurnOpen(l, m) ==
  /\ m >= 2 /\ l[1] = "thread" /\ l[2] = "turn"
  /\ \A i \in 3..m : l[i] \in {"item", "message"}
Messaged(l, m) == \E i \in 3..m : l[i] = "message"
OnThread(l) == Len(l) = 1 /\ l[1] = "thread"
OnTurn(l) == TurnOpen(l, Len(l))
CodexEnded(l) == Len(l) >= 3 /\ l[Len(l)] = "completed" /\ TurnOpen(l, Len(l) - 1)

CodexFollows ==
  dialect = "codex" =>
    /\ lines = <<>> <=> ~norm.drift /\ norm.phase = "init"
    /\ OnThread(lines) <=> ~norm.drift /\ norm.phase = "thread"
    /\ OnTurn(lines) <=> ~norm.drift /\ norm.phase = "turn"
    /\ CodexEnded(lines) <=> ~norm.drift /\ norm.phase = "done" /\ norm.terminal = "completed"
    /\ ~norm.drift /\ norm.phase \in {"init", "thread"} => ~norm.message
    /\ ~norm.drift /\ norm.phase = "turn" => (norm.message <=> Messaged(lines, Len(lines)))
    /\ ~norm.drift /\ norm.phase = "done" /\ norm.terminal = "completed"
         => (norm.message <=> Messaged(lines, Len(lines) - 1))

EndIsFinish ==
  \/ turnEnd = NoTurnEnd
  \/ dialect = "claude" /\ turnEnd = finishClaude(norm)
  \/ dialect = "codex" /\ turnEnd = finishCodex(norm)
  \/ dialect = "raw" /\ turnEnd = normalizeRaw(norm)

NormTyped ==
  /\ dialect \in {"claude", "codex", "raw"} /\ lines \in Seq(asRecord[dialect])
  /\ norm \in NormRecs

NormInv == NormTyped /\ ClaudeFollows /\ CodexFollows /\ EndIsFinish

-----------------------------------------------------------------------------
\* What one more record makes of a conversation.
LEMMA OneMore ==
  ASSUME NEW K, NEW l \in Seq(K), NEW k \in K, NEW m, m = Append(l, k)
  PROVE  /\ m \in Seq(K) /\ Len(m) = Len(l) + 1 /\ Len(l) \in Nat /\ m[Len(l) + 1] = k
         /\ \A i \in 1..Len(l) : m[i] = l[i]
  OBVIOUS

\* The shape a conversation has after one more record, from the shape it had.
LEMMA ClaudeShapes ==
  ASSUME NEW K, NEW l \in Seq(K), NEW k \in K, NEW m, m = Append(l, k)
  PROVE  /\ Preamble(m) <=> Preamble(l) /\ k = "user"
         /\ Speaking(m) <=> (Preamble(l) /\ k = "init") \/ (Speaking(l) /\ k \in ClaudeBody)
         /\ \A t \in ClaudeEnds : Concluded(m, t) <=> Speaking(l) /\ k = t
<1>1. /\ Len(m) = Len(l) + 1 /\ Len(l) \in Nat /\ m[Len(l) + 1] = k
      /\ \A i \in 1..Len(l) : m[i] = l[i]
  BY OneMore
<1>2. Preamble(m) <=> Preamble(l) /\ k = "user"
  BY <1>1 DEF Preamble
<1>3. \A p \in 1..Len(l) : Opening(m, p) <=> Opening(l, p)
  BY <1>1 DEF Opening
<1>4. Opening(m, Len(l) + 1) <=> Preamble(l) /\ k = "init"
  BY <1>1 DEF Opening, Preamble
<1>5. ASSUME Speaking(m) PROVE (Preamble(l) /\ k = "init") \/ (Speaking(l) /\ k \in ClaudeBody)
  <2>1. PICK p \in 1..Len(m) : Opening(m, p) /\ \A i \in (p + 1)..Len(m) : m[i] \in ClaudeBody
    BY <1>5 DEF Speaking
  <2>2. CASE p = Len(l) + 1
    BY <1>4, <2>1, <2>2
  <2>3. CASE p \in 1..Len(l)
    <3>1. Len(l) + 1 \in (p + 1)..Len(m)
      BY <1>1, <2>3
    <3>2. k \in ClaudeBody
      BY <1>1, <2>1, <3>1
    <3>3. \A i \in (p + 1)..Len(l) : l[i] \in ClaudeBody
      BY <1>1, <2>1, <2>3
    <3> QED
      BY <1>3, <2>1, <2>3, <3>2, <3>3 DEF Speaking
  <2> QED
    BY <1>1, <2>1, <2>2, <2>3
<1>6. ASSUME Preamble(l), k = "init" PROVE Speaking(m)
  <2>1. Len(l) + 1 \in 1..Len(m) /\ Opening(m, Len(l) + 1)
    BY <1>1, <1>4, <1>6
  <2>2. \A i \in ((Len(l) + 1) + 1)..Len(m) : m[i] \in ClaudeBody
    BY <1>1
  <2> QED
    BY <2>1, <2>2 DEF Speaking
<1>7. ASSUME Speaking(l), k \in ClaudeBody PROVE Speaking(m)
  <2>1. PICK p \in 1..Len(l) : Opening(l, p) /\ \A i \in (p + 1)..Len(l) : l[i] \in ClaudeBody
    BY <1>7 DEF Speaking
  <2>2. p \in 1..Len(m) /\ Opening(m, p)
    BY <1>1, <1>3, <2>1
  <2>3. \A i \in (p + 1)..Len(m) : m[i] \in ClaudeBody
    BY <1>1, <1>7, <2>1
  <2> QED
    BY <2>2, <2>3 DEF Speaking
<1>8. ASSUME NEW t \in ClaudeEnds, Concluded(m, t) PROVE Speaking(l) /\ k = t
  <2>1. PICK p \in 1..Len(m) :
          /\ Opening(m, p) /\ p < Len(m) /\ m[Len(m)] = t
          /\ \A i \in (p + 1)..(Len(m) - 1) : m[i] \in ClaudeBody
    BY <1>8 DEF Concluded
  <2>2. p \in 1..Len(l) /\ Len(m) - 1 = Len(l)
    BY <1>1, <2>1
  <2>3. \A i \in (p + 1)..Len(l) : l[i] \in ClaudeBody
    BY <1>1, <2>1, <2>2
  <2> QED
    BY <1>1, <1>3, <2>1, <2>2, <2>3 DEF Speaking
<1>9. ASSUME NEW t \in ClaudeEnds, Speaking(l), k = t PROVE Concluded(m, t)
  <2>1. PICK p \in 1..Len(l) : Opening(l, p) /\ \A i \in (p + 1)..Len(l) : l[i] \in ClaudeBody
    BY <1>9 DEF Speaking
  <2>2. /\ p \in 1..Len(m) /\ Opening(m, p) /\ p < Len(m) /\ m[Len(m)] = t
        /\ Len(m) - 1 = Len(l)
    BY <1>1, <1>3, <1>9, <2>1
  <2>3. \A i \in (p + 1)..(Len(m) - 1) : m[i] \in ClaudeBody
    BY <1>1, <2>1, <2>2
  <2> QED
    BY <2>2, <2>3 DEF Concluded
<1> QED
  BY <1>2, <1>5, <1>6, <1>7, <1>8, <1>9

\* What one record makes of the normalizer.
LEMMA ClaudeStep ==
  ASSUME NEW n \in NormRecs, n.bound <=> n.inits > 0, NEW k \in ClaudeKinds, NEW i \in Nat, NEW q,
         q = StreamingClaudeNormalizer(n, k, i)
  PROVE  /\ q \in NormRecs
         /\ q.bound <=> q.inits > 0
         /\ q.bound <=> n.bound \/ k = "init"
         /\ Sound(q) <=> Sound(n) /\ k \in (IF ~n.bound THEN {"user", "init"}
                                            ELSE IF n.terminal = "none" THEN ClaudeBody \cup ClaudeEnds
                                            ELSE {})
         /\ q.terminal = IF n.bound /\ n.terminal = "none" /\ k \in ClaudeEnds THEN k ELSE n.terminal
         /\ n.bound /\ n.terminal = "none" /\ k \in {"allowed", "rejected"}
              => q.rate = k /\ q.rateFrame = i
         /\ k \notin {"allowed", "rejected"} => q.rate = n.rate /\ q.rateFrame = n.rateFrame
<1> USE DEF NormRecs, Sound, ClaudeKinds, asRecord, ClaudeBody, ClaudeEnds
<1>1. CASE k = "init"
  <2> DEFINE d == [n EXCEPT !.inits = n.inits + 1]
  <2>1. q = [d EXCEPT !.bound = TRUE]
    BY <1>1 DEF StreamingClaudeNormalizer
  <2>8. n.inits + 1 \in Nat
    OBVIOUS
  <2>9. /\ d \in NormRecs /\ d.inits = n.inits + 1 /\ d.drift = n.drift
        /\ d.early = n.early /\ d.terminal = n.terminal /\ d.rate = n.rate /\ d.rateFrame = n.rateFrame
    BY <2>8
  <2> HIDE DEF d
  <2>2. /\ q \in NormRecs /\ q.inits = n.inits + 1 /\ q.bound /\ q.drift = n.drift
        /\ q.early = n.early /\ q.terminal = n.terminal /\ q.rate = n.rate /\ q.rateFrame = n.rateFrame
    BY <2>1, <2>9
  <2>3. q.bound /\ q.inits > 0
    BY <2>2
  <2>4. n.inits \in Nat
    OBVIOUS
  <2>5. Sound(q) <=> Sound(n) /\ ~n.bound
    BY <2>2, <2>4
  <2> QED
    BY <1>1, <2>2, <2>3, <2>5
<1>2. CASE k \in {"garbage", "badInit"}
  BY ZenonT(40), <1>2 DEF StreamingClaudeNormalizer, Drift
<1>3. CASE ~n.bound /\ k \notin {"garbage", "init", "badInit"}
  <2>1. q = [n EXCEPT !.early = @ \/ isClaudeAuthoritative(k)]
    BY <1>3 DEF StreamingClaudeNormalizer
  <2>2. isClaudeAuthoritative(k) <=> k # "user"
    BY <1>3 DEF isClaudeAuthoritative
  <2>3. CASE k = "user"
    <3>1. q = n
      BY <2>1, <2>2, <2>3
    <3> QED
      BY <1>3, <2>3, <3>1
  <2>4. CASE k # "user"
    <3>1. q = [n EXCEPT !.early = TRUE]
      BY <2>1, <2>2, <2>4
    <3> QED
      BY <1>3, <2>4, <3>1
  <2> QED
    BY <2>3, <2>4
<1>4. CASE n.bound /\ n.terminal # "none" /\ k \notin {"garbage", "init", "badInit"}
  BY <1>4 DEF StreamingClaudeNormalizer, Drift
<1>5. CASE n.bound /\ n.terminal = "none" /\ k \in {"foreign", "badRate"}
  BY <1>5 DEF StreamingClaudeNormalizer, Drift, rateLimitEvent
<1>6. CASE n.bound /\ n.terminal = "none" /\ k \in ClaudeEnds
  BY <1>6 DEF StreamingClaudeNormalizer
<1>7. CASE n.bound /\ n.terminal = "none" /\ k \in {"allowed", "rejected"}
  <2>1. q = [[n EXCEPT !.rate = k] EXCEPT !.rateFrame = i]
    BY <1>7 DEF StreamingClaudeNormalizer, rateLimitEvent
  <2> QED
    BY <1>7, <2>1
<1>8. CASE n.bound /\ n.terminal = "none" /\ k \in {"assistant", "user"}
  BY <1>8 DEF StreamingClaudeNormalizer
<1> QED
  BY <1>1, <1>2, <1>3, <1>4, <1>5, <1>6, <1>7, <1>8

\* One more record keeps what StreamingClaudeNormalizer says of the conversation.
LEMMA ClaudeKept ==
  ASSUME NormInv, pushLine, dialect = "claude"
  PROVE  ClaudeFollows' /\ NormTyped'
<1>1. PICK k \in ClaudeKinds :
        /\ lines' = Append(lines, k)
        /\ norm' = StreamingClaudeNormalizer(norm, k, Len(lines) + 1)
  BY DEF pushLine, ClaudeKinds
<1>2. /\ lines \in Seq(ClaudeKinds) /\ norm \in NormRecs /\ ClaudeFollows /\ dialect' = dialect
  BY DEF NormInv, NormTyped, ClaudeKinds, pushLine
<1>3. /\ lines' \in Seq(ClaudeKinds) /\ Len(lines') = Len(lines) + 1 /\ Len(lines) \in Nat
      /\ lines'[Len(lines) + 1] = k /\ \A i \in 1..Len(lines) : lines'[i] = lines[i]
  BY <1>1, <1>2, OneMore
<1>4. /\ Preamble(lines') <=> Preamble(lines) /\ k = "user"
      /\ Speaking(lines') <=> (Preamble(lines) /\ k = "init") \/ (Speaking(lines) /\ k \in ClaudeBody)
      /\ \A t \in ClaudeEnds : Concluded(lines', t) <=> Speaking(lines) /\ k = t
  BY <1>1, <1>2, ClaudeShapes
<1>5. PICK q : q = norm'
  OBVIOUS
<1>6. norm.bound <=> norm.inits > 0
  BY <1>2 DEF ClaudeFollows
<1>7. /\ q \in NormRecs
      /\ q.bound <=> q.inits > 0
      /\ q.bound <=> norm.bound \/ k = "init"
      /\ Sound(q) <=> Sound(norm) /\ k \in (IF ~norm.bound THEN {"user", "init"}
                                            ELSE IF norm.terminal = "none" THEN ClaudeBody \cup ClaudeEnds
                                            ELSE {})
      /\ q.terminal = IF norm.bound /\ norm.terminal = "none" /\ k \in ClaudeEnds THEN k ELSE norm.terminal
      /\ norm.bound /\ norm.terminal = "none" /\ k \in {"allowed", "rejected"}
           => q.rate = k /\ q.rateFrame = Len(lines) + 1
      /\ k \notin {"allowed", "rejected"} => q.rate = norm.rate /\ q.rateFrame = norm.rateFrame
  BY <1>1, <1>2, <1>3, <1>5, <1>6, ClaudeStep
<1>8. Preamble(lines') <=> Sound(q) /\ ~q.bound
  BY <1>2, <1>4, <1>7 DEF ClaudeFollows
<1>9. Speaking(lines') <=> Sound(q) /\ q.bound /\ q.terminal = "none"
  BY <1>2, <1>4, <1>7 DEF ClaudeFollows, ClaudeBody, ClaudeEnds
<1>10. \A t \in ClaudeEnds : Concluded(lines', t) <=> Sound(q) /\ q.terminal = t
  BY <1>2, <1>4, <1>7 DEF ClaudeFollows, ClaudeBody, ClaudeEnds
<1>11. q.terminal \in {"none"} \cup ClaudeEnds /\ (~q.bound => q.terminal = "none")
  BY <1>2, <1>7 DEF ClaudeFollows
<1>12. Sound(q) => \/ q.rate = "none" /\ q.rateFrame = 0 /\ Rates(lines') = {}
                   \/ /\ q.rateFrame \in Rates(lines') /\ q.rate = lines'[q.rateFrame]
                      /\ \A j \in Rates(lines') : j <= q.rateFrame
  <2> SUFFICES ASSUME Sound(q)
      PROVE  \/ q.rate = "none" /\ q.rateFrame = 0 /\ Rates(lines') = {}
             \/ /\ q.rateFrame \in Rates(lines') /\ q.rate = lines'[q.rateFrame]
                /\ \A j \in Rates(lines') : j <= q.rateFrame
    OBVIOUS
  <2>1. CASE k \in {"allowed", "rejected"}
    <3>1. norm.bound /\ norm.terminal = "none"
      BY <1>7, <2>1
    <3>2. q.rate = k /\ q.rateFrame = Len(lines) + 1
      BY <1>7, <2>1, <3>1
    <3>3. Rates(lines') \subseteq 1..(Len(lines) + 1) /\ Len(lines) + 1 \in Rates(lines')
      BY <1>3, <2>1 DEF Rates
    <3> QED
      BY <1>3, <3>2, <3>3
  <2>2. CASE k \notin {"allowed", "rejected"}
    <3>1. Rates(lines') = Rates(lines)
      BY <1>3, <2>2 DEF Rates
    <3>2. q.rate = norm.rate /\ q.rateFrame = norm.rateFrame /\ Sound(norm)
      BY <1>7, <2>2
    <3>3. Rates(lines) \subseteq 1..Len(lines)
      BY DEF Rates
    <3> QED
      BY <1>2, <1>3, <3>1, <3>2, <3>3 DEF ClaudeFollows
  <2> QED
    BY <2>1, <2>2
<1>13. NormTyped'
  BY <1>2, <1>3, <1>5, <1>7 DEF NormInv, NormTyped, ClaudeKinds
<1> QED
  BY <1>5, <1>7, <1>8, <1>9, <1>10, <1>11, <1>12, <1>13 DEF ClaudeFollows

\* What one record makes of the other normalizer.
LEMMA CodexStep ==
  ASSUME NEW n \in NormRecs, NEW k \in CodexKinds, NEW q, q = StreamingCodexNormalizer(n, k)
  PROVE  /\ q \in NormRecs
         /\ ~q.drift <=>
              /\ ~n.drift /\ n.phase # "done"
              /\ k \in (CASE n.phase = "init" -> {"thread", "error"}
                          [] n.phase = "thread" -> {"turn", "error"}
                          [] OTHER -> {"item", "message", "completed", "failed", "error"})
         /\ ~q.drift => q.phase = (CASE k = "thread" -> "thread" [] k = "turn" -> "turn"
                                     [] k \in {"item", "message"} -> "turn" [] OTHER -> "done")
         /\ ~q.drift /\ k = "completed" => q.terminal = "completed"
         /\ ~q.drift /\ k \in {"failed", "error"} => q.terminal = "failed"
         /\ ~q.drift => (q.message <=> n.message \/ k = "message")
<1> USE DEF NormRecs, CodexKinds, asRecord
<1>1. CASE k = "garbage" \/ n.phase = "done"
  BY <1>1 DEF StreamingCodexNormalizer, Drift
<1>2. CASE n.phase # "done" /\ k = "error"
  <2>1. q = [[n EXCEPT !.phase = "done"] EXCEPT !.terminal = "failed"]
    BY <1>2 DEF StreamingCodexNormalizer
  <2> QED
    BY <1>2, <2>1
<1>3. CASE n.phase # "done" /\ k = "thread"
  BY <1>3 DEF StreamingCodexNormalizer, Drift
<1>4. CASE n.phase # "done" /\ k = "turn"
  BY <1>4 DEF StreamingCodexNormalizer, Drift
<1>5. CASE n.phase # "done" /\ k \in {"item", "message", "badItem"}
  <2>1. CASE n.phase # "turn" \/ k = "badItem"
    BY <1>5, <2>1 DEF StreamingCodexNormalizer, Drift, validCodexItem
  <2>2. CASE n.phase = "turn" /\ k = "item"
    <3>1. q = [n EXCEPT !.message = @ \/ k = "message"]
      BY <1>5, <2>2 DEF StreamingCodexNormalizer, validCodexItem
    <3>2. q = n
      BY <2>2, <3>1
    <3> QED
      BY <2>2, <3>2
  <2>3. CASE n.phase = "turn" /\ k = "message"
    <3>1. q = [n EXCEPT !.message = @ \/ k = "message"]
      BY <1>5, <2>3 DEF StreamingCodexNormalizer, validCodexItem
    <3>2. q = [n EXCEPT !.message = TRUE]
      BY <2>3, <3>1
    <3> QED
      BY <2>3, <3>2
  <2> QED
    BY <1>5, <2>1, <2>2, <2>3
<1>6. CASE n.phase # "done" /\ k \in {"completed", "failed"}
  <2>1. q = [[[n EXCEPT !.drift = @ \/ n.phase # "turn"] EXCEPT !.phase = "done"] EXCEPT !.terminal = k]
    BY <1>6 DEF StreamingCodexNormalizer
  <2>2. CASE n.phase = "turn"
    <3>1. q = [[n EXCEPT !.phase = "done"] EXCEPT !.terminal = k]
      BY <2>1, <2>2
    <3> QED
      BY <1>6, <2>2, <3>1
  <2>3. CASE n.phase # "turn"
    <3>1. q = [[[n EXCEPT !.drift = TRUE] EXCEPT !.phase = "done"] EXCEPT !.terminal = k]
      BY <2>1, <2>3
    <3> QED
      BY <1>6, <2>3, <3>1
  <2> QED
    BY <2>2, <2>3
<1> QED
  BY <1>1, <1>2, <1>3, <1>4, <1>5, <1>6

\* The shape of the other protocol after one more record.
LEMMA CodexShapes ==
  ASSUME NEW K, NEW l \in Seq(K), NEW k \in K, NEW m, m = Append(l, k)
  PROVE  /\ m # <<>>
         /\ OnThread(m) <=> l = <<>> /\ k = "thread"
         /\ OnTurn(m) <=> (OnThread(l) /\ k = "turn") \/ (OnTurn(l) /\ k \in {"item", "message"})
         /\ CodexEnded(m) <=> OnTurn(l) /\ k = "completed"
         /\ OnThread(l) => ~Messaged(m, Len(m))
         /\ Messaged(m, Len(m) - 1) <=> Messaged(l, Len(l))
         /\ OnTurn(l) => (Messaged(m, Len(m)) <=> Messaged(l, Len(l)) \/ k = "message")
<1>1. /\ Len(m) = Len(l) + 1 /\ Len(l) \in Nat /\ m[Len(l) + 1] = k
      /\ \A i \in 1..Len(l) : m[i] = l[i]
  BY OneMore
<1>2. m # <<>> /\ (l = <<>> <=> Len(l) = 0)
  OBVIOUS
<1>3. OnThread(m) <=> l = <<>> /\ k = "thread"
  <2>1. CASE Len(l) = 0
    BY <1>1, <1>2, <2>1 DEF OnThread
  <2>2. CASE Len(l) > 0
    BY <1>1, <1>2, <2>2 DEF OnThread
  <2> QED
    BY <1>1, <2>1, <2>2
<1>4. OnTurn(m) <=> (OnThread(l) /\ k = "turn") \/ (OnTurn(l) /\ k \in {"item", "message"})
  <2>1. CASE Len(l) = 0
    BY <1>1, <2>1 DEF OnTurn, TurnOpen, OnThread
  <2>2. CASE Len(l) = 1
    <3>1. Len(m) = 2 /\ m[1] = l[1] /\ m[2] = k
      BY <1>1, <2>2
    <3>2. OnTurn(m) <=> m[1] = "thread" /\ m[2] = "turn"
      BY <3>1 DEF OnTurn, TurnOpen
    <3> QED
      BY <2>2, <3>1, <3>2 DEF OnThread, OnTurn, TurnOpen
  <2>3. CASE Len(l) >= 2
    <3>1. m[1] = l[1] /\ m[2] = l[2] /\ Len(m) >= 2
      BY <1>1, <2>3
    <3>2. (\A i \in 3..Len(m) : m[i] \in {"item", "message"})
            <=> (\A i \in 3..Len(l) : l[i] \in {"item", "message"}) /\ k \in {"item", "message"}
      BY <1>1, <2>3
    <3> QED
      BY <2>3, <3>1, <3>2 DEF OnThread, OnTurn, TurnOpen
  <2>4. Len(l) = 0 \/ Len(l) = 1 \/ Len(l) >= 2
    <3>1. \A c \in Nat : c = 0 \/ c = 1 \/ c >= 2
      OBVIOUS
    <3> QED
      BY <1>1, <3>1
  <2> QED
    BY <2>1, <2>2, <2>3, <2>4
<1>5. CodexEnded(m) <=> OnTurn(l) /\ k = "completed"
  <2>1. Len(m) - 1 = Len(l) /\ m[Len(m)] = k
    BY <1>1
  <2>2. CASE Len(l) < 2
    BY <1>1, <2>2 DEF CodexEnded, OnTurn, TurnOpen
  <2>3. CASE Len(l) >= 2
    <3>1. m[1] = l[1] /\ m[2] = l[2] /\ Len(m) >= 3
      BY <1>1, <2>3
    <3>2. \A i \in 3..Len(l) : m[i] = l[i]
      BY <1>1
    <3> QED
      BY <2>1, <2>3, <3>1, <3>2 DEF CodexEnded, OnTurn, TurnOpen
  <2> QED
    BY <1>1, <2>2, <2>3
<1>6. OnThread(l) => ~Messaged(m, Len(m))
  BY <1>1 DEF OnThread, Messaged
<1>7. Messaged(m, Len(m) - 1) <=> Messaged(l, Len(l))
  BY <1>1 DEF Messaged
<1>8. OnTurn(l) => (Messaged(m, Len(m)) <=> Messaged(l, Len(l)) \/ k = "message")
  <2> SUFFICES ASSUME OnTurn(l)
      PROVE  Messaged(m, Len(m)) <=> Messaged(l, Len(l)) \/ k = "message"
    OBVIOUS
  <2>1. Len(l) >= 2
    BY DEF OnTurn, TurnOpen
  <2>2. \A i \in 3..Len(m) : i \in 3..Len(l) \/ i = Len(l) + 1
    BY <1>1
  <2>3. Len(l) + 1 \in 3..Len(m) /\ \A i \in 3..Len(l) : i \in 3..Len(m)
    BY <1>1, <2>1
  <2>4. \A i \in 3..Len(l) : m[i] = l[i]
    BY <1>1
  <2> QED
    BY <1>1, <2>2, <2>3, <2>4 DEF Messaged
<1> QED
  BY <1>2, <1>3, <1>4, <1>5, <1>6, <1>7, <1>8

\* One more record keeps what StreamingCodexNormalizer says of the conversation.
LEMMA CodexKept ==
  ASSUME NormInv, pushLine, dialect = "codex"
  PROVE  CodexFollows' /\ NormTyped'
<1>1. PICK k \in CodexKinds :
        /\ lines' = Append(lines, k)
        /\ norm' = StreamingCodexNormalizer(norm, k)
  BY DEF pushLine, CodexKinds
<1>2. /\ lines \in Seq(CodexKinds) /\ norm \in NormRecs /\ CodexFollows /\ dialect' = dialect
  BY DEF NormInv, NormTyped, CodexKinds, pushLine
<1>3. lines' \in Seq(CodexKinds)
  BY <1>1, <1>2, OneMore
<1>4. /\ lines' # <<>>
      /\ OnThread(lines') <=> lines = <<>> /\ k = "thread"
      /\ OnTurn(lines') <=> (OnThread(lines) /\ k = "turn") \/ (OnTurn(lines) /\ k \in {"item", "message"})
      /\ CodexEnded(lines') <=> OnTurn(lines) /\ k = "completed"
      /\ OnThread(lines) => ~Messaged(lines', Len(lines'))
      /\ Messaged(lines', Len(lines') - 1) <=> Messaged(lines, Len(lines))
      /\ OnTurn(lines) => (Messaged(lines', Len(lines')) <=> Messaged(lines, Len(lines)) \/ k = "message")
  BY <1>1, <1>2, CodexShapes
<1>5. PICK q : q = norm'
  OBVIOUS
<1>6. /\ q \in NormRecs
      /\ ~q.drift <=>
           /\ ~norm.drift /\ norm.phase # "done"
           /\ k \in (CASE norm.phase = "init" -> {"thread", "error"}
                       [] norm.phase = "thread" -> {"turn", "error"}
                       [] OTHER -> {"item", "message", "completed", "failed", "error"})
      /\ ~q.drift => q.phase = (CASE k = "thread" -> "thread" [] k = "turn" -> "turn"
                                  [] k \in {"item", "message"} -> "turn" [] OTHER -> "done")
      /\ ~q.drift /\ k = "completed" => q.terminal = "completed"
      /\ ~q.drift /\ k \in {"failed", "error"} => q.terminal = "failed"
      /\ ~q.drift => (q.message <=> norm.message \/ k = "message")
  BY <1>1, <1>2, <1>5, CodexStep
<1>7. norm.phase \in {"init", "thread", "turn", "done"}
  BY <1>2 DEF NormRecs
<1>8. /\ ~q.drift /\ q.phase = "thread" <=> ~norm.drift /\ norm.phase = "init" /\ k = "thread"
      /\ ~q.drift /\ q.phase = "turn" <=>
           \/ ~norm.drift /\ norm.phase = "thread" /\ k = "turn"
           \/ ~norm.drift /\ norm.phase = "turn" /\ k \in {"item", "message"}
      /\ ~q.drift /\ q.phase = "done" /\ q.terminal = "completed" <=>
           ~norm.drift /\ norm.phase = "turn" /\ k = "completed"
      /\ ~q.drift => q.phase # "init"
  BY <1>6, <1>7
<1>9. /\ OnThread(lines') <=> ~q.drift /\ q.phase = "thread"
      /\ OnTurn(lines') <=> ~q.drift /\ q.phase = "turn"
      /\ CodexEnded(lines') <=> ~q.drift /\ q.phase = "done" /\ q.terminal = "completed"
      /\ lines' = <<>> <=> ~q.drift /\ q.phase = "init"
  BY <1>2, <1>4, <1>8 DEF CodexFollows
<1>10. ~q.drift /\ q.phase = "thread" => ~q.message
  BY <1>2, <1>6, <1>8 DEF CodexFollows
<1>11. ~q.drift /\ q.phase = "turn" => (q.message <=> Messaged(lines', Len(lines')))
  BY <1>2, <1>4, <1>6, <1>8 DEF CodexFollows
<1>12. ~q.drift /\ q.phase = "done" /\ q.terminal = "completed"
         => (q.message <=> Messaged(lines', Len(lines') - 1))
  BY <1>2, <1>4, <1>6, <1>8 DEF CodexFollows
<1>13. NormTyped'
  BY <1>2, <1>3, <1>5, <1>6 DEF NormInv, NormTyped, CodexKinds
<1> QED
  BY <1>5, <1>8, <1>9, <1>10, <1>11, <1>12, <1>13 DEF CodexFollows

\* A raw dialect keeps only its last record.
LEMMA RawKept ==
  ASSUME NormInv, pushLine, dialect = "raw"
  PROVE  NormTyped'
<1>1. PICK k \in asRecord["raw"] : lines' = Append(lines, k) /\ norm' = [norm EXCEPT !.terminal = k]
  BY DEF pushLine, StreamingRawNormalizer
<1>2. lines \in Seq(asRecord["raw"]) /\ norm \in NormRecs /\ dialect' = dialect
  BY DEF NormInv, NormTyped, pushLine
<1>3. lines' \in Seq(asRecord["raw"])
  BY <1>1, <1>2, OneMore
<1>4. norm' \in NormRecs
  BY <1>1, <1>2 DEF NormRecs
<1> QED
  BY <1>2, <1>3, <1>4 DEF NormTyped

\* In every state of a turn the normalizer says what its records are.
LEMMA NormInvHolds == NormalizerSpec => []NormInv
<1>1. NormalizerInit => NormInv
  <2> SUFFICES ASSUME NormalizerInit PROVE NormInv
    OBVIOUS
  <2> USE DEF NormalizerInit
  <2>1. lines = <<>> /\ Len(lines) = 0
    OBVIOUS
  <2>2. norm \in NormRecs
    BY DEF NewNormalizer, NormRecs
  <2>3. NormTyped
    BY <2>1, <2>2 DEF NormTyped
  <2>4. Preamble(lines) /\ ~Speaking(lines) /\ (\A t \in ClaudeEnds : ~Concluded(lines, t)) /\ Rates(lines) = {}
    BY <2>1 DEF Preamble, Speaking, Concluded, Opening, Rates
  <2>5. ~norm.bound /\ norm.terminal = "none" /\ norm.rate = "none" /\ norm.rateFrame = 0 /\ norm.inits = 0
        /\ ~norm.drift /\ ~norm.early /\ norm.phase = "init" /\ ~norm.message
    BY DEF NewNormalizer
  <2>6. ClaudeFollows
    BY <2>4, <2>5 DEF ClaudeFollows, Sound, ClaudeEnds
  <2>7. ~OnThread(lines) /\ ~OnTurn(lines) /\ ~CodexEnded(lines)
    BY <2>1 DEF OnThread, OnTurn, CodexEnded, TurnOpen
  <2>8. CodexFollows
    BY <2>1, <2>5, <2>7 DEF CodexFollows
  <2> QED
    BY <2>3, <2>6, <2>8 DEF NormInv, EndIsFinish
<1>2. NormInv /\ [NormalizerNext]_normVars => NormInv'
  <2> SUFFICES ASSUME NormInv, [NormalizerNext]_normVars PROVE NormInv'
    OBVIOUS
  <2>1. CASE pushLine
    <3>1. dialect' = dialect /\ turnEnd' = turnEnd /\ turnEnd = NoTurnEnd
      BY <2>1 DEF pushLine
    <3>2. EndIsFinish'
      BY <3>1 DEF EndIsFinish
    <3>3. dialect \in {"claude", "codex", "raw"}
      BY DEF NormInv, NormTyped
    <3>4. CASE dialect = "claude"
      BY <2>1, <3>1, <3>2, <3>4, ClaudeKept DEF NormInv, CodexFollows
    <3>5. CASE dialect = "codex"
      BY <2>1, <3>1, <3>2, <3>5, CodexKept DEF NormInv, ClaudeFollows
    <3>6. CASE dialect = "raw"
      BY <2>1, <3>1, <3>2, <3>6, RawKept DEF NormInv, ClaudeFollows, CodexFollows
    <3> QED
      BY <3>3, <3>4, <3>5, <3>6
  <2>2. CASE finishNormalizer
    <3>1. UNCHANGED <<dialect, lines, norm>>
      BY <2>2 DEF finishNormalizer
    <3>2. EndIsFinish'
      BY <2>2, <3>1 DEF finishNormalizer, EndIsFinish, NormInv, NormTyped, finishClaude, finishCodex, normalizeRaw
    <3> QED
      BY <3>1, <3>2 DEF NormInv, NormTyped, ClaudeFollows, CodexFollows
  <2>3. CASE UNCHANGED normVars
    BY <2>3 DEF normVars, NormInv, NormTyped, ClaudeFollows, CodexFollows, EndIsFinish, finishClaude,
                finishCodex, normalizeRaw
  <2> QED
    BY <2>1, <2>2, <2>3 DEF NormalizerNext, NormalizerDone
<1> QED
  BY <1>1, <1>2, PTL DEF NormalizerSpec

\* The conversations of the property are the shapes the invariant follows.
LEMMA ConversationsAreShapes ==
  ASSUME NormTyped
  PROVE  /\ \A t \in ClaudeEnds : ClaudeConversation(t) <=> Concluded(lines, t)
         /\ CodexConversation <=> CodexEnded(lines) /\ Messaged(lines, Len(lines) - 1)
<1>1. Len(lines) \in Nat
  BY DEF NormTyped
<1>2. \A t \in ClaudeEnds : ClaudeConversation(t) <=> Concluded(lines, t)
  <2> TAKE t \in ClaudeEnds
  <2>1. ASSUME ClaudeConversation(t) PROVE Concluded(lines, t)
    <3>1. PICK p \in 1..Len(lines) :
            /\ p < Len(lines) /\ lines[p] = "init" /\ lines[Len(lines)] = t
            /\ \A i \in 1..(p - 1) : lines[i] = "user"
            /\ \A i \in (p + 1)..(Len(lines) - 1) :
                 lines[i] \in {"assistant", "user", "allowed", "rejected"}
      BY <2>1 DEF ClaudeConversation
    <3>2. Opening(lines, p)
      BY <3>1 DEF Opening
    <3> QED
      BY <3>1, <3>2 DEF Concluded, ClaudeBody
  <2>2. ASSUME Concluded(lines, t) PROVE ClaudeConversation(t)
    <3>1. PICK p \in 1..Len(lines) :
            /\ Opening(lines, p) /\ p < Len(lines) /\ lines[Len(lines)] = t
            /\ \A i \in (p + 1)..(Len(lines) - 1) : lines[i] \in ClaudeBody
      BY <2>2 DEF Concluded
    <3>2. lines[p] = "init" /\ \A i \in 1..(p - 1) : lines[i] = "user"
      BY <3>1 DEF Opening
    <3> QED
      BY <3>1, <3>2 DEF ClaudeConversation, ClaudeBody
  <2> QED
    BY <2>1, <2>2
<1>3. CodexConversation <=> CodexEnded(lines) /\ Messaged(lines, Len(lines) - 1)
  BY <1>1 DEF CodexConversation, CodexEnded, Messaged, TurnOpen
<1> QED
  BY <1>2, <1>3

\* A paid fallback is authorised exactly by a complete failed conversation
\* whose last rate snapshot says rejected, and by that frame; success takes a
\* complete conversation (StreamingNormalizer.finish), for any number of
\* records.
THEOREM FallbackAlwaysEvidenced == NormalizerSpec => []FallbackIsEvidenced
<1>1. NormInv => FallbackIsEvidenced
  <2> SUFFICES ASSUME NormInv, turnEnd # NoTurnEnd
      PROVE  LET rates == {i \in 1 .. Len(lines) : lines[i] \in {"allowed", "rejected"}}
                 Latest(i) == i \in rates /\ \A j \in rates : j <= i
             IN /\ (turnEnd.limit > 0) <=>
                     (dialect = "claude" /\ ClaudeConversation("failing")
                        /\ \E i \in rates : Latest(i) /\ lines[i] = "rejected")
                /\ turnEnd.limit > 0 => Latest(turnEnd.limit)
                /\ dialect = "claude" => (turnEnd.success <=> ClaudeConversation("success"))
                /\ dialect = "codex" => (turnEnd.success <=> CodexConversation)
    BY DEF FallbackIsEvidenced
  <2> DEFINE Latest(i) == i \in Rates(lines) /\ \A j \in Rates(lines) : j <= i
  <2>1. /\ \A t \in ClaudeEnds : ClaudeConversation(t) <=> Concluded(lines, t)
        /\ CodexConversation <=> CodexEnded(lines) /\ Messaged(lines, Len(lines) - 1)
    BY ConversationsAreShapes DEF NormInv
  <2>2. PICK n \in NormRecs : n = norm
    BY DEF NormInv, NormTyped
  <2>3. CASE dialect = "claude"
    <3>1. turnEnd = finishClaude(n)
      BY <2>2, <2>3 DEF NormInv, EndIsFinish
    <3> DEFINE clean == ~n.drift /\ n.inits = 1 /\ ~n.early
    <3>2. /\ \A t \in ClaudeEnds : ClaudeConversation(t) <=> Sound(n) /\ n.terminal = t
          /\ ~n.bound => n.terminal = "none"
          /\ n.bound <=> n.inits > 0
      BY <2>1, <2>2, <2>3 DEF NormInv, ClaudeFollows
    <3>3. \A t \in ClaudeEnds : ClaudeConversation(t) <=> clean /\ n.terminal = t
      BY <3>2, <2>2 DEF Sound, ClaudeEnds, NormRecs
    <3> HIDE DEF clean
    <3>4. turnEnd.success <=> ClaudeConversation("success")
      BY <3>1, <3>3 DEF finishClaude, ClaudeEnds, clean
    <3>5. turnEnd.limit = IF ClaudeConversation("failing") /\ n.rate = "rejected" THEN n.rateFrame ELSE 0
      BY <3>1, <3>3 DEF finishClaude, ClaudeEnds, clean
    <3>6. ClaudeConversation("failing") =>
            \/ n.rate = "none" /\ n.rateFrame = 0 /\ Rates(lines) = {}
            \/ Latest(n.rateFrame) /\ n.rate = lines[n.rateFrame]
      BY <2>2, <2>3, <3>2 DEF NormInv, ClaudeFollows, ClaudeEnds
    <3>7. \A i, j : Latest(i) /\ Latest(j) => i = j /\ i > 0
      BY DEF Rates
    <3> HIDE DEF Latest
    <3>8. (turnEnd.limit > 0) <=>
            (ClaudeConversation("failing") /\ \E i \in Rates(lines) : Latest(i) /\ lines[i] = "rejected")
      <4>1. CASE ~ClaudeConversation("failing")
        BY <3>5, <4>1
      <4>2. CASE ClaudeConversation("failing") /\ n.rate = "none" /\ n.rateFrame = 0 /\ Rates(lines) = {}
        BY <3>5, <4>2
      <4>3. CASE ClaudeConversation("failing") /\ Latest(n.rateFrame) /\ n.rate = lines[n.rateFrame]
        <5>1. n.rateFrame \in Rates(lines)
          BY <4>3 DEF Latest
        <5> QED
          BY <3>5, <3>7, <4>3, <5>1
      <4> QED
        BY <3>6, <4>1, <4>2, <4>3
    <3>9. turnEnd.limit > 0 => Latest(turnEnd.limit)
      BY <3>5, <3>6
    <3> QED
      BY <2>3, <3>4, <3>8, <3>9 DEF Latest, Rates
  <2>4. CASE dialect = "codex"
    <3>1. turnEnd = finishCodex(n)
      BY <2>2, <2>4 DEF NormInv, EndIsFinish
    <3>2. /\ CodexEnded(lines) <=> ~n.drift /\ n.phase = "done" /\ n.terminal = "completed"
          /\ ~n.drift /\ n.phase = "done" /\ n.terminal = "completed"
               => (n.message <=> Messaged(lines, Len(lines) - 1))
      BY <2>2, <2>4 DEF NormInv, CodexFollows
    <3>3. turnEnd.limit = 0
      BY <3>1 DEF finishCodex
    <3>4. turnEnd.success <=> ~n.drift /\ n.phase = "done" /\ n.terminal = "completed" /\ n.message
      BY <3>1 DEF finishCodex
    <3> QED
      BY <2>1, <2>4, <3>2, <3>3, <3>4
  <2>5. CASE dialect = "raw"
    <3>1. turnEnd.limit = 0
      BY <2>5 DEF NormInv, EndIsFinish, normalizeRaw
    <3> QED
      BY <2>5, <3>1
  <2> QED
    BY <2>3, <2>4, <2>5 DEF NormInv, NormTyped
<1> QED
  BY <1>1, NormInvHolds, PTL

-----------------------------------------------------------------------------
(* The verdict on a structured turn.  The framer reads a transcript chunk by *)
(* chunk; what it holds, and what the codec says of the turn, are functions  *)
(* of the symbols pushed so far, wherever the chunks were cut.               *)

(* A nonempty set of naturals has a least element.                           *)
LEMMA LeastNatural ==
  ASSUME NEW T, T \subseteq Nat, T # {}
  PROVE  \E x \in T : \A y \in T : x <= y
<1>1. IsWellFoundedOn(OpToRel(<, Nat), Nat)
  BY NatLessThanWellFounded
<1>2. PICK x \in T : \A y \in T : ~(<<y, x>> \in OpToRel(<, Nat))
  BY <1>1, WFMin
<1>3. ASSUME NEW y \in T
      PROVE  x <= y
  <2>1. x \in Nat /\ y \in Nat
    OBVIOUS
  <2>2. ~(y < x)
    BY <2>1, <1>2, Zenon DEF OpToRel
  <2> QED
    BY <2>1, <2>2
<1> QED
  BY <1>3

(* What holds of 0 and passes from each turn to the next holds of all.       *)
LEMMA TurnByTurn ==
  ASSUME NEW n \in Nat, NEW T, 0 \in T,
         \A k \in 0 .. n : k # n /\ k \in T => k + 1 \in T
  PROVE  0 .. n \subseteq T
<1>1. SUFFICES ASSUME (0 .. n) \ T # {}
               PROVE  FALSE
  OBVIOUS
<1>2. (0 .. n) \ T \subseteq Nat
  OBVIOUS
<1>3. PICK x \in (0 .. n) \ T : \A y \in (0 .. n) \ T : x <= y
  BY <1>1, <1>2, LeastNatural
<1>4. x # 0 /\ x - 1 \in 0 .. n /\ x - 1 # n
  BY <1>3
<1>5. x - 1 \in T
  BY <1>3, <1>4
<1> QED
  BY <1>3, <1>4, <1>5

(* A list without repetitions counts its elements.                           *)
LEMMA Enumerated ==
  ASSUME NEW n \in Nat, NEW h, NEW S, \A i \in 1 .. n : h[i] \in S,
         \A l \in S : \E i \in 1 .. n : l = h[i],
         \A i, j \in 1 .. n : i # j => h[i] # h[j]
  PROVE  Cardinality(S) = n
<1> DEFINE f == [i \in 1 .. n |-> h[i]]
<1>1. f \in Bijection(1 .. n, S)
  <2>1. f \in [1 .. n -> S] /\ \A i \in 1 .. n : f[i] = h[i]
    OBVIOUS
  <2> HIDE DEF f
  <2>2. f \in Injection(1 .. n, S)
    BY <2>1 DEF Injection, IsInjective
  <2>3. f \in Surjection(1 .. n, S)
    BY <2>1 DEF Surjection
  <2> QED
    BY <2>2, <2>3 DEF Bijection
<1>2. ExistsBijection(1 .. n, S)
  BY <1>1 DEF ExistsBijection
<1>3. IsFiniteSet(1 .. n) /\ Cardinality(1 .. n) = n
  BY FS_Interval
<1> QED
  BY <1>2, <1>3, FS_Bijection

(* The reads of a chunk's symbols, from a start.                             *)
Reads(chunk, size, start) ==
  LET read[i \in 0 .. size] == IF i = 0 THEN start ELSE take(read[i - 1], chunk[i])
  IN read

(* What a push keeps of a chunk is what its symbols up to the limit leave.   *)
LEMMA PushIs ==
  ASSUME NEW s, NEW chunk
  PROVE  LET remaining == MaxTotalBytes - s.total
             size == IF Len(chunk) < remaining THEN Len(chunk) ELSE remaining
             r == Reads(chunk, size, [s EXCEPT !.total = @ + size])[size]
         IN push(s, chunk) = IF s.fatal THEN s ELSE IF size < Len(chunk) THEN Fatal(r) ELSE r
  BY Zenon DEF push, Reads

(* The first k reads.                                                        *)
FirstReads(chunk, start, k, f) ==
  /\ f = [i \in 0 .. k |-> f[i]]
  /\ f[0] = start
  /\ \A i \in 1 .. k : f[i] = take(f[i - 1], chunk[i])

(* There are reads: each is the symbol taken after the one before it.        *)
LEMMA ReadsExist ==
  ASSUME NEW chunk, NEW n \in Nat, NEW start
  PROVE  \E f : FirstReads(chunk, start, n, f)
<1> DEFINE T == {k \in 0 .. n : \E f : FirstReads(chunk, start, k, f)}
<1>2. 0 \in T
  <2> DEFINE f == [i \in 0 .. 0 |-> start]
  <2>1. f[0] = start /\ f = [i \in 0 .. 0 |-> f[i]]
    OBVIOUS
  <2> HIDE DEF f
  <2>2. FirstReads(chunk, start, 0, f)
    BY <2>1 DEF FirstReads
  <2> QED
    BY <2>2
<1>3. ASSUME NEW k \in 0 .. n, k # n, k \in T
      PROVE  k + 1 \in T
  <2>1. PICK f : FirstReads(chunk, start, k, f)
    BY <1>3
  <2> DEFINE g == [i \in 0 .. k + 1 |-> IF i = k + 1 THEN take(f[k], chunk[k + 1]) ELSE f[i]]
  <2>2. /\ g = [i \in 0 .. k + 1 |-> g[i]]
        /\ g[0] = f[0]
        /\ g[k + 1] = take(f[k], chunk[k + 1])
        /\ \A i \in 0 .. k : g[i] = f[i]
    <3>1. k \in Nat /\ k + 1 # 0
      OBVIOUS
    <3> QED
      BY <3>1
  <2> HIDE DEF g
  <2>3. \A i \in 1 .. k + 1 : g[i] = take(g[i - 1], chunk[i])
    <3> SUFFICES ASSUME NEW i \in 1 .. k + 1
                 PROVE  g[i] = take(g[i - 1], chunk[i])
      OBVIOUS
    <3>1. CASE i = k + 1
      <4>1. i - 1 = k /\ k \in 0 .. k
        BY <3>1
      <4> QED
        BY <4>1, <3>1, <2>2, Zenon
    <3>2. CASE i # k + 1
      <4>1. i \in 1 .. k /\ i \in 0 .. k /\ i - 1 \in 0 .. k
        BY <3>2
      <4>2. g[i] = f[i] /\ g[i - 1] = f[i - 1]
        BY <4>1, <2>2
      <4>3. f[i] = take(f[i - 1], chunk[i])
        BY <4>1, <2>1 DEF FirstReads
      <4> QED
        BY <4>2, <4>3, Zenon
    <3> QED
      BY <3>1, <3>2
  <2>4. FirstReads(chunk, start, k + 1, g)
    BY <2>1, <2>2, <2>3 DEF FirstReads
  <2>5. k + 1 \in 0 .. n
    BY <1>3
  <2> QED
    BY <2>4, <2>5
<1> HIDE DEF T
<1>4. 0 .. n \subseteq T
  <2>1. \A k \in 0 .. n : k # n /\ k \in T => k + 1 \in T
    BY <1>3
  <2> QED
    BY <1>2, <2>1, TurnByTurn
<1>6. n \in T
  BY <1>4
<1> QED
  BY <1>6 DEF T

(* The reads start at the start, and each is the next symbol's.              *)
LEMMA ReadsAre ==
  ASSUME NEW chunk, NEW n \in Nat, NEW start
  PROVE  /\ Reads(chunk, n, start)[0] = start
         /\ \A i \in 1 .. n : Reads(chunk, n, start)[i] = take(Reads(chunk, n, start)[i - 1], chunk[i])
<1> DEFINE Def(f) == f = [i \in 0 .. n |-> IF i = 0 THEN start ELSE take(f[i - 1], chunk[i])]
<1>1. PICK f : FirstReads(chunk, start, n, f)
  BY ReadsExist
<1>2. Def(f)
  <2>1. \A i \in 0 .. n : f[i] = IF i = 0 THEN start ELSE take(f[i - 1], chunk[i])
    <3> SUFFICES ASSUME NEW i \in 0 .. n
                 PROVE  f[i] = IF i = 0 THEN start ELSE take(f[i - 1], chunk[i])
      OBVIOUS
    <3>1. CASE i = 0
      BY <3>1, <1>1 DEF FirstReads
    <3>2. CASE i # 0
      <4>1. i \in 1 .. n
        BY <3>2
      <4> QED
        BY <4>1, <3>2, <1>1, Zenon DEF FirstReads
    <3> QED
      BY <3>1, <3>2
  <2>2. f = [i \in 0 .. n |-> f[i]]
    BY <1>1 DEF FirstReads
  <2> QED
    BY <2>1, <2>2, Zenon
<1> DEFINE t == Reads(chunk, n, start)
<1>3. t = CHOOSE g : Def(g)
  BY Zenon DEF Reads
<1>4. Def(t)
  <2> HIDE DEF Def, t
  <2> QED
    BY <1>2, <1>3, Zenon
<1> HIDE DEF t
<1>5. t[0] = start
  <2>1. 0 \in 0 .. n
    OBVIOUS
  <2> QED
    BY <1>4, <2>1, Zenon
<1>6. ASSUME NEW i \in 1 .. n
      PROVE  t[i] = take(t[i - 1], chunk[i])
  <2>1. i \in 0 .. n /\ i # 0
    OBVIOUS
  <2> QED
    BY <1>4, <2>1, Zenon
<1> QED
  BY <1>5, <1>6 DEF t

(* What the start has and each symbol keeps, the last read has.  A member of *)
(* Good is a number of symbols and what was made of them.                    *)
LEMMA ReadsKeep ==
  ASSUME NEW chunk, NEW n \in Nat, NEW start, NEW Good, <<0, start>> \in Good,
         \A k \in 0 .. n : \A s : k # n /\ <<k, s>> \in Good => <<k + 1, take(s, chunk[k + 1])>> \in Good
  PROVE  <<n, Reads(chunk, n, start)[n]>> \in Good
<1> DEFINE f == Reads(chunk, n, start)
           T == {k \in 0 .. n : <<k, f[k]>> \in Good}
<1> HIDE DEF f
<1>1. f[0] = start /\ \A i \in 1 .. n : f[i] = take(f[i - 1], chunk[i])
  <2>1. /\ Reads(chunk, n, start)[0] = start
        /\ \A i \in 1 .. n : Reads(chunk, n, start)[i] = take(Reads(chunk, n, start)[i - 1], chunk[i])
    BY ONLY n \in Nat, ReadsAre
  <2> QED
    BY <2>1, Zenon DEF f
<1>2. 0 \in T
  BY <1>1
<1>3. ASSUME NEW k \in 0 .. n, k # n, k \in T
      PROVE  k + 1 \in T
  <2>1. k + 1 \in 1 .. n /\ k + 1 \in 0 .. n /\ k + 1 - 1 = k
    BY <1>3
  <2>2. f[k + 1] = take(f[k], chunk[k + 1])
    BY <2>1, <1>1
  <2>3. <<k, f[k]>> \in Good
    BY <1>3
  <2>4. <<k + 1, f[k + 1]>> \in Good
    BY <2>2, <2>3, <1>3
  <2> QED
    BY <2>1, <2>4
<1> HIDE DEF T
<1>4. n \in T
  <2>1. \A k \in 0 .. n : k # n /\ k \in T => k + 1 \in T
    BY <1>3
  <2>2. 0 .. n \subseteq T
    BY <1>2, <2>1, TurnByTurn
  <2> QED
    BY <2>2
<1> QED
  BY <1>4 DEF T, f

(* Where records end within the first q symbols, and the list of these ends, *)
(* from 0 on.                                                                *)
Ends(B, q) == {i \in 1 .. q : B[i] = "nl"}
Cuts(B, q, n, g) ==
  /\ g \in [0 .. n -> 0 .. q] /\ g[0] = 0
  /\ \A i, j \in 0 .. n : i < j => g[i] < g[j]
  /\ \A k \in 1 .. n : g[k] \in 1 .. q /\ B[g[k]] = "nl"
  /\ \A i \in 1 .. q : B[i] = "nl" => \E k \in 1 .. n : g[k] = i

(* Nothing ends before the first symbol.                                     *)
LEMMA CutsNone ==
  ASSUME NEW B
  PROVE  \E g : Cuts(B, 0, 0, g)
<1> DEFINE g == [i \in 0 .. 0 |-> 0]
<1>1. g \in [0 .. 0 -> 0 .. 0] /\ g[0] = 0
  OBVIOUS
<1> HIDE DEF g
<1>2. Cuts(B, 0, 0, g)
  BY <1>1 DEF Cuts
<1> QED
  BY <1>2

(* A symbol of a record ends nothing.                                        *)
LEMMA CutsSame ==
  ASSUME NEW B, NEW q \in Nat, NEW n \in Nat, NEW g, Cuts(B, q, n, g), B[q + 1] # "nl"
  PROVE  Cuts(B, q + 1, n, g)
<1>1. g \in [0 .. n -> 0 .. q + 1]
  BY DEF Cuts
<1>2. \A k \in 1 .. n : g[k] \in 1 .. q + 1 /\ B[g[k]] = "nl"
  BY DEF Cuts
<1>3. \A i \in 1 .. q + 1 : B[i] = "nl" => \E k \in 1 .. n : g[k] = i
  <2>1. \A i \in 1 .. q + 1 : i # q + 1 => i \in 1 .. q
    OBVIOUS
  <2> QED
    BY <2>1 DEF Cuts
<1> QED
  BY <1>1, <1>2, <1>3 DEF Cuts

(* A newline ends one more.                                                  *)
LEMMA CutsMore ==
  ASSUME NEW B, NEW q \in Nat, NEW n \in Nat, NEW g, Cuts(B, q, n, g), B[q + 1] = "nl"
  PROVE  \E h : /\ Cuts(B, q + 1, n + 1, h) /\ h[n + 1] = q + 1
                /\ \A i \in 0 .. n : h[i] = g[i]
<1> DEFINE h == [i \in 0 .. n + 1 |-> IF i = n + 1 THEN q + 1 ELSE g[i]]
<1>0. g \in [0 .. n -> 0 .. q] /\ g[0] = 0
  BY DEF Cuts
<1>1. /\ h \in [0 .. n + 1 -> 0 .. q + 1] /\ h[n + 1] = q + 1
      /\ \A i \in 0 .. n : h[i] = g[i]
  <2>1. \A i \in 0 .. n : i # n + 1
    OBVIOUS
  <2>2. \A i \in 0 .. n + 1 : i # n + 1 => i \in 0 .. n
    OBVIOUS
  <2>3. \A i \in 0 .. n + 1 : (IF i = n + 1 THEN q + 1 ELSE g[i]) \in 0 .. q + 1
    BY <1>0, <2>2
  <2> QED
    BY <2>1, <2>3
<1> HIDE DEF h
<1>2. h[0] = 0
  BY <1>0, <1>1
<1>3. ASSUME NEW i \in 0 .. n + 1, NEW j \in 0 .. n + 1, i < j
      PROVE  h[i] < h[j]
  <2>1. i \in 0 .. n /\ h[i] = g[i] /\ g[i] \in 0 .. q
    BY <1>0, <1>1, <1>3
  <2>2. CASE j = n + 1
    BY <2>1, <2>2, <1>1
  <2>3. CASE j # n + 1
    <3>1. j \in 0 .. n /\ h[j] = g[j]
      BY <2>3, <1>1
    <3> QED
      BY <3>1, <2>1, <1>3 DEF Cuts
  <2> QED
    BY <2>2, <2>3
<1>4. ASSUME NEW k \in 1 .. n + 1
      PROVE  h[k] \in 1 .. q + 1 /\ B[h[k]] = "nl"
  <2>1. CASE k = n + 1
    BY <2>1, <1>1
  <2>2. CASE k # n + 1
    <3>1. k \in 1 .. n /\ k \in 0 .. n
      BY <2>2
    <3>2. h[k] = g[k] /\ g[k] \in 1 .. q /\ B[g[k]] = "nl"
      BY <3>1, <1>1 DEF Cuts
    <3> QED
      BY <3>2
  <2> QED
    BY <2>1, <2>2
<1>5. ASSUME NEW i \in 1 .. q + 1, B[i] = "nl"
      PROVE  \E k \in 1 .. n + 1 : h[k] = i
  <2>1. CASE i = q + 1
    BY <2>1, <1>1
  <2>2. CASE i # q + 1
    <3>1. PICK k \in 1 .. n : g[k] = i
      BY <2>2, <1>5 DEF Cuts
    <3>2. k \in 0 .. n /\ k \in 1 .. n + 1
      OBVIOUS
    <3> QED
      BY <3>1, <3>2, <1>1
  <2> QED
    BY <2>1, <2>2
<1>6. Cuts(B, q + 1, n + 1, h)
  BY <1>1, <1>2, <1>3, <1>4, <1>5 DEF Cuts
<1> QED
  BY <1>1, <1>6

(* Every prefix has its list.                                                *)
LEMMA CutsExist ==
  ASSUME NEW B, NEW m \in Nat
  PROVE  \E g : \E n \in Nat : Cuts(B, m, n, g)
<1> DEFINE T == {q \in 0 .. m : \E g : \E n \in Nat : Cuts(B, q, n, g)}
<1>1. 0 \in T
  <2>1. \E g : Cuts(B, 0, 0, g)
    BY CutsNone
  <2> QED
    BY <2>1
<1>2. ASSUME NEW q \in 0 .. m, q # m, q \in T
      PROVE  q + 1 \in T
  <2>1. q + 1 \in 0 .. m /\ q \in Nat
    BY <1>2
  <2>2. PICK g : \E n \in Nat : Cuts(B, q, n, g)
    BY <1>2
  <2>3. PICK n \in Nat : Cuts(B, q, n, g)
    BY <2>2
  <2>4. CASE B[q + 1] = "nl"
    <3>1. PICK h : Cuts(B, q + 1, n + 1, h)
      BY <2>1, <2>3, <2>4, CutsMore
    <3>2. n + 1 \in Nat
      OBVIOUS
    <3> QED
      BY <3>1, <3>2, <2>1
  <2>5. CASE B[q + 1] # "nl"
    <3>1. Cuts(B, q + 1, n, g)
      BY <2>1, <2>3, <2>5, CutsSame
    <3> QED
      BY <3>1, <2>1
  <2> QED
    BY <2>4, <2>5
<1> HIDE DEF T
<1>3. 0 .. m \subseteq T
  <2>1. \A q \in 0 .. m : q # m /\ q \in T => q + 1 \in T
    BY <1>2
  <2> QED
    BY <1>1, <2>1, TurnByTurn
<1>4. m \in T
  BY <1>3
<1> QED
  BY <1>4 DEF T

(* The list counts the ends.                                                 *)
LEMMA CutsCount ==
  ASSUME NEW B, NEW q \in Nat, NEW n \in Nat, NEW g, Cuts(B, q, n, g)
  PROVE  Cardinality(Ends(B, q)) = n
<1> DEFINE S == Ends(B, q)
<1>1. \A i \in 1 .. n : g[i] \in S
  BY DEF Cuts, Ends
<1>2. \A l \in S : \E i \in 1 .. n : l = g[i]
  BY DEF Cuts, Ends
<1>3. \A i, j \in 1 .. n : i # j => g[i] # g[j]
  BY DEF Cuts
<1> HIDE DEF S
<1>4. Cardinality(S) = n
  BY <1>1, <1>2, <1>3, Enumerated
<1> QED
  BY <1>4 DEF S

(* Where the records of a whole transcript end: the end of the transcript    *)
(* too, if something stands behind the last newline.                         *)
AllEnds(B) ==
  Ends(B, Len(B)) \cup (IF B # <<>> /\ B[Len(B)] # "nl" THEN {Len(B) + 1} ELSE {})

(* The k-th end has k ends up to it.                                         *)
LEMMA EndRank ==
  ASSUME NEW n \in Nat, NEW g \in [0 .. n -> Nat], NEW E, g[0] = 0,
         \A i, j \in 0 .. n : i < j => g[i] < g[j],
         \A k \in 1 .. n : g[k] \in E, \A i \in E : \E k \in 1 .. n : g[k] = i,
         NEW k \in 0 .. n
  PROVE  Cardinality({j \in E : j <= g[k]}) = k
<1> DEFINE S == {j \in E : j <= g[k]}
<1>1. ASSUME NEW i \in 1 .. k
      PROVE  g[i] \in S
  <2>1. i \in 1 .. n /\ i \in 0 .. n /\ g[i] \in Nat /\ g[k] \in Nat
    OBVIOUS
  <2>2. g[i] <= g[k]
    <3>1. CASE i = k
      BY <3>1, <2>1
    <3>2. CASE i # k
      <4>1. i < k
        BY <3>2
      <4> QED
        BY <4>1, <2>1
    <3> QED
      BY <3>1, <3>2
  <2> QED
    BY <2>1, <2>2
<1>2. ASSUME NEW l \in S
      PROVE  \E i \in 1 .. k : l = g[i]
  <2>1. PICK i \in 1 .. n : g[i] = l
    OBVIOUS
  <2>2. i \in 0 .. n /\ g[i] \in Nat /\ g[k] \in Nat /\ g[i] <= g[k]
    BY <2>1
  <2>3. ~(k < i)
    BY <2>2
  <2> QED
    BY <2>1, <2>3
<1>3. \A i, j \in 1 .. k : i # j => g[i] # g[j]
  <2> SUFFICES ASSUME NEW i \in 1 .. k, NEW j \in 1 .. k, i < j
               PROVE  g[i] # g[j]
    OBVIOUS
  <2>1. i \in 0 .. n /\ j \in 0 .. n /\ g[i] \in Nat /\ g[j] \in Nat
    OBVIOUS
  <2>2. g[i] < g[j]
    BY <2>1
  <2> QED
    BY <2>1, <2>2
<1> HIDE DEF S
<1>4. k \in Nat
  OBVIOUS
<1>5. Cardinality(S) = k
  BY ONLY <1>1, <1>2, <1>3, <1>4, Enumerated
<1> QED
  BY <1>5 DEF S

(* The records of a transcript, given as a list of where they end.           *)
LEMMA RecordsFromList ==
  ASSUME NEW B, NEW n \in Nat, NEW g \in [0 .. n -> Nat], g[0] = 0,
         \A i, j \in 0 .. n : i < j => g[i] < g[j],
         \A k \in 1 .. n : g[k] \in AllEnds(B), \A i \in AllEnds(B) : \E k \in 1 .. n : g[k] = i
  PROVE  Records(B) = [k \in 1 .. n |-> SubSeq(B, g[k - 1] + 1, g[k] - 1)]
<1> DEFINE E == AllEnds(B)
           Rank(i) == Cardinality({j \in E : j <= i})
           cut(k) == CHOOSE i \in E \cup {0} : Rank(i) = k
<1> HIDE DEF E
<1>1. \A k \in 1 .. n : g[k] \in E
  BY DEF E
<1>2. \A i \in E : \E k \in 1 .. n : g[k] = i
  BY DEF E
<1>3. Cardinality(E) = n
  <2>1. \A i, j \in 1 .. n : i # j => g[i] # g[j]
    <3> SUFFICES ASSUME NEW i \in 1 .. n, NEW j \in 1 .. n, i < j
                 PROVE  g[i] # g[j]
      OBVIOUS
    <3>1. i \in 0 .. n /\ j \in 0 .. n /\ g[i] \in Nat /\ g[j] \in Nat
      OBVIOUS
    <3>2. g[i] < g[j]
      BY <3>1
    <3> QED
      BY <3>1, <3>2
  <2>2. \A l \in E : \E i \in 1 .. n : l = g[i]
    BY <1>2
  <2> QED
    BY <1>1, <2>1, <2>2, Enumerated
<1>4. Records(B) = [k \in 1 .. Cardinality(E) |-> SubSeq(B, cut(k - 1) + 1, cut(k) - 1)]
  BY Zenon DEF Records, E, AllEnds, Ends
<1>5. \A k \in 0 .. n : Rank(g[k]) = k
  BY <1>1, <1>2, EndRank
<1>6. ASSUME NEW k \in 0 .. n
      PROVE  cut(k) = g[k]
  <2> HIDE DEF Rank
  <2>1. g[k] \in E \cup {0} /\ Rank(g[k]) = k
    <3>1. CASE k = 0
      BY <3>1, <1>5
    <3>2. CASE k # 0
      BY <3>2, <1>1, <1>5
    <3> QED
      BY <3>1, <3>2
  <2>2. ASSUME NEW x \in E \cup {0}, Rank(x) = k
        PROVE  x = g[k]
    <3>1. PICK i \in 0 .. n : x = g[i]
      <4>1. CASE x = 0
        BY <4>1
      <4>2. CASE x # 0
        <5>1. PICK i \in 1 .. n : g[i] = x
          BY <4>2, <1>2
        <5> QED
          BY <5>1
      <4> QED
        BY <4>1, <4>2
    <3>2. Rank(g[i]) = i
      BY <1>5
    <3> QED
      BY <3>1, <3>2, <2>2
  <2> QED
    BY <2>1, <2>2
<1> HIDE DEF cut
<1>7. \A k \in 1 .. n : cut(k - 1) = g[k - 1] /\ cut(k) = g[k]
  <2>1. \A k \in 1 .. n : k \in 0 .. n /\ k - 1 \in 0 .. n
    OBVIOUS
  <2> QED
    BY <2>1, <1>6
<1> QED
  BY <1>3, <1>4, <1>7

(* The records of a transcript that ends with a newline, or is empty.        *)
LEMMA RecordsWhole ==
  ASSUME NEW B, Len(B) \in Nat, B # <<>> => Len(B) # 0,
         NEW n \in Nat, NEW g, Cuts(B, Len(B), n, g), g[n] = Len(B)
  PROVE  Records(B) = [k \in 1 .. n |-> SubSeq(B, g[k - 1] + 1, g[k] - 1)]
<1> DEFINE q == Len(B)
           E == AllEnds(B)
<1>1. B # <<>> => B[q] = "nl"
  <2> SUFFICES ASSUME B # <<>>
               PROVE  B[q] = "nl"
    OBVIOUS
  <2>1. n # 0 /\ n \in 1 .. n
    BY DEF Cuts
  <2> QED
    BY <2>1 DEF Cuts
<1>2. E = Ends(B, q)
  BY <1>1 DEF AllEnds
<1>3. g \in [0 .. n -> Nat] /\ g[0] = 0 /\ \A i, j \in 0 .. n : i < j => g[i] < g[j]
  BY DEF Cuts
<1>4. (\A k \in 1 .. n : g[k] \in E) /\ \A i \in E : \E k \in 1 .. n : g[k] = i
  BY <1>2 DEF Cuts, Ends
<1> QED
  BY ZenonT(40), <1>3, <1>4, RecordsFromList

(* The records of a transcript whose last one lacks its newline.             *)
LEMMA RecordsOpen ==
  ASSUME NEW B, Len(B) \in Nat, B # <<>>,
         NEW n \in Nat, NEW g, Cuts(B, Len(B), n, g), g[n] # Len(B)
  PROVE  \E h : /\ Records(B) = [k \in 1 .. n + 1 |-> SubSeq(B, h[k - 1] + 1, h[k] - 1)]
                /\ h[n + 1] = Len(B) + 1
                /\ \A i \in 0 .. n : h[i] = g[i]
<1> DEFINE q == Len(B)
           E == AllEnds(B)
           h == [i \in 0 .. n + 1 |-> IF i = n + 1 THEN q + 1 ELSE g[i]]
<1>0. g \in [0 .. n -> 0 .. q] /\ g[0] = 0 /\ n \in 0 .. n
  BY DEF Cuts
<1>1. q # 0 /\ B[q] # "nl"
  <2>1. q # 0
    <3>1. SUFFICES ASSUME q = 0
                   PROVE  FALSE
      OBVIOUS
    <3> QED
      BY <3>1, <1>0
  <2>2. SUFFICES ASSUME B[q] = "nl"
                 PROVE  FALSE
    BY <2>1
  <2>3. PICK k \in 1 .. n : g[k] = q
    BY <2>1, <2>2 DEF Cuts
  <2>4. k # n /\ k \in 0 .. n /\ k < n
    BY <2>3
  <2>5. g[k] < g[n]
    BY <2>4, <1>0 DEF Cuts
  <2> QED
    BY <2>3, <2>5, <1>0
<1>2. E = Ends(B, q) \cup {q + 1}
  BY <1>1 DEF AllEnds
<1>3. /\ h \in [0 .. n + 1 -> Nat] /\ h[n + 1] = q + 1
      /\ \A i \in 0 .. n : h[i] = g[i]
  <2>1. \A i \in 0 .. n : i # n + 1
    OBVIOUS
  <2>2. \A i \in 0 .. n + 1 : i # n + 1 => i \in 0 .. n
    OBVIOUS
  <2>3. \A i \in 0 .. n + 1 : (IF i = n + 1 THEN q + 1 ELSE g[i]) \in Nat
    BY <1>0, <2>2
  <2> QED
    BY <2>1, <2>3
<1> HIDE DEF h
<1>4. h[0] = 0
  BY <1>0, <1>3
<1>5. ASSUME NEW i \in 0 .. n + 1, NEW j \in 0 .. n + 1, i < j
      PROVE  h[i] < h[j]
  <2>1. i \in 0 .. n /\ h[i] = g[i] /\ g[i] \in 0 .. q
    BY <1>0, <1>3, <1>5
  <2>2. CASE j = n + 1
    BY <2>1, <2>2, <1>3
  <2>3. CASE j # n + 1
    <3>1. j \in 0 .. n /\ h[j] = g[j]
      BY <2>3, <1>3
    <3> QED
      BY <3>1, <2>1, <1>5 DEF Cuts
  <2> QED
    BY <2>2, <2>3
<1>6. ASSUME NEW k \in 1 .. n + 1
      PROVE  h[k] \in E
  <2>1. CASE k = n + 1
    BY <2>1, <1>2, <1>3
  <2>2. CASE k # n + 1
    <3>1. k \in 1 .. n /\ k \in 0 .. n
      BY <2>2
    <3> QED
      BY <3>1, <1>2, <1>3 DEF Cuts, Ends
  <2> QED
    BY <2>1, <2>2
<1>7. ASSUME NEW i \in E
      PROVE  \E k \in 1 .. n + 1 : h[k] = i
  <2>1. CASE i = q + 1
    <3>1. n + 1 \in 1 .. n + 1
      OBVIOUS
    <3> QED
      BY <3>1, <2>1, <1>3
  <2>2. CASE i # q + 1
    <3>1. PICK k \in 1 .. n : g[k] = i
      BY <2>2, <1>2 DEF Cuts, Ends
    <3>2. k \in 0 .. n /\ k \in 1 .. n + 1
      OBVIOUS
    <3> QED
      BY <3>1, <3>2, <1>3
  <2> QED
    BY <2>1, <2>2
<1>8. n + 1 \in Nat
  OBVIOUS
<1> DEFINE N == n + 1
<1>9. /\ N \in Nat /\ h \in [0 .. N -> Nat] /\ h[0] = 0
      /\ \A i, j \in 0 .. N : i < j => h[i] < h[j]
      /\ \A k \in 1 .. N : h[k] \in AllEnds(B)
      /\ \A i \in AllEnds(B) : \E k \in 1 .. N : h[k] = i
  BY <1>3, <1>4, <1>5, <1>6, <1>7, <1>8
<1> HIDE DEF N
<1>10. Records(B) = [k \in 1 .. N |-> SubSeq(B, h[k - 1] + 1, h[k] - 1)]
  BY ZenonT(40), <1>9, RecordsFromList
<1> QED
  BY <1>3, <1>10 DEF N

(* What a stream is made of.                                                 *)
Kind == IF grammar = "acp" THEN acpResponseEnvelope ELSE responseEnvelope
Messages == {"init", "session", "prompt", "cancel", "permission", "after"}
Streams ==
  [held : Seq(Kind), total : Nat, frames : Nat, fatal : BOOLEAN,
   phase : {"init", "session", "turn", "after", "complete", "failed"},
   accepted : BOOLEAN, last : {"none", "success", "failure"},
   terminal : {"none", "success", "failure", "cancelled"},
   uncertain : BOOLEAN, aborted : BOOLEAN, cancel : {"idle", "pending", "sent"},
   written : Seq(Messages), closed : BOOLEAN, writeFailed : BOOLEAN]

SameFramer(s, t) == t.held = s.held /\ t.total = s.total /\ t.frames = s.frames /\ t.fatal = s.fatal
SameCodec(s, t) ==
  /\ t.phase = s.phase /\ t.accepted = s.accepted /\ t.last = s.last
  /\ t.terminal = s.terminal /\ t.uncertain = s.uncertain /\ t.aborted = s.aborted
SameDriver(s, t) == t.cancel = s.cancel /\ t.written = s.written /\ t.closed = s.closed

(* The codec moves on,                                                       *)
LEMMA PhaseFields ==
  ASSUME NEW s \in Streams, NEW p \in {"init", "session", "turn", "after", "complete", "failed"}, NEW t, t = [s EXCEPT !.phase = p]
  PROVE  /\ t \in Streams /\ SameFramer(s, t) /\ SameDriver(s, t)
         /\ t.phase = p
         /\ t.accepted = s.accepted /\ t.last = s.last /\ t.terminal = s.terminal /\ t.uncertain = s.uncertain /\ t.aborted = s.aborted
  BY DEF Streams, SameFramer, SameDriver

(* accepts the prompt,                                                       *)
LEMMA AcceptedFields ==
  ASSUME NEW s \in Streams, NEW on \in BOOLEAN, NEW t, t = [s EXCEPT !.accepted = on]
  PROVE  /\ t \in Streams /\ SameFramer(s, t) /\ SameDriver(s, t)
         /\ t.accepted = on
         /\ t.phase = s.phase /\ t.last = s.last /\ t.terminal = s.terminal /\ t.uncertain = s.uncertain /\ t.aborted = s.aborted
  BY DEF Streams, SameFramer, SameDriver

(* hears a message of the assistant,                                         *)
LEMMA LastFields ==
  ASSUME NEW s \in Streams, NEW e \in {"none", "success", "failure"}, NEW t, t = [s EXCEPT !.last = e]
  PROVE  /\ t \in Streams /\ SameFramer(s, t) /\ SameDriver(s, t)
         /\ t.last = e
         /\ t.phase = s.phase /\ t.accepted = s.accepted /\ t.terminal = s.terminal /\ t.uncertain = s.uncertain /\ t.aborted = s.aborted
  BY DEF Streams, SameFramer, SameDriver

(* hears the end,                                                            *)
LEMMA TerminalFields ==
  ASSUME NEW s \in Streams, NEW e \in {"none", "success", "failure", "cancelled"}, NEW t, t = [s EXCEPT !.terminal = e]
  PROVE  /\ t \in Streams /\ SameFramer(s, t) /\ SameDriver(s, t)
         /\ t.terminal = e
         /\ t.phase = s.phase /\ t.accepted = s.accepted /\ t.last = s.last /\ t.uncertain = s.uncertain /\ t.aborted = s.aborted
  BY DEF Streams, SameFramer, SameDriver

(* doubts what it hears,                                                     *)
LEMMA UncertainFields ==
  ASSUME NEW s \in Streams, NEW on \in BOOLEAN, NEW t, t = [s EXCEPT !.uncertain = on]
  PROVE  /\ t \in Streams /\ SameFramer(s, t) /\ SameDriver(s, t)
         /\ t.uncertain = on
         /\ t.phase = s.phase /\ t.accepted = s.accepted /\ t.last = s.last /\ t.terminal = s.terminal /\ t.aborted = s.aborted
  BY DEF Streams, SameFramer, SameDriver

(* or hears the abort: nothing else changes.                                 *)
LEMMA AbortedFields ==
  ASSUME NEW s \in Streams, NEW on \in BOOLEAN, NEW t, t = [s EXCEPT !.aborted = on]
  PROVE  /\ t \in Streams /\ SameFramer(s, t) /\ SameDriver(s, t)
         /\ t.aborted = on
         /\ t.phase = s.phase /\ t.accepted = s.accepted /\ t.last = s.last /\ t.terminal = s.terminal /\ t.uncertain = s.uncertain
  BY DEF Streams, SameFramer, SameDriver

(* The driver notes that the run is to be cancelled.                         *)
LEMMA CancelFields ==
  ASSUME NEW s \in Streams, NEW c \in {"idle", "pending", "sent"}, NEW t, t = [s EXCEPT !.cancel = c]
  PROVE  /\ t \in Streams /\ SameFramer(s, t) /\ SameCodec(s, t)
         /\ t.cancel = c /\ t.written = s.written /\ t.closed = s.closed
  BY DEF Streams, SameFramer, SameCodec

(* It ends the provider's input.                                             *)
LEMMA CloseFields ==
  ASSUME NEW s \in Streams, NEW t, t = closeProtocol(s)
  PROVE  /\ t \in Streams /\ SameFramer(s, t) /\ SameCodec(s, t)
         /\ t.cancel = s.cancel /\ t.written = s.written /\ t.closed
  BY DEF Streams, SameFramer, SameCodec, closeProtocol

(* It writes a message, unless the input was ended.                          *)
LEMMA WriteFields ==
  ASSUME NEW s \in Streams, NEW m \in Messages, NEW t, t = writeProtocol(s, m)
  PROVE  /\ t \in Streams /\ SameFramer(s, t) /\ SameCodec(s, t)
         /\ t.cancel = s.cancel /\ t.closed = s.closed
         /\ t.written = IF s.closed THEN s.written ELSE Append(s.written, m)
<1>1. CASE s.closed
  <2>1. t = [s EXCEPT !.writeFailed = TRUE]
    BY <1>1, Zenon DEF writeProtocol
  <2> QED
    BY <2>1, <1>1 DEF Streams, SameFramer, SameCodec
<1>2. CASE ~s.closed
  <2> DEFINE w == Append(s.written, m)
  <2>1. t = [s EXCEPT !.written = w]
    BY <1>2, Zenon DEF writeProtocol
  <2>2. w \in Seq(Messages)
    BY DEF Streams
  <2> HIDE DEF w
  <2>3. /\ t \in Streams /\ SameFramer(s, t) /\ SameCodec(s, t)
        /\ t.cancel = s.cancel /\ t.closed = s.closed /\ t.written = w
    BY <2>1, <2>2 DEF Streams, SameFramer, SameCodec
  <2> QED
    BY <2>3, <1>2 DEF w
<1> QED
  BY <1>1, <1>2 DEF Streams

-----------------------------------------------------------------------------
(* The messages written: at most one prompt, and at most one cancel, which   *)
(* has a prompt before it and was asked for.                                 *)
Has(w, m) == \E i \in 1 .. Len(w) : w[i] = m
Orderly(w, c) ==
  /\ \A i, j \in 1 .. Len(w) : w[i] = "prompt" /\ w[j] = "prompt" => i = j
  /\ \A i, j \in 1 .. Len(w) : w[i] = "cancel" /\ w[j] = "cancel" => i = j
  /\ \A i \in 1 .. Len(w) :
       w[i] = "cancel" => c = "sent" /\ \E j \in 1 .. Len(w) : j < i /\ w[j] = "prompt"
Driven(s) ==
  /\ Orderly(s.written, s.cancel)
  /\ s.phase \in {"init", "session"} => ~s.closed /\ s.cancel # "sent" /\ ~Has(s.written, "prompt")
  /\ s.phase \in {"turn", "after", "complete"} => Has(s.written, "prompt")
  /\ ~cancelAsked => s.cancel = "idle"

(* What one more message does to the messages written.                       *)
LEMMA MoreWritten ==
  ASSUME NEW w \in Seq(Messages), NEW m \in Messages, NEW v, v = Append(w, m)
  PROVE  /\ v \in Seq(Messages) /\ Len(w) \in Nat /\ Len(v) = Len(w) + 1 /\ v[Len(w) + 1] = m
         /\ \A i \in 1 .. Len(w) : v[i] = w[i]
         /\ \A i \in 1 .. Len(v) : i # Len(w) + 1 => i \in 1 .. Len(w)
  OBVIOUS

(* A message that is neither keeps the order.                                *)
LEMMA OrderlyOther ==
  ASSUME NEW w \in Seq(Messages), NEW m \in Messages, m # "prompt", m # "cancel", NEW c, Orderly(w, c)
  PROVE  /\ Orderly(Append(w, m), c)
         /\ \A x : Has(w, x) => Has(Append(w, m), x)
         /\ Has(Append(w, m), "prompt") => Has(w, "prompt")
<1> DEFINE v == Append(w, m)
           n == Len(w)
<1>1. /\ n \in Nat /\ Len(v) = n + 1 /\ v[n + 1] = m
      /\ \A i \in 1 .. n : v[i] = w[i]
      /\ \A i \in 1 .. Len(v) : i # n + 1 => i \in 1 .. n
  BY MoreWritten
<1> HIDE DEF v
<1>2. \A i \in 1 .. n : i \in 1 .. Len(v)
  BY <1>1
<1>3. Orderly(v, c)
  BY <1>1, <1>2 DEF Orderly
<1>4. \A x : Has(w, x) => Has(v, x)
  BY <1>1, <1>2 DEF Has
<1>5. Has(v, "prompt") => Has(w, "prompt")
  BY <1>1, <1>2 DEF Has
<1> QED
  BY <1>3, <1>4, <1>5 DEF v

(* The first prompt does, before any cancel.                                 *)
LEMMA OrderlyPrompt ==
  ASSUME NEW w \in Seq(Messages), NEW c, Orderly(w, c), ~Has(w, "prompt"), c # "sent"
  PROVE  Orderly(Append(w, "prompt"), c) /\ Has(Append(w, "prompt"), "prompt")
<1> DEFINE m == "prompt"
           v == Append(w, m)
           n == Len(w)
<1>0. m \in Messages
  BY DEF Messages
<1>1. /\ n \in Nat /\ Len(v) = n + 1 /\ v[n + 1] = "prompt"
      /\ \A i \in 1 .. n : v[i] = w[i]
      /\ \A i \in 1 .. Len(v) : i # n + 1 => i \in 1 .. n
  <2> HIDE DEF m
  <2>1. /\ n \in Nat /\ Len(v) = n + 1 /\ v[n + 1] = m
        /\ \A i \in 1 .. n : v[i] = w[i]
        /\ \A i \in 1 .. Len(v) : i # n + 1 => i \in 1 .. n
    BY <1>0, MoreWritten
  <2> QED
    BY <2>1 DEF m
<1> HIDE DEF v
<1>2. n + 1 \in 1 .. Len(v) /\ \A i \in 1 .. n : i \in 1 .. Len(v) /\ w[i] # "prompt" /\ w[i] # "cancel"
  BY <1>1 DEF Has, Orderly
<1>3. Orderly(v, c)
  BY <1>1, <1>2 DEF Orderly
<1>4. Has(v, "prompt")
  BY <1>1, <1>2 DEF Has
<1> QED
  BY <1>3, <1>4 DEF v, m

(* The first cancel does, behind a prompt.                                   *)
LEMMA OrderlyCancel ==
  ASSUME NEW w \in Seq(Messages), NEW c, Orderly(w, c), Has(w, "prompt"), c # "sent"
  PROVE  Orderly(Append(w, "cancel"), "sent") /\ Has(Append(w, "cancel"), "prompt")
<1> DEFINE m == "cancel"
           v == Append(w, m)
           n == Len(w)
<1>0. m \in Messages
  BY DEF Messages
<1>1. /\ n \in Nat /\ Len(v) = n + 1 /\ v[n + 1] = "cancel"
      /\ \A i \in 1 .. n : v[i] = w[i]
      /\ \A i \in 1 .. Len(v) : i # n + 1 => i \in 1 .. n
  <2> HIDE DEF m
  <2>1. /\ n \in Nat /\ Len(v) = n + 1 /\ v[n + 1] = m
        /\ \A i \in 1 .. n : v[i] = w[i]
        /\ \A i \in 1 .. Len(v) : i # n + 1 => i \in 1 .. n
    BY <1>0, MoreWritten
  <2> QED
    BY <2>1 DEF m
<1> HIDE DEF v
<1>2. n + 1 \in 1 .. Len(v) /\ \A i \in 1 .. n : i \in 1 .. Len(v) /\ w[i] # "cancel"
  BY <1>1 DEF Orderly
<1>3. PICK p \in 1 .. n : w[p] = "prompt"
  BY DEF Has
<1>4. p < n + 1 /\ v[p] = "prompt" /\ p \in 1 .. Len(v)
  BY <1>1, <1>2, <1>3
<1>5. Orderly(v, "sent")
  <2>1. \A i, j \in 1 .. Len(v) : v[i] = "prompt" /\ v[j] = "prompt" => i = j
    BY <1>1 DEF Orderly
  <2>2. \A i \in 1 .. Len(v) : v[i] = "cancel" => i = n + 1
    BY <1>1, <1>2
  <2> QED
    BY <2>1, <2>2, <1>4 DEF Orderly
<1>6. Has(v, "prompt")
  BY <1>4 DEF Has
<1> QED
  BY <1>5, <1>6 DEF v, m

(* Without a cancel written the order does not depend on the driver's note.  *)
LEMMA OrderlyNote ==
  ASSUME NEW w, NEW c, Orderly(w, c), c # "sent", NEW d
  PROVE  Orderly(w, d)
  BY DEF Orderly

SameButPhase(s, t) ==
  /\ t.accepted = s.accepted /\ t.last = s.last
  /\ t.terminal = s.terminal /\ t.uncertain = s.uncertain /\ t.aborted = s.aborted

(* A codec that moves on leaves the driver in order: back never, and out of  *)
(* the turn only behind the prompt.                                          *)
LEMMA DrivenMoves ==
  ASSUME NEW s, NEW t, Driven(s), SameDriver(s, t),
         \/ t.phase = s.phase \/ t.phase = "failed"
         \/ s.phase \in {"turn", "after", "complete"} /\ t.phase \in {"turn", "after", "complete"}
         \/ s.phase = "init" /\ t.phase = "session"
  PROVE  Driven(t)
  BY DEF Driven, SameDriver

(* The input may be ended behind the prompt.                                 *)
LEMMA DrivenCloses ==
  ASSUME NEW s \in Streams, Driven(s), s.phase \notin {"init", "session"}, NEW t, t = closeProtocol(s)
  PROVE  Driven(t)
<1>1. t.phase = s.phase /\ t.cancel = s.cancel /\ t.written = s.written
  BY CloseFields DEF SameCodec
<1> QED
  BY <1>1 DEF Driven

(* A message other than prompt and cancel may be written at any time.        *)
LEMMA DrivenWrites ==
  ASSUME NEW s \in Streams, Driven(s), NEW m \in Messages, m # "prompt", m # "cancel",
         NEW t, t = writeProtocol(s, m)
  PROVE  t \in Streams /\ SameFramer(s, t) /\ SameCodec(s, t) /\ Driven(t)
<1>1. /\ t \in Streams /\ SameFramer(s, t) /\ SameCodec(s, t)
      /\ t.cancel = s.cancel /\ t.closed = s.closed
      /\ t.written = IF s.closed THEN s.written ELSE Append(s.written, m)
  BY WriteFields
<1>2. t.phase = s.phase
  BY <1>1 DEF SameCodec
<1>3. CASE s.closed
  BY <1>1, <1>2, <1>3 DEF Driven
<1>4. CASE ~s.closed
  <2> DEFINE w == s.written
             v == Append(w, m)
  <2>1. w \in Seq(Messages) /\ Orderly(w, s.cancel)
    BY DEF Streams, Driven
  <2>2. /\ Orderly(v, s.cancel)
        /\ \A x : Has(w, x) => Has(v, x)
        /\ Has(v, "prompt") => Has(w, "prompt")
    BY <2>1, OrderlyOther
  <2>3. t.written = v
    BY <1>1, <1>4
  <2> HIDE DEF v
  <2> QED
    BY <1>1, <1>2, <2>2, <2>3 DEF Driven
<1> QED
  BY <1>1, <1>3, <1>4

(* A cancel that waits is written behind the prompt.                         *)
LEMMA CancelKeeps ==
  ASSUME NEW s \in Streams, Orderly(s.written, s.cancel), Has(s.written, "prompt"),
         NEW t, t = sendCancel(s)
  PROVE  /\ t \in Streams /\ SameFramer(s, t) /\ SameCodec(s, t)
         /\ Orderly(t.written, t.cancel) /\ Has(t.written, "prompt")
         /\ s.cancel = "idle" => t.cancel = "idle"
<1>1. CASE s.cancel # "pending"
  <2>1. t = s
    BY <1>1 DEF sendCancel
  <2> QED
    BY <2>1 DEF SameFramer, SameCodec
<1>2. CASE s.cancel = "pending"
  <2> DEFINE c == "sent"
             m == "cancel"
             u == [s EXCEPT !.cancel = c]
  <2>0. c \in {"idle", "pending", "sent"} /\ m \in Messages /\ t = writeProtocol(u, m)
    BY <1>2 DEF Messages, sendCancel
  <2> HIDE DEF c, m
  <2>1. /\ u \in Streams /\ SameFramer(s, u) /\ SameCodec(s, u)
        /\ u.cancel = c /\ u.written = s.written /\ u.closed = s.closed
    BY <2>0, CancelFields
  <2> HIDE DEF u
  <2>2. /\ t \in Streams /\ SameFramer(u, t) /\ SameCodec(u, t)
        /\ t.cancel = u.cancel /\ t.closed = u.closed
        /\ t.written = IF u.closed THEN u.written ELSE Append(u.written, m)
    BY <2>0, <2>1, WriteFields
  <2>3. SameFramer(s, t) /\ SameCodec(s, t) /\ t.cancel = "sent"
    BY <2>1, <2>2 DEF SameFramer, SameCodec, c
  <2>4. CASE s.closed
    <3>1. Orderly(s.written, "sent")
      BY <1>2, OrderlyNote
    <3>2. t.written = s.written
      BY <2>4, <2>1, <2>2
    <3> QED
      BY <3>1, <3>2, <2>2, <2>3, <1>2
  <2>5. CASE ~s.closed
    <3> DEFINE w == s.written
               d == s.cancel
    <3>1. w \in Seq(Messages) /\ Orderly(w, d) /\ Has(w, "prompt") /\ d # "sent"
      BY <1>2 DEF Streams
    <3> HIDE DEF w, d
    <3>2. Orderly(Append(w, "cancel"), "sent") /\ Has(Append(w, "cancel"), "prompt")
      BY <3>1, OrderlyCancel
    <3>3. t.written = Append(w, "cancel")
      BY <2>5, <2>1, <2>2 DEF m, w
    <3> QED
      BY <3>2, <3>3, <2>2, <2>3, <1>2
  <2> QED
    BY <2>4, <2>5, <1>2 DEF Streams
<1> QED
  BY <1>1, <1>2

(* The prompt is written once, and begins the turn.                          *)
LEMMA PromptKeeps ==
  ASSUME NEW s \in Streams, Driven(s), s.phase = "session", NEW t, t = sendPrompt(s)
  PROVE  /\ t \in Streams /\ SameFramer(s, t) /\ SameButPhase(s, t) /\ t.phase = "turn" /\ Driven(t)
<1> DEFINE p == "turn"
           m == "prompt"
           u == [s EXCEPT !.phase = p]
           v == writeProtocol(u, m)
<1>0. /\ p \in {"init", "session", "turn", "after", "complete", "failed"}
      /\ m \in Messages /\ t = sendCancel(v)
  BY DEF Messages, sendPrompt
<1> HIDE DEF p, m
<1>1. /\ u \in Streams /\ SameFramer(s, u) /\ SameDriver(s, u) /\ u.phase = p
      /\ SameButPhase(s, u)
  BY <1>0, PhaseFields DEF SameButPhase
<1> HIDE DEF u
<1>2. /\ v \in Streams /\ SameFramer(u, v) /\ SameCodec(u, v)
      /\ v.cancel = u.cancel /\ v.closed = u.closed
      /\ v.written = IF u.closed THEN u.written ELSE Append(u.written, m)
  BY <1>0, <1>1, WriteFields
<1> HIDE DEF v
<1>3. v.written = Append(s.written, "prompt") /\ v.cancel = s.cancel
  BY <1>1, <1>2 DEF Driven, SameDriver, m
<1> DEFINE w == s.written
           d == s.cancel
<1>4. w \in Seq(Messages) /\ Orderly(w, d) /\ ~Has(w, "prompt") /\ d # "sent"
  BY DEF Streams, Driven
<1> HIDE DEF w, d
<1>5. Orderly(Append(w, "prompt"), d) /\ Has(Append(w, "prompt"), "prompt")
  BY <1>4, OrderlyPrompt
<1>6. Orderly(v.written, v.cancel) /\ Has(v.written, "prompt")
  BY <1>3, <1>5 DEF w, d
<1>7. /\ t \in Streams /\ SameFramer(v, t) /\ SameCodec(v, t)
      /\ Orderly(t.written, t.cancel) /\ Has(t.written, "prompt")
      /\ v.cancel = "idle" => t.cancel = "idle"
  BY <1>0, <1>2, <1>6, CancelKeeps
<1>8. SameFramer(s, t) /\ SameButPhase(s, t) /\ t.phase = "turn"
  BY <1>1, <1>2, <1>7 DEF SameFramer, SameCodec, SameButPhase, p
<1>9. ~cancelAsked => t.cancel = "idle"
  BY <1>3, <1>7 DEF Driven
<1> QED
  BY <1>7, <1>8, <1>9 DEF Driven

(* Records heard: ks, and f with the record k behind them.  Records that no  *)
(* continuation makes a complete conversation are doomed.                    *)
Follows(ks, k, f) ==
  /\ ks \in Seq(Kind) /\ f \in Seq(Kind) /\ k \in Kind /\ Len(ks) \in Nat
  /\ Len(f) = Len(ks) + 1 /\ f[Len(ks) + 1] = k /\ \A i \in 1 .. Len(ks) : f[i] = ks[i]
Continues(ks, f) == Len(ks) <= Len(f) /\ \A i \in 1 .. Len(ks) : f[i] = ks[i]
Successful(ks) == IF grammar = "acp" THEN SuccessfulAcp(ks) ELSE SuccessfulPi(ks)
Doomed(ks) == \A f \in Seq(Kind) : Continues(ks, f) => ~Successful(f)

(* What is doomed stays doomed,                                              *)
LEMMA DoomedStays ==
  ASSUME NEW ks, NEW k, NEW f, Follows(ks, k, f), Doomed(ks)
  PROVE  Doomed(f)
<1>1. ASSUME NEW g \in Seq(Kind), Continues(f, g)
      PROVE  Continues(ks, g)
  <2>1. Len(g) \in Nat /\ Len(ks) <= Len(g)
    BY <1>1 DEF Follows, Continues
  <2>2. \A i \in 1 .. Len(ks) : i \in 1 .. Len(f)
    BY DEF Follows
  <2>3. \A i \in 1 .. Len(ks) : g[i] = ks[i]
    BY <2>2, <1>1 DEF Follows, Continues
  <2> QED
    BY <2>1, <2>3 DEF Continues
<1> QED
  BY <1>1 DEF Doomed

(* and is not complete itself.                                               *)
LEMMA DoomedFails ==
  ASSUME NEW ks \in Seq(Kind), Doomed(ks)
  PROVE  ~Successful(ks)
<1>1. Continues(ks, ks)
  BY DEF Continues
<1> QED
  BY <1>1 DEF Doomed

(* The fields a codec begins with.                                           *)
Fresh(s) ==
  /\ ~s.uncertain /\ ~s.accepted /\ ~s.aborted /\ s.terminal = "none" /\ s.last = "none"

(* A doubted record.                                                         *)
LEMMA MarkFields ==
  ASSUME NEW s \in Streams, Driven(s), NEW t, t = markUncertain(s)
  PROVE  /\ t \in Streams /\ SameFramer(s, t) /\ Driven(t) /\ SameDriver(s, t) /\ t.uncertain
         /\ t.phase = s.phase /\ t.terminal = s.terminal
<1> DEFINE on == TRUE
<1>1. on \in BOOLEAN /\ t = [s EXCEPT !.uncertain = on]
  BY DEF markUncertain
<1> HIDE DEF on
<1>2. /\ t \in Streams /\ SameFramer(s, t) /\ SameDriver(s, t) /\ t.uncertain = on
      /\ t.phase = s.phase /\ t.terminal = s.terminal
  BY <1>1, UncertainFields
<1>3. Driven(t)
  BY <1>2, DrivenMoves
<1> QED
  BY <1>2, <1>3 DEF on

(* The codec gives up.                                                       *)
LEMMA FailFields ==
  ASSUME NEW s \in Streams, Driven(s), NEW t, t = fail(s)
  PROVE  t \in Streams /\ SameFramer(s, t) /\ Driven(t) /\ t.phase = "failed"
<1> DEFINE p == "failed"
<1>1. p \in {"init", "session", "turn", "after", "complete", "failed"} /\ t = [s EXCEPT !.phase = p]
  BY DEF fail
<1> HIDE DEF p
<1>2. t \in Streams /\ SameFramer(s, t) /\ SameDriver(s, t) /\ t.phase = p
  BY <1>1, PhaseFields
<1>3. t.phase = "failed"
  BY <1>2 DEF p
<1>4. Driven(t)
  BY <1>2, <1>3, DrivenMoves
<1> QED
  BY <1>2, <1>3, <1>4

(* The answer to initialize, which is followed by the session's.             *)
LEMMA InitFields ==
  ASSUME NEW s \in Streams, Driven(s), s.phase = "init", Fresh(s),
         NEW t, t = writeProtocol([s EXCEPT !.phase = "session"], "session")
  PROVE  t \in Streams /\ SameFramer(s, t) /\ Driven(t) /\ t.phase = "session" /\ Fresh(t)
<1> DEFINE p == "session"
           u == [s EXCEPT !.phase = p]
<1>0. /\ p \in {"init", "session", "turn", "after", "complete", "failed"}
      /\ p \in Messages /\ p # "prompt" /\ p # "cancel" /\ t = writeProtocol(u, p)
  BY DEF Messages
<1>1. p = "session"
  OBVIOUS
<1> HIDE DEF p
<1>2. u \in Streams /\ SameFramer(s, u) /\ SameDriver(s, u) /\ u.phase = p /\ SameButPhase(s, u)
  BY <1>0, PhaseFields DEF SameButPhase
<1> HIDE DEF u
<1>3. Driven(u)
  BY <1>1, <1>2, DrivenMoves
<1>4. t \in Streams /\ SameFramer(u, t) /\ SameCodec(u, t) /\ Driven(t)
  BY <1>0, <1>2, <1>3, DrivenWrites
<1> QED
  BY <1>1, <1>2, <1>4 DEF SameFramer, SameCodec, SameButPhase, Fresh

-----------------------------------------------------------------------------
(* ACP: what the codec's state says of the records it heard.                 *)
AcpGoing(ks) ==
  /\ Len(ks) >= 2 /\ ks[1] = "init" /\ ks[2] = "session"
  /\ \A i \in 3 .. Len(ks) : ks[i] \in {"update", "permission"}
HeardAcp(s, ks) ==
  \/ s.phase = "init" /\ Len(ks) = 0 /\ Fresh(s)
  \/ s.phase = "session" /\ Len(ks) = 1 /\ ks[1] = "init" /\ Fresh(s)
  \/ s.phase = "turn" /\ ~s.uncertain /\ s.terminal = "none" /\ AcpGoing(ks)
  \/ s.phase = "turn" /\ ~s.uncertain /\ s.terminal = "success" /\ SuccessfulAcp(ks)
  \/ /\ Doomed(ks)
     /\ \/ s.phase = "failed"
        \/ s.phase = "turn" /\ (s.uncertain \/ s.terminal \in {"failure", "cancelled"})

(* The records after which nothing can be complete.                          *)
LEMMA AcpDoomed ==
  ASSUME grammar = "acp", NEW ks, NEW k, NEW f, Follows(ks, k, f),
         \/ Len(ks) = 0 /\ k # "init"
         \/ Len(ks) = 1 /\ k # "session"
         \/ AcpGoing(ks) /\ k \notin {"update", "permission", "end"}
         \/ SuccessfulAcp(ks)
  PROVE  Doomed(f)
<1> SUFFICES ASSUME NEW g \in Seq(Kind), Continues(f, g), SuccessfulAcp(g)
             PROVE  FALSE
  BY DEF Doomed, Successful
<1> DEFINE n == Len(ks)
<1>1. /\ n \in Nat /\ Len(g) \in Nat /\ n + 1 <= Len(g) /\ g[n + 1] = k
      /\ \A i \in 1 .. n : g[i] = ks[i]
  <2>1. \A i \in 1 .. n + 1 : g[i] = f[i]
    BY DEF Follows, Continues
  <2>2. n + 1 \in 1 .. n + 1 /\ \A i \in 1 .. n : i \in 1 .. n + 1
    BY DEF Follows
  <2> QED
    BY <2>1, <2>2 DEF Follows, Continues
<1>2. CASE n = 0 /\ k # "init"
  BY <1>1, <1>2 DEF SuccessfulAcp
<1>3. CASE n = 1 /\ k # "session"
  BY <1>1, <1>3 DEF SuccessfulAcp
<1>4. CASE AcpGoing(ks) /\ k \notin {"update", "permission", "end"}
  <2>1. n + 1 \in 3 .. Len(g)
    BY <1>1, <1>4 DEF AcpGoing
  <2> QED
    BY <2>1, <1>1, <1>4 DEF SuccessfulAcp
<1>5. CASE SuccessfulAcp(ks)
  <2>1. n \in 3 .. Len(g) - 1 /\ n \in 1 .. n /\ ks[n] = "end"
    BY <1>1, <1>5 DEF SuccessfulAcp
  <2>2. g[n] = "end"
    BY <2>1, <1>1
  <2> QED
    BY <2>1, <2>2 DEF SuccessfulAcp
<1> QED
  BY <1>2, <1>3, <1>4, <1>5

(* The records that go on, and the one that completes them.                  *)
LEMMA AcpGoesOn ==
  ASSUME NEW ks, NEW k, NEW f, Follows(ks, k, f), AcpGoing(ks)
  PROVE  /\ k \in {"update", "permission"} => AcpGoing(f)
         /\ k = "end" => SuccessfulAcp(f)
<1> DEFINE n == Len(ks)
<1>1. /\ n \in Nat /\ n >= 2 /\ Len(f) = n + 1 /\ f[n + 1] = k
      /\ 1 \in 1 .. n /\ 2 \in 1 .. n /\ \A i \in 1 .. n : f[i] = ks[i]
  BY DEF Follows, AcpGoing
<1>2. f[1] = "init" /\ f[2] = "session" /\ \A i \in 3 .. n : f[i] \in {"update", "permission"}
  <2>1. \A i \in 3 .. n : i \in 1 .. n
    BY <1>1
  <2> QED
    BY <1>1, <2>1 DEF AcpGoing
<1>3. \A i \in 3 .. n + 1 : i # n + 1 => i \in 3 .. n
  BY <1>1
<1>4. n + 1 - 1 = n /\ n + 1 >= 3
  BY <1>1
<1> QED
  BY <1>1, <1>2, <1>3, <1>4 DEF AcpGoing, SuccessfulAcp

(* The two records before the turn.                                          *)
LEMMA AcpBegins ==
  ASSUME NEW ks, NEW k, NEW f, Follows(ks, k, f), Len(ks) = 1, ks[1] = "init", k = "session"
  PROVE  AcpGoing(f)
  BY DEF Follows, AcpGoing

(* The turn of an ACP session hears one more record.                         *)
LEMMA AcpTurnKeeps ==
  ASSUME grammar = "acp", NEW s \in Streams, Driven(s), s.phase = "turn",
         NEW ks, NEW k, NEW f, Follows(ks, k, f), HeardAcp(s, ks), NEW t, t = acpTurn(s, k)
  PROVE  /\ t \in Streams /\ SameFramer(s, t) /\ Driven(t) /\ t.phase = "turn"
         /\ HeardAcp(t, f)
<1>1. CASE s.uncertain
  <2>1. t = s /\ Doomed(ks)
    BY <1>1 DEF acpTurn, HeardAcp, Fresh
  <2>2. Doomed(f)
    BY <2>1, DoomedStays
  <2> QED
    BY <2>1, <2>2, <1>1 DEF HeardAcp, SameFramer
<1>2. CASE ~s.uncertain /\ s.terminal # "none"
  <2>1. t = markUncertain(s)
    BY <1>2, Zenon DEF acpTurn
  <2>2. /\ t \in Streams /\ SameFramer(s, t) /\ Driven(t) /\ t.uncertain /\ t.phase = s.phase
    BY <2>1, MarkFields
  <2>3. Doomed(ks) \/ SuccessfulAcp(ks)
    BY <1>2 DEF HeardAcp, Fresh
  <2>4. Doomed(f)
    BY <2>3, DoomedStays, AcpDoomed
  <2> QED
    BY <2>2, <2>4 DEF HeardAcp
<1>3. CASE ~s.uncertain /\ s.terminal = "none"
  <2>0. AcpGoing(ks)
    BY <1>3 DEF HeardAcp
  <2>1. CASE k \in {"end", "cancelled", "error"}
    <3> DEFINE e == PromptAnswers[k]
    <3>1. t = [s EXCEPT !.terminal = e]
      BY <1>3, <2>1, Zenon DEF acpTurn
    <3>2. e \in {"none", "success", "failure", "cancelled"} /\ (k = "end" <=> e = "success") /\ e # "none"
      BY <2>1 DEF PromptAnswers
    <3> HIDE DEF e
    <3>3. /\ t \in Streams /\ SameFramer(s, t) /\ SameDriver(s, t) /\ t.terminal = e
          /\ t.phase = s.phase /\ t.uncertain = s.uncertain
      BY <3>1, <3>2, TerminalFields
    <3>4. Driven(t)
      BY <3>3, DrivenMoves
    <3>5. CASE k = "end"
      <4>1. SuccessfulAcp(f)
        BY <3>5, <2>0, AcpGoesOn
      <4> QED
        BY <4>1, <3>2, <3>3, <3>4, <3>5, <1>3 DEF HeardAcp
    <3>6. CASE k # "end"
      <4>1. k \notin {"update", "permission", "end"}
        BY <3>6, <2>1
      <4>2. Doomed(f)
        BY <4>1, <2>0, AcpDoomed
      <4>3. t.terminal \in {"failure", "cancelled"}
        BY <3>2, <3>3, <3>6
      <4> QED
        BY <4>2, <4>3, <3>3, <3>4 DEF HeardAcp
    <3> QED
      BY <3>5, <3>6
  <2>2. CASE k = "permission"
    <3> DEFINE m == "permission"
    <3>1. t = writeProtocol(s, m) /\ m \in Messages /\ m # "prompt" /\ m # "cancel"
      BY <1>3, <2>2 DEF acpTurn, handlePermission, Messages
    <3> HIDE DEF m
    <3>2. t \in Streams /\ SameFramer(s, t) /\ SameCodec(s, t) /\ Driven(t)
      BY <3>1, DrivenWrites
    <3>3. AcpGoing(f)
      BY <2>0, <2>2, AcpGoesOn
    <3> QED
      BY <3>2, <3>3, <1>3 DEF HeardAcp, SameCodec
  <2>3. CASE k = "update"
    <3>1. t = s
      BY <1>3, <2>3 DEF acpTurn, handleSessionUpdate
    <3>2. AcpGoing(f)
      BY <2>0, <2>3, AcpGoesOn
    <3> QED
      BY <3>1, <3>2, <1>3 DEF HeardAcp, SameFramer
  <2>4. CASE k \notin {"end", "cancelled", "error", "permission", "update"}
    <3>1. t = markUncertain(s)
      BY <1>3, <2>4 DEF acpTurn, handleSessionUpdate
    <3>2. /\ t \in Streams /\ SameFramer(s, t) /\ Driven(t) /\ t.uncertain /\ t.phase = s.phase
      BY <3>1, MarkFields
    <3>3. Doomed(f)
      BY <2>0, <2>4, AcpDoomed
    <3> QED
      BY <3>2, <3>3 DEF HeardAcp
  <2> QED
    BY <2>1, <2>2, <2>3, <2>4
<1> QED
  BY <1>1, <1>2, <1>3

(* What the codec's state says holds of every stream with that state.        *)
LEMMA HeardAcpSame ==
  ASSUME NEW s, NEW t, SameCodec(s, t), NEW ks, HeardAcp(s, ks)
  PROVE  HeardAcp(t, ks)
  BY DEF HeardAcp, SameCodec, Fresh

(* The ACP codec hears one more record.                                      *)
LEMMA AcpKeeps ==
  ASSUME grammar = "acp", NEW s \in Streams, Driven(s),
         NEW ks, NEW k, NEW f, Follows(ks, k, f), HeardAcp(s, ks), NEW t, t = AcpV1SessionCodec(s, k)
  PROVE  t \in Streams /\ SameFramer(s, t) /\ Driven(t) /\ HeardAcp(t, f)
<1>1. CASE s.phase = "init"
  <2>0. Len(ks) = 0 /\ Fresh(s)
    BY <1>1 DEF HeardAcp
  <2>1. CASE k = "init"
    <3>1. t = writeProtocol([s EXCEPT !.phase = "session"], "session")
      BY <1>1, <2>1 DEF AcpV1SessionCodec
    <3>2. t \in Streams /\ SameFramer(s, t) /\ Driven(t) /\ t.phase = "session" /\ Fresh(t)
      BY <3>1, <1>1, <2>0, InitFields
    <3>3. Len(f) = 1 /\ f[1] = "init"
      BY <2>0, <2>1 DEF Follows
    <3> QED
      BY <3>2, <3>3 DEF HeardAcp
  <2>2. CASE k # "init"
    <3>1. t = fail(s)
      BY <1>1, <2>2 DEF AcpV1SessionCodec
    <3>2. Doomed(f)
      BY <2>0, <2>2, AcpDoomed
    <3> QED
      BY <3>1, <3>2, FailFields DEF HeardAcp
  <2> QED
    BY <2>1, <2>2
<1>2. CASE s.phase = "session"
  <2>0. Len(ks) = 1 /\ ks[1] = "init" /\ Fresh(s)
    BY <1>2 DEF HeardAcp
  <2>1. CASE k = "session"
    <3>1. t = sendPrompt(s)
      BY <1>2, <2>1 DEF AcpV1SessionCodec
    <3>2. t \in Streams /\ SameFramer(s, t) /\ SameButPhase(s, t) /\ t.phase = "turn" /\ Driven(t)
      BY <3>1, <1>2, PromptKeeps
    <3>3. AcpGoing(f)
      BY <2>0, <2>1, AcpBegins
    <3> QED
      BY <3>2, <3>3, <2>0 DEF HeardAcp, SameButPhase, Fresh
  <2>2. CASE k # "session"
    <3>1. t = fail(s)
      BY <1>2, <2>2 DEF AcpV1SessionCodec
    <3>2. Doomed(f)
      BY <2>0, <2>2, AcpDoomed
    <3> QED
      BY <3>1, <3>2, FailFields DEF HeardAcp
  <2> QED
    BY <2>1, <2>2
<1>3. CASE s.phase = "turn"
  <2> DEFINE u == acpTurn(s, k)
  <2>1. t = closeProtocol(u) \/ t = u
    BY <1>3, Zenon DEF AcpV1SessionCodec
  <2>2. u \in Streams /\ SameFramer(s, u) /\ Driven(u) /\ u.phase = "turn" /\ HeardAcp(u, f)
    BY <1>3, AcpTurnKeeps
  <2> HIDE DEF u
  <2>3. CASE t = closeProtocol(u)
    <3>1. t \in Streams /\ SameFramer(u, t) /\ SameCodec(u, t)
      BY <2>2, <2>3, CloseFields
    <3>2. Driven(t)
      BY <2>2, <2>3, DrivenCloses
    <3>3. HeardAcp(t, f)
      BY <2>2, <3>1, HeardAcpSame
    <3> QED
      BY <2>2, <3>1, <3>2, <3>3 DEF SameFramer
  <2>4. CASE t = u
    BY <2>2, <2>4
  <2> QED
    BY <2>1, <2>3, <2>4
<1>4. CASE s.phase = "failed"
  <2>1. t = s
    BY <1>4 DEF AcpV1SessionCodec
  <2>2. Doomed(f)
    BY <1>4, DoomedStays DEF HeardAcp
  <2> QED
    BY <2>1, <2>2, <1>4 DEF HeardAcp, SameFramer
<1> QED
  BY <1>1, <1>2, <1>3, <1>4 DEF HeardAcp

(* Pi: the conversations that succeed, with the abort heard at most once.    *)
PiWhole(ks, a, m, e) ==
  /\ a \in 3 .. Len(ks) /\ m \in 3 .. Len(ks) /\ e \in 3 .. Len(ks)
  /\ a < m /\ m < e /\ e < Len(ks) /\ ks[1] = "init" /\ ks[2] = "session"
  /\ ks[a] = "accept" /\ ks[m] = "assistant" /\ ks[e] = "settled" /\ ks[e + 1] = "after"
  /\ \A i \in 3 .. a - 1 : ks[i] = "abort"
  /\ \A i \in a + 1 .. e - 1 : ks[i] \in {"update", "assistant", "failing", "abort"}
  /\ \A i \in m + 1 .. e - 1 : ks[i] # "failing"
  /\ \A i, j \in 3 .. e - 1 : ks[i] = "abort" /\ ks[j] = "abort" => i = j

(* At most one, by number and by equality.                                   *)
LEMMA AtMostOne ==
  ASSUME NEW S, IsFiniteSet(S)
  PROVE  Cardinality(S) <= 1 <=> \A x, y \in S : x = y
<1>1. ASSUME Cardinality(S) <= 1, NEW x \in S, NEW y \in S
      PROVE  x = y
  <2>1. Cardinality(S) \in Nat /\ S # {}
    BY FS_CardinalityType
  <2>2. Cardinality(S) # 0
    BY <2>1, FS_EmptySet
  <2>3. Cardinality(S) = 1
    BY <1>1, <2>1, <2>2
  <2>4. \E z : S = {z}
    BY <2>3, FS_Singleton
  <2> QED
    BY <2>4
<1>2. ASSUME \A x, y \in S : x = y
      PROVE  Cardinality(S) <= 1
  <2>1. CASE S = {}
    <3>1. Cardinality(S) = 0
      BY <2>1, FS_EmptySet
    <3> QED
      BY <3>1
  <2>2. CASE S # {}
    <3>1. PICK x \in S : TRUE
      BY <2>2
    <3>2. S = {x}
      BY <3>1, <1>2
    <3>3. Cardinality(S) = 1
      BY <3>2, FS_Singleton
    <3> QED
      BY <3>3
  <2> QED
    BY <2>1, <2>2
<1> QED
  BY <1>1, <1>2

(* At most one abort, as the specification counts it and as the proofs do.   *)
LEMMA OneAbort ==
  ASSUME NEW ks, NEW e \in Nat
  PROVE  Cardinality({i \in 3 .. e - 1 : ks[i] = "abort"}) <= 1
           <=> \A i, j \in 3 .. e - 1 : ks[i] = "abort" /\ ks[j] = "abort" => i = j
<1> DEFINE S == {i \in 3 .. e - 1 : ks[i] = "abort"}
<1>1. IsFiniteSet(S)
  <2>1. IsFiniteSet(3 .. e - 1) /\ S \subseteq 3 .. e - 1
    BY FS_Interval
  <2> QED
    BY <2>1, FS_Subset
<1>2. (\A x, y \in S : x = y) <=> \A i, j \in 3 .. e - 1 : ks[i] = "abort" /\ ks[j] = "abort" => i = j
  OBVIOUS
<1> HIDE DEF S
<1>3. Cardinality(S) <= 1 <=> \A x, y \in S : x = y
  BY <1>1, AtMostOne
<1> QED
  BY <1>2, <1>3 DEF S

(* A complete Pi conversation, with its three places named.                  *)
LEMMA PiIsWhole ==
  ASSUME NEW ks, Len(ks) \in Nat
  PROVE  SuccessfulPi(ks) <=> \E a, m, e \in 3 .. Len(ks) : PiWhole(ks, a, m, e)
<1>1. ASSUME NEW e \in 3 .. Len(ks)
      PROVE  Cardinality({i \in 3 .. e - 1 : ks[i] = "abort"}) <= 1
               <=> \A i, j \in 3 .. e - 1 : ks[i] = "abort" /\ ks[j] = "abort" => i = j
  <2>1. e \in Nat
    OBVIOUS
  <2> QED
    BY <2>1, OneAbort
<1>2. ASSUME SuccessfulPi(ks)
      PROVE  \E a, m, e \in 3 .. Len(ks) : PiWhole(ks, a, m, e)
  <2>1. PICK a \in 3 .. Len(ks), m \in 3 .. Len(ks), e \in 3 .. Len(ks) :
          /\ a < m /\ m < e /\ e < Len(ks) /\ ks[1] = "init" /\ ks[2] = "session"
          /\ ks[a] = "accept" /\ ks[m] = "assistant" /\ ks[e] = "settled" /\ ks[e + 1] = "after"
          /\ \A i \in 3 .. a - 1 : ks[i] = "abort"
          /\ \A i \in a + 1 .. e - 1 : ks[i] \in {"update", "assistant", "failing", "abort"}
          /\ \A i \in m + 1 .. e - 1 : ks[i] # "failing"
          /\ Cardinality({i \in 3 .. e - 1 : ks[i] = "abort"}) <= 1
    BY <1>2, Zenon DEF SuccessfulPi
  <2>2. \A i, j \in 3 .. e - 1 : ks[i] = "abort" /\ ks[j] = "abort" => i = j
    BY <2>1, <1>1, Zenon
  <2>3. PiWhole(ks, a, m, e)
    BY <2>1, <2>2, Zenon DEF PiWhole
  <2> QED
    BY <2>3, Zenon
<1>3. ASSUME NEW a \in 3 .. Len(ks), NEW m \in 3 .. Len(ks), NEW e \in 3 .. Len(ks), PiWhole(ks, a, m, e)
      PROVE  SuccessfulPi(ks)
  <2>1. Cardinality({i \in 3 .. e - 1 : ks[i] = "abort"}) <= 1
    <3>1. \A i, j \in 3 .. e - 1 : ks[i] = "abort" /\ ks[j] = "abort" => i = j
      BY <1>3, Zenon DEF PiWhole
    <3> QED
      BY <3>1, <1>1, Zenon
  <2> QED
    BY <2>1, <1>3, Zenon DEF PiWhole, SuccessfulPi
<1> QED
  BY <1>2, <1>3, Zenon

(* What a Pi session that is under way has heard: nothing but an abort, or   *)
(* the prompt's acceptance and what may follow it; which message was last.   *)
PiBegun(ks) == Len(ks) >= 2 /\ ks[1] = "init" /\ ks[2] = "session"
PiOpening(ks) == PiBegun(ks) /\ \A i \in 3 .. Len(ks) : ks[i] = "abort"
PiAccepted(ks, a) ==
  /\ PiBegun(ks) /\ a \in 3 .. Len(ks) /\ ks[a] = "accept"
  /\ \A i \in 3 .. a - 1 : ks[i] = "abort"
  /\ \A i \in a + 1 .. Len(ks) : ks[i] \in {"update", "assistant", "failing", "abort"}
LastIs(ks, a, e) ==
  /\ e = "none" => \A i \in a + 1 .. Len(ks) : ks[i] \notin {"assistant", "failing"}
  /\ e = "success" => \E m \in a + 1 .. Len(ks) :
       ks[m] = "assistant" /\ \A i \in m + 1 .. Len(ks) : ks[i] # "failing"
  /\ e = "failure" => \E m \in a + 1 .. Len(ks) :
       ks[m] = "failing" /\ \A i \in m + 1 .. Len(ks) : ks[i] # "assistant"
Aborts(ks, aborted) ==
  /\ aborted <=> \E i \in 3 .. Len(ks) : ks[i] = "abort"
  /\ \A i, j \in 3 .. Len(ks) : ks[i] = "abort" /\ ks[j] = "abort" => i = j
PiSettled(ks, a, m) ==
  /\ a \in 3 .. Len(ks) /\ m \in 3 .. Len(ks)
  /\ a < m /\ m < Len(ks) /\ ks[1] = "init" /\ ks[2] = "session"
  /\ ks[a] = "accept" /\ ks[m] = "assistant" /\ ks[Len(ks)] = "settled"
  /\ \A i \in 3 .. a - 1 : ks[i] = "abort"
  /\ \A i \in a + 1 .. Len(ks) - 1 : ks[i] \in {"update", "assistant", "failing", "abort"}
  /\ \A i \in m + 1 .. Len(ks) - 1 : ks[i] # "failing"
  /\ \A i, j \in 3 .. Len(ks) - 1 : ks[i] = "abort" /\ ks[j] = "abort" => i = j

(* A successful continuation accepts where the records accepted and settles  *)
(* behind them.                                                              *)
LEMMA PiPlaces ==
  ASSUME NEW ks, NEW g, Len(ks) \in Nat, Len(g) \in Nat, Continues(ks, g),
         NEW b, NEW m, NEW e, PiWhole(g, b, m, e)
  PROVE  /\ PiOpening(ks) => b > Len(ks)
         /\ \A a : PiAccepted(ks, a) => b = a /\ e > Len(ks)
         /\ \A a, x : PiSettled(ks, a, x) => b = a /\ e = Len(ks) /\ Len(g) > Len(ks)
<1>0. /\ b \in Nat /\ e \in Nat /\ m \in Nat /\ b < e /\ 3 <= b /\ e < Len(g) /\ g[b] = "accept" /\ g[e] = "settled"
      /\ \A i \in 3 .. b - 1 : g[i] = "abort"
      /\ \A i \in b + 1 .. e - 1 : g[i] \in {"update", "assistant", "failing", "abort"}
      /\ \A i \in 1 .. Len(ks) : g[i] = ks[i]
      /\ Len(ks) <= Len(g)
  BY DEF PiWhole, Continues
<1>1. ASSUME PiOpening(ks)
      PROVE  b > Len(ks)
  <2>1. SUFFICES ASSUME b <= Len(ks)
                 PROVE  FALSE
    BY <1>0
  <2>2. b \in 3 .. Len(ks) /\ b \in 1 .. Len(ks)
    BY <2>1, <1>0
  <2> QED
    BY <2>2, <1>0, <1>1 DEF PiOpening
<1>2. ASSUME NEW a \in 3 .. Len(ks), ks[a] = "accept", \A i \in 3 .. a - 1 : ks[i] = "abort"
      PROVE  b = a
  <2>0. g[a] = "accept" /\ \A i \in 3 .. a - 1 : g[i] = "abort"
    <3>1. a \in 1 .. Len(ks) /\ \A i \in 3 .. a - 1 : i \in 1 .. Len(ks)
      OBVIOUS
    <3> QED
      BY <3>1, <1>0, <1>2
  <2>1. ~(a < b)
    <3>1. a < b => a \in 3 .. b - 1
      BY <1>0
    <3> QED
      BY <3>1, <2>0, <1>0
  <2>2. ~(b < a)
    <3>1. b < a => b \in 3 .. a - 1
      BY <1>0
    <3> QED
      BY <3>1, <2>0, <1>0
  <2> QED
    BY <2>1, <2>2, <1>0
<1>3. ASSUME NEW a, PiAccepted(ks, a)
      PROVE  b = a /\ e > Len(ks)
  <2>1. b = a
    BY <1>2, <1>3 DEF PiAccepted
  <2>2. SUFFICES ASSUME e <= Len(ks)
                 PROVE  FALSE
    BY <2>1, <1>0
  <2>3. e \in a + 1 .. Len(ks) /\ e \in 1 .. Len(ks)
    BY <2>1, <2>2, <1>0
  <2>4. ks[e] = "settled"
    BY <2>3, <1>0
  <2> QED
    BY <2>3, <2>4, <1>3 DEF PiAccepted
<1>4. ASSUME NEW a, NEW x, PiSettled(ks, a, x)
      PROVE  b = a /\ e = Len(ks) /\ Len(g) > Len(ks)
  <2>1. b = a
    BY <1>2, <1>4 DEF PiSettled
  <2>2. ~(e < Len(ks))
    <3>1. SUFFICES ASSUME e < Len(ks)
                   PROVE  FALSE
      OBVIOUS
    <3>2. e \in a + 1 .. Len(ks) - 1 /\ e \in 1 .. Len(ks)
      BY <2>1, <3>1, <1>0
    <3>3. ks[e] = "settled"
      BY <3>2, <1>0
    <3> QED
      BY <3>2, <3>3, <1>4 DEF PiSettled
  <2>3. ~(Len(ks) < e)
    <3>1. SUFFICES ASSUME Len(ks) < e
                   PROVE  FALSE
      OBVIOUS
    <3>2. Len(ks) \in b + 1 .. e - 1 /\ Len(ks) \in 1 .. Len(ks) /\ ks[Len(ks)] = "settled"
      BY <2>1, <3>1, <1>0, <1>4 DEF PiSettled
    <3>3. g[Len(ks)] = "settled"
      BY <3>2, <1>0
    <3> QED
      BY <3>2, <3>3, <1>0
  <2>4. e = Len(ks)
    BY <2>2, <2>3, <1>0
  <2> QED
    BY <2>1, <2>4, <1>0
<1> QED
  BY <1>1, <1>3, <1>4

(* A continuation of f continues ks and has k behind it.                     *)
LEMMA Continued ==
  ASSUME NEW ks, NEW k, NEW f, Follows(ks, k, f), NEW g \in Seq(Kind), Continues(f, g)
  PROVE  /\ Len(ks) \in Nat /\ Len(g) \in Nat /\ Len(ks) + 1 <= Len(g) /\ g[Len(ks) + 1] = k
         /\ Continues(ks, g) /\ \A i \in 1 .. Len(ks) : g[i] = ks[i]
<1>1. \A i \in 1 .. Len(ks) + 1 : g[i] = f[i]
  BY DEF Follows, Continues
<1>2. Len(ks) + 1 \in 1 .. Len(ks) + 1 /\ \A i \in 1 .. Len(ks) : i \in 1 .. Len(ks) + 1
  BY DEF Follows
<1> QED
  BY <1>1, <1>2 DEF Follows, Continues

(* To be doomed is to have no successful continuation.                       *)
LEMMA PiDoomedBy ==
  ASSUME grammar = "pi", NEW f,
         \A g \in Seq(Kind) : Continues(f, g) => \A a, m, e : ~PiWhole(g, a, m, e)
  PROVE  Doomed(f)
<1> SUFFICES ASSUME NEW g \in Seq(Kind), Continues(f, g), SuccessfulPi(g)
             PROVE  FALSE
  BY DEF Doomed, Successful
<1>1. \E a, m, e \in 3 .. Len(g) : PiWhole(g, a, m, e)
  BY PiIsWhole
<1> QED
  BY <1>1

(* Records that no session begins with.                                      *)
LEMMA PiDoomedStart ==
  ASSUME grammar = "pi", NEW ks, NEW k, NEW f, Follows(ks, k, f),
         \/ Len(ks) = 0 /\ k # "init"
         \/ Len(ks) = 1 /\ k # "session"
  PROVE  Doomed(f)
<1>1. ASSUME NEW g \in Seq(Kind), Continues(f, g), NEW a, NEW m, NEW e, PiWhole(g, a, m, e)
      PROVE  FALSE
  <2>1. g[Len(ks) + 1] = k
    BY <1>1, Continued
  <2>2. g[1] = "init" /\ g[2] = "session"
    BY <1>1, Zenon DEF PiWhole
  <2>3. CASE Len(ks) = 0 /\ k # "init"
    <3>1. Len(ks) + 1 = 1
      BY <2>3
    <3> QED
      BY <3>1, <2>1, <2>2, <2>3
  <2>4. CASE Len(ks) = 1 /\ k # "session"
    <3>1. Len(ks) + 1 = 2
      BY <2>4
    <3> QED
      BY <3>1, <2>1, <2>2, <2>4
  <2> QED
    BY <2>3, <2>4
<1> QED
  BY <1>1, PiDoomedBy

(* Records that no session has before the prompt is accepted.                *)
LEMMA PiDoomedOpening ==
  ASSUME grammar = "pi", NEW ks, NEW k, NEW f, Follows(ks, k, f), PiOpening(ks),
         k \notin {"accept", "abort"} \/ (k = "abort" /\ Aborts(ks, TRUE))
  PROVE  Doomed(f)
<1>1. ASSUME NEW g \in Seq(Kind), Continues(f, g), NEW a, NEW m, NEW e, PiWhole(g, a, m, e)
      PROVE  FALSE
  <2> DEFINE n == Len(ks)
  <2>1. n \in Nat /\ Len(g) \in Nat /\ g[n + 1] = k /\ Continues(ks, g) /\ \A i \in 1 .. n : g[i] = ks[i]
    BY <1>1, Continued
  <2>2. a > n /\ n >= 2 /\ a \in Nat /\ e \in Nat /\ a < e
    BY SMTT(40), <1>1, <2>1, PiPlaces DEF PiOpening, PiBegun, PiWhole
  <2>3. CASE k \notin {"accept", "abort"}
    <3>1. a # n + 1
      BY <1>1, <2>1, <2>3 DEF PiWhole
    <3>2. n + 1 \in 3 .. a - 1
      BY <2>1, <2>2, <3>1
    <3> QED
      BY <1>1, <2>1, <2>3, <3>2 DEF PiWhole
  <2>4. CASE k = "abort" /\ Aborts(ks, TRUE)
    <3>1. PICK i \in 3 .. n : ks[i] = "abort"
      BY <2>4 DEF Aborts
    <3>2. g[i] = "abort" /\ g[n + 1] = "abort" /\ i \in 3 .. e - 1 /\ n + 1 \in 3 .. e - 1 /\ i # n + 1
      BY <2>1, <2>2, <2>4, <3>1
    <3> QED
      BY <1>1, <3>2 DEF PiWhole
  <2> QED
    BY <2>3, <2>4
<1> QED
  BY <1>1, PiDoomedBy

(* Nor after that.                                                           *)
LEMMA PiDoomedAccepted ==
  ASSUME grammar = "pi", NEW ks, NEW k, NEW f, Follows(ks, k, f), NEW b, PiAccepted(ks, b),
         \/ k \notin {"update", "assistant", "failing", "abort", "settled"}
         \/ k = "abort" /\ Aborts(ks, TRUE)
         \/ k = "settled" /\ (LastIs(ks, b, "none") \/ LastIs(ks, b, "failure"))
  PROVE  Doomed(f)
<1>1. ASSUME NEW g \in Seq(Kind), Continues(f, g), NEW a, NEW m, NEW e, PiWhole(g, a, m, e)
      PROVE  FALSE
  <2> DEFINE n == Len(ks)
  <2>1. n \in Nat /\ Len(g) \in Nat /\ g[n + 1] = k /\ Continues(ks, g) /\ \A i \in 1 .. n : g[i] = ks[i]
    BY <1>1, Continued
  <2>2. /\ a = b /\ e > n /\ a \in 3 .. n /\ a \in Nat /\ m \in Nat /\ e \in Nat /\ a < m /\ m < e
        /\ g[m] = "assistant" /\ g[e] = "settled"
        /\ \A i \in a + 1 .. e - 1 : g[i] \in {"update", "assistant", "failing", "abort"}
        /\ \A i \in m + 1 .. e - 1 : g[i] # "failing"
        /\ \A i, j \in 3 .. e - 1 : g[i] = "abort" /\ g[j] = "abort" => i = j
    <3>1. a = b /\ e > n
      BY <1>1, <2>1, PiPlaces
    <3>2. b \in 3 .. n
      BY DEF PiAccepted
    <3> QED
      BY <1>1, <2>1, <3>1, <3>2 DEF PiWhole
  <2>3. CASE k \notin {"update", "assistant", "failing", "abort", "settled"}
    <3>1. e # n + 1
      BY <2>1, <2>2, <2>3
    <3>2. n + 1 \in a + 1 .. e - 1
      BY <2>1, <2>2, <3>1
    <3> QED
      BY <2>1, <2>2, <2>3, <3>2
  <2>4. CASE k = "abort" /\ Aborts(ks, TRUE)
    <3>1. PICK i \in 3 .. n : ks[i] = "abort"
      BY <2>4 DEF Aborts
    <3>2. e # n + 1
      BY <2>1, <2>2, <2>4
    <3>3. g[i] = "abort" /\ g[n + 1] = "abort" /\ i \in 3 .. e - 1 /\ n + 1 \in 3 .. e - 1 /\ i # n + 1
      BY SMTT(40), <2>1, <2>2, <2>4, <3>1, <3>2
    <3> QED
      BY <2>2, <3>3
  <2>5. CASE k = "settled" /\ (LastIs(ks, b, "none") \/ LastIs(ks, b, "failure"))
    <3>1. e = n + 1
      <4>1. e # n + 1 => n + 1 \in a + 1 .. e - 1
        BY <2>1, <2>2
      <4> QED
        BY <4>1, <2>1, <2>2, <2>5
    <3>2. m \in b + 1 .. n /\ m \in 1 .. n /\ ks[m] = "assistant"
      BY <2>1, <2>2, <3>1
    <3>3. ~LastIs(ks, b, "none")
      BY <3>2 DEF LastIs
    <3>4. PICK x \in b + 1 .. n : ks[x] = "failing" /\ \A i \in x + 1 .. n : ks[i] # "assistant"
      BY <2>5, <3>3 DEF LastIs
    <3>5. m < x
      <4>1. m # x
        BY <3>2, <3>4
      <4>2. ~(x < m)
        BY <3>2, <3>4
      <4> QED
        BY <4>1, <4>2, <3>2, <2>2
    <3>6. x \in m + 1 .. e - 1 /\ x \in 1 .. n
      BY <3>1, <3>5, <2>1, <2>2
    <3> QED
      BY <3>4, <3>6, <2>1, <2>2
  <2> QED
    BY <2>3, <2>4, <2>5
<1> QED
  BY <1>1, PiDoomedBy

(* Behind the settlement come the statistics.                                *)
LEMMA PiDoomedSettled ==
  ASSUME grammar = "pi", NEW ks, NEW k, NEW f, Follows(ks, k, f), NEW b, NEW x, PiSettled(ks, b, x),
         k # "after"
  PROVE  Doomed(f)
<1>1. ASSUME NEW g \in Seq(Kind), Continues(f, g), NEW a, NEW m, NEW e, PiWhole(g, a, m, e)
      PROVE  FALSE
  <2>1. Len(ks) \in Nat /\ Len(g) \in Nat /\ g[Len(ks) + 1] = k /\ Continues(ks, g)
    BY <1>1, Continued
  <2>2. e = Len(ks)
    BY <1>1, <2>1, PiPlaces
  <2> QED
    BY <1>1, <2>1, <2>2 DEF PiWhole
<1> QED
  BY <1>1, PiDoomedBy

(* A session under way has not succeeded yet.                                *)
LEMMA PiNotYet ==
  ASSUME NEW ks, Len(ks) \in Nat, NEW a, NEW m, PiOpening(ks) \/ PiAccepted(ks, a) \/ PiSettled(ks, a, m)
  PROVE  ~SuccessfulPi(ks)
<1>1. ASSUME NEW b \in 3 .. Len(ks), NEW x \in 3 .. Len(ks), NEW e \in 3 .. Len(ks), PiWhole(ks, b, x, e)
      PROVE  FALSE
  <2>1. Continues(ks, ks)
    BY DEF Continues
  <2>2. b > Len(ks) \/ e > Len(ks) \/ Len(ks) > Len(ks)
    BY <1>1, <2>1, PiPlaces
  <2> QED
    BY <2>2
<1> QED
  BY <1>1, PiIsWhole

(* What a record more does to the records heard.                             *)
LEMMA Extended ==
  ASSUME NEW ks, NEW k, NEW f, Follows(ks, k, f)
  PROVE  /\ Len(ks) \in Nat /\ Len(f) \in Nat /\ Len(f) = Len(ks) + 1 /\ f[Len(ks) + 1] = k
         /\ \A i \in 1 .. Len(ks) : f[i] = ks[i]
         /\ \A i \in 3 .. Len(ks) : i \in 1 .. Len(ks)
         /\ \A i \in 3 .. Len(f) : i # Len(ks) + 1 => i \in 3 .. Len(ks)
  BY DEF Follows

(* One more record: of a session that begins,                                *)
LEMMA PiBegins ==
  ASSUME NEW ks, NEW k, NEW f, Follows(ks, k, f), Len(ks) = 1, ks[1] = "init", k = "session"
  PROVE  PiOpening(f) /\ Aborts(f, FALSE)
<1> DEFINE n == Len(ks)
<1>0. n = 1 /\ Len(f) = n + 1 /\ f[n + 1] = k /\ \A i \in 1 .. n : f[i] = ks[i]
  BY Extended
<1>1. Len(f) = 2 /\ f[1] = "init" /\ f[2] = "session"
  <2>1. n + 1 = 2 /\ 1 \in 1 .. n
    BY <1>0
  <2>2. f[2] = k /\ f[1] = ks[1]
    BY <1>0, <2>1, Zenon
  <2> QED
    BY <1>0, <2>1, <2>2
<1> QED
  BY <1>1 DEF PiOpening, PiBegun, Aborts

(* the abort, and any other,                                                 *)
LEMMA AbortsGoOn ==
  ASSUME NEW ks, NEW k, NEW f, Follows(ks, k, f), NEW on \in BOOLEAN, Aborts(ks, on)
  PROVE  /\ k # "abort" => Aborts(f, on)
         /\ k = "abort" /\ ~on /\ Len(ks) >= 2 => Aborts(f, TRUE)
<1> DEFINE n == Len(ks)
<1>1. /\ n \in Nat /\ Len(f) = n + 1 /\ f[n + 1] = k
      /\ \A i \in 3 .. n : f[i] = ks[i] /\ i \in 3 .. Len(f)
      /\ \A i \in 3 .. Len(f) : i # n + 1 => i \in 3 .. n
  BY Extended
<1>2. ASSUME k # "abort"
      PROVE  Aborts(f, on)
  <2>1. \A i \in 3 .. Len(f) : f[i] = "abort" => i \in 3 .. n /\ ks[i] = "abort"
    BY <1>1, <1>2
  <2> QED
    BY <2>1, <1>1 DEF Aborts
<1>3. ASSUME k = "abort", ~on, n >= 2
      PROVE  Aborts(f, TRUE)
  <2>1. \A i \in 3 .. Len(f) : f[i] = "abort" => i = n + 1
    BY <1>1, <1>3 DEF Aborts
  <2>2. n + 1 \in 3 .. Len(f)
    BY <1>1, <1>3
  <2> QED
    BY <2>1, <2>2, <1>1, <1>3 DEF Aborts
<1> QED
  BY <1>2, <1>3

(* of one that waits for the prompt's acceptance,                            *)
LEMMA OpeningGoesOn ==
  ASSUME NEW ks, NEW k, NEW f, Follows(ks, k, f), PiOpening(ks)
  PROVE  /\ k = "abort" => PiOpening(f)
         /\ k = "accept" => PiAccepted(f, Len(ks) + 1) /\ LastIs(f, Len(ks) + 1, "none")
<1> DEFINE n == Len(ks)
<1>1. /\ n \in Nat /\ Len(f) = n + 1 /\ f[n + 1] = k /\ n >= 2
      /\ \A i \in 1 .. n : f[i] = ks[i]
      /\ \A i \in 3 .. n : f[i] = ks[i] /\ ks[i] = "abort"
      /\ \A i \in 3 .. Len(f) : i # n + 1 => i \in 3 .. n
  BY Extended DEF PiOpening, PiBegun
<1>2. PiBegun(f)
  BY <1>1 DEF PiOpening, PiBegun
<1>3. k = "abort" => PiOpening(f)
  BY <1>1, <1>2 DEF PiOpening
<1>4. ASSUME k = "accept"
      PROVE  PiAccepted(f, n + 1) /\ LastIs(f, n + 1, "none")
  <2>1. n + 1 \in 3 .. Len(f) /\ f[n + 1] = "accept" /\ \A i \in 3 .. n + 1 - 1 : f[i] = "abort"
    BY <1>1, <1>4
  <2>2. n + 1 + 1 .. Len(f) = {}
    BY <1>1
  <2> QED
    BY <2>1, <2>2, <1>2 DEF PiAccepted, LastIs
<1> QED
  BY <1>3, <1>4

(* of one whose prompt was accepted,                                         *)
LEMMA AcceptedGoesOn ==
  ASSUME NEW ks, NEW k, NEW f, Follows(ks, k, f), NEW a, PiAccepted(ks, a), NEW e, LastIs(ks, a, e)
  PROVE  /\ k \in {"update", "assistant", "failing", "abort"} => PiAccepted(f, a)
         /\ k \in {"update", "abort"} => LastIs(f, a, e)
         /\ k = "assistant" => LastIs(f, a, "success")
         /\ k = "failing" => LastIs(f, a, "failure")
<1> DEFINE n == Len(ks)
<1>1. /\ n \in Nat /\ Len(f) = n + 1 /\ f[n + 1] = k /\ n >= 2 /\ a \in 3 .. n
      /\ \A i \in 1 .. n : f[i] = ks[i]
      /\ \A i \in a + 1 .. n : f[i] = ks[i] /\ i \in a + 1 .. n + 1
      /\ \A i \in a + 1 .. n + 1 : i # n + 1 => i \in a + 1 .. n
  BY Extended DEF PiAccepted, PiBegun
<1>2. PiBegun(f) /\ a \in 3 .. Len(f) /\ f[a] = "accept" /\ \A i \in 3 .. a - 1 : f[i] = "abort"
  <2>1. \A i \in 3 .. a : i \in 1 .. n
    BY <1>1
  <2> QED
    BY <2>1, <1>1 DEF PiAccepted, PiBegun
<1>3. k \in {"update", "assistant", "failing", "abort"} => PiAccepted(f, a)
  <2>1. \A i \in a + 1 .. n : f[i] \in {"update", "assistant", "failing", "abort"}
    BY <1>1 DEF PiAccepted
  <2> QED
    BY <2>1, <1>1, <1>2 DEF PiAccepted
<1>4. ASSUME k \in {"update", "abort"}
      PROVE  LastIs(f, a, e)
  <2>1. e = "none" => \A i \in a + 1 .. n + 1 : f[i] \notin {"assistant", "failing"}
    BY <1>1, <1>4 DEF LastIs
  <2>2. ASSUME e = "success"
        PROVE  \E m \in a + 1 .. n + 1 : f[m] = "assistant" /\ \A i \in m + 1 .. n + 1 : f[i] # "failing"
    <3>1. PICK m \in a + 1 .. n : ks[m] = "assistant" /\ \A i \in m + 1 .. n : ks[i] # "failing"
      BY <2>2 DEF LastIs
    <3>2. \A i \in m + 1 .. n + 1 : i = n + 1 \/ (i \in m + 1 .. n /\ i \in a + 1 .. n)
      BY <1>1
    <3> QED
      BY <3>1, <3>2, <1>1, <1>4
  <2>3. ASSUME e = "failure"
        PROVE  \E m \in a + 1 .. n + 1 : f[m] = "failing" /\ \A i \in m + 1 .. n + 1 : f[i] # "assistant"
    <3>1. PICK m \in a + 1 .. n : ks[m] = "failing" /\ \A i \in m + 1 .. n : ks[i] # "assistant"
      BY <2>3 DEF LastIs
    <3>2. \A i \in m + 1 .. n + 1 : i = n + 1 \/ (i \in m + 1 .. n /\ i \in a + 1 .. n)
      BY <1>1
    <3> QED
      BY <3>1, <3>2, <1>1, <1>4
  <2> QED
    BY <2>1, <2>2, <2>3, <1>1 DEF LastIs
<1>5. n + 1 \in a + 1 .. Len(f) /\ n + 1 + 1 .. Len(f) = {}
  BY <1>1
<1>6. k = "assistant" => LastIs(f, a, "success")
  BY <1>1, <1>5 DEF LastIs
<1>7. k = "failing" => LastIs(f, a, "failure")
  BY <1>1, <1>5 DEF LastIs
<1> QED
  BY <1>3, <1>4, <1>6, <1>7

(* the settlement,                                                           *)
LEMMA AcceptedSettles ==
  ASSUME NEW ks, NEW k, NEW f, Follows(ks, k, f), NEW a, PiAccepted(ks, a), LastIs(ks, a, "success"),
         NEW on, Aborts(ks, on), k = "settled"
  PROVE  \E m : PiSettled(f, a, m)
<1> DEFINE n == Len(ks)
<1>1. /\ n \in Nat /\ Len(f) = n + 1 /\ f[n + 1] = k /\ n >= 2 /\ a \in 3 .. n
      /\ \A i \in 1 .. n : f[i] = ks[i]
  BY Extended DEF PiAccepted, PiBegun
<1>2. PICK m \in a + 1 .. n : ks[m] = "assistant" /\ \A i \in m + 1 .. n : ks[i] # "failing"
  BY DEF LastIs
<1>3. /\ Len(f) - 1 = n /\ m \in 1 .. n /\ a \in 1 .. n /\ a \in 3 .. Len(f) /\ m \in 3 .. Len(f)
      /\ a < m /\ m < Len(f)
      /\ \A i \in 3 .. n : i \in 1 .. n
      /\ \A i \in 3 .. a - 1 : i \in 1 .. n
      /\ \A i \in a + 1 .. n : i \in 1 .. n
      /\ \A i \in m + 1 .. n : i \in 1 .. n
  BY <1>1
<1>4. f[1] = "init" /\ f[2] = "session" /\ f[a] = "accept" /\ f[m] = "assistant" /\ f[Len(f)] = "settled"
  BY <1>1, <1>2, <1>3 DEF PiAccepted, PiBegun
<1>5. /\ \A i \in 3 .. a - 1 : f[i] = "abort"
      /\ \A i \in a + 1 .. n : f[i] \in {"update", "assistant", "failing", "abort"}
      /\ \A i \in m + 1 .. n : f[i] # "failing"
      /\ \A i, j \in 3 .. n : f[i] = "abort" /\ f[j] = "abort" => i = j
  BY <1>1, <1>2, <1>3 DEF PiAccepted, Aborts
<1>6. PiSettled(f, a, m)
  BY <1>3, <1>4, <1>5 DEF PiSettled
<1> QED
  BY <1>6

(* the statistics, and whatever comes then.                                  *)
LEMMA SettledCompletes ==
  ASSUME NEW ks, NEW k, NEW f, Follows(ks, k, f), NEW a, NEW m, PiSettled(ks, a, m), k = "after"
  PROVE  SuccessfulPi(f)
<1> DEFINE n == Len(ks)
<1>1. /\ n \in Nat /\ Len(f) \in Nat /\ Len(f) = n + 1 /\ f[n + 1] = k
      /\ \A i \in 1 .. n : f[i] = ks[i]
  BY Extended
<1>2. /\ a \in 3 .. n /\ m \in 3 .. n /\ a < m /\ m < n
      /\ ks[1] = "init" /\ ks[2] = "session"
      /\ ks[a] = "accept" /\ ks[m] = "assistant" /\ ks[n] = "settled"
      /\ \A i \in 3 .. a - 1 : ks[i] = "abort"
      /\ \A i \in a + 1 .. n - 1 : ks[i] \in {"update", "assistant", "failing", "abort"}
      /\ \A i \in m + 1 .. n - 1 : ks[i] # "failing"
      /\ \A i, j \in 3 .. n - 1 : ks[i] = "abort" /\ ks[j] = "abort" => i = j
  BY DEF PiSettled
<1>3. /\ a \in 3 .. Len(f) /\ m \in 3 .. Len(f) /\ n \in 3 .. Len(f) /\ n < Len(f)
      /\ a \in 1 .. n /\ m \in 1 .. n /\ n \in 1 .. n /\ 1 \in 1 .. n /\ 2 \in 1 .. n
      /\ \A i \in 3 .. n - 1 : i \in 1 .. n
      /\ \A i \in 3 .. a - 1 : i \in 1 .. n
      /\ \A i \in a + 1 .. n - 1 : i \in 1 .. n
      /\ \A i \in m + 1 .. n - 1 : i \in 1 .. n
  BY <1>1, <1>2
<1>4. /\ f[1] = "init" /\ f[2] = "session"
      /\ f[a] = "accept" /\ f[m] = "assistant" /\ f[n] = "settled" /\ f[n + 1] = "after"
  BY <1>1, <1>2, <1>3, Zenon
<1>5. /\ \A i \in 3 .. a - 1 : f[i] = "abort"
      /\ \A i \in a + 1 .. n - 1 : f[i] \in {"update", "assistant", "failing", "abort"}
      /\ \A i \in m + 1 .. n - 1 : f[i] # "failing"
      /\ \A i, j \in 3 .. n - 1 : f[i] = "abort" /\ f[j] = "abort" => i = j
  <2> HIDE DEF n
  <2>1. \A i \in 3 .. a - 1 : f[i] = ks[i]
    BY <1>1, <1>3, Zenon
  <2>2. \A i \in a + 1 .. n - 1 : f[i] = ks[i]
    BY <1>1, <1>3, Zenon
  <2>3. \A i \in m + 1 .. n - 1 : f[i] = ks[i]
    BY <1>1, <1>3, Zenon
  <2>4. \A i \in 3 .. n - 1 : f[i] = ks[i]
    BY <1>1, <1>3, Zenon
  <2>5. \A i \in 3 .. a - 1 : f[i] = "abort"
    BY <1>2, <2>1
  <2>6. \A i \in a + 1 .. n - 1 : f[i] \in {"update", "assistant", "failing", "abort"}
    BY <1>2, <2>2
  <2>7. \A i \in m + 1 .. n - 1 : f[i] # "failing"
    BY <1>2, <2>3
  <2>8. \A i, j \in 3 .. n - 1 : f[i] = "abort" /\ f[j] = "abort" => i = j
    <3>1. \A i, j \in 3 .. n - 1 : ks[i] = "abort" /\ ks[j] = "abort" => i = j
      BY <1>2
    <3> QED
      BY <2>4, <3>1
  <2> QED
    BY <2>5, <2>6, <2>7, <2>8
<1> HIDE DEF n
<1>6. PiWhole(f, a, m, n)
  BY <1>2, <1>3, <1>4, <1>5 DEF PiWhole
<1> QED
  BY <1>1, <1>3, <1>6, PiIsWhole

(* What follows the last answer of a complete Pi conversation changes        *)
(* nothing: the codec is done.                                               *)
LEMMA CompleteStays ==
  ASSUME NEW ks, NEW k, NEW f, Follows(ks, k, f), SuccessfulPi(ks)
  PROVE  SuccessfulPi(f)
<1> DEFINE n == Len(ks)
<1>1. /\ n \in Nat /\ Len(f) \in Nat /\ Len(f) = n + 1
      /\ \A i \in 1 .. n : f[i] = ks[i]
  BY Extended
<1>2. PICK a \in 3 .. n, m \in 3 .. n, e \in 3 .. n : PiWhole(ks, a, m, e)
  BY <1>1, PiIsWhole
<1>3. /\ a < m /\ m < e /\ e < n
      /\ ks[1] = "init" /\ ks[2] = "session"
      /\ ks[a] = "accept" /\ ks[m] = "assistant" /\ ks[e] = "settled" /\ ks[e + 1] = "after"
      /\ \A i \in 3 .. a - 1 : ks[i] = "abort"
      /\ \A i \in a + 1 .. e - 1 : ks[i] \in {"update", "assistant", "failing", "abort"}
      /\ \A i \in m + 1 .. e - 1 : ks[i] # "failing"
      /\ \A i, j \in 3 .. e - 1 : ks[i] = "abort" /\ ks[j] = "abort" => i = j
  BY <1>2 DEF PiWhole
<1>4. /\ a \in 3 .. Len(f) /\ m \in 3 .. Len(f) /\ e \in 3 .. Len(f) /\ e < Len(f)
      /\ a \in 1 .. n /\ m \in 1 .. n /\ e \in 1 .. n /\ e + 1 \in 1 .. n /\ 1 \in 1 .. n /\ 2 \in 1 .. n
      /\ \A i \in 3 .. e - 1 : i \in 1 .. n
      /\ \A i \in 3 .. a - 1 : i \in 1 .. n
      /\ \A i \in a + 1 .. e - 1 : i \in 1 .. n
      /\ \A i \in m + 1 .. e - 1 : i \in 1 .. n
  BY <1>1, <1>3
<1>5. /\ f[1] = "init" /\ f[2] = "session"
      /\ f[a] = "accept" /\ f[m] = "assistant" /\ f[e] = "settled" /\ f[e + 1] = "after"
  BY <1>1, <1>3, <1>4
<1>6. /\ \A i \in 3 .. a - 1 : f[i] = "abort"
      /\ \A i \in a + 1 .. e - 1 : f[i] \in {"update", "assistant", "failing", "abort"}
      /\ \A i \in m + 1 .. e - 1 : f[i] # "failing"
      /\ \A i, j \in 3 .. e - 1 : f[i] = "abort" /\ f[j] = "abort" => i = j
  BY SMTT(40), <1>1, <1>3, <1>4
<1> HIDE DEF n
<1>7. PiWhole(f, a, m, e)
  BY <1>3, <1>4, <1>5, <1>6 DEF PiWhole
<1> QED
  BY <1>1, <1>4, <1>7, PiIsWhole

(* What the Pi codec's state says of the records it heard.                   *)
PiTurning(s, ks) ==
  /\ ~s.uncertain /\ s.terminal = "none" /\ Aborts(ks, s.aborted)
  /\ \/ ~s.accepted /\ s.last = "none" /\ PiOpening(ks)
     \/ s.accepted /\ \E a : PiAccepted(ks, a) /\ LastIs(ks, a, s.last)
HeardPi(s, ks) ==
  \/ s.phase = "init" /\ Len(ks) = 0 /\ Fresh(s)
  \/ s.phase = "session" /\ Len(ks) = 1 /\ ks[1] = "init" /\ Fresh(s)
  \/ s.phase = "turn" /\ PiTurning(s, ks)
  \/ s.phase = "after" /\ ~s.uncertain /\ s.terminal = "success" /\ \E a, m : PiSettled(ks, a, m)
  \/ s.phase = "complete" /\ ~s.uncertain /\ s.terminal = "success" /\ SuccessfulPi(ks)
  \/ /\ Doomed(ks)
     /\ \/ s.phase = "failed"
        \/ s.phase \in {"turn", "after", "complete"} /\ s.uncertain
        \/ s.phase \in {"after", "complete"} /\ s.terminal = "failure"

(* A response in a turn that goes on.                                        *)
LEMMA ResponseKeeps ==
  ASSUME grammar = "pi", NEW s \in Streams, Driven(s), s.phase = "turn",
         NEW ks, NEW k, NEW f, Follows(ks, k, f), PiTurning(s, ks),
         k \in {"accept", "reject", "abort", "init", "session", "after"},
         NEW t, t = handleResponse(s, k)
  PROVE  /\ t \in Streams /\ SameFramer(s, t) /\ Driven(t) /\ t.phase = "turn"
         /\ \/ k # "reject" /\ PiTurning(t, f)
            \/ Doomed(f) /\ (t.uncertain \/ (k = "reject" /\ t.terminal = "failure"))
<1> DEFINE Goal == /\ t \in Streams /\ SameFramer(s, t) /\ Driven(t) /\ t.phase = "turn"
                   /\ \/ k # "reject" /\ PiTurning(t, f)
                      \/ Doomed(f) /\ (t.uncertain \/ (k = "reject" /\ t.terminal = "failure"))
<1>1. ASSUME t = markUncertain(s), Doomed(f)
      PROVE  Goal
  <2>1. t \in Streams /\ SameFramer(s, t) /\ Driven(t) /\ t.uncertain /\ t.phase = s.phase
    BY <1>1, MarkFields
  <2> QED
    BY <2>1, <1>1, Zenon
<1>2. /\ ~s.uncertain /\ s.terminal = "none" /\ Aborts(ks, s.aborted)
      /\ s.aborted \in BOOLEAN /\ s.accepted \in BOOLEAN
  BY DEF PiTurning, Streams
<1>3. s.accepted => \E a : PiAccepted(ks, a) /\ LastIs(ks, a, s.last)
  BY DEF PiTurning
<1>4. ~s.accepted => s.last = "none" /\ PiOpening(ks)
  BY DEF PiTurning
<1>5. ASSUME k \notin {"accept", "abort"}
      PROVE  Doomed(f)
  <2>1. CASE s.accepted
    <3>1. PICK a : PiAccepted(ks, a)
      BY <2>1, <1>3
    <3>2. k \notin {"update", "assistant", "failing", "abort", "settled"}
      BY <1>5
    <3> QED
      BY <3>1, <3>2, PiDoomedAccepted
  <2>2. CASE ~s.accepted
    BY <2>2, <1>4, <1>5, PiDoomedOpening
  <2> QED
    BY <2>1, <2>2
<1>6. CASE k = "accept" /\ s.accepted
  <2>1. t = markUncertain(s)
    BY <1>6, Zenon DEF handleResponse
  <2>2. PICK a : PiAccepted(ks, a)
    BY <1>6, <1>3
  <2>3. k \notin {"update", "assistant", "failing", "abort", "settled"}
    BY <1>6
  <2>4. Doomed(f)
    BY <2>2, <2>3, PiDoomedAccepted
  <2> QED
    BY <2>1, <2>4, <1>1
<1>7. CASE k = "accept" /\ ~s.accepted
  <2> DEFINE on == TRUE
  <2>1. t = [s EXCEPT !.accepted = on] /\ on \in BOOLEAN
    BY <1>7 DEF handleResponse
  <2>2. on = TRUE
    OBVIOUS
  <2> HIDE DEF on
  <2>3. /\ t \in Streams /\ SameFramer(s, t) /\ SameDriver(s, t) /\ t.accepted = on
        /\ t.phase = s.phase /\ t.last = s.last /\ t.terminal = s.terminal
        /\ t.uncertain = s.uncertain /\ t.aborted = s.aborted
    BY <2>1, AcceptedFields
  <2>4. Driven(t)
    BY <2>3, DrivenMoves
  <2>5. PiAccepted(f, Len(ks) + 1) /\ LastIs(f, Len(ks) + 1, "none")
    BY <1>4, <1>7, OpeningGoesOn
  <2>6. k # "abort"
    BY <1>7
  <2>7. Aborts(f, s.aborted)
    <3> DEFINE b == s.aborted
    <3>1. b \in BOOLEAN /\ Aborts(ks, b)
      BY <1>2
    <3> HIDE DEF b
    <3>2. Aborts(f, b)
      BY ZenonT(40), <3>1, <2>6, AbortsGoOn
    <3> QED
      BY <3>2 DEF b
  <2>8. PiTurning(t, f)
    <3>1. t.last = "none" /\ t.accepted
      BY <2>2, <2>3, <1>4, <1>7
    <3>2. \E a : PiAccepted(f, a) /\ LastIs(f, a, t.last)
      BY <2>5, <3>1, Zenon
    <3>3. ~t.uncertain /\ t.terminal = "none" /\ Aborts(f, t.aborted)
      BY <1>2, <2>3, <2>7
    <3> QED
      BY <3>1, <3>2, <3>3, Zenon DEF PiTurning
  <2> QED
    BY <2>3, <2>4, <2>8, <1>7
<1>8. CASE k = "reject" /\ s.accepted
  <2>1. t = markUncertain(s)
    BY <1>8, Zenon DEF handleResponse
  <2>2. Doomed(f)
    BY <1>5, <1>8
  <2> QED
    BY <2>1, <2>2, <1>1
<1>9. CASE k = "reject" /\ ~s.accepted
  <2> DEFINE e == "failure"
  <2>1. t = [s EXCEPT !.terminal = e] /\ e \in {"none", "success", "failure", "cancelled"}
    BY <1>9 DEF handleResponse
  <2>2. e = "failure"
    OBVIOUS
  <2> HIDE DEF e
  <2>3. t \in Streams /\ SameFramer(s, t) /\ SameDriver(s, t) /\ t.terminal = e /\ t.phase = s.phase
    BY <2>1, TerminalFields
  <2>4. Driven(t)
    BY <2>3, DrivenMoves
  <2>5. Doomed(f)
    BY <1>5, <1>9
  <2> QED
    BY <2>2, <2>3, <2>4, <2>5, <1>9
<1>10. CASE k = "abort" /\ s.aborted
  <2>1. t = markUncertain(s)
    BY <1>10, Zenon DEF handleResponse
  <2>2. Aborts(ks, TRUE)
    BY <1>2, <1>10 DEF Aborts
  <2>3. Doomed(f)
    <3>1. CASE s.accepted
      <4>1. PICK a : PiAccepted(ks, a)
        BY <3>1, <1>3
      <4> QED
        BY <4>1, <2>2, <1>10, PiDoomedAccepted
    <3>2. CASE ~s.accepted
      BY <3>2, <2>2, <1>4, <1>10, PiDoomedOpening
    <3> QED
      BY <3>1, <3>2
  <2> QED
    BY <2>1, <2>3, <1>1
<1>11. CASE k = "abort" /\ ~s.aborted
  <2> DEFINE on == TRUE
  <2>1. t = [s EXCEPT !.aborted = on] /\ on \in BOOLEAN
    BY <1>11 DEF handleResponse
  <2>2. on = TRUE
    OBVIOUS
  <2> HIDE DEF on
  <2>3. /\ t \in Streams /\ SameFramer(s, t) /\ SameDriver(s, t) /\ t.aborted = on
        /\ t.phase = s.phase /\ t.last = s.last /\ t.terminal = s.terminal
        /\ t.uncertain = s.uncertain /\ t.accepted = s.accepted
    BY <2>1, AbortedFields
  <2>4. Driven(t)
    BY <2>3, DrivenMoves
  <2>5. PiBegun(ks)
    BY <1>3, <1>4 DEF PiOpening, PiAccepted
  <2>6. Len(ks) >= 2
    BY <2>5 DEF PiBegun
  <2>7. Aborts(f, TRUE)
    <3> DEFINE b == s.aborted
    <3>1. b \in BOOLEAN /\ Aborts(ks, b) /\ ~b
      BY <1>2, <1>11
    <3> HIDE DEF b
    <3> QED
      BY <3>1, <2>6, <1>11, AbortsGoOn
  <2>8. PiTurning(t, f)
    <3>1. ~t.uncertain /\ t.terminal = "none" /\ Aborts(f, t.aborted)
      <4>1. t.aborted = TRUE
        BY <2>2, <2>3
      <4> QED
        BY <4>1, <2>3, <1>2, <2>7
    <3>2. CASE s.accepted
      <4> DEFINE d == s.last
      <4>1. PICK a : PiAccepted(ks, a) /\ LastIs(ks, a, d)
        BY <3>2, <1>3
      <4> HIDE DEF d
      <4>2. PiAccepted(f, a) /\ LastIs(f, a, d)
        BY <4>1, <1>11, AcceptedGoesOn
      <4>3. \E x : PiAccepted(f, x) /\ LastIs(f, x, t.last)
        BY <4>2, <2>3, Zenon DEF d
      <4> QED
        BY <4>3, <3>1, <3>2, <2>3, Zenon DEF PiTurning
    <3>3. CASE ~s.accepted
      <4>1. PiOpening(f) /\ t.last = "none"
        BY <3>3, <1>4, <1>11, <2>3, OpeningGoesOn
      <4> QED
        BY <4>1, <3>1, <3>3, <2>3, Zenon DEF PiTurning
    <3> QED
      BY <3>2, <3>3
  <2> QED
    BY <2>3, <2>4, <2>8, <1>11
<1>12. CASE k \in {"init", "session", "after"}
  <2>1. t = markUncertain(s)
    BY <1>12 DEF handleResponse
  <2>2. Doomed(f)
    BY <1>5, <1>12
  <2> QED
    BY <2>1, <2>2, <1>1
<1> QED
  BY <1>2, <1>6, <1>7, <1>8, <1>9, <1>10, <1>11, <1>12

(* Whether an abort was heard changes with an abort only.                    *)
LEMMA AbortsSame ==
  ASSUME NEW ks, NEW k, NEW f, Follows(ks, k, f), k # "abort"
  PROVE  \A on \in BOOLEAN : Aborts(ks, on) => Aborts(f, on)
<1> DEFINE n == Len(ks)
<1>1. /\ n \in Nat /\ Len(f) = n + 1 /\ f[n + 1] = k
      /\ \A i \in 3 .. n : f[i] = ks[i] /\ i \in 3 .. Len(f)
      /\ \A i \in 3 .. Len(f) : i # n + 1 => i \in 3 .. n
  BY Extended
<1>2. \A i \in 3 .. Len(f) : f[i] = "abort" => i \in 3 .. n /\ ks[i] = "abort"
  BY <1>1
<1> QED
  BY <1>1, <1>2 DEF Aborts

(* An event in a turn whose prompt was accepted.                             *)
LEMMA EventKeeps ==
  ASSUME grammar = "pi", NEW s \in Streams, Driven(s), s.phase = "turn", s.accepted,
         NEW ks, NEW k, NEW f, Follows(ks, k, f), PiTurning(s, ks),
         k \in {"update", "assistant", "failing", "settled"},
         NEW t, t = handleEvent(s, k)
  PROVE  /\ t \in Streams /\ SameFramer(s, t) /\ Driven(t) /\ t.phase = "turn"
         /\ \/ k # "settled" /\ PiTurning(t, f)
            \/ k = "settled" /\ Doomed(f) /\ (t.uncertain \/ t.terminal = "failure")
            \/ k = "settled" /\ ~t.uncertain /\ t.terminal = "success" /\ \E a, m : PiSettled(f, a, m)
<1> DEFINE b == s.aborted
           d == s.last
<1>2. /\ ~s.uncertain /\ s.terminal = "none" /\ Aborts(ks, b)
      /\ b \in BOOLEAN /\ d \in {"none", "success", "failure"}
  BY DEF PiTurning, Streams
<1>3. PICK a : PiAccepted(ks, a) /\ LastIs(ks, a, d)
  BY DEF PiTurning
<1>4. b = s.aborted /\ d = s.last
  OBVIOUS
<1> HIDE DEF b, d
<1>5. CASE k = "update"
  <2>1. t = s
    BY <1>5 DEF handleEvent, assistantMessage
  <2>2. PiAccepted(f, a) /\ LastIs(f, a, d)
    BY <1>3, <1>5, AcceptedGoesOn
  <2>3. Aborts(f, b)
    BY <1>2, <1>5, AbortsSame
  <2>4. PiTurning(t, f)
    BY <2>1, <2>2, <2>3, <1>2, <1>4 DEF PiTurning
  <2> QED
    BY <2>1, <2>4, <1>5 DEF SameFramer
<1>6. CASE k \in {"assistant", "failing"}
  <2> DEFINE e == assistantMessage[k]
  <2>1. t = [s EXCEPT !.last = e]
    BY <1>6 DEF handleEvent, assistantMessage
  <2>2. e \in {"none", "success", "failure"} /\ (k = "assistant" => e = "success") /\ (k = "failing" => e = "failure")
    BY <1>6 DEF assistantMessage
  <2> HIDE DEF e
  <2>3. /\ t \in Streams /\ SameFramer(s, t) /\ SameDriver(s, t) /\ t.last = e
        /\ t.phase = s.phase /\ t.accepted = s.accepted /\ t.terminal = s.terminal
        /\ t.uncertain = s.uncertain /\ t.aborted = s.aborted
    <3>1. e \in {"none", "success", "failure"} /\ s \in Streams
      BY <2>2
    <3> QED
      BY ONLY <2>1, <3>1, LastFields
  <2>4. Driven(t)
    BY <2>3, DrivenMoves
  <2>5. PiAccepted(f, a) /\ (k = "assistant" => LastIs(f, a, "success")) /\ (k = "failing" => LastIs(f, a, "failure"))
    BY <1>3, <1>6, AcceptedGoesOn
  <2>6. LastIs(f, a, e)
    BY <2>2, <2>5, <1>6
  <2>7. k # "abort"
    BY <1>6
  <2>8. Aborts(f, b)
    BY <1>2, <2>7, AbortsSame
  <2>9. PiTurning(t, f)
    BY <2>3, <2>5, <2>6, <2>8, <1>2, <1>4 DEF PiTurning
  <2> QED
    BY <2>3, <2>4, <2>9, <1>6
<1>7. CASE k = "settled" /\ d = "none"
  <2>1. t = markUncertain(s)
    BY <1>4, <1>7 DEF handleEvent, assistantMessage
  <2>2. t \in Streams /\ SameFramer(s, t) /\ Driven(t) /\ t.uncertain /\ t.phase = s.phase
    BY <2>1, MarkFields
  <2>3. Doomed(f)
    BY <1>3, <1>7, PiDoomedAccepted
  <2> QED
    BY <2>2, <2>3, <1>7
<1>8. CASE k = "settled" /\ d # "none"
  <2>1. t = [s EXCEPT !.terminal = d]
    BY <1>4, <1>8 DEF handleEvent, assistantMessage
  <2>2. /\ t \in Streams /\ SameFramer(s, t) /\ SameDriver(s, t) /\ t.terminal = d
        /\ t.phase = s.phase /\ t.uncertain = s.uncertain
    <3>1. d \in {"none", "success", "failure", "cancelled"}
      BY <1>2
    <3> QED
      BY <3>1, <2>1, TerminalFields
  <2>3. Driven(t)
    BY <2>2, DrivenMoves
  <2>4. CASE d = "success"
    <3>1. \E m : PiSettled(f, a, m)
      BY <1>2, <1>3, <1>8, <2>4, AcceptedSettles
    <3> QED
      BY <3>1, <2>2, <2>3, <2>4, <1>2, <1>8
  <2>5. CASE d = "failure"
    <3>1. Doomed(f)
      BY <1>3, <1>8, <2>5, PiDoomedAccepted
    <3> QED
      BY <3>1, <2>2, <2>3, <2>5, <1>8
  <2> QED
    BY <2>4, <2>5, <1>2, <1>8
<1> QED
  BY <1>5, <1>6, <1>7, <1>8

(* The turn of a Pi session hears one more record.                           *)
LEMMA PiTurnKeeps ==
  ASSUME grammar = "pi", NEW s \in Streams, Driven(s), s.phase = "turn",
         NEW ks, NEW k, NEW f, Follows(ks, k, f), HeardPi(s, ks), NEW t, t = piTurn(s, k)
  PROVE  /\ t \in Streams /\ SameFramer(s, t) /\ Driven(t) /\ t.phase = "turn"
         /\ \/ k \notin {"settled", "reject"} /\ PiTurning(t, f)
            \/ Doomed(f) /\ (t.uncertain \/ (k \in {"settled", "reject"} /\ t.terminal = "failure"))
            \/ k = "settled" /\ ~t.uncertain /\ t.terminal = "success" /\ \E a, m : PiSettled(f, a, m)
<1>0. PiTurning(s, ks) \/ (Doomed(ks) /\ s.uncertain)
  BY DEF HeardPi
<1>1. CASE s.uncertain
  <2>1. t = s /\ Doomed(ks)
    BY <1>0, <1>1 DEF piTurn, PiTurning
  <2>2. Doomed(f)
    BY <2>1, DoomedStays
  <2> QED
    BY <2>1, <2>2, <1>1 DEF SameFramer
<1>2. CASE ~s.uncertain /\ k \in {"accept", "reject", "abort", "init", "session", "after"}
  <2>1. t = handleResponse(s, k)
    BY <1>2, Zenon DEF piTurn
  <2>2. PiTurning(s, ks)
    BY <1>0, <1>2
  <2>3. /\ t \in Streams /\ SameFramer(s, t) /\ Driven(t) /\ t.phase = "turn"
        /\ \/ k # "reject" /\ PiTurning(t, f)
           \/ Doomed(f) /\ (t.uncertain \/ (k = "reject" /\ t.terminal = "failure"))
    BY <1>2, <2>1, <2>2, ResponseKeeps
  <2> QED
    BY <2>3, <1>2
<1>3. CASE /\ ~s.uncertain /\ k \notin {"accept", "reject", "abort", "init", "session", "after"}
           /\ k = "garbage" \/ ~s.accepted
  <2>1. t = markUncertain(s)
    BY <1>3, Zenon DEF piTurn
  <2>2. t \in Streams /\ SameFramer(s, t) /\ Driven(t) /\ t.uncertain /\ t.phase = s.phase
    BY <2>1, MarkFields
  <2>3. Doomed(f)
    <3>1. CASE s.accepted
      <4>1. PICK a : PiAccepted(ks, a)
        BY <3>1, <1>0, <1>3 DEF PiTurning
      <4>2. k \notin {"update", "assistant", "failing", "abort", "settled"}
        BY <3>1, <1>3
      <4> QED
        BY <4>1, <4>2, PiDoomedAccepted
    <3>2. CASE ~s.accepted
      <4>1. PiOpening(ks) /\ k \notin {"accept", "abort"}
        BY <3>2, <1>0, <1>3 DEF PiTurning
      <4> QED
        BY <4>1, PiDoomedOpening
    <3> QED
      BY <3>1, <3>2
  <2> QED
    BY <2>2, <2>3
<1>4. CASE /\ ~s.uncertain /\ k \notin {"accept", "reject", "abort", "init", "session", "after"}
           /\ k # "garbage" /\ s.accepted
  <2>1. t = handleEvent(s, k)
    BY <1>4, Zenon DEF piTurn
  <2>2. PiTurning(s, ks)
    BY <1>0, <1>4
  <2>3. k \in {"update", "assistant", "failing", "settled"}
    <3>1. k \in responseEnvelope
      BY DEF Follows, Kind
    <3> QED
      BY <3>1, <1>4 DEF responseEnvelope
  <2>4. s.accepted
    BY <1>4
  <2>5. /\ t \in Streams /\ SameFramer(s, t) /\ Driven(t) /\ t.phase = "turn"
        /\ \/ k # "settled" /\ PiTurning(t, f)
           \/ k = "settled" /\ Doomed(f) /\ (t.uncertain \/ t.terminal = "failure")
           \/ k = "settled" /\ ~t.uncertain /\ t.terminal = "success" /\ \E a, m : PiSettled(f, a, m)
    BY <2>1, <2>2, <2>3, <2>4, EventKeeps
  <2> QED
    BY <2>3, <2>5
<1> QED
  BY <1>1, <1>2, <1>3, <1>4

(* The turn's end, said and then written or closed.                          *)
LEMMA TurnEnds ==
  ASSUME NEW s \in Streams, Driven(s), s.phase \in {"turn", "after"}, NEW p \in {"after", "complete"},
         NEW u, u = [s EXCEPT !.phase = p]
  PROVE  /\ u \in Streams /\ SameFramer(s, u) /\ Driven(u) /\ u.phase = p /\ u.phase \notin {"init", "session"}
         /\ u.uncertain = s.uncertain /\ u.terminal = s.terminal
<1>1. p \in {"init", "session", "turn", "after", "complete", "failed"}
  OBVIOUS
<1>2. /\ u \in Streams /\ SameFramer(s, u) /\ SameDriver(s, u) /\ u.phase = p
      /\ u.uncertain = s.uncertain /\ u.terminal = s.terminal
  BY <1>1, PhaseFields
<1>3. Driven(u)
  BY <1>2, DrivenMoves
<1> QED
  BY <1>2, <1>3

(* A turn that ends ends the provider's input,                               *)
LEMMA TurnCloses ==
  ASSUME NEW s \in Streams, Driven(s), s.phase \in {"turn", "after"},
         NEW t, t = closeProtocol([s EXCEPT !.phase = "complete"])
  PROVE  /\ t \in Streams /\ SameFramer(s, t) /\ Driven(t) /\ t.phase = "complete"
         /\ t.uncertain = s.uncertain /\ t.terminal = s.terminal
<1> DEFINE p == "complete"
           u == [s EXCEPT !.phase = p]
<1>1. p \in {"after", "complete"} /\ t = closeProtocol(u)
  OBVIOUS
<1> HIDE DEF p
<1>2. /\ u \in Streams /\ SameFramer(s, u) /\ Driven(u) /\ u.phase = p /\ u.phase \notin {"init", "session"}
      /\ u.uncertain = s.uncertain /\ u.terminal = s.terminal
  BY <1>1, TurnEnds
<1> HIDE DEF u
<1>3. t \in Streams /\ SameFramer(u, t) /\ SameCodec(u, t)
  BY <1>1, <1>2, CloseFields
<1>4. Driven(t)
  BY <1>1, <1>2, DrivenCloses
<1> QED
  BY <1>2, <1>3, <1>4 DEF SameFramer, SameCodec, p

(* or asks for the statistics once more.                                     *)
LEMMA TurnWrites ==
  ASSUME NEW s \in Streams, Driven(s), s.phase = "turn",
         NEW t, t = writeProtocol([s EXCEPT !.phase = "after"], "after")
  PROVE  /\ t \in Streams /\ SameFramer(s, t) /\ Driven(t) /\ t.phase = "after"
         /\ t.uncertain = s.uncertain /\ t.terminal = s.terminal
<1> DEFINE p == "after"
           u == [s EXCEPT !.phase = p]
<1>1. p \in {"after", "complete"} /\ t = writeProtocol(u, p) /\ p \in Messages /\ p # "prompt" /\ p # "cancel"
  BY DEF Messages
<1> HIDE DEF p
<1>2. /\ u \in Streams /\ SameFramer(s, u) /\ Driven(u) /\ u.phase = p
      /\ u.uncertain = s.uncertain /\ u.terminal = s.terminal
  BY <1>1, TurnEnds
<1> HIDE DEF u
<1>3. t \in Streams /\ SameFramer(u, t) /\ SameCodec(u, t) /\ Driven(t)
  BY <1>1, <1>2, DrivenWrites
<1> QED
  BY <1>2, <1>3 DEF SameFramer, SameCodec, p

(* The Pi codec hears one more record.                                       *)
LEMMA PiKeeps ==
  ASSUME grammar = "pi", NEW s \in Streams, Driven(s),
         NEW ks, NEW k, NEW f, Follows(ks, k, f), HeardPi(s, ks), NEW t, t = PiRpcSessionCodec(s, k)
  PROVE  t \in Streams /\ SameFramer(s, t) /\ Driven(t) /\ HeardPi(t, f)
<1>1. CASE s.phase = "init"
  <2>0. Len(ks) = 0 /\ Fresh(s)
    BY <1>1 DEF HeardPi
  <2>1. CASE k = "init"
    <3>1. t = writeProtocol([s EXCEPT !.phase = "session"], "session")
      BY <1>1, <2>1 DEF PiRpcSessionCodec
    <3>2. t \in Streams /\ SameFramer(s, t) /\ Driven(t) /\ t.phase = "session" /\ Fresh(t)
      BY <3>1, <1>1, <2>0, InitFields
    <3>3. Len(f) = 1 /\ f[1] = "init"
      BY <2>0, <2>1 DEF Follows
    <3> QED
      BY <3>2, <3>3 DEF HeardPi
  <2>2. CASE k # "init"
    <3>1. t = fail(s)
      BY <1>1, <2>2 DEF PiRpcSessionCodec
    <3>2. Doomed(f)
      BY <2>0, <2>2, PiDoomedStart
    <3> QED
      BY <3>1, <3>2, FailFields DEF HeardPi
  <2> QED
    BY <2>1, <2>2
<1>2. CASE s.phase = "session"
  <2>0. Len(ks) = 1 /\ ks[1] = "init" /\ Fresh(s)
    BY <1>2 DEF HeardPi
  <2>1. CASE k = "session"
    <3>1. t = sendPrompt(s)
      BY <1>2, <2>1 DEF PiRpcSessionCodec
    <3>2. t \in Streams /\ SameFramer(s, t) /\ SameButPhase(s, t) /\ t.phase = "turn" /\ Driven(t)
      BY <3>1, <1>2, PromptKeeps
    <3>3. PiOpening(f) /\ Aborts(f, FALSE)
      BY <2>0, <2>1, PiBegins
    <3>4. PiTurning(t, f)
      <4>1. ~t.uncertain /\ t.terminal = "none" /\ ~t.accepted /\ t.last = "none" /\ ~t.aborted
        BY <3>2, <2>0 DEF SameButPhase, Fresh
      <4>2. Aborts(f, t.aborted)
        BY <3>3, <4>1 DEF Aborts
      <4> QED
        BY <3>3, <4>1, <4>2, Zenon DEF PiTurning
    <3> QED
      BY <3>2, <3>4 DEF HeardPi
  <2>2. CASE k # "session"
    <3>1. t = fail(s)
      BY <1>2, <2>2 DEF PiRpcSessionCodec
    <3>2. Doomed(f)
      BY <2>0, <2>2, PiDoomedStart
    <3> QED
      BY <3>1, <3>2, FailFields DEF HeardPi
  <2> QED
    BY <2>1, <2>2
<1>3. CASE s.phase = "turn"
  <2> DEFINE u == piTurn(s, k)
  <2>1. /\ k = "settled" => t = writeProtocol([u EXCEPT !.phase = "after"], "after")
        /\ k = "reject" => t = closeProtocol([u EXCEPT !.phase = "complete"])
        /\ k \notin {"settled", "reject"} => t = u
    <3>1. t = CASE k = "settled" -> writeProtocol([u EXCEPT !.phase = "after"], "after")
                [] k = "reject" -> closeProtocol([u EXCEPT !.phase = "complete"])
                [] OTHER -> u
      BY <1>3 DEF PiRpcSessionCodec
    <3> HIDE DEF u
    <3> QED
      BY <3>1
  <2>2. /\ u \in Streams /\ SameFramer(s, u) /\ Driven(u) /\ u.phase = "turn"
        /\ \/ k \notin {"settled", "reject"} /\ PiTurning(u, f)
           \/ Doomed(f) /\ (u.uncertain \/ (k \in {"settled", "reject"} /\ u.terminal = "failure"))
           \/ k = "settled" /\ ~u.uncertain /\ u.terminal = "success" /\ \E a, m : PiSettled(f, a, m)
    BY <1>3, PiTurnKeeps
  <2> HIDE DEF u
  <2>3. CASE k = "settled"
    <3>1. /\ t \in Streams /\ SameFramer(u, t) /\ Driven(t) /\ t.phase = "after"
          /\ t.uncertain = u.uncertain /\ t.terminal = u.terminal
      BY <2>1, <2>2, <2>3, TurnWrites
    <3>2. HeardPi(t, f)
      BY <3>1, <2>2, <2>3 DEF HeardPi
    <3> QED
      BY <3>1, <3>2, <2>2 DEF SameFramer
  <2>4. CASE k = "reject"
    <3>1. /\ t \in Streams /\ SameFramer(u, t) /\ Driven(t) /\ t.phase = "complete"
          /\ t.uncertain = u.uncertain /\ t.terminal = u.terminal
      BY <2>1, <2>2, <2>4, TurnCloses
    <3>2. HeardPi(t, f)
      BY <3>1, <2>2, <2>4 DEF HeardPi
    <3> QED
      BY <3>1, <3>2, <2>2 DEF SameFramer
  <2>5. CASE k \notin {"settled", "reject"}
    <3>1. t = u
      BY <2>1, <2>5
    <3> QED
      BY <3>1, <2>2, <2>5 DEF HeardPi
  <2> QED
    BY <2>3, <2>4, <2>5
<1>4. CASE s.phase = "after"
  <2>0. \/ ~s.uncertain /\ s.terminal = "success" /\ \E a, m : PiSettled(ks, a, m)
        \/ Doomed(ks) /\ (s.uncertain \/ s.terminal = "failure")
    BY <1>4 DEF HeardPi
  <2>1. CASE k = "after"
    <3>1. t = closeProtocol([s EXCEPT !.phase = "complete"])
      BY <1>4, <2>1 DEF PiRpcSessionCodec, derivePiTurnUsage
    <3>2. /\ t \in Streams /\ SameFramer(s, t) /\ Driven(t) /\ t.phase = "complete"
          /\ t.uncertain = s.uncertain /\ t.terminal = s.terminal
      BY <3>1, <1>4, TurnCloses
    <3>3. CASE ~s.uncertain /\ s.terminal = "success" /\ \E a, m : PiSettled(ks, a, m)
      <4>1. SuccessfulPi(f)
        BY <3>3, <2>1, SettledCompletes
      <4> QED
        BY <4>1, <3>2, <3>3 DEF HeardPi
    <3>4. CASE Doomed(ks) /\ (s.uncertain \/ s.terminal = "failure")
      <4>1. Doomed(f)
        BY <3>4, DoomedStays
      <4> QED
        BY <4>1, <3>2, <3>4 DEF HeardPi
    <3> QED
      BY <2>0, <3>3, <3>4
  <2>2. CASE k # "after"
    <3>1. t = fail(s)
      BY <1>4, <2>2 DEF PiRpcSessionCodec, derivePiTurnUsage
    <3>2. Doomed(f)
      BY <2>0, <2>2, DoomedStays, PiDoomedSettled
    <3> QED
      BY <3>1, <3>2, FailFields DEF HeardPi
  <2> QED
    BY <2>1, <2>2
<1>5. CASE s.phase \in {"complete", "failed"}
  <2>1. t = s
    BY <1>5 DEF PiRpcSessionCodec
  <2>2. SuccessfulPi(ks) => SuccessfulPi(f)
    BY CompleteStays
  <2>3. Doomed(ks) => Doomed(f)
    BY DoomedStays
  <2>4. HeardPi(t, f)
    BY <2>1, <2>2, <2>3, <1>5 DEF HeardPi
  <2> QED
    BY <2>1, <2>4 DEF SameFramer
<1> QED
  BY <1>1, <1>2, <1>3, <1>4, <1>5 DEF Streams

(* What either codec's state says of the records it heard.                   *)
Heard(s, ks) == IF grammar = "acp" THEN HeardAcp(s, ks) ELSE HeardPi(s, ks)

(* A record appended follows the ones before it.                             *)
LEMMA AppendFollows ==
  ASSUME NEW ks \in Seq(Kind), NEW k \in Kind
  PROVE  Follows(ks, k, Append(ks, k))
<1>1. Append(ks, k) \in Seq(Kind) /\ Len(ks) \in Nat
  OBVIOUS
<1>2. /\ Len(Append(ks, k)) = Len(ks) + 1 /\ Append(ks, k)[Len(ks) + 1] = k
      /\ \A i \in 1 .. Len(ks) : Append(ks, k)[i] = ks[i]
  OBVIOUS
<1> QED
  BY <1>1, <1>2 DEF Follows

(* What a record says is one of the kinds.                                   *)
LEMMA Decoded ==
  ASSUME NEW held \in Seq(Kind)
  PROVE  decodeJsonFrame(held) \in Kind
<1>1. Len(held) = 1 => held[1] \in Kind
  OBVIOUS
<1>2. "garbage" \in Kind
  BY DEF Kind, acpResponseEnvelope, responseEnvelope
<1> QED
  BY <1>1, <1>2, Zenon DEF decodeJsonFrame

(* A stream that passed a limit keeps nothing, and changes nothing else.     *)
LEMMA FatalFields ==
  ASSUME NEW s \in Streams, Driven(s), NEW t, t = Fatal(s)
  PROVE  /\ t \in Streams /\ t.fatal /\ t.held = <<>> /\ t.total = s.total /\ Driven(t)
<1> DEFINE on == TRUE
           h == <<>>
<1>1. t = [s EXCEPT !.fatal = on, !.held = h] /\ on \in BOOLEAN /\ h \in Seq(Kind)
  BY DEF Fatal
<1>2. on = TRUE /\ h = <<>>
  OBVIOUS
<1> HIDE DEF on, h
<1>3. /\ t \in Streams /\ t.fatal = on /\ t.held = h /\ t.total = s.total
      /\ SameDriver(s, t) /\ t.phase = s.phase
  BY <1>1 DEF Streams, SameDriver
<1>4. Driven(t)
  BY <1>3, DrivenMoves
<1> QED
  BY <1>2, <1>3, <1>4

(* A record's end.                                                           *)
LEMMA FrameFields ==
  ASSUME NEW s \in Streams, Driven(s), NEW t, t = [s EXCEPT !.frames = @ + 1, !.held = <<>>]
  PROVE  /\ t \in Streams /\ t.fatal = s.fatal /\ t.held = <<>> /\ t.total = s.total
         /\ t.frames = s.frames + 1 /\ SameCodec(s, t) /\ Driven(t)
<1> DEFINE n == s.frames + 1
           h == <<>>
<1>1. t = [s EXCEPT !.frames = n, !.held = h] /\ n \in Nat /\ h \in Seq(Kind)
  BY DEF Streams
<1>2. h = <<>>
  OBVIOUS
<1> HIDE DEF n, h
<1>3. /\ t \in Streams /\ t.frames = n /\ t.held = h /\ t.total = s.total /\ t.fatal = s.fatal
      /\ SameDriver(s, t) /\ SameCodec(s, t)
  BY <1>1 DEF Streams, SameDriver, SameCodec
<1>4. Driven(t)
  BY <1>3, DrivenMoves DEF SameCodec
<1> QED
  BY <1>2, <1>3, <1>4 DEF n

(* What was heard does not depend on framer and driver.                      *)
LEMMA HeardSame ==
  ASSUME NEW s, NEW t, SameCodec(s, t), NEW ks, Heard(s, ks)
  PROVE  Heard(t, ks)
<1>1. CASE grammar = "acp"
  BY <1>1, HeardAcpSame DEF Heard
<1>2. CASE grammar # "acp"
  <2>1. HeardPi(s, ks)
    BY <1>2 DEF Heard
  <2>2. HeardPi(t, ks)
    BY <2>1 DEF HeardPi, PiTurning, SameCodec, Fresh
  <2> QED
    BY <2>2, <1>2 DEF Heard
<1> QED
  BY <1>1, <1>2

(* A record that is cut off passes the limit of records or is heard.         *)
LEMMA EmitKeeps ==
  ASSUME grammar \in {"acp", "pi"}, NEW s \in Streams, Driven(s), ~s.fatal,
         NEW ks \in Seq(Kind), Heard(s, ks), NEW t, t = emit(s)
  PROVE  \/ s.frames >= MaxFrames /\ t = Fatal(s)
         \/ /\ s.frames < MaxFrames /\ t \in Streams /\ ~t.fatal /\ t.held = <<>> /\ t.total = s.total
            /\ t.frames = s.frames + 1 /\ Driven(t)
            /\ Heard(t, Append(ks, decodeJsonFrame(s.held)))
<1>0. s.frames \in Nat /\ MaxFrames \in Nat /\ s.held \in Seq(Kind)
  BY AdapterBounds DEF Streams
<1>1. CASE s.frames >= MaxFrames
  BY <1>1 DEF emit
<1>2. CASE ~(s.frames >= MaxFrames)
  <2> DEFINE k == decodeJsonFrame(s.held)
             u == [s EXCEPT !.frames = @ + 1, !.held = <<>>]
             f == Append(ks, k)
  <2>1. t = IF grammar = "acp" THEN AcpV1SessionCodec(u, k) ELSE PiRpcSessionCodec(u, k)
    BY <1>2, Zenon DEF emit
  <2>2. k \in Kind
    BY <1>0, Decoded
  <2>3. /\ u \in Streams /\ u.fatal = s.fatal /\ u.held = <<>> /\ u.total = s.total
        /\ u.frames = s.frames + 1 /\ SameCodec(s, u) /\ Driven(u)
    BY FrameFields
  <2> HIDE DEF u, k
  <2>4. Follows(ks, k, f)
    BY <2>2, AppendFollows
  <2>5. Heard(u, ks)
    BY <2>3, HeardSame
  <2> HIDE DEF f
  <2>6. t \in Streams /\ SameFramer(u, t) /\ Driven(t) /\ Heard(t, f)
    <3>1. CASE grammar = "acp"
      <4>1. t = AcpV1SessionCodec(u, k) /\ HeardAcp(u, ks)
        BY <2>1, <2>5, <3>1 DEF Heard
      <4>2. t \in Streams /\ SameFramer(u, t) /\ Driven(t) /\ HeardAcp(t, f)
        BY <4>1, <3>1, <2>3, <2>4, AcpKeeps
      <4> QED
        BY <4>2, <3>1 DEF Heard
    <3>2. CASE grammar = "pi"
      <4>1. t = PiRpcSessionCodec(u, k) /\ HeardPi(u, ks)
        BY <2>1, <2>5, <3>2 DEF Heard
      <4>2. t \in Streams /\ SameFramer(u, t) /\ Driven(t) /\ HeardPi(t, f)
        BY <4>1, <3>2, <2>3, <2>4, PiKeeps
      <4> QED
        BY <4>2, <3>2 DEF Heard
    <3> QED
      BY <3>1, <3>2
  <2>7. ~t.fatal /\ t.held = <<>> /\ t.total = s.total /\ t.frames = s.frames + 1
    BY <2>3, <2>6 DEF SameFramer
  <2>8. s.frames < MaxFrames
    BY <1>0, <1>2
  <2> QED
    BY <2>6, <2>7, <2>8 DEF f, k
<1> QED
  BY <1>1, <1>2

(* A turn's verdict is a success for what is heard as a whole conversation.  *)
LEMMA VerdictSays ==
  ASSUME grammar \in {"acp", "pi"}, NEW s \in Streams, ~s.fatal, NEW ks \in Seq(Kind), Heard(s, ks)
  PROVE  finishCodec(s) = "success" <=> Successful(ks)
<1>0. finishCodec(s) = "success" <=> s.phase \in {"turn", "complete"} /\ ~s.uncertain /\ s.terminal = "success"
  BY DEF finishCodec, Streams
<1>1. Len(ks) \in Nat
  OBVIOUS
<1>2. Doomed(ks) => ~Successful(ks)
  BY DoomedFails
<1>3. CASE grammar = "acp"
  <2>1. HeardAcp(s, ks) /\ (Successful(ks) <=> SuccessfulAcp(ks))
    BY <1>3 DEF Heard, Successful
  <2>2. AcpGoing(ks) => ~SuccessfulAcp(ks)
    <3>1. SUFFICES ASSUME AcpGoing(ks), SuccessfulAcp(ks)
                   PROVE  FALSE
      OBVIOUS
    <3>2. Len(ks) \in 3 .. Len(ks) /\ ks[Len(ks)] = "end"
      BY <3>1, <1>1 DEF SuccessfulAcp
    <3> QED
      BY <3>1, <3>2 DEF AcpGoing
  <2>3. SuccessfulAcp(ks) => Len(ks) >= 3
    BY DEF SuccessfulAcp
  <2> DEFINE Good == s.phase \in {"turn", "complete"} /\ ~s.uncertain /\ s.terminal = "success"
  <2>4. Good <=> SuccessfulAcp(ks)
    <3>1. CASE s.phase = "init" /\ Len(ks) = 0
      BY <3>1, <2>3
    <3>2. CASE s.phase = "session" /\ Len(ks) = 1
      BY <3>2, <2>3
    <3>3. CASE s.phase = "turn" /\ s.terminal = "none" /\ AcpGoing(ks)
      BY <3>3, <2>2
    <3>4. CASE s.phase = "turn" /\ ~s.uncertain /\ s.terminal = "success" /\ SuccessfulAcp(ks)
      BY <3>4
    <3>5. CASE /\ Doomed(ks)
               /\ s.phase = "failed" \/ (s.phase = "turn" /\ (s.uncertain \/ s.terminal \in {"failure", "cancelled"}))
      BY <3>5, <1>2, <2>1
    <3> QED
      BY <3>1, <3>2, <3>3, <3>4, <3>5, <2>1 DEF HeardAcp
  <2> QED
    BY <1>0, <2>1, <2>4
<1>4. CASE grammar = "pi"
  <2>1. HeardPi(s, ks) /\ (Successful(ks) <=> SuccessfulPi(ks))
    BY <1>4 DEF Heard, Successful
  <2>2. PiTurning(s, ks) => ~SuccessfulPi(ks) /\ s.terminal = "none"
    BY <1>1, PiNotYet DEF PiTurning
  <2>3. (\E a, m : PiSettled(ks, a, m)) => ~SuccessfulPi(ks)
    BY <1>1, PiNotYet
  <2>4. SuccessfulPi(ks) => Len(ks) >= 3
    <3>1. SuccessfulPi(ks) => \E a \in 3 .. Len(ks) : TRUE
      BY DEF SuccessfulPi
    <3> QED
      BY <3>1, <1>1
  <2> DEFINE Good == s.phase \in {"turn", "complete"} /\ ~s.uncertain /\ s.terminal = "success"
  <2>5. Good <=> SuccessfulPi(ks)
    <3>1. CASE s.phase = "init" /\ Len(ks) = 0
      BY <3>1, <2>4
    <3>2. CASE s.phase = "session" /\ Len(ks) = 1
      BY <3>2, <2>4
    <3>3. CASE s.phase = "turn" /\ PiTurning(s, ks)
      BY <3>3, <2>2
    <3>4. CASE s.phase = "after" /\ \E a, m : PiSettled(ks, a, m)
      BY <3>4, <2>3
    <3>5. CASE s.phase = "complete" /\ ~s.uncertain /\ s.terminal = "success" /\ SuccessfulPi(ks)
      BY <3>5
    <3>6. CASE /\ Doomed(ks)
               /\ s.phase = "failed" \/ s.uncertain \/ s.terminal = "failure"
      BY <3>6, <1>2, <2>1
    <3> QED
      BY <3>1, <3>2, <3>3, <3>4, <3>5, <3>6, <2>1 DEF HeardPi
  <2> QED
    BY <1>0, <2>1, <2>5
<1> QED
  BY <1>3, <1>4

(* The records of a transcript as a list of ends: each newline is one, and   *)
(* the last reaches the end.                                                 *)
Listed(C, m, h) ==
  /\ h[0] = 0 /\ h[m] >= Len(C) /\ \A k \in 0 .. m : h[k] \in 0 .. Len(C) + 1
  /\ \A i, j \in 0 .. m : i < j => h[i] < h[j]
  /\ \A k \in 1 .. m : h[k] <= Len(C) => h[k] \in 1 .. Len(C) /\ C[h[k]] = "nl"
  /\ \A i \in 1 .. Len(C) : C[i] = "nl" => \E k \in 1 .. m : h[k] = i
RecordsAre(C, m, h) == Records(C) = [k \in 1 .. m |-> SubSeq(C, h[k - 1] + 1, h[k] - 1)]

(* The records of a transcript are those between its cuts, and the rest      *)
(* behind the last cut if there is one.                                      *)
LEMMA RecordsList ==
  ASSUME NEW C, Len(C) \in Nat, C # <<>> => Len(C) # 0, NEW n \in Nat, NEW g, Cuts(C, Len(C), n, g)
  PROVE  \/ g[n] = Len(C) /\ Listed(C, n, g) /\ RecordsAre(C, n, g)
         \/ /\ g[n] < Len(C)
            /\ \E h : /\ Listed(C, n + 1, h) /\ RecordsAre(C, n + 1, h) /\ h[n + 1] = Len(C) + 1
                      /\ \A i \in 0 .. n : h[i] = g[i]
<1> DEFINE q == Len(C)
<1>0. /\ q \in Nat /\ g \in [0 .. n -> 0 .. q] /\ g[0] = 0
      /\ \A i, j \in 0 .. n : i < j => g[i] < g[j]
      /\ \A k \in 1 .. n : g[k] \in 1 .. q /\ C[g[k]] = "nl"
      /\ \A i \in 1 .. q : C[i] = "nl" => \E k \in 1 .. n : g[k] = i
  BY DEF Cuts
<1>1. \A k \in 0 .. n : g[k] \in Nat /\ g[k] <= q /\ g[k] \in 0 .. q + 1
  BY <1>0
<1>2. CASE g[n] = q
  <2>1. Listed(C, n, g)
    BY <1>0, <1>1, <1>2 DEF Listed
  <2>2. RecordsAre(C, n, g)
    BY <1>2, RecordsWhole DEF RecordsAre
  <2> QED
    BY <1>2, <2>1, <2>2
<1>3. CASE g[n] # q
  <2>0. n \in 0 .. n
    OBVIOUS
  <2>1. g[n] < q /\ C # <<>>
    <3>1. g[n] < q
      BY <1>0, <1>1, <1>3, <2>0
    <3>2. C = <<>> => q = 0
      <4>1. Len(<<>>) = 0
        OBVIOUS
      <4> QED
        BY <4>1, Zenon
    <3>3. q # 0
      <4>1. g[n] \in Nat
        BY <1>1, <2>0
      <4> QED
        BY <3>1, <4>1, <1>0
    <3> QED
      BY <3>1, <3>2, <3>3, Zenon
  <2>2. PICK h : /\ Records(C) = [k \in 1 .. n + 1 |-> SubSeq(C, h[k - 1] + 1, h[k] - 1)]
                 /\ h[n + 1] = Len(C) + 1
                 /\ \A i \in 0 .. n : h[i] = g[i]
    <3>1. g[n] # Len(C) /\ C # <<>> /\ Len(C) \in Nat /\ n \in Nat /\ Cuts(C, Len(C), n, g)
      BY <1>3, <2>1
    <3> QED
      BY ONLY <3>1, RecordsOpen
  <2>3. \A i \in 0 .. n + 1 : i # n + 1 => i \in 0 .. n
    OBVIOUS
  <2>4. \A k \in 0 .. n + 1 : h[k] \in 0 .. q + 1
    <3> SUFFICES ASSUME NEW k \in 0 .. n + 1
                 PROVE  h[k] \in 0 .. q + 1
      OBVIOUS
    <3>1. CASE k = n + 1
      BY <3>1, <2>2
    <3>2. CASE k # n + 1
      <4>1. k \in 0 .. n
        BY <3>2
      <4>2. h[k] = g[k] /\ g[k] \in 0 .. q + 1
        BY <4>1, <1>1, <2>2
      <4> QED
        BY <4>2
    <3> QED
      BY <3>1, <3>2
  <2>5. \A i, j \in 0 .. n + 1 : i < j => h[i] < h[j]
    <3> SUFFICES ASSUME NEW i \in 0 .. n + 1, NEW j \in 0 .. n + 1, i < j
                 PROVE  h[i] < h[j]
      OBVIOUS
    <3>1. i \in 0 .. n /\ h[i] = g[i] /\ g[i] \in Nat /\ g[i] <= q
      BY <1>1, <2>2
    <3>2. CASE j = n + 1
      BY <3>1, <3>2, <2>2, <1>0
    <3>3. CASE j # n + 1
      BY <3>1, <3>3, <2>2, <2>3, <1>0
    <3> QED
      BY <3>2, <3>3
  <2>6. \A k \in 1 .. n + 1 : h[k] <= q => h[k] \in 1 .. q /\ C[h[k]] = "nl"
    <3> SUFFICES ASSUME NEW k \in 1 .. n + 1, h[k] <= q
                 PROVE  h[k] \in 1 .. q /\ C[h[k]] = "nl"
      OBVIOUS
    <3>1. k # n + 1
      BY <2>2, <1>0
    <3>2. k \in 1 .. n /\ k \in 0 .. n
      BY <3>1
    <3> QED
      BY <3>2, <2>2, <1>0
  <2>7. \A i \in 1 .. q : C[i] = "nl" => \E k \in 1 .. n + 1 : h[k] = i
    <3> SUFFICES ASSUME NEW i \in 1 .. q, C[i] = "nl"
                 PROVE  \E k \in 1 .. n + 1 : h[k] = i
      OBVIOUS
    <3>1. PICK k \in 1 .. n : g[k] = i
      BY <1>0
    <3>2. k \in 1 .. n + 1 /\ k \in 0 .. n
      OBVIOUS
    <3> QED
      BY <3>1, <3>2, <2>2
  <2>8. h[0] = 0 /\ h[n + 1] >= q
    <3>1. 0 \in 0 .. n
      OBVIOUS
    <3> QED
      BY <3>1, <1>0, <2>2
  <2>9. Listed(C, n + 1, h)
    BY <2>4, <2>5, <2>6, <2>7, <2>8 DEF Listed
  <2>10. RecordsAre(C, n + 1, h)
    BY <2>2, Zenon DEF RecordsAre
  <2> QED
    BY <2>1, <2>2, <2>9, <2>10
<1> QED
  BY <1>2, <1>3

(* Every transcript has its list.                                            *)
Symbols == Kind \cup {"nl"}

(* Every transcript has such a list.                                         *)
LEMMA RecordsListed ==
  ASSUME NEW C \in Seq(Symbols)
  PROVE  \E m \in Nat : \E h : Listed(C, m, h) /\ RecordsAre(C, m, h)
<1>0. Len(C) \in Nat /\ (C # <<>> => Len(C) # 0)
  OBVIOUS
<1>1. PICK g : \E n \in Nat : Cuts(C, Len(C), n, g)
  BY <1>0, CutsExist
<1>2. PICK n \in Nat : Cuts(C, Len(C), n, g)
  BY <1>1
<1>3. n + 1 \in Nat
  OBVIOUS
<1> QED
  BY <1>0, <1>2, <1>3, RecordsList

(* Within the limits, by the list.                                           *)
LEMMA WithinListed ==
  ASSUME NEW C \in Seq(Symbols), NEW m \in Nat, NEW h, Listed(C, m, h), RecordsAre(C, m, h)
  PROVE  /\ Len(Records(C)) = m
         /\ \A k \in 1 .. m : Records(C)[k] = SubSeq(C, h[k - 1] + 1, h[k] - 1)
         /\ Within(C) <=> /\ Len(C) <= MaxTotalBytes /\ m <= MaxFrames
                          /\ \A k \in 1 .. m : h[k] - h[k - 1] - 1 <= MaxFrameBytes
<1> DEFINE R == Records(C)
<1>1. R = [k \in 1 .. m |-> SubSeq(C, h[k - 1] + 1, h[k] - 1)]
  BY DEF RecordsAre
<1> HIDE DEF R
<1>2. \A k \in 1 .. m : R[k] = SubSeq(C, h[k - 1] + 1, h[k] - 1)
  BY <1>1, Zenon
<1>3. Len(R) = m
  <2>1. DOMAIN R = 1 .. m
    BY <1>1, Zenon
  <2> DEFINE T == {R[k] : k \in 1 .. m}
  <2>2. R = [k \in 1 .. m |-> R[k]]
    BY <1>1, <1>2, Zenon
  <2>3. R \in [1 .. m -> T]
    BY <2>2, Zenon
  <2> HIDE DEF T
  <2>4. R \in Seq(T)
    BY <2>3
  <2> QED
    BY <2>1, <2>4
<1>4. ASSUME NEW k \in 1 .. m
      PROVE  Len(R[k]) = h[k] - h[k - 1] - 1
  <2>1. k \in 0 .. m /\ k - 1 \in 0 .. m /\ k - 1 < k
    OBVIOUS
  <2>2. h[k] \in Nat /\ h[k - 1] \in Nat /\ h[k - 1] < h[k] /\ h[k] <= Len(C) + 1 /\ Len(C) \in Nat
    BY <2>1 DEF Listed
  <2> DEFINE a == h[k - 1] + 1
             b == h[k] - 1
  <2>3. a \in 1 .. b + 1 /\ a \in Nat /\ b \in Nat /\ b <= Len(C)
    BY SMTT(40), <2>2
  <2>4. b - a + 1 = h[k] - h[k - 1] - 1
    BY <2>2
  <2>5. R[k] = SubSeq(C, a, b)
    BY <1>2
  <2> HIDE DEF a, b
  <2>6. Len(SubSeq(C, a, b)) = b - a + 1
    BY <2>3
  <2> QED
    BY <2>4, <2>5, <2>6
<1>5. Within(C) <=> /\ Len(C) <= MaxTotalBytes /\ Len(R) <= MaxFrames
                    /\ \A k \in 1 .. Len(R) : Len(R[k]) <= MaxFrameBytes
  BY Zenon DEF Within, R
<1>6. Within(C) <=> /\ Len(C) <= MaxTotalBytes /\ m <= MaxFrames
                    /\ \A k \in 1 .. m : h[k] - h[k - 1] - 1 <= MaxFrameBytes
  BY <1>3, <1>4, <1>5
<1> QED
  BY <1>2, <1>3, <1>6 DEF R

(* A limit is passed within the first q symbols: whatever comes behind them, *)
(* the transcript is not within the limits.                                  *)
Agree(B, C, q) == q <= Len(C) /\ \A i \in 1 .. q : C[i] = B[i]
Overrun(B, q) == \A C \in Seq(Symbols) : Agree(B, C, q) => ~Within(C)

(* A limit passed stays passed,                                              *)
LEMMA OverrunStays ==
  ASSUME NEW B, NEW q \in Nat, Overrun(B, q)
  PROVE  Overrun(B, q + 1)
<1>1. ASSUME NEW C \in Seq(Symbols), Agree(B, C, q + 1)
      PROVE  Agree(B, C, q)
  <2>1. Len(C) \in Nat /\ \A i \in 1 .. q : i \in 1 .. q + 1
    OBVIOUS
  <2> QED
    BY <1>1, <2>1 DEF Agree
<1> QED
  BY <1>1 DEF Overrun

(* by whatever transcript begins that way.                                   *)
LEMMA OverrunSame ==
  ASSUME NEW B, NEW D, NEW q \in Nat, Overrun(B, q), \A i \in 1 .. q : D[i] = B[i]
  PROVE  Overrun(D, q)
  BY DEF Overrun, Agree

(* The limits: of the whole stream,                                          *)
LEMMA OverTotal ==
  ASSUME NEW B, NEW q \in Nat, q > MaxTotalBytes
  PROVE  Overrun(B, q)
<1> SUFFICES ASSUME NEW C \in Seq(Symbols), Agree(B, C, q), Within(C)
             PROVE  FALSE
  BY DEF Overrun
<1>1. Len(C) \in Nat /\ MaxTotalBytes \in Nat /\ q <= Len(C) /\ Len(C) <= MaxTotalBytes
  BY AdapterBounds DEF Within, Agree
<1> QED
  BY <1>1

(* The ends within the first q symbols are ends of every transcript that     *)
(* begins with them.                                                         *)
LEMMA EndsListed ==
  ASSUME NEW B, NEW q \in Nat, NEW n \in Nat, NEW g, Cuts(B, q, n, g),
         NEW C \in Seq(Symbols), Agree(B, C, q), NEW m \in Nat, NEW h, Listed(C, m, h)
  PROVE  \A i \in Ends(B, q) : \E j \in 1 .. m : i = h[j]
<1>0. Len(C) \in Nat /\ q <= Len(C)
  BY DEF Agree
<1>1. ASSUME NEW i \in Ends(B, q)
      PROVE  \E j \in 1 .. m : i = h[j]
  <2>1. i \in 1 .. q /\ i \in 1 .. Len(C) /\ B[i] = "nl"
    BY <1>0 DEF Ends
  <2>2. C[i] = "nl"
    BY <2>1 DEF Agree
  <2> QED
    BY <2>1, <2>2 DEF Listed
<1> QED
  BY <1>1

(* of its records,                                                           *)
LEMMA OverFrames ==
  ASSUME NEW B, NEW q \in Nat, NEW n \in Nat, NEW g, Cuts(B, q, n, g), n > MaxFrames
  PROVE  Overrun(B, q)
<1> SUFFICES ASSUME NEW C \in Seq(Symbols), Agree(B, C, q), Within(C)
             PROVE  FALSE
  BY DEF Overrun
<1>1. PICK m \in Nat : \E h : Listed(C, m, h) /\ RecordsAre(C, m, h)
  BY RecordsListed
<1>2. PICK h : Listed(C, m, h) /\ RecordsAre(C, m, h)
  BY <1>1
<1>3. m <= MaxFrames
  BY <1>2, WithinListed
<1> DEFINE S == Ends(B, q)
           T == {h[j] : j \in 1 .. m}
<1>4. S \subseteq T
  <2>1. \A i \in S : \E j \in 1 .. m : i = h[j]
    BY <1>2, EndsListed
  <2> QED
    BY <2>1
<1>5. Cardinality(S) = n
  BY CutsCount
<1>6. \A j \in 0 .. m : h[j] \in 0 .. Len(C) + 1
  BY <1>2 DEF Listed
<1>7. Cardinality(T) = m
  <2>1. \A i \in 1 .. m : h[i] \in T
    OBVIOUS
  <2>2. \A l \in T : \E i \in 1 .. m : l = h[i]
    OBVIOUS
  <2>3. \A i, j \in 1 .. m : i # j => h[i] # h[j]
    <3> SUFFICES ASSUME NEW i \in 1 .. m, NEW j \in 1 .. m, i < j
                 PROVE  h[i] # h[j]
      OBVIOUS
    <3>1. i \in 0 .. m /\ j \in 0 .. m
      OBVIOUS
    <3>2. h[i] < h[j] /\ h[i] \in 0 .. Len(C) + 1 /\ h[j] \in 0 .. Len(C) + 1
      BY <3>1, <1>2, <1>6 DEF Listed
    <3>3. Len(C) \in Nat
      OBVIOUS
    <3> QED
      BY <3>2, <3>3
  <2> HIDE DEF S, T
  <2>4. \A i \in 1 .. m : \A j \in 1 .. m : i # j => h[i] # h[j]
    BY <2>3, Zenon
  <2>5. m \in Nat
    OBVIOUS
  <2> QED
    BY ONLY <2>5, <2>1, <2>2, <2>4, Enumerated
<1>8. IsFiniteSet(T)
  <2>1. IsFiniteSet(0 .. Len(C) + 1)
    <3>1. 0 \in Int /\ Len(C) + 1 \in Int
      OBVIOUS
    <3> QED
      BY <3>1, FS_Interval
  <2>2. T \subseteq 0 .. Len(C) + 1
    <3>1. \A j \in 1 .. m : j \in 0 .. m
      OBVIOUS
    <3> QED
      BY <3>1, <1>6
  <2> QED
    BY <2>1, <2>2, FS_Subset
<1> HIDE DEF S, T
<1>9. Cardinality(S) <= Cardinality(T)
  BY <1>4, <1>8, FS_Subset
<1>10. MaxFrames \in Nat
  BY AdapterBounds
<1> QED
  BY <1>3, <1>5, <1>7, <1>9, <1>10

(* and of one record.                                                        *)
LEMMA OverFrame ==
  ASSUME NEW B, NEW q \in Nat, NEW n \in Nat, NEW g, Cuts(B, q, n, g), q - g[n] > MaxFrameBytes
  PROVE  Overrun(B, q)
<1> SUFFICES ASSUME NEW C \in Seq(Symbols), Agree(B, C, q), Within(C)
             PROVE  FALSE
  BY DEF Overrun
<1>1. PICK m \in Nat : \E h : Listed(C, m, h) /\ RecordsAre(C, m, h)
  BY RecordsListed
<1>2. PICK h : Listed(C, m, h) /\ RecordsAre(C, m, h)
  BY <1>1
<1>3. \A k \in 1 .. m : h[k] - h[k - 1] - 1 <= MaxFrameBytes
  BY <1>2, WithinListed
<1>4. PICK j \in 0 .. m : h[j] = g[n]
  <2>1. CASE n = 0
    <3>1. g[n] = 0 /\ h[0] = 0 /\ 0 \in 0 .. m
      BY <2>1, <1>2 DEF Cuts, Listed
    <3> QED
      BY <3>1
  <2>2. CASE n # 0
    <3>1. n \in 1 .. n
      BY <2>2
    <3>2. g[n] \in Ends(B, q)
      BY <3>1 DEF Cuts, Ends
    <3>3. \A i \in Ends(B, q) : \E k \in 1 .. m : i = h[k]
      BY <1>2, EndsListed
    <3>4. PICK k \in 1 .. m : g[n] = h[k]
      BY <3>2, <3>3
    <3> QED
      BY <3>4
  <2> QED
    BY <2>1, <2>2
<1>5. /\ g[n] \in 0 .. q /\ Len(C) \in Nat /\ q <= Len(C) /\ MaxFrameBytes \in Nat /\ h[m] >= Len(C)
      /\ h[m] \in 0 .. Len(C) + 1
  <2>1. n \in 0 .. n /\ m \in 0 .. m
    OBVIOUS
  <2>2. g[n] \in 0 .. q
    BY <2>1 DEF Cuts
  <2>3. h[m] >= Len(C) /\ h[m] \in 0 .. Len(C) + 1
    BY <2>1, <1>2 DEF Listed
  <2>4. Len(C) \in Nat /\ q <= Len(C) /\ MaxFrameBytes \in Nat
    BY AdapterBounds DEF Agree
  <2> QED
    BY <2>2, <2>3, <2>4
<1>6. j # m
  BY <1>4, <1>5
<1>7. j + 1 \in 1 .. m /\ j + 1 \in 0 .. m /\ j + 1 - 1 = j /\ j < j + 1
  BY <1>6
<1>8. h[j] < h[j + 1] /\ h[j + 1] \in 0 .. Len(C) + 1
  BY <1>2, <1>7 DEF Listed
<1>9. h[j + 1] > q
  <2>1. SUFFICES ASSUME h[j + 1] <= q
                 PROVE  FALSE
    BY <1>5, <1>8
  <2>2. h[j + 1] \in 1 .. q
    BY <2>1, <1>4, <1>5, <1>8
  <2>3. C[h[j + 1]] = "nl"
    <3>1. h[j + 1] <= Len(C)
      BY <2>2, <1>5
    <3> QED
      BY <3>1, <1>2, <1>7 DEF Listed
  <2>4. B[h[j + 1]] = "nl"
    BY <2>2, <2>3 DEF Agree
  <2>5. PICK k \in 1 .. n : g[k] = h[j + 1]
    BY <2>2, <2>4 DEF Cuts
  <2>6. k \in 0 .. n /\ n \in 0 .. n /\ (k # n => k < n)
    OBVIOUS
  <2>7. k # n => g[k] < g[n]
    BY <2>6 DEF Cuts
  <2> QED
    BY <2>5, <2>7, <1>4, <1>5, <1>8
<1>10. h[j + 1] - h[j] - 1 <= MaxFrameBytes
  BY <1>3, <1>7
<1> QED
  BY SMTT(40), <1>4, <1>5, <1>8, <1>9, <1>10

(* What the framer keeps: the records of the first q symbols cut and heard,  *)
(* and the open one held; or nothing, behind a limit.                        *)
WholeRead(B, q, s, n, g, ks) ==
  /\ Cuts(B, q, n, g) /\ ks \in Seq(Kind) /\ Len(ks) = n /\ s.frames = n /\ n <= MaxFrames
  /\ \A k \in 1 .. n : /\ g[k] - g[k - 1] - 1 <= MaxFrameBytes
                       /\ ks[k] = decodeJsonFrame(SubSeq(B, g[k - 1] + 1, g[k] - 1))
  /\ s.held = SubSeq(B, g[n] + 1, q) /\ q - g[n] <= MaxFrameBytes
  /\ Heard(s, ks)
Read(B, q, s) ==
  IF s.fatal THEN s.held = <<>> /\ Overrun(B, q)
  ELSE \E n \in Nat : \E g, ks : WholeRead(B, q, s, n, g, ks)

(* One symbol more at the end of a part of the transcript.                   *)
LEMMA SubSeqGrows ==
  ASSUME NEW B \in Seq(Symbols), NEW q \in Nat, q + 1 <= Len(B), NEW a \in Nat, a <= q
  PROVE  /\ Len(SubSeq(B, a + 1, q)) = q - a
         /\ Append(SubSeq(B, a + 1, q), B[q + 1]) = SubSeq(B, a + 1, q + 1)
<1> DEFINE S == SubSeq(B, a + 1, q)
           T == SubSeq(B, a + 1, q + 1)
<1>1. /\ S \in Seq(Symbols) /\ Len(S) = q - a
      /\ \A i \in 1 .. q - a : S[i] = B[a + i]
  OBVIOUS
<1>2. /\ T \in Seq(Symbols) /\ Len(T) = q - a + 1
      /\ \A i \in 1 .. q - a + 1 : T[i] = B[a + i]
  OBVIOUS
<1>3. B[q + 1] \in Symbols
  OBVIOUS
<1> HIDE DEF S, T
<1>4. /\ Append(S, B[q + 1]) \in Seq(Symbols) /\ Len(Append(S, B[q + 1])) = q - a + 1
      /\ \A i \in 1 .. q - a : Append(S, B[q + 1])[i] = S[i]
      /\ Append(S, B[q + 1])[q - a + 1] = B[q + 1]
  BY <1>1, <1>3
<1>5. \A i \in 1 .. q - a + 1 : Append(S, B[q + 1])[i] = T[i]
  <2> SUFFICES ASSUME NEW i \in 1 .. q - a + 1
               PROVE  Append(S, B[q + 1])[i] = T[i]
    OBVIOUS
  <2>1. CASE i = q - a + 1
    <3>1. a + i = q + 1
      BY <2>1
    <3> QED
      BY <2>1, <3>1, <1>2, <1>4
  <2>2. CASE i # q - a + 1
    <3>1. i \in 1 .. q - a
      BY <2>2
    <3> QED
      BY <3>1, <1>1, <1>2, <1>4
  <2> QED
    BY <2>1, <2>2
<1>6. Append(S, B[q + 1]) = T
  <2> DEFINE U == Append(S, B[q + 1])
  <2>1. U \in Seq(Symbols) /\ T \in Seq(Symbols) /\ Len(U) = Len(T) /\ \A i \in 1 .. Len(U) : U[i] = T[i]
    BY <1>2, <1>4, <1>5
  <2> HIDE DEF U
  <2>2. U = T
    BY <2>1
  <2> QED
    BY <2>2 DEF U
<1> QED
  BY <1>1, <1>6 DEF S, T

(* Two transcripts that agree have the same parts.                           *)
LEMMA SubSeqSame ==
  ASSUME NEW B \in Seq(Symbols), NEW C \in Seq(Symbols), NEW q \in Nat, q <= Len(B), q <= Len(C),
         \A i \in 1 .. q : C[i] = B[i], NEW a \in Nat, NEW b \in Nat, a <= b, b <= q
  PROVE  SubSeq(C, a + 1, b) = SubSeq(B, a + 1, b)
<1> DEFINE S == SubSeq(B, a + 1, b)
           T == SubSeq(C, a + 1, b)
<1>1. /\ S \in Seq(Symbols) /\ Len(S) = b - a
      /\ \A i \in 1 .. b - a : S[i] = B[a + i]
  OBVIOUS
<1>2. /\ T \in Seq(Symbols) /\ Len(T) = b - a
      /\ \A i \in 1 .. b - a : T[i] = C[a + i]
  OBVIOUS
<1> HIDE DEF S, T
<1>3. \A i \in 1 .. b - a : a + i \in 1 .. q
  OBVIOUS
<1>4. \A i \in 1 .. b - a : S[i] = T[i]
  BY <1>1, <1>2, <1>3
<1>5. S = T
  BY <1>1, <1>2, <1>4
<1> QED
  BY <1>5 DEF S, T

(* Nothing is read at first.                                                 *)
LEMMA ReadNothing ==
  ASSUME grammar \in {"acp", "pi"}, NEW B \in Seq(Symbols)
  PROVE  Read(B, 0, NewStream) /\ NewStream \in Streams /\ Driven(NewStream)
<1>1. PICK g : Cuts(B, 0, 0, g)
  BY CutsNone
<1>2. /\ ~NewStream.fatal /\ NewStream.held = <<>> /\ NewStream.frames = 0 /\ NewStream.total = 0
      /\ NewStream.phase = "init" /\ Fresh(NewStream) /\ NewStream.written = <<"init">>
      /\ NewStream.cancel = "idle" /\ ~NewStream.closed
  BY DEF NewStream, Fresh
<1>3. NewStream \in Streams
  <2>1. <<"init">> \in Seq(Messages)
    BY DEF Messages
  <2>2. <<>> \in Seq(Kind)
    OBVIOUS
  <2> QED
    BY <2>1, <2>2 DEF NewStream, Streams
<1>4. Driven(NewStream)
  <2> DEFINE w == <<"init">>
  <2>1. Len(w) = 1 /\ \A i \in 1 .. Len(w) : w[i] = "init"
    OBVIOUS
  <2>2. NewStream.written = w
    BY <1>2
  <2> HIDE DEF w
  <2>3. Orderly(w, "idle") /\ ~Has(w, "prompt")
    BY <2>1 DEF Orderly, Has
  <2> QED
    BY <1>2, <2>2, <2>3 DEF Driven
<1>5. WholeRead(B, 0, NewStream, 0, g, <<>>)
  <2>1. <<>> \in Seq(Kind) /\ Len(<<>>) = 0
    OBVIOUS
  <2>2. g[0] = 0 /\ SubSeq(B, 1, 0) = <<>>
    BY <1>1 DEF Cuts
  <2>3. 0 <= MaxFrames /\ 0 <= MaxFrameBytes
    BY AdapterBounds
  <2>4. Heard(NewStream, <<>>)
    BY <1>2, <2>1 DEF Heard, HeardAcp, HeardPi
  <2>5. g[0] + 1 = 1 /\ 0 - g[0] <= MaxFrameBytes
    BY <2>2, <2>3
  <2>6. SubSeq(B, g[0] + 1, 0) = <<>>
    BY <2>2, <2>5
  <2> QED
    BY <1>1, <1>2, <2>1, <2>3, <2>4, <2>5, <2>6 DEF WholeRead
<1> QED
  BY <1>2, <1>3, <1>4, <1>5 DEF Read

(* What is read does not depend on what is written later,                    *)
LEMMA ReadOther ==
  ASSUME NEW B \in Seq(Symbols), NEW C \in Seq(Symbols), NEW q \in Nat, q <= Len(B), q <= Len(C),
         \A i \in 1 .. q : C[i] = B[i], NEW s, Read(B, q, s)
  PROVE  Read(C, q, s)
<1>1. CASE s.fatal
  <2>1. s.held = <<>> /\ Overrun(B, q)
    BY <1>1 DEF Read
  <2>2. Overrun(C, q)
    BY <2>1, OverrunSame
  <2> QED
    BY <2>1, <2>2, <1>1 DEF Read
<1>2. CASE ~s.fatal
  <2>1. PICK n \in Nat : \E g, ks : WholeRead(B, q, s, n, g, ks)
    BY <1>2 DEF Read
  <2>2. PICK g, ks : WholeRead(B, q, s, n, g, ks)
    BY <2>1
  <2>3. Cuts(C, q, n, g)
    BY <2>2 DEF WholeRead, Cuts
  <2>4. g \in [0 .. n -> 0 .. q] /\ \A i, j \in 0 .. n : i < j => g[i] < g[j]
    BY <2>3 DEF Cuts
  <2>5. SubSeq(C, g[n] + 1, q) = SubSeq(B, g[n] + 1, q)
    <3> DEFINE a == g[n]
    <3>1. a \in Nat /\ a <= q
      BY <2>4
    <3> HIDE DEF a
    <3>2. SubSeq(C, a + 1, q) = SubSeq(B, a + 1, q)
      BY <3>1, SubSeqSame
    <3> QED
      BY <3>2 DEF a
  <2>6. ASSUME NEW k \in 1 .. n
        PROVE  SubSeq(C, g[k - 1] + 1, g[k] - 1) = SubSeq(B, g[k - 1] + 1, g[k] - 1)
    <3> DEFINE a == g[k - 1]
               b == g[k] - 1
    <3>0. k \in 0 .. n /\ k - 1 \in 0 .. n /\ k - 1 < k
      OBVIOUS
    <3>1. a \in Nat /\ b \in Nat /\ a <= b /\ b <= q
      BY SMTT(40), <3>0, <2>4
    <3> HIDE DEF a, b
    <3>2. SubSeq(C, a + 1, b) = SubSeq(B, a + 1, b)
      BY <3>1, SubSeqSame
    <3> QED
      BY <3>2 DEF a, b
  <2>7. WholeRead(C, q, s, n, g, ks)
    BY <2>2, <2>3, <2>5, <2>6 DEF WholeRead
  <2> QED
    BY <2>7, <1>2 DEF Read
<1> QED
  BY <1>1, <1>2

(* nor on the driver.                                                        *)
LEMMA ReadSame ==
  ASSUME NEW B, NEW q, NEW s, NEW t, t.fatal = s.fatal, t.held = s.held, t.frames = s.frames,
         SameCodec(s, t), Read(B, q, s)
  PROVE  Read(B, q, t)
<1>0. t.fatal = s.fatal /\ t.held = s.held /\ t.frames = s.frames
  OBVIOUS
<1>1. ASSUME NEW n, NEW g, NEW ks, WholeRead(B, q, s, n, g, ks)
      PROVE  WholeRead(B, q, t, n, g, ks)
  <2>1. Heard(t, ks)
    BY <1>1, HeardSame DEF WholeRead
  <2> QED
    BY <2>1, <1>0, <1>1 DEF WholeRead
<1> QED
  BY <1>0, <1>1, Zenon DEF Read

(* A newline that cuts off a record.                                         *)
LEMMA CutHeard ==
  ASSUME NEW B \in Seq(Symbols), NEW q \in Nat, q + 1 <= Len(B), B[q + 1] = "nl",
         NEW s, NEW n \in Nat, NEW g, NEW ks, WholeRead(B, q, s, n, g, ks),
         NEW t, t.frames = n + 1, n + 1 <= MaxFrames, t.held = <<>>,
         Heard(t, Append(ks, decodeJsonFrame(s.held))), s.held \in Seq(Kind)
  PROVE  \E h, f : WholeRead(B, q + 1, t, n + 1, h, f)
<1> DEFINE k == decodeJsonFrame(s.held)
           f == Append(ks, k)
<1>0. /\ Cuts(B, q, n, g) /\ ks \in Seq(Kind) /\ Len(ks) = n /\ s.held = SubSeq(B, g[n] + 1, q)
      /\ q - g[n] <= MaxFrameBytes
      /\ \A j \in 1 .. n : /\ g[j] - g[j - 1] - 1 <= MaxFrameBytes
                           /\ ks[j] = decodeJsonFrame(SubSeq(B, g[j - 1] + 1, g[j] - 1))
  BY DEF WholeRead
<1>1. PICK h : /\ Cuts(B, q + 1, n + 1, h) /\ h[n + 1] = q + 1
               /\ \A i \in 0 .. n : h[i] = g[i]
  BY <1>0, CutsMore
<1>2. k \in Kind
  BY Decoded
<1>3. f \in Seq(Kind) /\ Len(f) = n + 1 /\ f[n + 1] = k /\ \A j \in 1 .. n : f[j] = ks[j]
  <2> HIDE DEF k
  <2> QED
    BY <1>0, <1>2
<1>4. k = decodeJsonFrame(SubSeq(B, g[n] + 1, q))
  BY <1>0
<1> HIDE DEF k, f
<1>5. g[n] \in Nat /\ g[n] <= q
  BY <1>0 DEF Cuts
<1>6. ASSUME NEW j \in 1 .. n + 1
      PROVE  /\ h[j] - h[j - 1] - 1 <= MaxFrameBytes
             /\ f[j] = decodeJsonFrame(SubSeq(B, h[j - 1] + 1, h[j] - 1))
  <2>1. CASE j = n + 1
    <3>1. j - 1 = n /\ n \in 0 .. n /\ h[j] = q + 1 /\ q + 1 - 1 = q
      BY <2>1, <1>1
    <3>2. h[j - 1] = g[n]
      BY <3>1, <1>1
    <3>3. h[j] - 1 = q
      BY <3>1
    <3>4. h[j] - h[j - 1] - 1 <= MaxFrameBytes
      <4> DEFINE x == h[j]
                 y == h[j - 1]
                 z == g[n]
      <4>1. x = q + 1 /\ y = z /\ z \in Nat /\ q - z <= MaxFrameBytes /\ MaxFrameBytes \in Nat
        BY <3>1, <3>2, <1>0, <1>5, AdapterBounds
      <4> HIDE DEF x, y, z
      <4>2. x - y - 1 <= MaxFrameBytes
        BY <4>1
      <4> QED
        BY <4>2 DEF x, y
    <3>5. f[j] = decodeJsonFrame(SubSeq(B, h[j - 1] + 1, h[j] - 1))
      BY <2>1, <3>2, <3>3, <1>3, <1>4, Zenon
    <3> QED
      BY <3>4, <3>5
  <2>2. CASE j # n + 1
    <3>1. j \in 1 .. n /\ j \in 0 .. n /\ j - 1 \in 0 .. n
      BY <2>2
    <3>2. h[j] = g[j] /\ h[j - 1] = g[j - 1] /\ f[j] = ks[j]
      BY <3>1, <1>1, <1>3
    <3> QED
      BY <3>1, <3>2, <1>0
  <2> QED
    BY <2>1, <2>2
<1>7. t.held = SubSeq(B, h[n + 1] + 1, q + 1) /\ q + 1 - h[n + 1] <= MaxFrameBytes
  <2>1. h[n + 1] + 1 = q + 2 /\ q + 1 - h[n + 1] = 0 /\ 0 <= MaxFrameBytes
    BY <1>1, AdapterBounds
  <2>2. SubSeq(B, q + 2, q + 1) = <<>>
    OBVIOUS
  <2> QED
    BY <2>1, <2>2
<1>8. Heard(t, f)
  BY DEF f, k
<1>9. WholeRead(B, q + 1, t, n + 1, h, f)
  BY <1>1, <1>3, <1>6, <1>7, <1>8 DEF WholeRead
<1> QED
  BY <1>9

(* The framer takes one more symbol.                                         *)
LEMMA TakeKeeps ==
  ASSUME grammar \in {"acp", "pi"}, NEW B \in Seq(Symbols), NEW q \in Nat, q + 1 <= Len(B),
         NEW s \in Streams, Driven(s), Read(B, q, s), NEW t, t = take(s, B[q + 1])
  PROVE  t \in Streams /\ Driven(t) /\ Read(B, q + 1, t) /\ t.total = s.total
<1> DEFINE b == B[q + 1]
<1>0. b \in Symbols /\ q + 1 \in Nat /\ MaxFrames \in Nat /\ MaxFrameBytes \in Nat
  BY AdapterBounds
<1>1. CASE s.fatal
  <2>1. t = s
    BY <1>1 DEF take
  <2>2. s.held = <<>> /\ Overrun(B, q)
    BY <1>1 DEF Read
  <2>3. Overrun(B, q + 1)
    BY <2>2, OverrunStays
  <2> QED
    BY <2>1, <2>2, <2>3, <1>1 DEF Read
<1>2. CASE ~s.fatal
  <2>1. PICK n \in Nat : \E g, ks : WholeRead(B, q, s, n, g, ks)
    BY <1>2 DEF Read
  <2>2. PICK g, ks : WholeRead(B, q, s, n, g, ks)
    BY <2>1
  <2>3. /\ Cuts(B, q, n, g) /\ ks \in Seq(Kind) /\ s.frames = n /\ n <= MaxFrames /\ Heard(s, ks)
        /\ s.held = SubSeq(B, g[n] + 1, q) /\ s.held \in Seq(Kind) /\ s.total \in Nat
    BY <2>2 DEF WholeRead, Streams
  <2>4. g[n] \in Nat /\ g[n] <= q
    BY <2>3 DEF Cuts
  <2>5. /\ Len(s.held) = q - g[n]
        /\ Append(s.held, b) = SubSeq(B, g[n] + 1, q + 1)
    <3> DEFINE a == g[n]
    <3> HIDE DEF a
    <3>1. a \in Nat /\ a <= q
      BY <2>4 DEF a
    <3>2. /\ Len(SubSeq(B, a + 1, q)) = q - a
          /\ Append(SubSeq(B, a + 1, q), B[q + 1]) = SubSeq(B, a + 1, q + 1)
      BY <3>1, SubSeqGrows
    <3> QED
      BY <3>2, <2>3 DEF a
  <2>6. ASSUME t = Fatal(s), Overrun(B, q + 1)
        PROVE  t \in Streams /\ Driven(t) /\ Read(B, q + 1, t) /\ t.total = s.total
    <3>1. t \in Streams /\ t.fatal /\ t.held = <<>> /\ t.total = s.total /\ Driven(t)
      BY <2>6, FatalFields
    <3> QED
      BY <3>1, <2>6 DEF Read
  <2>7. CASE b = "nl"
    <3>1. t = emit(s)
      BY <2>7, <1>2 DEF take
    <3>2. \/ s.frames >= MaxFrames /\ t = Fatal(s)
          \/ /\ s.frames < MaxFrames /\ t \in Streams /\ ~t.fatal /\ t.held = <<>> /\ t.total = s.total
             /\ t.frames = s.frames + 1 /\ Driven(t)
             /\ Heard(t, Append(ks, decodeJsonFrame(s.held)))
      BY <3>1, <1>2, <2>3, EmitKeeps
    <3>3. CASE s.frames >= MaxFrames /\ t = Fatal(s)
      <4>1. PICK h : Cuts(B, q + 1, n + 1, h)
        BY <2>3, <2>7, CutsMore
      <4> DEFINE p == q + 1
                 m == n + 1
      <4>2. p \in Nat /\ m \in Nat /\ m > MaxFrames /\ Cuts(B, p, m, h)
        BY <4>1, <3>3, <2>3, <1>0
      <4> HIDE DEF p, m
      <4>3. Overrun(B, p)
        BY <4>2, OverFrames
      <4> QED
        BY <4>3, <3>3, <2>6 DEF p
    <3>4. CASE /\ s.frames < MaxFrames /\ t \in Streams /\ ~t.fatal /\ t.held = <<>> /\ t.total = s.total
               /\ t.frames = s.frames + 1 /\ Driven(t)
               /\ Heard(t, Append(ks, decodeJsonFrame(s.held)))
      <4>1. t.frames = n + 1 /\ n + 1 <= MaxFrames /\ n + 1 \in Nat
        BY <3>4, <2>3, <1>0
      <4>2. \E h, f : WholeRead(B, q + 1, t, n + 1, h, f)
        BY <4>1, <3>4, <2>2, <2>3, <2>7, CutHeard
      <4>3. Read(B, q + 1, t)
        BY <4>1, <4>2, <3>4 DEF Read
      <4> QED
        BY <4>3, <3>4
    <3> QED
      BY <3>2, <3>3, <3>4
  <2>8. CASE b # "nl" /\ Len(s.held) + 1 > MaxFrameBytes
    <3>1. t = Fatal(s)
      BY <2>8, <1>2 DEF take
    <3>2. Cuts(B, q + 1, n, g)
      BY <2>3, <2>8, CutsSame
    <3>3. Overrun(B, q + 1)
      <4> DEFINE p == q + 1
      <4>1. p \in Nat /\ Cuts(B, p, n, g) /\ p - g[n] > MaxFrameBytes
        BY <3>2, <2>4, <2>5, <2>8, <1>0
      <4> HIDE DEF p
      <4>2. Overrun(B, p)
        BY <4>1, OverFrame
      <4> QED
        BY <4>2 DEF p
    <3> QED
      BY <3>1, <3>3, <2>6
  <2>9. CASE b # "nl" /\ ~(Len(s.held) + 1 > MaxFrameBytes)
    <3> DEFINE h == Append(s.held, b)
    <3>1. t = [s EXCEPT !.held = h]
      BY <2>9, <1>2, Zenon DEF take
    <3>2. h \in Seq(Kind)
      <4>1. b \in Kind
        BY <1>0, <2>9 DEF Symbols
      <4> QED
        BY <4>1, <2>3
    <3>3. h = SubSeq(B, g[n] + 1, q + 1)
      BY <2>5
    <3> HIDE DEF h
    <3>4. /\ t \in Streams /\ t.held = h /\ t.total = s.total /\ t.fatal = s.fatal /\ t.frames = s.frames
          /\ SameCodec(s, t) /\ SameDriver(s, t)
      BY <3>1, <3>2 DEF Streams, SameCodec, SameDriver
    <3>5. Driven(t)
      BY <3>4, DrivenMoves DEF SameCodec
    <3>6. Heard(t, ks)
      BY <3>4, <2>3, HeardSame
    <3>7. Cuts(B, q + 1, n, g)
      BY <2>3, <2>9, CutsSame
    <3>8. (q + 1) - g[n] <= MaxFrameBytes
      BY <2>4, <2>5, <2>9, <1>0
    <3>9. WholeRead(B, q + 1, t, n, g, ks)
      <4>1. /\ Len(ks) = n
            /\ \A k \in 1 .. n : /\ g[k] - g[k - 1] - 1 <= MaxFrameBytes
                                 /\ ks[k] = decodeJsonFrame(SubSeq(B, g[k - 1] + 1, g[k] - 1))
        BY <2>2 DEF WholeRead
      <4>2. t.frames = n /\ t.held = SubSeq(B, g[n] + 1, q + 1)
        BY <2>3, <3>3, <3>4
      <4>3. Cuts(B, q + 1, n, g) /\ ks \in Seq(Kind) /\ n <= MaxFrames /\ (q + 1) - g[n] <= MaxFrameBytes /\ Heard(t, ks)
        BY <2>3, <3>6, <3>7, <3>8
      <4> QED
        BY <4>1, <4>2, <4>3, Zenon DEF WholeRead
    <3>10. Read(B, q + 1, t)
      BY <3>4, <3>9, <1>2 DEF Read
    <3> QED
      BY <3>4, <3>5, <3>10
  <2> QED
    BY <2>7, <2>8, <2>9
<1> QED
  BY <1>1, <1>2 DEF Streams

(* A limit passed stays passed by later symbols.                             *)
LEMMA OverrunLater ==
  ASSUME NEW B, NEW p \in Nat, NEW q \in Nat, p <= q, Overrun(B, p)
  PROVE  Overrun(B, q)
<1>1. ASSUME NEW C \in Seq(Symbols), Agree(B, C, q)
      PROVE  Agree(B, C, p)
  <2>1. Len(C) \in Nat /\ \A i \in 1 .. p : i \in 1 .. q
    OBVIOUS
  <2> QED
    BY <1>1, <2>1 DEF Agree
<1> QED
  BY <1>1 DEF Overrun

(* The count of a push's symbols changes nothing else.                       *)
LEMMA TotalFields ==
  ASSUME NEW s \in Streams, Driven(s), NEW n \in Nat, NEW t, t = [s EXCEPT !.total = n]
  PROVE  /\ t \in Streams /\ Driven(t) /\ t.total = n /\ SameCodec(s, t)
         /\ t.fatal = s.fatal /\ t.held = s.held /\ t.frames = s.frames
<1>1. /\ t \in Streams /\ t.total = n /\ SameCodec(s, t) /\ SameDriver(s, t)
      /\ t.fatal = s.fatal /\ t.held = s.held /\ t.frames = s.frames
  BY DEF Streams, SameCodec, SameDriver
<1>2. Driven(t)
  BY <1>1, DrivenMoves DEF SameCodec
<1> QED
  BY <1>1, <1>2

(* The symbols of a chunk, taken one after the other.                        *)
Takes(B, p, n, chunk, start) ==
  /\ grammar \in {"acp", "pi"} /\ B \in Seq(Symbols) /\ p \in Nat /\ n \in Nat /\ p + n <= Len(B)
  /\ \A i \in 1 .. n : chunk[i] = B[p + i]
  /\ start \in Streams /\ Driven(start) /\ Read(B, p, start)
Taken(B, q, start, r) == r \in Streams /\ Driven(r) /\ Read(B, q, r) /\ r.total = start.total

(* So a chunk's symbols leave what the transcript up to its end determines.  *)
LEMMA ReadsTaken ==
  ASSUME NEW B, NEW p, NEW n, NEW chunk, NEW start, Takes(B, p, n, chunk, start)
  PROVE  Taken(B, p + n, start, Reads(chunk, n, start)[n])
<1> DEFINE r == Reads(chunk, n, start)[n]
<1>0. /\ grammar \in {"acp", "pi"} /\ B \in Seq(Symbols) /\ p \in Nat /\ n \in Nat /\ p + n <= Len(B)
      /\ \A i \in 1 .. n : chunk[i] = B[p + i]
      /\ start \in Streams /\ Driven(start) /\ Read(B, p, start)
  BY Zenon DEF Takes
<1> HIDE DEF r
<1> DEFINE Good == {e \in (0 .. n) \X Streams :
                      Driven(e[2]) /\ Read(B, p + e[1], e[2]) /\ e[2].total = start.total}
<1>1. <<0, start>> \in Good
  <2>1. 0 \in 0 .. n /\ p + 0 = p
    BY <1>0
  <2> QED
    BY <2>1, <1>0
<1>2. ASSUME NEW k \in 0 .. n, NEW s, k # n, <<k, s>> \in Good
      PROVE  <<k + 1, take(s, chunk[k + 1])>> \in Good
  <2> DEFINE q == p + k
             t == take(s, B[q + 1])
  <2>1. /\ k + 1 \in 1 .. n /\ k + 1 \in 0 .. n /\ q \in Nat /\ q + 1 <= Len(B) /\ p + (k + 1) = q + 1
        /\ Len(B) \in Nat
    BY <1>0, <1>2
  <2>2. s \in Streams /\ Driven(s) /\ Read(B, q, s) /\ s.total = start.total
    BY <1>2
  <2>3. chunk[k + 1] = B[q + 1]
    BY <2>1, <1>0
  <2> HIDE DEF q
  <2>4. t \in Streams /\ Driven(t) /\ Read(B, q + 1, t) /\ t.total = s.total
    BY <2>1, <2>2, <1>0, TakeKeeps
  <2>5. take(s, chunk[k + 1]) = t
    BY <2>3
  <2> HIDE DEF t
  <2>6. Read(B, p + (k + 1), t)
    BY <2>1, <2>4
  <2>7. <<k + 1, t>> \in Good
    BY <2>1, <2>2, <2>4, <2>6
  <2> QED
    BY <2>5, <2>7
<1>3. <<n, r>> \in Good
  <2> HIDE DEF Good
  <2>1. \A k \in 0 .. n : \A s : k # n /\ <<k, s>> \in Good => <<k + 1, take(s, chunk[k + 1])>> \in Good
    BY <1>0, <1>2
  <2>2. <<n, Reads(chunk, n, start)[n]>> \in Good
    BY <1>0, <1>1, <2>1, ReadsKeep
  <2> QED
    BY <2>2 DEF r
<1>4. Taken(B, p + n, start, r)
  BY <1>3 DEF Taken
<1> QED
  BY <1>4 DEF r

(* A chunk is pushed.                                                        *)
LEMMA PushKeeps ==
  ASSUME grammar \in {"acp", "pi"}, NEW B \in Seq(Symbols), NEW p \in Nat, NEW q \in Nat,
         p < q, q <= Len(B), NEW s \in Streams, Driven(s), Read(B, p, s),
         ~s.fatal => s.total = p /\ p <= MaxTotalBytes,
         NEW t, t = push(s, SubSeq(B, p + 1, q))
  PROVE  /\ t \in Streams /\ Driven(t) /\ Read(B, q, t)
         /\ ~t.fatal => t.total = q /\ q <= MaxTotalBytes
<1> DEFINE chunk == SubSeq(B, p + 1, q)
           remaining == MaxTotalBytes - s.total
           size == IF Len(chunk) < remaining THEN Len(chunk) ELSE remaining
           start == [s EXCEPT !.total = @ + size]
           r == Reads(chunk, size, start)[size]
<1>0. MaxTotalBytes \in Nat /\ s.total \in Nat
  BY AdapterBounds DEF Streams
<1>1. Len(chunk) = q - p /\ \A i \in 1 .. q - p : chunk[i] = B[p + i]
  OBVIOUS
<1> HIDE DEF chunk
<1>2. t = IF s.fatal THEN s ELSE IF size < Len(chunk) THEN Fatal(r) ELSE r
  <2>1. t = push(s, chunk)
    BY DEF chunk
  <2> QED
    BY <2>1, PushIs, Zenon
<1>3. CASE s.fatal
  <2>1. t = s
    BY <1>2, <1>3
  <2>2. s.held = <<>> /\ Overrun(B, p)
    BY <1>3 DEF Read
  <2>3. Overrun(B, q)
    BY <2>2, OverrunLater
  <2> QED
    BY <2>1, <2>2, <2>3, <1>3 DEF Read
<1>4. CASE ~s.fatal
  <2>1. /\ s.total = p /\ size \in Nat /\ size <= q - p /\ p + size <= Len(B) /\ p + size <= MaxTotalBytes
        /\ size < Len(chunk) => q > MaxTotalBytes
        /\ ~(size < Len(chunk)) => p + size = q
    BY <1>0, <1>1, <1>4
  <2>2. start = [s EXCEPT !.total = p + size]
    BY <2>1
  <2> HIDE DEF start
  <2> HIDE DEF size
  <2>3. /\ start \in Streams /\ Driven(start) /\ start.total = p + size /\ SameCodec(s, start)
        /\ start.fatal = s.fatal /\ start.held = s.held /\ start.frames = s.frames
    <3> DEFINE n == p + size
    <3>1. n \in Nat /\ start = [s EXCEPT !.total = n]
      BY <2>1, <2>2
    <3> HIDE DEF n
    <3>2. /\ start \in Streams /\ Driven(start) /\ start.total = n /\ SameCodec(s, start)
          /\ start.fatal = s.fatal /\ start.held = s.held /\ start.frames = s.frames
      BY <3>1, TotalFields
    <3> QED
      BY <3>2 DEF n
  <2>4. Read(B, p, start)
    BY <2>3, ReadSame
  <2>5. \A i \in 1 .. size : chunk[i] = B[p + i]
    BY <1>1, <2>1
  <2>6. r \in Streams /\ Driven(r) /\ Read(B, p + size, r) /\ r.total = start.total
    <3>1. Takes(B, p, size, chunk, start)
      BY <2>1, <2>3, <2>4, <2>5 DEF Takes
    <3>2. Taken(B, p + size, start, r)
      BY <3>1, ReadsTaken
    <3> HIDE DEF r
    <3> QED
      BY <3>2 DEF Taken
  <2> HIDE DEF r
  <2>7. CASE size < Len(chunk)
    <3>1. t = Fatal(r)
      BY <1>2, <1>4, <2>7
    <3>2. t \in Streams /\ t.fatal /\ t.held = <<>> /\ Driven(t)
      BY <3>1, <2>6, FatalFields
    <3>3. Overrun(B, q)
      BY <2>1, <2>7, OverTotal
    <3> QED
      BY <3>2, <3>3 DEF Read
  <2>8. CASE ~(size < Len(chunk))
    <3>1. t = r
      BY <1>2, <1>4, <2>8
    <3>2. p + size = q
      BY <2>1, <2>8
    <3>3. Read(B, q, r) /\ r.total = q /\ q <= MaxTotalBytes
      BY <3>2, <2>1, <2>3, <2>6
    <3> QED
      BY <3>1, <3>3, <2>6
  <2> QED
    BY <2>7, <2>8
<1> QED
  BY <1>3, <1>4

(* The records of a transcript, decoded.                                     *)
Decodes(C) == [k \in 1 .. Len(Records(C)) |-> decodeJsonFrame(Records(C)[k])]

(* The records of the list, decoded, are the decoded records.                *)
LEMMA DecodedList ==
  ASSUME NEW C \in Seq(Symbols), NEW m \in Nat, NEW h, Listed(C, m, h), RecordsAre(C, m, h),
         NEW ks \in Seq(Kind), Len(ks) = m,
         \A k \in 1 .. m : ks[k] = decodeJsonFrame(SubSeq(C, h[k - 1] + 1, h[k] - 1))
  PROVE  Decodes(C) = ks
<1>1. Len(Records(C)) = m /\ \A k \in 1 .. m : Records(C)[k] = SubSeq(C, h[k - 1] + 1, h[k] - 1)
  BY WithinListed
<1>2. \A k \in 1 .. m : ks[k] = decodeJsonFrame(Records(C)[k])
  BY <1>1
<1>3. ks = [k \in 1 .. m |-> ks[k]]
  OBVIOUS
<1>4. Decodes(C) = [k \in 1 .. m |-> decodeJsonFrame(Records(C)[k])]
  BY <1>1 DEF Decodes
<1>5. [k \in 1 .. m |-> decodeJsonFrame(Records(C)[k])] = [k \in 1 .. m |-> ks[k]]
  BY <1>2
<1> QED
  BY <1>3, <1>4, <1>5

(* The last record may lack its newline.                                     *)
LastCut(s) == IF s.held # <<>> THEN emit(s) ELSE s

(* The verdict at the end of the output.                                     *)
LEMMA FinishKeeps ==
  ASSUME grammar \in {"acp", "pi"}, NEW B \in Seq(Symbols), NEW s \in Streams, Driven(s),
         Read(B, Len(B), s), ~s.fatal => Len(B) <= MaxTotalBytes, NEW t, t = LastCut(s)
  PROVE  /\ t \in Streams /\ Driven(t)
         /\ finishCodec(t) = "success" <=> Within(B) /\ Successful(Decodes(B))
<1> DEFINE q == Len(B)
           Goal == /\ t \in Streams /\ Driven(t)
                   /\ finishCodec(t) = "success" <=> Within(B) /\ Successful(Decodes(B))
<1>0. /\ q \in Nat /\ (B # <<>> => q # 0) /\ MaxFrames \in Nat /\ MaxFrameBytes \in Nat /\ s.frames \in Nat
      /\ s.held \in Seq(Kind)
  BY AdapterBounds DEF Streams
<1>a. SUFFICES Goal
  OBVIOUS
<1>1. CASE s.fatal
  <2>1. t = s /\ Overrun(B, q)
    BY <1>1 DEF Read, LastCut
  <2>2. ~Within(B)
    <3>1. Agree(B, B, q)
      BY <1>0 DEF Agree
    <3> QED
      BY <2>1, <3>1 DEF Overrun
  <2>3. finishCodec(t) = "fatal"
    BY <2>1, <1>1 DEF finishCodec
  <2> QED
    BY <2>1, <2>2, <2>3
<1>2. CASE ~s.fatal
  <2>1. PICK n \in Nat : \E g, ks : WholeRead(B, q, s, n, g, ks)
    BY <1>2 DEF Read
  <2>2. PICK g, ks : WholeRead(B, q, s, n, g, ks)
    BY <2>1
  <2>3. /\ Cuts(B, q, n, g) /\ ks \in Seq(Kind) /\ Len(ks) = n /\ s.frames = n /\ n <= MaxFrames
        /\ \A k \in 1 .. n : /\ g[k] - g[k - 1] - 1 <= MaxFrameBytes
                             /\ ks[k] = decodeJsonFrame(SubSeq(B, g[k - 1] + 1, g[k] - 1))
        /\ s.held = SubSeq(B, g[n] + 1, q) /\ q - g[n] <= MaxFrameBytes
        /\ Heard(s, ks) /\ q <= MaxTotalBytes
    BY <2>2, <1>2 DEF WholeRead
  <2>4. g[n] \in Nat /\ g[n] <= q
    BY <2>3 DEF Cuts
  <2>5. \/ g[n] = q /\ Listed(B, n, g) /\ RecordsAre(B, n, g)
        \/ /\ g[n] < q
           /\ \E h : /\ Listed(B, n + 1, h) /\ RecordsAre(B, n + 1, h) /\ h[n + 1] = q + 1
                     /\ \A i \in 0 .. n : h[i] = g[i]
    BY <1>0, <2>3, RecordsList
  <2> HIDE DEF Goal
  <2>6. CASE g[n] = q /\ Listed(B, n, g) /\ RecordsAre(B, n, g)
    <3>1. s.held = <<>>
      <4>1. SubSeq(B, q + 1, q) = <<>>
        OBVIOUS
      <4> QED
        BY <4>1, <2>3, <2>6
    <3>2. t = s
      BY <3>1 DEF LastCut
    <3>3. Within(B)
      BY <2>3, <2>6, WithinListed
    <3>4. Decodes(B) = ks
      BY <2>3, <2>6, DecodedList
    <3>5. finishCodec(s) = "success" <=> Successful(ks)
      BY <1>2, <2>3, VerdictSays
    <3> QED
      BY <3>2, <3>3, <3>4, <3>5 DEF Goal
  <2>7. CASE /\ g[n] < q
             /\ \E h : /\ Listed(B, n + 1, h) /\ RecordsAre(B, n + 1, h) /\ h[n + 1] = q + 1
                       /\ \A i \in 0 .. n : h[i] = g[i]
    <3> DEFINE m == n + 1
    <3>0. m \in Nat /\ m = n + 1
      OBVIOUS
    <3> HIDE DEF m
    <3>1. PICK h : Listed(B, m, h) /\ RecordsAre(B, m, h) /\ h[m] = q + 1 /\ \A i \in 0 .. n : h[i] = g[i]
      BY <2>7, <3>0
    <3>2. s.held # <<>>
      <4> DEFINE a == g[n]
      <4>1. a \in Nat /\ a < q
        BY <2>4, <2>7
      <4> HIDE DEF a
      <4>2. Len(SubSeq(B, a + 1, q)) = q - a
        BY <4>1
      <4>3. SubSeq(B, a + 1, q) # <<>>
        <5>1. Len(<<>>) = 0
          OBVIOUS
        <5>2. q - a # 0
          BY <4>1
        <5> QED
          BY <4>2, <5>1, <5>2, Zenon
      <4> QED
        BY <4>3, <2>3 DEF a
    <3>3. t = emit(s)
      BY <3>2 DEF LastCut
    <3>4. \/ s.frames >= MaxFrames /\ t = Fatal(s)
          \/ /\ s.frames < MaxFrames /\ t \in Streams /\ ~t.fatal /\ t.held = <<>> /\ t.total = s.total
             /\ t.frames = s.frames + 1 /\ Driven(t)
             /\ Heard(t, Append(ks, decodeJsonFrame(s.held)))
      BY <3>3, <1>2, <2>3, EmitKeeps
    <3>5. Within(B) <=> /\ Len(B) <= MaxTotalBytes /\ m <= MaxFrames
                        /\ \A k \in 1 .. m : h[k] - h[k - 1] - 1 <= MaxFrameBytes
      BY <3>0, <3>1, WithinListed
    <3>6. CASE s.frames >= MaxFrames /\ t = Fatal(s)
      <4>1. ~Within(B)
        BY <3>0, <3>5, <3>6, <2>3, <1>0
      <4>2. t \in Streams /\ t.fatal /\ Driven(t)
        BY <3>6, FatalFields
      <4>3. finishCodec(t) = "fatal"
        BY <4>2 DEF finishCodec
      <4> QED
        BY <4>1, <4>2, <4>3 DEF Goal
    <3>7. CASE /\ s.frames < MaxFrames /\ t \in Streams /\ ~t.fatal /\ t.held = <<>> /\ t.total = s.total
               /\ t.frames = s.frames + 1 /\ Driven(t)
               /\ Heard(t, Append(ks, decodeJsonFrame(s.held)))
      <4> DEFINE k0 == decodeJsonFrame(s.held)
                 f == Append(ks, k0)
      <4>1. k0 \in Kind
        BY <1>0, Decoded
      <4>2. k0 = decodeJsonFrame(SubSeq(B, g[n] + 1, q))
        BY <2>3
      <4>3. Heard(t, f)
        BY <3>7
      <4> HIDE DEF k0
      <4>4. f \in Seq(Kind) /\ Len(f) = m /\ f[m] = k0 /\ \A k \in 1 .. n : f[k] = ks[k]
        BY <4>1, <2>3, <3>0
      <4> HIDE DEF f
      <4>5. ASSUME NEW k \in 1 .. m
            PROVE  /\ h[k] - h[k - 1] - 1 <= MaxFrameBytes
                   /\ f[k] = decodeJsonFrame(SubSeq(B, h[k - 1] + 1, h[k] - 1))
        <5>1. CASE k = m
          <6>1. k - 1 = n /\ n \in 0 .. n
            BY <5>1, <3>0
          <6>2. h[k - 1] = g[n] /\ h[k] = q + 1
            BY <6>1, <5>1, <3>1
          <6> DEFINE x == h[k]
                     y == h[k - 1]
                     z == g[n]
          <6>3. x = q + 1 /\ y = z /\ z \in Nat /\ q - z <= MaxFrameBytes /\ MaxFrameBytes \in Nat
            BY <6>2, <2>3, <2>4, <1>0
          <6>4. k0 = decodeJsonFrame(SubSeq(B, z + 1, q))
            BY <4>2
          <6> HIDE DEF x, y, z
          <6>5. x - y - 1 <= MaxFrameBytes
            BY <6>3, <1>0
          <6>6. x - 1 = q
            BY <6>3, <1>0
          <6>7. f[k] = decodeJsonFrame(SubSeq(B, y + 1, x - 1))
            BY <6>3, <6>4, <6>6, <5>1, <4>4
          <6> QED
            BY <6>5, <6>7 DEF x, y
        <5>2. CASE k # m
          <6>1. k \in 1 .. n /\ k \in 0 .. n /\ k - 1 \in 0 .. n
            BY <5>2, <3>0
          <6>2. h[k] = g[k] /\ h[k - 1] = g[k - 1] /\ f[k] = ks[k]
            BY <6>1, <3>1, <4>4
          <6> QED
            BY <6>1, <6>2, <2>3
        <5> QED
          BY <5>1, <5>2
      <4>6. Within(B)
        <5>1. m <= MaxFrames
          BY <3>0, <3>7, <2>3, <1>0
        <5> QED
          BY <5>1, <3>5, <4>5, <2>3
      <4>7. Decodes(B) = f
        BY <3>0, <3>1, <4>4, <4>5, DecodedList
      <4>8. finishCodec(t) = "success" <=> Successful(f)
        <5>1. t \in Streams /\ ~t.fatal
          BY <3>7
        <5> QED
          BY <5>1, <4>3, <4>4, VerdictSays
      <4> QED
        BY <3>7, <4>6, <4>7, <4>8 DEF Goal
    <3> QED
      BY <3>4, <3>6, <3>7
  <2> QED
    BY <2>5, <2>6, <2>7
<1> QED
  BY <1>1, <1>2

(* The grammar is settled, and so is what the definitions over it say.       *)
LEMMA KindSame ==
  ASSUME grammar' = grammar
  PROVE  Kind' = Kind /\ Symbols' = Symbols /\ Streams' = Streams
  BY DEF Kind, Symbols, Streams

(* Nor does what is doomed or complete change,                               *)
LEMMA DoomedSame ==
  ASSUME grammar' = grammar, NEW ks
  PROVE  Doomed(ks)' = Doomed(ks) /\ Successful(ks)' = Successful(ks)
<1>1. Kind' = Kind
  BY KindSame
<1> QED
  BY <1>1 DEF Doomed, Successful

(* nor what was heard,                                                       *)
LEMMA HeardSettled ==
  ASSUME grammar' = grammar, NEW s, NEW ks, Heard(s, ks)
  PROVE  Heard(s, ks)'
<1>1. Doomed(ks)' = Doomed(ks)
  BY DoomedSame
<1> QED
  BY <1>1 DEF Heard, HeardAcp, HeardPi

(* nor what was read.                                                        *)
LEMMA ReadSettled ==
  ASSUME grammar' = grammar, NEW B, NEW q, NEW s, Read(B, q, s)
  PROVE  Read(B, q, s)'
<1>1. Kind' = Kind /\ Symbols' = Symbols
  BY KindSame
<1>2. Overrun(B, q) => Overrun(B, q)'
  BY <1>1 DEF Overrun
<1>3. ASSUME NEW n, NEW g, NEW ks, WholeRead(B, q, s, n, g, ks)
      PROVE  WholeRead(B, q, s, n, g, ks)'
  <2>1. Heard(s, ks)'
    BY <1>3, HeardSettled DEF WholeRead
  <2> QED
    BY <1>3, <1>1, <2>1 DEF WholeRead
<1> QED
  BY <1>2, <1>3 DEF Read

(* The driver's order depends on the request to cancel only.                 *)
LEMMA DrivenSettled ==
  ASSUME cancelAsked' = cancelAsked, NEW s, Driven(s)
  PROVE  Driven(s)'
  BY DEF Driven

-----------------------------------------------------------------------------
(* While the turn runs, the stream has read what was pushed; at its end the  *)
(* verdict is the transcript's.                                              *)
AdapterReads ==
  /\ Read(sent, fed, stdoutStream)
  /\ ~stdoutStream.fatal => stdoutStream.total = fed /\ fed <= MaxTotalBytes
AdapterInv ==
  /\ grammar \in {"acp", "pi"} /\ sent \in Seq(Symbols) /\ fed \in Nat /\ fed <= Len(sent)
  /\ stdoutStream \in Streams /\ Driven(stdoutStream)
  /\ verdict = "none" => AdapterReads
  /\ VerdictIsTheTranscript

(* What the provider may still write.                                        *)
LEMMA WritesMore ==
  ASSUME NEW B \in Seq(Symbols), NEW k \in Kind, NEW C,
         C = B \o <<k>> \/ C = B \o <<k, "nl">> \/ C = Append(B, "nl")
  PROVE  /\ C \in Seq(Symbols) /\ Len(B) \in Nat /\ Len(C) \in Nat /\ Len(B) <= Len(C)
         /\ \A i \in 1 .. Len(B) : C[i] = B[i]
<1> DEFINE n == "nl"
<1>1. k \in Symbols /\ n \in Symbols
  BY DEF Symbols
<1> HIDE DEF n
<1>2. CASE C = B \o <<k>>
  BY <1>1, <1>2
<1>3. CASE C = B \o <<k, n>>
  BY <1>1, <1>3
<1>4. CASE C = Append(B, n)
  BY <1>1, <1>4
<1> QED
  BY <1>2, <1>3, <1>4 DEF n

(* A success was reached behind the prompt.                                  *)
LEMMA WritesInOrder ==
  ASSUME NEW s \in Streams, Driven(s), NEW S, S = {i \in 1 .. Len(s.written) : s.written[i] = "prompt"},
         NEW T, T = {i \in 1 .. Len(s.written) : s.written[i] = "cancel"}
  PROVE  /\ finishCodec(s) = "success" => Cardinality(S) = 1
         /\ Cardinality(T) <= 1
         /\ \A i \in T : \E j \in S : j < i
<1> DEFINE w == s.written
<1>1. Len(w) \in Nat /\ Orderly(w, s.cancel)
  BY DEF Streams, Driven
<1>2. S = {i \in 1 .. Len(w) : w[i] = "prompt"} /\ T = {i \in 1 .. Len(w) : w[i] = "cancel"}
  OBVIOUS
<1>3. finishCodec(s) = "success" => Has(w, "prompt")
  BY DEF finishCodec, Driven
<1> HIDE DEF w
<1>4. IsFiniteSet(1 .. Len(w))
  BY <1>1, FS_Interval
<1>5. IsFiniteSet(S) /\ IsFiniteSet(T)
  BY <1>2, <1>4, FS_Subset
<1>6. (\A x, y \in S : x = y) /\ \A x, y \in T : x = y
  BY <1>1, <1>2 DEF Orderly
<1>7. Cardinality(S) <= 1 /\ Cardinality(T) <= 1
  BY <1>5, <1>6, AtMostOne
<1>8. \A i \in T : \E j \in S : j < i
  BY <1>1, <1>2 DEF Orderly
<1>9. ASSUME Has(w, "prompt")
      PROVE  Cardinality(S) = 1
  <2>1. S # {}
    BY <1>9, <1>2 DEF Has
  <2>2. Cardinality(S) \in Nat /\ Cardinality(S) # 0
    BY <2>1, <1>5, FS_CardinalityType, FS_EmptySet
  <2> QED
    BY <2>2, <1>7
<1> QED
  BY <1>3, <1>7, <1>8, <1>9

(* Nothing is written or read at the start.                                  *)
LEMMA AdapterStarts ==
  ASSUME AdapterInit
  PROVE  AdapterInv
<1>1. /\ grammar \in {"acp", "pi"} /\ sent = <<>> /\ fed = 0 /\ stdoutStream = NewStream
      /\ verdict = "none"
  BY DEF AdapterInit
<1> DEFINE B == <<>>
<1>2. B \in Seq(Symbols) /\ Len(B) = 0
  OBVIOUS
<1>3. sent = B
  BY <1>1
<1> HIDE DEF B
<1>4. Read(B, 0, NewStream) /\ NewStream \in Streams /\ Driven(NewStream)
  BY <1>1, <1>2, ReadNothing
<1>5. NewStream.total = 0 /\ 0 <= MaxTotalBytes
  BY AdapterBounds DEF NewStream
<1>6. AdapterReads
  BY <1>1, <1>3, <1>4, <1>5 DEF AdapterReads
<1>7. VerdictIsTheTranscript
  BY <1>1 DEF VerdictIsTheTranscript
<1> QED
  BY <1>1, <1>2, <1>3, <1>4, <1>6, <1>7 DEF AdapterInv

(* The provider writes: what was read stays read.                            *)
LEMMA ProviderKeeps ==
  ASSUME AdapterInv, provider
  PROVE  AdapterInv'
<1>1. /\ verdict = "none" /\ verdict' = verdict /\ grammar' = grammar /\ fed' = fed
      /\ stdoutStream' = stdoutStream /\ cancelAsked' = cancelAsked
  BY DEF provider
<1>2. /\ grammar \in {"acp", "pi"} /\ sent \in Seq(Symbols) /\ fed \in Nat /\ fed <= Len(sent)
      /\ stdoutStream \in Streams /\ Driven(stdoutStream) /\ Read(sent, fed, stdoutStream)
      /\ ~stdoutStream.fatal => stdoutStream.total = fed /\ fed <= MaxTotalBytes
  BY <1>1 DEF AdapterInv, AdapterReads
<1>3. Kinds[grammar] = Kind
  BY <1>2 DEF Kinds, Kind
<1>4. Script \subseteq Kind
  BY <1>2 DEF Script, Kind, acpResponseEnvelope, responseEnvelope
<1>5. \E k \in Kind : \/ sent' = sent \o <<k>> \/ sent' = sent \o <<k, "nl">>
                      \/ sent' = Append(sent, "nl")
  <2>1. "garbage" \in Kind
    BY DEF Kind, acpResponseEnvelope, responseEnvelope
  <2> QED
    BY <2>1, <1>3, <1>4 DEF provider
<1> DEFINE B == sent
           C == sent'
<1>6. /\ C \in Seq(Symbols) /\ Len(B) \in Nat /\ Len(C) \in Nat /\ Len(B) <= Len(C)
      /\ \A i \in 1 .. Len(B) : C[i] = B[i]
  <2>1. PICK k \in Kind : C = B \o <<k>> \/ C = B \o <<k, "nl">> \/ C = Append(B, "nl")
    BY <1>5
  <2>2. B \in Seq(Symbols)
    BY <1>2
  <2> HIDE DEF B, C
  <2> QED
    BY <2>1, <2>2, WritesMore
<1>7. Read(C, fed, stdoutStream)
  <2> DEFINE p == fed
             s == stdoutStream
  <2>1. p \in Nat /\ p <= Len(B) /\ p <= Len(C) /\ B \in Seq(Symbols) /\ Read(B, p, s)
    BY <1>2, <1>6
  <2>2. \A i \in 1 .. p : C[i] = B[i]
    BY <2>1, <1>6
  <2> HIDE DEF B, C, p, s
  <2>3. Read(C, p, s)
    BY <2>1, <2>2, <1>6, ReadOther
  <2> QED
    BY <2>3 DEF p, s
<1>8. Symbols' = Symbols /\ Streams' = Streams
  BY <1>1, KindSame
<1>9. Read(sent, fed, stdoutStream)'
  BY <1>1, <1>7, ReadSettled
<1>10. AdapterReads'
  BY <1>1, <1>2, <1>9 DEF AdapterReads
<1>11. Driven(stdoutStream)'
  BY <1>1, <1>2, DrivenSettled
<1>12. VerdictIsTheTranscript'
  BY <1>1 DEF VerdictIsTheTranscript
<1>13. fed <= Len(sent')
  BY <1>2, <1>6
<1>14. sent' \in Seq(Symbols)
  BY <1>6
<1> HIDE DEF B, C
<1> QED
  BY <1>1, <1>2, <1>8, <1>10, <1>11, <1>12, <1>13, <1>14 DEF AdapterInv

(* A chunk of any size is pushed.                                            *)
LEMMA OnDataKeeps ==
  ASSUME AdapterInv, onData
  PROVE  AdapterInv'
<1>1. /\ verdict = "none" /\ verdict' = verdict /\ grammar' = grammar /\ sent' = sent
      /\ cancelAsked' = cancelAsked
  BY DEF onData
<1>2. /\ grammar \in {"acp", "pi"} /\ sent \in Seq(Symbols) /\ fed \in Nat /\ fed <= Len(sent)
      /\ stdoutStream \in Streams /\ Driven(stdoutStream) /\ Read(sent, fed, stdoutStream)
      /\ ~stdoutStream.fatal => stdoutStream.total = fed /\ fed <= MaxTotalBytes
  BY <1>1 DEF AdapterInv, AdapterReads
<1> DEFINE B == sent
           p == fed
           q == fed'
           s == stdoutStream
           t == stdoutStream'
<1>3. q \in p + 1 .. Len(B) /\ t = push(s, SubSeq(B, p + 1, q))
  BY DEF onData
<1>4. /\ B \in Seq(Symbols) /\ p \in Nat /\ q \in Nat /\ p < q /\ q <= Len(B) /\ s \in Streams
      /\ Driven(s) /\ Read(B, p, s) /\ (~s.fatal => s.total = p /\ p <= MaxTotalBytes)
  BY <1>2, <1>3
<1> HIDE DEF B, p, q, s, t
<1>5. /\ t \in Streams /\ Driven(t) /\ Read(B, q, t)
      /\ ~t.fatal => t.total = q /\ q <= MaxTotalBytes
  BY <1>2, <1>3, <1>4, PushKeeps
<1>6. Symbols' = Symbols /\ Streams' = Streams
  BY <1>1, KindSame
<1>7. /\ stdoutStream' \in Streams /\ Driven(stdoutStream') /\ Read(sent, fed', stdoutStream')
      /\ ~(stdoutStream').fatal => (stdoutStream').total = fed' /\ fed' <= MaxTotalBytes
      /\ fed' \in Nat /\ fed' <= Len(sent)
  BY <1>4, <1>5 DEF B, q, t
<1>8. Read(sent, fed, stdoutStream)'
  BY <1>1, <1>7, ReadSettled
<1>9. Driven(stdoutStream)'
  BY <1>1, <1>7, DrivenSettled
<1>10. AdapterReads'
  BY <1>7, <1>8 DEF AdapterReads
<1>11. VerdictIsTheTranscript'
  BY <1>1 DEF VerdictIsTheTranscript
<1> QED
  BY <1>1, <1>2, <1>6, <1>7, <1>9, <1>10, <1>11 DEF AdapterInv

(* The note that the run is to be cancelled, and the message if the prompt   *)
(* was written.                                                              *)
LEMMA CancelNoted ==
  ASSUME NEW s \in Streams, Driven(s), s.cancel = "idle", NEW u, u = [s EXCEPT !.cancel = "pending"],
         NEW t, t = IF Has(s.written, "prompt") THEN sendCancel(u) ELSE u
  PROVE  /\ t \in Streams /\ SameFramer(s, t) /\ SameCodec(s, t) /\ Orderly(t.written, t.cancel)
         /\ t.phase \in {"init", "session"} => ~t.closed /\ t.cancel # "sent" /\ ~Has(t.written, "prompt")
         /\ t.phase \in {"turn", "after", "complete"} => Has(t.written, "prompt")
<1> DEFINE c == "pending"
<1>0. c \in {"idle", "pending", "sent"} /\ u = [s EXCEPT !.cancel = c] /\ c # "sent"
  OBVIOUS
<1> HIDE DEF c
<1>1. /\ u \in Streams /\ SameFramer(s, u) /\ SameCodec(s, u)
      /\ u.cancel = c /\ u.written = s.written /\ u.closed = s.closed
  BY <1>0, CancelFields
<1>2. Orderly(u.written, u.cancel)
  <2>1. Orderly(s.written, s.cancel) /\ s.cancel # "sent"
    BY DEF Driven
  <2>2. Orderly(s.written, c)
    BY <2>1, OrderlyNote
  <2> QED
    BY <2>2, <1>1
<1>3. CASE ~Has(s.written, "prompt")
  <2>1. t = u
    BY <1>3
  <2> QED
    BY <2>1, <1>0, <1>1, <1>2 DEF Driven, SameCodec
<1>4. CASE Has(s.written, "prompt")
  <2>1. t = sendCancel(u) /\ Has(u.written, "prompt")
    BY <1>4, <1>1
  <2>2. /\ t \in Streams /\ SameFramer(u, t) /\ SameCodec(u, t)
        /\ Orderly(t.written, t.cancel) /\ Has(t.written, "prompt")
    BY <2>1, <1>1, <1>2, CancelKeeps
  <2>3. SameFramer(s, t) /\ SameCodec(s, t)
    BY <1>1, <2>2 DEF SameFramer, SameCodec
  <2>4. s.phase \notin {"init", "session"}
    BY <1>4 DEF Driven
  <2> QED
    BY <2>2, <2>3, <2>4 DEF SameCodec
<1> QED
  BY <1>3, <1>4

(* The request to cancel: the message waits for the prompt.                  *)
LEMMA RequestCancelKeeps ==
  ASSUME AdapterInv, requestCancel
  PROVE  AdapterInv'
<1>1. /\ verdict = "none" /\ verdict' = verdict /\ grammar' = grammar /\ sent' = sent
      /\ fed' = fed /\ ~cancelAsked /\ cancelAsked' = TRUE
  BY DEF requestCancel
<1>2. /\ grammar \in {"acp", "pi"} /\ sent \in Seq(Symbols) /\ fed \in Nat /\ fed <= Len(sent)
      /\ stdoutStream \in Streams /\ Driven(stdoutStream) /\ Read(sent, fed, stdoutStream)
      /\ ~stdoutStream.fatal => stdoutStream.total = fed /\ fed <= MaxTotalBytes
  BY <1>1 DEF AdapterInv, AdapterReads
<1> DEFINE B == sent
           p == fed
           s == stdoutStream
           u == [s EXCEPT !.cancel = "pending"]
           t == stdoutStream'
<1>3. t = IF Has(s.written, "prompt") THEN sendCancel(u) ELSE u
  BY DEF requestCancel, Requested, Has
<1>4. s \in Streams /\ Driven(s) /\ s.cancel = "idle" /\ Read(B, p, s)
  BY <1>1, <1>2 DEF Driven
<1> HIDE DEF B, p, s, t
<1>5. /\ t \in Streams /\ SameFramer(s, t) /\ SameCodec(s, t) /\ Orderly(t.written, t.cancel)
      /\ t.phase \in {"init", "session"} => ~t.closed /\ t.cancel # "sent" /\ ~Has(t.written, "prompt")
      /\ t.phase \in {"turn", "after", "complete"} => Has(t.written, "prompt")
  BY <1>3, <1>4, CancelNoted
<1>6. Read(B, p, t)
  <2>1. t.fatal = s.fatal /\ t.held = s.held /\ t.frames = s.frames
    BY <1>5 DEF SameFramer
  <2> QED
    BY <2>1, <1>4, <1>5, ReadSame
<1>7. /\ stdoutStream' \in Streams /\ Read(sent, fed, stdoutStream')
      /\ (stdoutStream').fatal = stdoutStream.fatal /\ (stdoutStream').total = stdoutStream.total
  BY <1>5, <1>6 DEF B, p, s, t, SameFramer
<1>8. Symbols' = Symbols /\ Streams' = Streams
  BY <1>1, KindSame
<1>9. Read(sent, fed, stdoutStream)'
  BY <1>1, <1>7, ReadSettled
<1>10. Driven(stdoutStream)'
  BY <1>1, <1>5 DEF Driven, t
<1>11. AdapterReads'
  BY <1>1, <1>2, <1>7, <1>9 DEF AdapterReads
<1>12. VerdictIsTheTranscript'
  BY <1>1 DEF VerdictIsTheTranscript
<1> QED
  BY <1>1, <1>2, <1>7, <1>8, <1>10, <1>11, <1>12 DEF AdapterInv

(* The output ended: the verdict is the one of the whole transcript.         *)
LEMMA FinishActionKeeps ==
  ASSUME AdapterInv, finish
  PROVE  AdapterInv'
<1>1. /\ verdict = "none" /\ grammar' = grammar /\ sent' = sent /\ fed' = fed
      /\ cancelAsked' = cancelAsked /\ fed = Len(sent)
      /\ stdoutStream' = LastCut(stdoutStream) /\ verdict' = finishCodec(stdoutStream')
  BY DEF finish, LastCut
<1>2. /\ grammar \in {"acp", "pi"} /\ sent \in Seq(Symbols) /\ fed \in Nat /\ fed <= Len(sent)
      /\ stdoutStream \in Streams /\ Driven(stdoutStream) /\ Read(sent, fed, stdoutStream)
      /\ ~stdoutStream.fatal => stdoutStream.total = fed /\ fed <= MaxTotalBytes
  BY <1>1 DEF AdapterInv, AdapterReads
<1> DEFINE B == sent
           s == stdoutStream
           t == stdoutStream'
<1>3. /\ B \in Seq(Symbols) /\ s \in Streams /\ Driven(s) /\ Read(B, Len(B), s)
      /\ ~s.fatal => Len(B) <= MaxTotalBytes
  BY <1>1, <1>2
<1>4. t = LastCut(s)
  BY <1>1
<1> HIDE DEF B, s, t
<1>5. /\ t \in Streams /\ Driven(t)
      /\ finishCodec(t) = "success" <=> Within(B) /\ Successful(Decodes(B))
  BY <1>2, <1>3, <1>4, FinishKeeps
<1>6. finishCodec(t) # "none"
  BY <1>5 DEF finishCodec, Streams
<1> DEFINE S == {i \in 1 .. Len(t.written) : t.written[i] = "prompt"}
           T == {i \in 1 .. Len(t.written) : t.written[i] = "cancel"}
<1>7. /\ finishCodec(t) = "success" => Cardinality(S) = 1
      /\ Cardinality(T) <= 1
      /\ \A i \in T : \E j \in S : j < i
  BY <1>5, WritesInOrder
<1>8. /\ stdoutStream' \in Streams /\ Driven(stdoutStream') /\ verdict' # "none"
      /\ verdict' = "success" <=> Within(sent) /\ Successful(Decodes(sent))
  BY <1>1, <1>5, <1>6 DEF B, t
<1>9. Symbols' = Symbols /\ Streams' = Streams
  BY <1>1, KindSame
<1>10. Driven(stdoutStream)'
  BY <1>1, <1>8, DrivenSettled
<1>11. VerdictIsTheTranscript'
  <2>1. /\ verdict' = "success" => Cardinality(S) = 1
        /\ Cardinality(T) <= 1
        /\ \A i \in T : \E j \in S : j < i
    BY <1>1, <1>7 DEF t
  <2>2. verdict' = "success" <=>
          /\ Within(sent')
          /\ IF grammar' = "acp" THEN SuccessfulAcp(Decodes(sent')) ELSE SuccessfulPi(Decodes(sent'))
    BY <1>1, <1>8 DEF Successful
  <2> QED
    BY <2>1, <2>2 DEF VerdictIsTheTranscript, Decodes, t
<1> QED
  BY <1>1, <1>2, <1>8, <1>9, <1>10, <1>11 DEF AdapterInv

(* A turn succeeds exactly when its whole transcript is a complete           *)
(* conversation.                                                             *)
THEOREM VerdictAlwaysTheTranscript == AdapterSpec => []VerdictIsTheTranscript
<1>1. AdapterInit => AdapterInv
  BY AdapterStarts
<1>2. AdapterInv /\ [AdapterNext]_adapterVars => AdapterInv'
  <2> SUFFICES ASSUME AdapterInv, [AdapterNext]_adapterVars
               PROVE  AdapterInv'
    OBVIOUS
  <2>1. CASE provider
    BY <2>1, ProviderKeeps
  <2>2. CASE onData
    BY <2>2, OnDataKeeps
  <2>3. CASE requestCancel
    BY <2>3, RequestCancelKeeps
  <2>4. CASE finish
    BY <2>4, FinishActionKeeps
  <2>5. CASE UNCHANGED adapterVars
    <3>1. /\ grammar' = grammar /\ sent' = sent /\ fed' = fed /\ stdoutStream' = stdoutStream
          /\ cancelAsked' = cancelAsked /\ verdict' = verdict
      BY <2>5 DEF adapterVars
    <3>2. Symbols' = Symbols /\ Streams' = Streams
      BY <3>1, KindSame
    <3>3. Driven(stdoutStream)'
      BY <3>1, DrivenSettled DEF AdapterInv
    <3>4. AdapterReads => AdapterReads'
      <4>1. Read(sent, fed, stdoutStream) => Read(sent, fed, stdoutStream)'
        BY <3>1, ReadSettled
      <4> QED
        BY <4>1, <3>1 DEF AdapterReads
    <3>5. VerdictIsTheTranscript'
      BY <3>1 DEF AdapterInv, VerdictIsTheTranscript
    <3> QED
      BY <3>1, <3>2, <3>3, <3>4, <3>5 DEF AdapterInv
  <2>6. CASE AdapterDone
    BY <2>5, <2>6 DEF AdapterDone
  <2> QED
    BY <2>1, <2>2, <2>3, <2>4, <2>5, <2>6 DEF AdapterNext
<1>3. AdapterInv => VerdictIsTheTranscript
  BY DEF AdapterInv
<1> QED
  BY <1>1, <1>2, <1>3, PTL DEF AdapterSpec
=============================================================================
