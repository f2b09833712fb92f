--------------------------- MODULE ProviderTurn ---------------------------
(* One run's provider turns: routing and reservation (runRoutedTurnCore,     *)
(* routing.ts), the child and its launch gate (runHeadlessChild), the cgroup *)
(* it runs in (scope.ts), the end of the run (finalize) and the recovery of  *)
(* what a dead incarnation left behind (reapAbandonedScopes).                *)
(* A physical call n owns scope n.  A process that ignores SIGKILL is a      *)
(* teardown that fails.                                                      *)
EXTENDS Integers

CONSTANTS MaxCalls,        \* physical calls in one behaviour
          MaxTurnCrashes   \* crashes

ASSUME TurnBounds == MaxCalls \in Nat \ {0} /\ MaxTurnCrashes \in Nat

Calls == 1..MaxCalls

VARIABLES
  parent,     \* "down", "up", "released" or "kept": the run and its lease
  turn,       \* the call in progress: [at, n, tag, proxy, stdin, closed, fatal,
              \* late, survived]
  members,    \* [Calls -> SUBSET {"leader", "descendant"}]: live in scope n
  execd,      \* calls whose gate was released
  teardown,   \* [Calls -> "none", "going", "proven", "failed"]: Scope.reap
  owned,      \* ctx.ownedScopes
  recorded,   \* the scope journal on disk
  calls,      \* [Calls -> what the ledger holds]
  answer,     \* [Calls -> the result the transport resolved with]
  cooling,    \* the health file: the primary is in its cooldown
  epoch,      \* the route epoch file
  turnCrashes

turnVars == <<parent, turn, members, execd, teardown, owned, recorded, calls,
              answer, cooling, epoch, turnCrashes>>

NoTurn == [at |-> "idle", n |-> 0, tag |-> "none", proxy |-> FALSE,
           stdin |-> "pending", closed |-> FALSE, fatal |-> FALSE,
           late |-> FALSE, survived |-> FALSE]
NoCall == [state |-> "none", tag |-> "none", epoch |-> 0]
NoAnswer == [transportOk |-> FALSE, scopeTrusted |-> FALSE, outcome |-> "none"]

TurnInit ==
  /\ parent = "up" /\ turn = NoTurn /\ turnCrashes = 0
  /\ members = [n \in Calls |-> {}] /\ execd = {} /\ owned = {} /\ recorded = {}
  /\ teardown = [n \in Calls |-> "none"]
  /\ calls = [n \in Calls |-> NoCall] /\ answer = [n \in Calls |-> NoAnswer]
  /\ cooling = FALSE /\ epoch = 0

n0 == turn.n
Made == {n \in Calls : calls[n].state # "none"}
InTurn(place) == parent = "up" /\ turn.at = place
To(place) == turn' = [turn EXCEPT !.at = place]
Reaping(n) == teardown' = [teardown EXCEPT ![n] = IF @ = "none" THEN "going" ELSE @]

-----------------------------------------------------------------------------
(* Routing.  The primary is chosen unless it is in its cooldown.  The        *)
(* adapter, its command and its boundary (for one provider an egress proxy)  *)
(* exist before the worst case is reserved under the current epoch, and      *)
(* nothing is launched before that.  A refusal on the way ends the turn.     *)
chooseActiveProvider == IF cooling THEN "alternate" ELSE "primary"

prepareCall ==
  /\ InTurn("idle") /\ Made # Calls
  /\ turn' = [NoTurn EXCEPT !.at = "prepare", !.tag = chooseActiveProvider]
  /\ UNCHANGED <<parent, members, execd, teardown, owned, recorded, calls, answer,
                 cooling, epoch, turnCrashes>>

exactNativeAvailability ==
  /\ InTurn("prepare") /\ turn' \in {[turn EXCEPT !.at = "boundary"], NoTurn}
  /\ UNCHANGED <<parent, members, execd, teardown, owned, recorded, calls, answer,
                 cooling, epoch, turnCrashes>>

openBoundary ==
  /\ InTurn("boundary") /\ \E proxied \in BOOLEAN :
       turn' \in {[turn EXCEPT !.at = "reserve", !.proxy = proxied], NoTurn}
  /\ UNCHANGED <<parent, members, execd, teardown, owned, recorded, calls, answer,
                 cooling, epoch, turnCrashes>>

reserve ==
  /\ InTurn("reserve")
  /\ \/ \E n \in Calls :
          /\ Made = 1..(n - 1) /\ turn' = [turn EXCEPT !.at = "open", !.n = n]
          /\ calls' = [calls EXCEPT ![n] =
               [state |-> "reserved", tag |-> turn.tag, epoch |-> epoch]]
     \/ turn' = NoTurn /\ UNCHANGED calls
  /\ UNCHANGED <<parent, members, execd, teardown, owned, recorded, answer,
                 cooling, epoch, turnCrashes>>

cooldownExpires ==
  /\ parent = "up" /\ cooling /\ cooling' = FALSE
  /\ UNCHANGED <<parent, turn, members, execd, teardown, owned, recorded, calls,
                 answer, epoch, turnCrashes>>

-----------------------------------------------------------------------------
(* No private transcript or a NUL byte: refused with nothing to contain; no  *)
(* scope: refused and not trusted; a spawn that throws leaves it empty.      *)
Resolved(trusted) ==
  To("settle") /\ answer' = [answer EXCEPT ![n0].scopeTrusted = trusted]

openTranscript ==
  /\ InTurn("open") /\ \/ To("scope") /\ UNCHANGED answer
                       \/ Resolved(TRUE)
  /\ UNCHANGED <<parent, members, execd, teardown, owned, recorded, calls,
                 cooling, epoch, turnCrashes>>

requireScopeBackend ==
  /\ InTurn("scope") /\ \/ To("spawn") /\ UNCHANGED answer
                        \/ Resolved(FALSE)
  /\ UNCHANGED <<parent, members, execd, teardown, owned, recorded, calls,
                 cooling, epoch, turnCrashes>>

spawnThrows ==
  /\ InTurn("spawn") /\ Resolved(TRUE)
  /\ UNCHANGED <<parent, members, execd, teardown, owned, recorded, calls,
                 cooling, epoch, turnCrashes>>

spawnGated ==
  /\ InTurn("spawn") /\ To("gated")
  /\ members' = [members EXCEPT ![n0] = {"leader"}] /\ owned' = owned \cup {n0}
  /\ UNCHANGED <<parent, execd, teardown, recorded, calls, answer, cooling,
                 epoch, turnCrashes>>

(* The scope line is appended and synced before the gate opens; a failed     *)
(* append may have left the line.                                            *)
recordLaunchedScope ==
  /\ InTurn("gated")
  /\ \/ To("recorded") /\ recorded' = recorded \cup {n0} /\ UNCHANGED teardown
     \/ /\ To("refused") /\ Reaping(n0)
        /\ recorded' \in {recorded, recorded \cup {n0}}
  /\ UNCHANGED <<parent, members, execd, owned, calls, answer, cooling, epoch,
                 turnCrashes>>

(* Variant: the gate opens as soon as the child is enrolled.                 *)
releaseLaunchGate_Early ==
  /\ parent = "up" /\ turn.at \in {"gated", "recorded"}
  /\ To("running") /\ execd' = execd \cup {n0}
  /\ UNCHANGED <<parent, members, teardown, owned, recorded, calls, answer,
                 cooling, epoch, turnCrashes>>

releaseLaunchGate ==
  /\ InTurn("recorded") /\ To("running") /\ execd' = execd \cup {n0}
  /\ UNCHANGED <<parent, members, teardown, owned, recorded, calls, answer,
                 cooling, epoch, turnCrashes>>

(* The start fact could not be written, or the launcher has no identity.     *)
beforeProviderExecFails ==
  /\ InTurn("recorded") /\ To("refused") /\ Reaping(n0)
  /\ UNCHANGED <<parent, members, execd, owned, recorded, calls, answer, cooling,
                 epoch, turnCrashes>>

Kept(n) == IF teardown[n] = "proven" THEN owned \ {n} ELSE owned

refuseLaunch ==
  /\ InTurn("refused") /\ teardown[n0] \in {"proven", "failed"}
  /\ Resolved(teardown[n0] = "proven")
  /\ owned' = Kept(n0)
  /\ UNCHANGED <<parent, members, execd, teardown, recorded, calls, cooling,
                 epoch, turnCrashes>>

-----------------------------------------------------------------------------
(* The provider: it may leave a descendant, and its processes end alone.     *)
fork ==
  /\ \E n \in execd : /\ "leader" \in members[n] /\ "descendant" \notin members[n]
                      /\ members' = [members EXCEPT ![n] = @ \cup {"descendant"}]
  /\ UNCHANGED <<parent, turn, execd, teardown, owned, recorded, calls, answer,
                 cooling, epoch, turnCrashes>>

exits ==
  /\ \E n \in Calls : \E p \in members[n] :
       members' = [members EXCEPT ![n] = @ \ {p}]
  /\ UNCHANGED <<parent, turn, execd, teardown, owned, recorded, calls, answer,
                 cooling, epoch, turnCrashes>>

onClose ==
  /\ InTurn("running") /\ "leader" \notin members[n0] /\ ~turn.closed
  /\ turn' = [turn EXCEPT !.closed = TRUE]
  /\ UNCHANGED <<parent, members, execd, teardown, owned, recorded, calls, answer,
                 cooling, epoch, turnCrashes>>

onStdin ==
  /\ InTurn("running") /\ turn.stdin = "pending"
  /\ \E s \in {"complete", "broken"} : turn' = [turn EXCEPT !.stdin = s]
  /\ UNCHANGED <<parent, members, execd, teardown, owned, recorded, calls, answer,
                 cooling, epoch, turnCrashes>>

(* A frame, count or total over its ceiling tears the scope down at once.    *)
onFatalOutput ==
  /\ InTurn("running") /\ ~turn.fatal
  /\ turn' = [turn EXCEPT !.fatal = TRUE] /\ Reaping(n0)
  /\ UNCHANGED <<parent, members, execd, owned, recorded, calls, answer, cooling,
                 epoch, turnCrashes>>

onTimeout ==
  /\ InTurn("running")
  /\ turn' = [turn EXCEPT !.at = "reaping", !.late = TRUE] /\ Reaping(n0)
  /\ UNCHANGED <<parent, members, execd, owned, recorded, calls, answer, cooling,
                 epoch, turnCrashes>>

(* Cancellation and signals share the teardown of every owned scope.         *)
tearDownOwned ==
  /\ parent = "up" /\ owned # {}
  /\ teardown' = [n \in Calls |-> IF n \in owned /\ teardown[n] = "none"
                                  THEN "going" ELSE teardown[n]]
  /\ UNCHANGED <<parent, turn, members, execd, owned, recorded, calls, answer,
                 cooling, epoch, turnCrashes>>

(* SIGTERM, grace, cgroup.kill, wait, rmdir: the removal is the proof.       *)
reap ==
  /\ parent = "up"
  /\ \E n \in Calls :
       /\ teardown[n] = "going"
       /\ \/ /\ teardown' = [teardown EXCEPT ![n] = "proven"]
             /\ members' = [members EXCEPT ![n] = {}]
          \/ /\ members[n] # {} /\ teardown' = [teardown EXCEPT ![n] = "failed"]
             /\ UNCHANGED members
  /\ UNCHANGED <<parent, turn, execd, owned, recorded, calls, answer, cooling,
                 epoch, turnCrashes>>

-----------------------------------------------------------------------------
(* The end of a child whose prompt settled: survivors are looked for, then   *)
(* the scope is torn down.                                                   *)
maybeFinish ==
  /\ InTurn("running") /\ turn.closed /\ turn.stdin # "pending"
  /\ turn' = [turn EXCEPT !.at = "reaping", !.survived = members[n0] # {}]
  /\ Reaping(n0)
  /\ UNCHANGED <<parent, members, execd, owned, recorded, calls, answer, cooling,
                 epoch, turnCrashes>>

reaped ==
  /\ InTurn("reaping") /\ teardown[n0] \in {"proven", "failed"}
  /\ To("finish") /\ owned' = Kept(n0)
  /\ UNCHANGED <<parent, members, execd, teardown, recorded, calls, answer,
                 cooling, epoch, turnCrashes>>

(* The child closed and stdin never settled: the turn ends after two         *)
(* seconds, without a teardown.                                              *)
stdinGrace ==
  /\ InTurn("running") /\ turn.closed /\ turn.stdin = "pending"
  /\ turn' = [turn EXCEPT !.at = "finish", !.stdin = "broken"]
  /\ UNCHANGED <<parent, members, execd, teardown, owned, recorded, calls, answer,
                 cooling, epoch, turnCrashes>>

(* A transcript that cannot be verified is one more reason; a verdict exists *)
(* only if the framing held.                                                 *)
doFinish ==
  /\ InTurn("finish") /\ To("settle")
  /\ \E durable \in BOOLEAN, verdict \in {"ok", "limit", "error"} :
       LET sound == /\ durable /\ turn.stdin = "complete"
                    /\ ~turn.late /\ ~turn.survived /\ ~turn.fatal
           trusted == ~turn.late /\ ~turn.survived
       IN answer' = [answer EXCEPT ![n0] =
            [transportOk |-> sound, scopeTrusted |-> trusted,
             outcome |-> IF turn.fatal THEN "error" ELSE verdict]]
  /\ UNCHANGED <<parent, members, execd, teardown, owned, recorded, calls,
                 cooling, epoch, turnCrashes>>

(* The proxy is drained before the call may be settled with authority; a     *)
(* drain that cannot be proven throws, and the finally settles the worst     *)
(* case.                                                                     *)
closeGrokBoundary ==
  /\ InTurn("settle") /\ turn.proxy
  /\ \/ turn' = [turn EXCEPT !.proxy = FALSE] /\ UNCHANGED calls
     \/ turn' = NoTurn /\ calls' = [calls EXCEPT ![n0].state = "uncertain"]
  /\ UNCHANGED <<parent, members, execd, teardown, owned, recorded, answer,
                 cooling, epoch, turnCrashes>>

turnOutcome(n) ==
  IF answer[n].outcome = "limit" /\ ~(answer[n].transportOk /\ answer[n].scopeTrusted)
  THEN "error" ELSE answer[n].outcome

(* The kernel re-derives the transcript and probes the scope: authority only *)
(* over a proven one.  Anything else retains the worst case.                 *)
settleCompleted ==
  /\ InTurn("settle") /\ ~turn.proxy /\ To("routed")
  /\ LET sound == answer[n0].transportOk /\ teardown[n0] = "proven"
         granted == CASE sound /\ answer[n0].outcome = "ok" -> {"trusted"}
                      [] sound /\ answer[n0].outcome = "limit" -> {"fallback"}
                      [] OTHER -> {}
     IN \E s \in granted \cup {"uncertain"} : calls' = [calls EXCEPT ![n0].state = s]
  /\ UNCHANGED <<parent, members, execd, teardown, owned, recorded, answer,
                 cooling, epoch, turnCrashes>>

-----------------------------------------------------------------------------
(* A primary's proven rejection starts the cooldown, then a new route epoch, *)
(* then the fallback's own reservation.                                      *)
(* Variant: the live verdict is enough to bill a second provider.            *)
FallbackAllowed_Unproven(n) == calls[n].tag = "primary" /\ answer[n].outcome = "limit"

FallbackAllowed(n) ==
  /\ calls[n].tag = "primary" /\ turnOutcome(n) = "limit"
  /\ calls[n].state = "fallback"

markCooldown ==
  /\ InTurn("routed") /\ FallbackAllowed(n0) /\ To("cooled") /\ cooling' = TRUE
  /\ UNCHANGED <<parent, members, execd, teardown, owned, recorded, calls, answer,
                 epoch, turnCrashes>>

bumpRouteEpoch ==
  /\ InTurn("cooled") /\ To("bumped") /\ epoch' = epoch + 1
  /\ UNCHANGED <<parent, members, execd, teardown, owned, recorded, calls, answer,
                 cooling, turnCrashes>>

(* The second call is prepared and reserved like the first.                  *)
runFallback ==
  /\ InTurn("bumped") /\ Made # Calls
  /\ turn' = [NoTurn EXCEPT !.at = "prepare", !.tag = "fallback"]
  /\ UNCHANGED <<parent, members, execd, teardown, owned, recorded, calls, answer,
                 cooling, epoch, turnCrashes>>

turnEnds ==
  /\ \/ InTurn("routed") /\ ~FallbackAllowed(n0)
     \/ InTurn("bumped") /\ Made = Calls
  /\ turn' = NoTurn
  /\ UNCHANGED <<parent, members, execd, teardown, owned, recorded, calls, answer,
                 cooling, epoch, turnCrashes>>

-----------------------------------------------------------------------------
(* The run ends between turns: every owned scope is awaited, and the lease   *)
(* is kept over one that is not proven empty.                                *)
finalize ==
  /\ InTurn("idle") /\ \A n \in owned : teardown[n] \in {"proven", "failed"}
  /\ owned' = {n \in owned : teardown[n] = "failed"}
  /\ parent' = IF owned' = {} THEN "released" ELSE "kept"
  /\ UNCHANGED <<turn, members, execd, teardown, recorded, calls, answer, cooling,
                 epoch, turnCrashes>>

(* A gated child reads the end of its gate and exits; a released one lives   *)
(* on.  The epoch written but not yet used is kept or lost.                  *)
TurnCrash ==
  /\ parent = "up" /\ turnCrashes < MaxTurnCrashes /\ parent' = "down"
  /\ turnCrashes' = turnCrashes + 1 /\ turn' = NoTurn /\ owned' = {}
  /\ members' = [n \in Calls |-> IF n \in execd THEN members[n] ELSE {}]
  /\ teardown' = [n \in Calls |-> "none"]
  /\ epoch' \in {epoch} \cup (IF turn.at = "cooled" THEN {epoch + 1} ELSE {})
  /\ UNCHANGED <<execd, recorded, calls, answer, cooling>>

(* The next incarnation proves every recorded scope dead or stays blocked;   *)
(* the lines still owing a proof are retained.                               *)
reapAbandonedScopes ==
  /\ parent # "up"
  /\ \E dead \in SUBSET recorded :
       /\ \A n \in recorded \ dead : members[n] # {}
       /\ members' = [n \in Calls |-> IF n \in dead THEN {} ELSE members[n]]
       /\ recorded' \in {recorded, recorded \ dead}
       /\ parent' = IF dead = recorded THEN "up" ELSE "down"
  /\ teardown' = [n \in Calls |-> "none"] /\ owned' = {}
  /\ UNCHANGED <<turn, execd, calls, answer, cooling, epoch, turnCrashes>>

TurnNext ==
  \/ prepareCall \/ exactNativeAvailability \/ openBoundary \/ reserve
  \/ cooldownExpires \/ closeGrokBoundary \/ openTranscript
  \/ requireScopeBackend \/ spawnThrows \/ spawnGated
  \/ recordLaunchedScope \/ releaseLaunchGate \/ beforeProviderExecFails
  \/ refuseLaunch \/ fork \/ exits \/ onClose \/ onStdin \/ onFatalOutput
  \/ onTimeout \/ tearDownOwned \/ reap \/ maybeFinish \/ reaped \/ stdinGrace
  \/ doFinish \/ settleCompleted \/ markCooldown \/ bumpRouteEpoch \/ runFallback
  \/ turnEnds \/ finalize \/ TurnCrash \/ reapAbandonedScopes

TurnSpec == TurnInit /\ [][TurnNext]_turnVars

-----------------------------------------------------------------------------
(* Calls with a live provider process: one whose gate was released.          *)
Live == {n \in execd : members[n] # {}}

(* A provider that runs can always be found and killed: its scope is in the  *)
(* journal, whatever crashed; while a process works every live scope is one  *)
(* it owns; and a released lease leaves nothing alive.                       *)
ProvidersAccountedFor ==
  /\ Live \subseteq recorded
  /\ parent = "up" => Live \subseteq owned
  /\ parent = "released" => Live = {}

(* A second provider is billed for a turn only after the first one's         *)
(* rejection is durable with the ledger's authority, its scope is proven     *)
(* empty, and the route has a later epoch.                                   *)
FallbackStandsAlone ==
  \A n \in Calls : calls[n].tag = "fallback" =>
    /\ calls[n - 1].state = "fallback" /\ calls[n - 1].epoch < calls[n].epoch
    /\ members[n - 1] = {} /\ answer[n - 1].transportOk

(* "We resolve only AFTER the teardown - never over a live provider-owned    *)
(* scope": a call whose transport has resolved was torn down, or the         *)
(* teardown was tried and failed.                                            *)
ResolvedAfterTeardown ==
  InTurn("routed") /\ members[n0] # {} => teardown[n0] = "failed"
=============================================================================
