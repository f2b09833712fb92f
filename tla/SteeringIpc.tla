----------------------------- MODULE SteeringIpc -----------------------------
(***************************************************************************)
(* The operator's way into a run (src/steering/ipc.ts, service.ts,         *)
(* reducer.ts, repository.ts): a run parent publishes a private socket and *)
(* a locator that names it, a CLI process sends one request per            *)
(* connection, and the parent decides it over the canonical event log.     *)
(*                                                                         *)
(* Node runs one callback at a time, so a decision is synchronous inside   *)
(* its parent; other processes run between its system calls.  A parent can *)
(* be killed anywhere, and it can lose the lease chain while it lives      *)
(* (assertAuthority): its successor then shares the log with it, which is  *)
(* what the compare-and-append at the head is for.                         *)
(*                                                                         *)
(* An inode is named by the parent that made it.  Requests name this run's *)
(* identity: any other ends at assertLocatorMatches in the client, having  *)
(* touched nothing.  `steering' is the replay of the log by the steering   *)
(* reducer, which every snapshot repeats from genesis; the bytes of a      *)
(* command are its semantic digest `req'.                                  *)
(***************************************************************************)
EXTENDS Naturals, Sequences, FiniteSets

CONSTANTS
    IpcParents,     \* bound: incarnations of the run parent, 1..n
    IpcClients,     \* CLI processes
    AdmitRequests,  \* requests of `steer admit': [op, id, body, sup, exp]
    WithdrawRequests, \* requests of `steer withdraw': [op, id, reason]
    MaxCasRetries,  \* ParentSteeringServiceOptions.maxCasRetries
    MaxSends,       \* bound: connections the clients attempt
    MaxLogged       \* bound: events the delivery loop appends

ASSUME IpcBounds ==
    /\ IpcParents \subseteq Nat \ {0} /\ "gone" \notin IpcClients
    /\ \A r \in AdmitRequests : r.op = "admit"
    /\ \A r \in WithdrawRequests : r.op = "withdraw"
    /\ MaxCasRetries \in Nat \ {0}
    /\ MaxSends \in Nat /\ MaxLogged \in Nat

VARIABLES
    parentAt,   \* where each incarnation is in startSteeringIpcServer
    authority,  \* the incarnation that holds the lease chain, or 0
    leaf,       \* the socket in the runtime directory: who bound it, its mode
    locator,    \* .steer.endpoint.json: who published it, its link count
    cli,        \* the connection of each CLI process
    deciding,   \* the decision a parent is inside (casLoop), or Idle
    orphans,    \* requests on the wire whose client has gone
    steering,   \* SteeringProjection: the replay of the log
    session,    \* what the control projection says of the target session
    due,        \* whether the expiry that commands may carry has passed
    sends, logged,
    answers     \* history: the results the CLI processes printed

ipcVars == <<parentAt, authority, leaf, locator, cli, deciding, orphans, steering, session,
             due, sends, logged, answers>>
endpointVars == <<leaf, locator>>
logVars == <<steering, session, due, logged>>

Requests == AdmitRequests \cup WithdrawRequests
CommandIds == {r.id : r \in Requests} \cup ({r.sup : r \in AdmitRequests} \ {"none"})
NoLeaf == [by |-> 0, private |-> FALSE]
NoLocator == [by |-> 0, links |-> 0]
NoConn == [st |-> "idle"]
Idle == [st |-> "idle", from |-> "gone"]
NoCommand == [st |-> "none", req |-> "none", adm |-> 0, term |-> 0, why |-> "none"]

(* emptySteeringProjection; `ok' is lost when an event cannot be applied.  *)
emptySteeringProjection ==
    [ok |-> TRUE, seq |-> 0, commands |-> [i \in CommandIds |-> NoCommand], manifests |-> <<>>]

IpcInit ==
    /\ parentAt = [p \in IpcParents |-> "none"]
    /\ authority = 0
    /\ leaf = NoLeaf /\ locator = NoLocator
    /\ cli = [c \in IpcClients |-> NoConn]
    /\ deciding = [p \in IpcParents |-> Idle]
    /\ orphans = {}
    /\ steering = emptySteeringProjection
    /\ session = "waiting" /\ due = FALSE
    /\ sends = 0 /\ logged = 0 /\ answers = {}

-----------------------------------------------------------------------------
(* The steering reducer: one canonical event applied to the projection.    *)

broken(p) == [p EXCEPT !.ok = FALSE]

pendingIn(p, i) == p.commands[i].st = "pending"
isManifestReserved(p, i) ==
    \E m \in 1..Len(p.manifests) : \E k \in 1..Len(p.manifests[m].ids) : p.manifests[m].ids[k] = i

(* incompletePromptBinding: the inclusions of a prepared prompt follow it  *)
(* at once, in the order of its manifest.                                  *)
incompletePromptBinding(p) ==
    {i \in CommandIds :
        /\ pendingIn(p, i)
        /\ \E m \in 1..Len(p.manifests) : LET ids == p.manifests[m].ids IN
             \E k \in 1..Len(ids) :
                ids[k] = i /\ \A j \in 1..(k - 1) : ~pendingIn(p, ids[j])}

Terminal(p, i, st, why) ==
    [p EXCEPT !.commands[i] = [@ EXCEPT !.st = st, !.term = p.seq + 1, !.why = why]]

applyPrepared(p, e) ==
    IF /\ e.cutoff = p.seq
       /\ \A k \in 1..Len(e.ids) :
            /\ pendingIn(p, e.ids[k]) /\ ~isManifestReserved(p, e.ids[k])
            /\ ~(p.commands[e.ids[k]].req.exp /\ e.late)
            /\ \A j \in 1..(k - 1) : p.commands[e.ids[j]].adm < p.commands[e.ids[k]].adm
    THEN [p EXCEPT !.manifests = Append(@, [ids |-> e.ids, at |-> p.seq + 1])]
    ELSE broken(p)

applyAdmitted(p, e) ==
    IF /\ p.commands[e.req.id].st = "none"
       /\ ~(e.req.exp /\ e.late)
       /\ e.req.sup = "none" \/ (pendingIn(p, e.req.sup) /\ ~isManifestReserved(p, e.req.sup))
    THEN [p EXCEPT !.commands[e.req.id] = [NoCommand EXCEPT !.st = "pending", !.req = e.req,
                                                            !.adm = p.seq + 1]]
    ELSE broken(p)

applyRefused(p, e) ==
    IF p.commands[e.req.id].st = "none"
    THEN [p EXCEPT !.commands[e.req.id] = [NoCommand EXCEPT !.st = "refused", !.req = e.req,
                                                            !.term = p.seq + 1]]
    ELSE broken(p)

applyTerminalRefused(p, e) ==
    IF pendingIn(p, e.id) /\ ~isManifestReserved(p, e.id)
    THEN Terminal(p, e.id, "refused", "none") ELSE broken(p)

applyIncluded(p, e) ==
    LET m == Len(p.manifests) IN
    IF /\ pendingIn(p, e.id) /\ m > 0
       /\ \E k \in 1..Len(p.manifests[m].ids) :
            p.manifests[m].ids[k] = e.id /\ p.seq + 1 = p.manifests[m].at + k
    THEN Terminal(p, e.id, "included", "none") ELSE broken(p)

applyWithdrawn(p, e) ==
    IF pendingIn(p, e.id) /\ ~isManifestReserved(p, e.id)
    THEN Terminal(p, e.id, "withdrawn", e.reason) ELSE broken(p)

applySuperseded(p, e) ==
    IF /\ pendingIn(p, e.id) /\ ~isManifestReserved(p, e.id)
       /\ pendingIn(p, e.by) /\ p.commands[e.by].req.sup = e.id
    THEN Terminal(p, e.id, "superseded", e.by) ELSE broken(p)

applyExpired(p, e) ==
    IF pendingIn(p, e.id) /\ ~isManifestReserved(p, e.id) /\ p.commands[e.id].req.exp /\ e.late
    THEN Terminal(p, e.id, "expired", "none") ELSE broken(p)

(* assertSteeringProjectionConsistent, which every application starts with *)
(* (restoreSteeringProjection).                                            *)
assertSteeringProjectionConsistent(p) ==
    /\ \A m \in 1..Len(p.manifests) : LET ids == p.manifests[m].ids IN
        \A k \in 1..Len(ids) : LET c == p.commands[ids[k]] IN
            /\ \A n \in 1..Len(p.manifests) : n # m =>
                  \A j \in 1..Len(p.manifests[n].ids) : p.manifests[n].ids[j] # ids[k]
            /\ c.st \in {"pending", "included"}
            /\ c.adm < p.manifests[m].at
            /\ c.st = "included" => c.term = p.manifests[m].at + k
            /\ \A j \in 1..(k - 1) : p.commands[ids[j]].adm < c.adm
    /\ \A i \in CommandIds : LET c == p.commands[i] IN
        /\ c.st = "included" => isManifestReserved(p, i)
        /\ c.st = "superseded" => p.commands[c.why].st # "none" /\ p.commands[c.why].req.sup = i
        /\ c.st = "expired" => c.req.exp

(* applySteeringEvent: an open prompt binding admits nothing but its next  *)
(* inclusion; an event of another component only moves the sequence.       *)
applySteeringEvent(p, e) ==
    LET next == incompletePromptBinding(p)
        q == CASE e.type = "prepared" -> applyPrepared(p, e)
               [] e.type = "admitted" -> applyAdmitted(p, e)
               [] e.type = "refused" -> applyRefused(p, e)
               [] e.type = "terminal_refused" -> applyTerminalRefused(p, e)
               [] e.type = "included" -> applyIncluded(p, e)
               [] e.type = "withdrawn" -> applyWithdrawn(p, e)
               [] e.type = "superseded" -> applySuperseded(p, e)
               [] e.type = "expired" -> applyExpired(p, e)
               [] OTHER -> p
    IN  IF /\ p.ok /\ assertSteeringProjectionConsistent(p)
           /\ next = {} \/ (e.type = "included" /\ e.id \in next)
        THEN [q EXCEPT !.seq = p.seq + 1]
        ELSE broken(p)

reduceSteeringEvents(p, es) ==
    LET after[k \in 0..Len(es)] ==
            IF k = 0 THEN p ELSE applySteeringEvent(after[k - 1], es[k])
    IN  after[Len(es)]

-----------------------------------------------------------------------------
(* ParentSteeringService: what a request is answered, and the events that  *)
(* have to be appended first.  Both are computed from one snapshot.        *)

Answer(kind, seq) == [ok |-> TRUE, kind |-> kind, seq |-> seq]
Failure == [ok |-> FALSE, kind |-> "error", seq |-> 0]

(* refusalDecision, with `late' from the time the request was first seen.  *)
refusalDecision(r, late) ==
    \/ r.exp /\ late
    \/ session \in {"blocked", "over"}
    \/ r.sup # "none" /\ ~(pendingIn(steering, r.sup) /\ ~isManifestReserved(steering, r.sup))

\* Mutant: a retry is recognised by its command id alone.
resolveExistingAdmission_ById(r) ==
    LET old == steering.commands[r.id] IN
    IF old.st = "refused" /\ old.adm = 0 THEN Answer("refused", old.term)
    ELSE Answer("admitted", old.adm)

(* resolveExistingAdmission: an exact retry gets the recorded decision, a  *)
(* request that differs in any immutable field is a conflict.              *)
resolveExistingAdmission(r) ==
    LET old == steering.commands[r.id] IN
    IF old.req # r THEN Failure
    ELSE IF old.st = "refused" THEN Answer("refused", old.term)
    ELSE Answer("admitted", old.adm)

Decision(reply, events) == [reply |-> reply, events |-> events]

admissionEvent(r, late) == [type |-> "admitted", req |-> r, late |-> late]
decisionEvent(r) == [type |-> "refused", req |-> r]
supersessionEvent(r) == [type |-> "superseded", id |-> r.sup, by |-> r.id]
withdrawalEvent(r) == [type |-> "withdrawn", id |-> r.id, reason |-> r.reason]
expiryEvent(i) == [type |-> "expired", id |-> i, late |-> due]

admit(r, late) ==
    IF steering.commands[r.id].st # "none" THEN Decision(resolveExistingAdmission(r), <<>>)
    ELSE IF refusalDecision(r, late)
    THEN Decision(Answer("refused", steering.seq + 1), <<decisionEvent(r)>>)
    ELSE Decision(Answer("admitted", steering.seq + 1),
                  <<admissionEvent(r, late)>> \o
                  (IF r.sup = "none" THEN <<>>
                   ELSE <<supersessionEvent(r)>>))

withdraw(r) ==
    LET old == steering.commands[r.id] IN
    CASE old.st = "withdrawn" ->
           Decision(IF old.why = r.reason THEN Answer("withdrawn", old.term) ELSE Failure, <<>>)
      [] old.st = "pending" /\ ~isManifestReserved(steering, r.id) ->
           Decision(Answer("withdrawn", steering.seq + 1), <<withdrawalEvent(r)>>)
      [] OTHER -> Decision(Failure, <<>>)

decide(r, late) == IF r.op = "admit" THEN admit(r, late) ELSE withdraw(r)

(* A reply reaches the client that still waits for it on this connection.  *)
replyTo(c, reply) ==
    cli' = IF c \in IpcClients THEN [cli EXCEPT ![c].st = "answered", ![c].reply = reply] ELSE cli

(* One turn of casLoop up to the append: the snapshot is a replay of the   *)
(* whole log and fails with it, and a decision that needs no event is      *)
(* answered from it.                                                       *)
snapshot(p, j) ==
    LET d == decide(j.req, j.late) IN
    IF steering.ok /\ d.events # <<>>
    THEN /\ deciding' = [deciding EXCEPT ![p] = [j EXCEPT !.head = steering.seq]]
         /\ cli' = cli
    ELSE /\ deciding' = [deciding EXCEPT ![p] = Idle]
         /\ replyTo(j.from, IF steering.ok THEN d.reply ELSE Failure)

Job(from, r) ==
    [st |-> "deciding", from |-> from, req |-> r, late |-> due, head |-> 0, tries |-> 1]

(* The `end' of a request: refused while draining or without the lease     *)
(* chain, otherwise handed to the service.                                 *)
onEnd(p, c) ==
    /\ cli[c].st = "sent" /\ cli[c].to = p
    /\ parentAt[p] = "serving" /\ deciding[p] = Idle
    /\ IF authority = p
       THEN snapshot(p, Job(c, cli[c].req))
       ELSE replyTo(c, Failure) /\ UNCHANGED deciding
    /\ UNCHANGED <<parentAt, authority, endpointVars, orphans, logVars, sends, answers>>

(* The same for a request whose client has gone: it may have been read     *)
(* before the connection was reset, or not.                                *)
onEndOrphan(p, o) ==
    /\ o \in orphans /\ o.to = p
    /\ parentAt[p] = "serving" /\ deciding[p] = Idle
    /\ orphans' = orphans \ {o}
    /\ IF authority = p
       THEN snapshot(p, Job("gone", o.req))
       ELSE UNCHANGED <<deciding, cli>>
    /\ UNCHANGED <<parentAt, authority, endpointVars, logVars, sends, answers>>

(* appendAtHead: appendBatchIf commits at the head the decision was made   *)
(* at, and otherwise the loop starts over, maxCasRetries times in all.     *)
appendAtHead(p) ==
    LET j == deciding[p]  d == decide(j.req, j.late) IN
    /\ j.st = "deciding"
    /\ IF j.head = steering.seq
       THEN /\ steering' = reduceSteeringEvents(steering, d.events)
            /\ deciding' = [deciding EXCEPT ![p] = Idle]
            /\ replyTo(j.from, d.reply)
       ELSE /\ UNCHANGED steering
            /\ IF j.tries < MaxCasRetries
               THEN snapshot(p, [j EXCEPT !.tries = @ + 1])
               ELSE deciding' = [deciding EXCEPT ![p] = Idle] /\ replyTo(j.from, Failure)
    /\ UNCHANGED <<parentAt, authority, endpointVars, orphans, session, due, logged, sends,
                   answers>>

(* expire: a command whose expiry has passed and that no prompt took.  The *)
(* exported service offers it; no code of the product calls it.            *)
expire(p, i) ==
    /\ parentAt[p] = "serving" /\ authority = p /\ deciding[p] = Idle /\ steering.ok
    /\ pendingIn(steering, i) /\ ~isManifestReserved(steering, i)
    /\ steering.commands[i].req.exp /\ due
    /\ steering' = reduceSteeringEvents(steering, <<expiryEvent(i)>>)
    /\ UNCHANGED <<parentAt, authority, endpointVars, cli, deciding, orphans, session, due, logged,
                   sends, answers>>

-----------------------------------------------------------------------------
(* The other writers of the log: the delivery loop of the same parent.     *)

LoopRuns(p) == parentAt[p] = "serving" /\ deciding[p] = Idle /\ steering.ok /\ logged < MaxLogged

Untouched == UNCHANGED <<parentAt, authority, endpointVars, cli, deciding, orphans, due, sends,
                         answers>>

(* Events about the task and its session: the turn ends, fails or is       *)
(* blocked, the block is lifted, the task is over.                         *)
sessionMoves(p, s) ==
    /\ LoopRuns(p)
    /\ <<session, s>> \in {<<"active", "waiting">>, <<"active", "blocked">>, <<"blocked", "waiting">>,
                           <<"waiting", "over">>, <<"blocked", "over">>}
    /\ session' = s
    /\ steering' = reduceSteeringEvents(steering, <<[type |-> "other"]>>)
    /\ logged' = logged + 1
    /\ Untouched

(* selectSteeringBoundary: eligible commands in the order of admission.    *)
selectBoundary(late) ==
    LET eligible == {i \in CommandIds :
                        /\ pendingIn(steering, i) /\ ~isManifestReserved(steering, i)
                        /\ ~(steering.commands[i].req.exp /\ late)}
        n == Cardinality(eligible)
    IN  CHOOSE ids \in [1..n -> eligible] :
            \A j, k \in 1..n : j < k => steering.commands[ids[j]].adm < steering.commands[ids[k]].adm

(* prepareAttemptPrompt: the manifest and its inclusions are one batch.    *)
prepareAttemptPrompt(p) ==
    LET ids == selectBoundary(due) IN
    /\ LoopRuns(p) /\ session = "waiting"
    /\ session' = "active"
    /\ steering' = reduceSteeringEvents(steering,
            <<[type |-> "prepared", ids |-> ids, cutoff |-> steering.seq, late |-> due]>> \o
            [k \in 1..Len(ids) |-> [type |-> "included", id |-> ids[k]]])
    /\ logged' = logged + 1
    /\ Untouched

(* reconcileTerminalPendingCommands, in the recovery of a new parent.      *)
refuseTerminalPending(p, i) ==
    /\ parentAt[p] = "recover" /\ steering.ok /\ session = "over"
    /\ pendingIn(steering, i) /\ ~isManifestReserved(steering, i)
    /\ steering' = reduceSteeringEvents(steering, <<[type |-> "terminal_refused", id |-> i]>>)
    /\ UNCHANGED <<session, logged>>
    /\ Untouched

expiryPasses ==
    /\ ~due /\ due' = TRUE
    /\ UNCHANGED <<parentAt, authority, endpointVars, cli, deciding, orphans, steering, session,
                   logged, sends, answers>>

-----------------------------------------------------------------------------
(* startSteeringIpcServer and closeAndDrain, one action per system call    *)
(* another process can see.                                                *)

Unrelated == UNCHANGED <<logVars, sends, answers>>
Listening(p) == parentAt[p] \in {"bound", "private", "linked", "published", "serving", "closing"}
GoTo(p, s) == parentAt' = [parentAt EXCEPT ![p] = s]

(* A dead or closed parent's connections end without an answer; a reply    *)
(* that was already flushed can still be read.                             *)
hangUp(p) ==
    /\ cli' = [c \in IpcClients |->
                 IF cli[c].st \in {"connected", "sent"} /\ cli[c].to = p THEN NoConn ELSE cli[c]]
    /\ orphans' = {o \in orphans : o.to # p}
    /\ deciding' = [deciding EXCEPT ![p] = Idle]

acquireLeases(p) ==
    /\ parentAt[p] = "none" /\ authority = 0
    /\ \A q \in IpcParents : q < p => parentAt[q] # "none"
    /\ authority' = p /\ GoTo(p, "recover")
    /\ UNCHANGED <<endpointVars, cli, deciding, orphans>> /\ Unrelated

(* The startup or the run ends in an error: the listener is closed, which  *)
(* removes the socket's name, and what this parent published is removed.   *)
Aborts(p) ==
    /\ GoTo(p, "down")
    /\ authority' = IF authority = p THEN 0 ELSE authority
    /\ leaf' = IF Listening(p) THEN NoLeaf ELSE leaf
    /\ locator' = IF locator.by = p THEN NoLocator ELSE locator
    /\ hangUp(p)

(* prepareSocketLeaf up to its await: whose socket is at the path.         *)
inspectLeaf(p) ==
    /\ parentAt[p] = "recover"
    /\ IF authority # p THEN Aborts(p)
       ELSE /\ GoTo(p, IF leaf = NoLeaf THEN "reclaim" ELSE "probe")
            /\ UNCHANGED <<authority, endpointVars, cli, deciding, orphans>>
    /\ Unrelated

\* Mutant: a socket at the path is taken to be the dead predecessor's.
prepareSocketLeaf_Replaces(p) ==
    /\ parentAt[p] = "probe"
    /\ leaf' = NoLeaf
    /\ GoTo(p, "reclaim")
    /\ UNCHANGED <<authority, locator, cli, deciding, orphans>> /\ Unrelated

(* probeExistingSocket and the rest of prepareSocketLeaf: only a socket    *)
(* nobody listens on is removed, by the holder of the lease chain.  It has *)
(* the inode seen before the probe, since a bound name cannot be taken.    *)
prepareSocketLeaf(p) ==
    /\ parentAt[p] = "probe"
    /\ IF leaf # NoLeaf /\ (Listening(leaf.by) \/ authority # p)
       THEN Aborts(p)
       ELSE /\ leaf' = NoLeaf
            /\ GoTo(p, "reclaim")
            /\ UNCHANGED <<authority, locator, cli, deciding, orphans>>
    /\ Unrelated

(* readEndpointLocator refuses a locator with a second link.               *)
ReadableLocator == locator # NoLocator /\ locator.links = 1

reclaimEndpointLocator(p) ==
    /\ parentAt[p] = "reclaim"
    /\ IF authority # p \/ (locator # NoLocator /\ ~ReadableLocator)
       THEN Aborts(p)
       ELSE /\ locator' = NoLocator
            /\ GoTo(p, "listen")
            /\ UNCHANGED <<authority, leaf, cli, deciding, orphans>>
    /\ Unrelated

listen(p) ==
    /\ parentAt[p] = "listen"
    /\ IF authority # p \/ leaf # NoLeaf
       THEN Aborts(p)
       ELSE /\ leaf' = [by |-> p, private |-> FALSE]
            /\ GoTo(p, "bound")
            /\ UNCHANGED <<authority, locator, cli, deciding, orphans>>
    /\ Unrelated

pinPermissions(p) ==
    /\ parentAt[p] = "bound"
    /\ leaf' = [leaf EXCEPT !.private = TRUE]
    /\ GoTo(p, "private")
    /\ UNCHANGED <<authority, locator, cli, deciding, orphans>> /\ Unrelated

(* publishEndpointLocator: the staged file is linked under its name, which *)
(* must be free, and then loses its temporary name.                        *)
linkLocator(p) ==
    /\ parentAt[p] = "private"
    /\ IF locator # NoLocator THEN Aborts(p)
       ELSE /\ locator' = [by |-> p, links |-> 2]
            /\ GoTo(p, "linked")
            /\ UNCHANGED <<authority, leaf, cli, deciding, orphans>>
    /\ Unrelated

unlinkStaged(p) ==
    /\ parentAt[p] = "linked"
    /\ locator' = [locator EXCEPT !.links = 1]
    /\ GoTo(p, "published")
    /\ UNCHANGED <<authority, leaf, cli, deciding, orphans>> /\ Unrelated

serve(p) ==
    /\ parentAt[p] = "published"
    /\ IF authority # p THEN Aborts(p)
       ELSE GoTo(p, "serving") /\ UNCHANGED <<authority, endpointVars, cli, deciding, orphans>>
    /\ Unrelated

(* closeAndDrain: the locator goes first, then the listener and with it    *)
(* the socket; the leases are released by the caller afterwards.           *)
closeLocator(p) ==
    /\ parentAt[p] = "serving" /\ deciding[p] = Idle
    /\ locator' = IF locator.by = p THEN NoLocator ELSE locator
    /\ GoTo(p, "closing")
    /\ UNCHANGED <<authority, leaf, cli, deciding, orphans>> /\ Unrelated

closeServer(p) == parentAt[p] = "closing" /\ Aborts(p) /\ Unrelated

crash(p) ==
    /\ parentAt[p] \notin {"none", "down"}
    /\ GoTo(p, "down")
    /\ authority' = IF authority = p THEN 0 ELSE authority
    /\ hangUp(p)
    /\ UNCHANGED endpointVars /\ Unrelated

(* The lease chain is displaced under a parent that lives on.              *)
loseAuthority ==
    /\ authority # 0 /\ authority' = 0
    /\ UNCHANGED <<parentAt, endpointVars, cli, deciding, orphans>> /\ Unrelated

-----------------------------------------------------------------------------
(* sendSteeringIpcRequest: one connection of a CLI process.                *)

ClientOnly == UNCHANGED <<parentAt, authority, endpointVars, deciding, logVars>>

(* The locator and the socket are read and must name each other.           *)
EndpointMatches(by) == ReadableLocator /\ leaf.private /\ leaf.by = by /\ locator.by = by

send(c, r) ==
    /\ cli[c].st = "idle" /\ sends < MaxSends
    /\ EndpointMatches(locator.by)
    /\ cli' = [cli EXCEPT ![c] = [st |-> "checked", by |-> locator.by, req |-> r, to |-> 0,
                                  reply |-> Failure]]
    /\ sends' = sends + 1
    /\ UNCHANGED <<orphans, answers>> /\ ClientOnly

connect(c) ==
    /\ cli[c].st = "checked"
    /\ cli' = IF leaf # NoLeaf /\ Listening(leaf.by)
              THEN [cli EXCEPT ![c].st = "connected", ![c].to = leaf.by]
              ELSE [cli EXCEPT ![c] = NoConn]
    /\ UNCHANGED <<orphans, sends, answers>> /\ ClientOnly

(* The connect callback: only the endpoint that was read before connecting *)
(* is sent the request.                                                    *)
onConnect(c) ==
    /\ cli[c].st = "connected"
    /\ cli' = IF EndpointMatches(cli[c].by)
              THEN [cli EXCEPT ![c].st = "sent"]
              ELSE [cli EXCEPT ![c] = NoConn]
    /\ UNCHANGED <<orphans, sends, answers>> /\ ClientOnly

(* The server's timer: the connection is answered and its request, if it   *)
(* comes, is not looked at.                                                *)
onSocketTimeout(c) ==
    /\ cli[c].st \in {"connected", "sent"} /\ parentAt[cli[c].to] = "serving"
    /\ \A p \in IpcParents : deciding[p].from # c
    /\ cli' = [cli EXCEPT ![c].st = "answered", ![c].reply = Failure]
    /\ UNCHANGED <<orphans, sends, answers>> /\ ClientOnly

(* The CLI prints a result, or an error that leaves the retry to the       *)
(* operator.                                                               *)
printed(r, reply) == IF reply.ok THEN {[req |-> r, reply |-> reply]} ELSE {}

parseResponse(c) ==
    /\ cli[c].st = "answered"
    /\ answers' = answers \cup printed(cli[c].req, cli[c].reply)
    /\ cli' = [cli EXCEPT ![c] = NoConn]
    /\ UNCHANGED <<orphans, sends>> /\ ClientOnly

(* The client's timer: what it has sent may be read by the parent or not.  *)
giveUp(c) ==
    LET inHand == \E p \in IpcParents : deciding[p].from = c IN
    /\ cli[c].st \in {"connected", "sent", "answered"}
    /\ orphans' \in IF cli[c].st = "sent" /\ ~inHand
                    THEN {orphans, orphans \cup {[to |-> cli[c].to, req |-> cli[c].req]}}
                    ELSE {orphans}
    /\ deciding' = [p \in IpcParents |->
                      IF deciding[p].from = c THEN [deciding[p] EXCEPT !.from = "gone"] ELSE deciding[p]]
    /\ cli' = [cli EXCEPT ![c] = NoConn]
    /\ UNCHANGED <<parentAt, authority, endpointVars, logVars, sends, answers>>

IpcNext ==
    \/ \E p \in IpcParents :
        \/ \E c \in IpcClients : onEnd(p, c)
        \/ \E o \in orphans : onEndOrphan(p, o)
        \/ appendAtHead(p)
        \/ \E i \in CommandIds : expire(p, i) \/ refuseTerminalPending(p, i)
        \/ \E s \in {"waiting", "blocked", "over"} : sessionMoves(p, s)
        \/ prepareAttemptPrompt(p)
        \/ acquireLeases(p) \/ inspectLeaf(p) \/ prepareSocketLeaf(p) \/ reclaimEndpointLocator(p)
        \/ listen(p) \/ pinPermissions(p) \/ linkLocator(p) \/ unlinkStaged(p) \/ serve(p)
        \/ closeLocator(p) \/ closeServer(p) \/ crash(p)
    \/ expiryPasses \/ loseAuthority
    \/ \E c \in IpcClients :
        \/ \E r \in Requests : send(c, r)
        \/ connect(c) \/ onConnect(c) \/ onSocketTimeout(c) \/ parseResponse(c) \/ giveUp(c)

IpcSpec == IpcInit /\ [][IpcNext]_ipcVars

-----------------------------------------------------------------------------
(* What the operator was told is what the log says, for good: an answer of *)
(* "admitted", "refused" or "withdrawn" names the decision recorded for    *)
(* exactly that request, through lost replies, retries, crashes of the     *)
(* parent and two parents writing at once; and every history they write    *)
(* can be replayed (a refused replay would end all steering and dispatch). *)
AnswersHold ==
    /\ steering.ok
    /\ \A a \in answers : LET k == steering.commands[a.req.id] IN
        CASE a.reply.kind = "admitted" -> k.req = a.req /\ k.adm = a.reply.seq
          [] a.reply.kind = "refused" -> k.req = a.req /\ k.st = "refused" /\ k.term = a.reply.seq
          [] a.reply.kind = "withdrawn" ->
               k.st = "withdrawn" /\ k.term = a.reply.seq /\ k.why = a.req.reason

(* An active endpoint is never replaced, and a request is only ever sent   *)
(* to the parent whose locator the client read.                            *)
ActiveEndpointKept ==
    /\ \A p \in IpcParents : Listening(p) => leaf.by = p
    /\ \A c \in IpcClients : cli[c].st = "sent" => cli[c].to = cli[c].by

(* docs/session-steering.md: a crash-left locator/socket pair is reclaimed *)
(* by the successor.  publishEndpointLocator links the staged file before  *)
(* it unlinks the temporary name, and a locator with two links is refused. *)
CrashLeftIsReclaimable ==
    locator # NoLocator /\ parentAt[locator.by] = "down" => ReadableLocator
=============================================================================
