--------------------------- MODULE OperatorProofs ---------------------------
(***************************************************************************)
(* What the operator of a run may rely on, for every number of processes:  *)
(* whose endpoint a request reaches, what the answer to it says of the log *)
(* (SteeringIpc), and that a view which looks live is (LiveView).          *)
(***************************************************************************)
EXTENDS SteeringIpc, LiveView, FiniteSetTheorems, WellFoundedInduction, TLAPS

-----------------------------------------------------------------------------
(* The operator's endpoint: whoever listens owns the socket, and a request   *)
(* travels on a connection to a listener.                                    *)

ParentPhases == {"none", "recover", "probe", "reclaim", "listen", "bound", "private", "linked",
                 "published", "serving", "closing", "down"}

\* A connection with all its fields.
IsConn(x) == x = [st |-> x.st, by |-> x.by, req |-> x.req, to |-> x.to, reply |-> x.reply]

EndpointTyped ==
  /\ parentAt \in [IpcParents -> ParentPhases]
  /\ leaf \in {NoLeaf} \cup [by : IpcParents, private : BOOLEAN]
  /\ cli = [c \in IpcClients |-> cli[c]]

ListenersBound == \A p \in IpcParents : Listening(p) => leaf.by = p

ConnInv(x) ==
  /\ "st" \in DOMAIN x
  /\ x.st \in {"checked", "connected", "sent"} => IsConn(x)
  /\ x.st \in {"connected", "sent"} => x.to \in IpcParents /\ Listening(x.to)
  /\ x.st = "sent" => x.to = x.by

EndpointInv == EndpointTyped /\ ListenersBound /\ \A c \in IpcClients : ConnInv(cli[c])

-----------------------------------------------------------------------------
\* A connection that is answered or given up says nothing any more.
LEMMA AnsweredConn ==
  ASSUME NEW x, "st" \in DOMAIN x, NEW y, NEW r, y = [x EXCEPT !.st = "answered", !.reply = r]
  PROVE  "st" \in DOMAIN y /\ y.st = "answered"
  OBVIOUS

\* A connection that is made keeps its other fields.
LEMMA Connected ==
  ASSUME NEW x, NEW t, x = [st |-> x.st, by |-> x.by, req |-> x.req, to |-> x.to, reply |-> x.reply]
  PROVE  [x EXCEPT !.st = "connected", !.to = t]
           = [st |-> "connected", by |-> x.by, req |-> x.req, to |-> t, reply |-> x.reply]
<1> DEFINE y == [x EXCEPT !.st = "connected"]
<1>1. y = [st |-> "connected", by |-> x.by, req |-> x.req, to |-> x.to, reply |-> x.reply]
  OBVIOUS
<1>2. [x EXCEPT !.st = "connected", !.to = t] = [y EXCEPT !.to = t]
  OBVIOUS
<1> HIDE DEF y
<1> QED
  BY <1>1, <1>2

\* A client without a connection.
LEMMA NoConnHarmless == ASSUME NEW x, x = NoConn PROVE "st" \in DOMAIN x /\ x.st = "idle"
  BY DEF NoConn

\* A reply ends the connection it is for and touches no other.
LEMMA RepliesKeep ==
  ASSUME EndpointInv, NEW c, NEW r, replyTo(c, r), parentAt' = parentAt
  PROVE  cli' = [d \in IpcClients |-> cli'[d]] /\ \A d \in IpcClients : ConnInv(cli[d])'
<1>1. CASE c \notin IpcClients
  BY <1>1 DEF replyTo, EndpointInv, EndpointTyped, ConnInv, Listening
<1>2. CASE c \in IpcClients
  <2>1. cli' = [cli EXCEPT ![c] = [cli[c] EXCEPT !.st = "answered", !.reply = r]]
    BY <1>2 DEF replyTo
  <2>2. cli = [d \in IpcClients |-> cli[d]]
    BY DEF EndpointInv, EndpointTyped
  <2>3. cli'[c] = [cli[c] EXCEPT !.st = "answered", !.reply = r]
        /\ \A d \in IpcClients : d # c => cli'[d] = cli[d]
    BY <1>2, <2>1, <2>2
  <2>4. "st" \in DOMAIN cli'[c] /\ cli'[c].st = "answered"
    BY <1>2, <2>3, AnsweredConn DEF EndpointInv, ConnInv
  <2>5. ConnInv(cli[c])'
    BY <2>4 DEF ConnInv
  <2>6. \A d \in IpcClients : d # c => ConnInv(cli[d])'
    BY <2>3 DEF EndpointInv, ConnInv, Listening
  <2>7. cli' = [d \in IpcClients |-> cli'[d]]
    BY <2>1, <2>2
  <2> QED
    BY <2>5, <2>6, <2>7
<1> QED
  BY <1>1, <1>2

\* While parents, socket and connections stand still nothing changes.
LEMMA EndpointStands ==
  ASSUME EndpointInv, UNCHANGED <<parentAt, leaf>>,
         cli' = [d \in IpcClients |-> cli'[d]] /\ \A d \in IpcClients : ConnInv(cli[d])'
  PROVE  EndpointInv'
  BY DEF EndpointInv, EndpointTyped, ListenersBound, Listening

\* The same where no connection changes either.
LEMMA EndpointQuiet ==
  ASSUME EndpointInv, UNCHANGED <<parentAt, leaf, cli>> PROVE EndpointInv'
  BY DEF EndpointInv, EndpointTyped, ListenersBound, Listening, ConnInv

\* A decision answers its client or leaves it waiting.
LEMMA SnapshotKeeps ==
  ASSUME EndpointInv, NEW p, NEW j, snapshot(p, j), UNCHANGED <<parentAt, leaf>>
  PROVE  EndpointInv'
<1>1. cli' = cli \/ \E r : replyTo(j.from, r)
  BY DEF snapshot
<1> QED
  BY <1>1, RepliesKeep, EndpointStands, EndpointQuiet

\* A parent that moves on without listening less or more keeps everything.
LEMMA PhaseKeeps ==
  ASSUME EndpointInv, NEW p \in IpcParents, NEW s \in ParentPhases, GoTo(p, s),
         UNCHANGED cli, leaf' \in {NoLeaf} \cup [by : IpcParents, private : BOOLEAN],
         Listening(p) => Listening(p)',
         \A q \in IpcParents : Listening(q)' => leaf'.by = q
  PROVE  EndpointInv'
<1>1. parentAt' \in [IpcParents -> ParentPhases] /\ \A q \in IpcParents : q # p => parentAt'[q] = parentAt[q]
  BY DEF GoTo, EndpointInv, EndpointTyped
<1>2. \A q \in IpcParents : Listening(q) => Listening(q)'
  BY <1>1 DEF Listening
<1>3. \A c \in IpcClients : ConnInv(cli[c])'
  BY <1>2 DEF EndpointInv, ConnInv
<1> QED
  BY <1>1, <1>3 DEF EndpointInv, EndpointTyped, ListenersBound

\* A parent that ends takes its connections with it.
LEMMA HangUpKeeps ==
  ASSUME EndpointInv, NEW p \in IpcParents, GoTo(p, "down"), hangUp(p),
         leaf' = leaf \/ (leaf' = NoLeaf /\ Listening(p))
  PROVE  EndpointInv'
<1>1. /\ parentAt' \in [IpcParents -> ParentPhases] /\ ~Listening(p)'
      /\ \A q \in IpcParents : q # p => (Listening(q)' <=> Listening(q))
  BY DEF GoTo, EndpointInv, EndpointTyped, ParentPhases, Listening
<1>2. \A c \in IpcClients : ConnInv(cli[c])'
  <2> TAKE c \in IpcClients
  <2>1. CASE cli[c].st \in {"connected", "sent"} /\ cli[c].to = p
    <3>1. cli'[c] = NoConn
      BY <2>1 DEF hangUp
    <3>2. "st" \in DOMAIN cli'[c] /\ cli'[c].st = "idle"
      BY <3>1, NoConnHarmless
    <3> QED
      BY <3>2 DEF ConnInv
  <2>2. CASE ~(cli[c].st \in {"connected", "sent"} /\ cli[c].to = p)
    <3>1. cli'[c] = cli[c]
      BY <2>2 DEF hangUp
    <3> QED
      BY <1>1, <2>2, <3>1 DEF EndpointInv, ConnInv
  <2> QED
    BY <2>1, <2>2
<1>3. ListenersBound'
  <2> SUFFICES ASSUME NEW q \in IpcParents, Listening(q)' PROVE leaf'.by = q
    BY DEF ListenersBound
  <2>1. q # p /\ leaf.by = q
    BY <1>1 DEF EndpointInv, ListenersBound
  <2>2. ~Listening(p)
    BY <2>1 DEF EndpointInv, ListenersBound
  <2> QED
    BY <2>1, <2>2
<1>4. EndpointTyped'
  <2>1. cli' = [c \in IpcClients |-> cli'[c]]
    BY DEF hangUp
  <2> QED
    BY <1>1, <2>1 DEF EndpointInv, EndpointTyped
<1> QED
  BY <1>2, <1>3, <1>4 DEF EndpointInv

\* So does a parent whose start-up or run ends in an error.
LEMMA AbortsKeep ==
  ASSUME EndpointInv, NEW p \in IpcParents, Aborts(p) PROVE EndpointInv'
<1>1. leaf' = leaf \/ (leaf' = NoLeaf /\ Listening(p))
  BY DEF Aborts
<1> QED
  BY <1>1, HangUpKeeps DEF Aborts

\* What one client does to its own connection.
LEMMA ClientKeeps ==
  ASSUME EndpointInv, NEW c \in IpcClients, NEW x, cli' = [cli EXCEPT ![c] = x],
         UNCHANGED <<parentAt, leaf>>, ConnInv(x)
  PROVE  EndpointInv'
<1>1. cli = [d \in IpcClients |-> cli[d]]
  BY DEF EndpointInv, EndpointTyped
<1>2. cli' = [d \in IpcClients |-> cli'[d]] /\ cli'[c] = x /\ \A d \in IpcClients : d # c => cli'[d] = cli[d]
  BY <1>1
<1>3. ConnInv(cli'[c])
  BY <1>2
<1>4. \A d \in IpcClients : ConnInv(cli'[d])
  BY <1>2, <1>3 DEF EndpointInv
<1>5. \A d \in IpcClients : ConnInv(cli[d])'
  BY <1>4 DEF ConnInv, Listening
<1> QED
  BY <1>2, <1>5, EndpointStands

\* A closed connection is harmless.
LEMMA Idles == ConnInv(NoConn)
  BY NoConnHarmless DEF ConnInv

\* Every step keeps the endpoint with its listener.
LEMMA EndpointInvStep == EndpointInv /\ [IpcNext]_ipcVars => EndpointInv'
<1> SUFFICES ASSUME EndpointInv, [IpcNext]_ipcVars PROVE EndpointInv'
  OBVIOUS
<1> USE DEF endpointVars
<1>1. ASSUME NEW p \in IpcParents, NEW c \in IpcClients, onEnd(p, c) PROVE EndpointInv'
  <2>1. UNCHANGED <<parentAt, leaf>>
    BY <1>1 DEF onEnd
  <2>2. snapshot(p, Job(c, cli[c].req)) \/ replyTo(c, Failure)
    BY <1>1 DEF onEnd
  <2> QED
    BY <2>1, <2>2, SnapshotKeeps, RepliesKeep, EndpointStands
<1>2. ASSUME NEW p \in IpcParents, NEW o \in orphans, onEndOrphan(p, o) PROVE EndpointInv'
  <2>1. UNCHANGED <<parentAt, leaf>>
    BY <1>2 DEF onEndOrphan
  <2>2. snapshot(p, Job("gone", o.req)) \/ cli' = cli
    BY <1>2 DEF onEndOrphan
  <2> QED
    BY <2>1, <2>2, SnapshotKeeps, EndpointQuiet
<1>3. ASSUME NEW p \in IpcParents, appendAtHead(p) PROVE EndpointInv'
  <2>1. UNCHANGED <<parentAt, leaf>>
    BY <1>3 DEF appendAtHead
  <2>2. (\E r : replyTo(deciding[p].from, r)) \/ (\E j : snapshot(p, j))
    BY <1>3 DEF appendAtHead
  <2> QED
    BY <2>1, <2>2, SnapshotKeeps, RepliesKeep, EndpointStands
<1>4. ASSUME NEW p \in IpcParents,
             \/ \E i \in CommandIds : expire(p, i) \/ refuseTerminalPending(p, i)
             \/ \E s \in {"waiting", "blocked", "over"} : sessionMoves(p, s)
             \/ prepareAttemptPrompt(p)
      PROVE  EndpointInv'
  <2>1. UNCHANGED <<parentAt, leaf, cli>>
    BY <1>4 DEF expire, refuseTerminalPending, sessionMoves, prepareAttemptPrompt, Untouched
  <2> QED
    BY <2>1, EndpointQuiet
<1>5. ASSUME NEW p \in IpcParents, acquireLeases(p) PROVE EndpointInv'
  <2>1. GoTo(p, "recover") /\ UNCHANGED <<leaf, cli>> /\ parentAt[p] = "none"
    BY <1>5 DEF acquireLeases
  <2>2. ~Listening(p) /\ \A q \in IpcParents : Listening(q)' => Listening(q)
    BY <2>1 DEF GoTo, Listening, EndpointInv, EndpointTyped
  <2> QED
    BY <2>1, <2>2, PhaseKeeps DEF ParentPhases, EndpointInv, EndpointTyped, ListenersBound
<1>6. ASSUME NEW p \in IpcParents, inspectLeaf(p) PROVE EndpointInv'
  <2>1. CASE authority # p
    BY <1>6, <2>1, AbortsKeep DEF inspectLeaf
  <2>2. CASE authority = p
    <3>1. (GoTo(p, "reclaim") \/ GoTo(p, "probe")) /\ UNCHANGED <<leaf, cli>> /\ parentAt[p] = "recover"
      BY <1>6, <2>2 DEF inspectLeaf
    <3>2. ~Listening(p) /\ \A q \in IpcParents : Listening(q)' => Listening(q)
      BY <3>1 DEF GoTo, Listening, EndpointInv, EndpointTyped
    <3> QED
      BY <3>1, <3>2, PhaseKeeps DEF ParentPhases, EndpointInv, EndpointTyped, ListenersBound
  <2> QED
    BY <2>1, <2>2
<1>7. ASSUME NEW p \in IpcParents, prepareSocketLeaf(p) PROVE EndpointInv'
  <2>1. CASE leaf # NoLeaf /\ (Listening(leaf.by) \/ authority # p)
    BY <1>7, <2>1, AbortsKeep DEF prepareSocketLeaf
  <2>2. CASE ~(leaf # NoLeaf /\ (Listening(leaf.by) \/ authority # p))
    <3>1. GoTo(p, "reclaim") /\ leaf' = NoLeaf /\ UNCHANGED cli /\ parentAt[p] = "probe"
      BY <1>7, <2>2 DEF prepareSocketLeaf
    <3>2. \A q \in IpcParents : ~Listening(q)
      <4> SUFFICES ASSUME NEW q \in IpcParents, Listening(q) PROVE FALSE
        OBVIOUS
      <4>1. leaf.by = q
        BY DEF EndpointInv, ListenersBound
      <4>2. leaf = NoLeaf
        BY <2>2, <4>1
      <4>3. q = 0
        BY <4>1, <4>2 DEF NoLeaf
      <4> QED
        BY <4>3, IpcBounds
    <3>3. \A q \in IpcParents : ~Listening(q)'
      BY <3>1, <3>2 DEF GoTo, Listening, EndpointInv, EndpointTyped
    <3> QED
      BY <3>1, <3>2, <3>3, PhaseKeeps DEF ParentPhases
  <2> QED
    BY <2>1, <2>2
<1>8. ASSUME NEW p \in IpcParents, reclaimEndpointLocator(p) PROVE EndpointInv'
  <2>1. CASE authority # p \/ (locator # NoLocator /\ ~ReadableLocator)
    BY <1>8, <2>1, AbortsKeep DEF reclaimEndpointLocator
  <2>2. CASE ~(authority # p \/ (locator # NoLocator /\ ~ReadableLocator))
    <3>1. GoTo(p, "listen") /\ UNCHANGED <<leaf, cli>> /\ parentAt[p] = "reclaim"
      BY <1>8, <2>2 DEF reclaimEndpointLocator
    <3>2. ~Listening(p) /\ \A q \in IpcParents : Listening(q)' => Listening(q)
      BY <3>1 DEF GoTo, Listening, EndpointInv, EndpointTyped
    <3> QED
      BY <3>1, <3>2, PhaseKeeps DEF ParentPhases, EndpointInv, EndpointTyped, ListenersBound
  <2> QED
    BY <2>1, <2>2
<1>9. ASSUME NEW p \in IpcParents, listen(p) PROVE EndpointInv'
  <2>1. CASE authority # p \/ leaf # NoLeaf
    BY <1>9, <2>1, AbortsKeep DEF listen
  <2>2. CASE ~(authority # p \/ leaf # NoLeaf)
    <3>1. GoTo(p, "bound") /\ leaf' = [by |-> p, private |-> FALSE] /\ UNCHANGED cli /\ leaf = NoLeaf
      BY <1>9, <2>2 DEF listen
    <3>2. \A q \in IpcParents : ~Listening(q)
      <4> SUFFICES ASSUME NEW q \in IpcParents, Listening(q) PROVE FALSE
        OBVIOUS
      <4>1. leaf.by = q
        BY DEF EndpointInv, ListenersBound
      <4>2. q = 0
        BY <3>1, <4>1 DEF NoLeaf
      <4> QED
        BY <4>2, IpcBounds
    <3>3. \A q \in IpcParents : Listening(q)' => q = p
      BY <3>1, <3>2 DEF GoTo, Listening, EndpointInv, EndpointTyped
    <3>4. leaf' \in [by : IpcParents, private : BOOLEAN] /\ leaf'.by = p
      BY <3>1
    <3> QED
      BY <3>1, <3>2, <3>3, <3>4, PhaseKeeps DEF ParentPhases
  <2> QED
    BY <2>1, <2>2
<1>10. ASSUME NEW p \in IpcParents, pinPermissions(p) PROVE EndpointInv'
  <2>1. GoTo(p, "private") /\ leaf' = [leaf EXCEPT !.private = TRUE] /\ UNCHANGED cli /\ parentAt[p] = "bound"
    BY <1>10 DEF pinPermissions
  <2>2. leaf.by = p
    BY <2>1 DEF EndpointInv, ListenersBound, Listening
  <2>3. leaf \in [by : IpcParents, private : BOOLEAN]
    BY <2>2, IpcBounds DEF EndpointInv, EndpointTyped, NoLeaf
  <2>4. leaf' \in [by : IpcParents, private : BOOLEAN] /\ leaf'.by = p
    BY <2>1, <2>2, <2>3
  <2>5. Listening(p)' /\ \A q \in IpcParents : Listening(q)' => Listening(q)
    BY <2>1 DEF GoTo, Listening, EndpointInv, EndpointTyped
  <2>6. \A q \in IpcParents : Listening(q)' => leaf'.by = q
    BY <2>2, <2>4, <2>5 DEF EndpointInv, ListenersBound
  <2> QED
    BY <2>1, <2>4, <2>5, <2>6, PhaseKeeps DEF ParentPhases
<1>11. ASSUME NEW p \in IpcParents, NEW s \in {"linked", "published", "serving", "closing"}, GoTo(p, s),
              parentAt[p] \in {"private", "linked", "published", "serving"}, UNCHANGED <<leaf, cli>>
       PROVE  EndpointInv'
  <2>1. Listening(p)' /\ \A q \in IpcParents : Listening(q)' => Listening(q)
    BY <1>11 DEF GoTo, Listening, EndpointInv, EndpointTyped
  <2> QED
    BY <1>11, <2>1, PhaseKeeps DEF ParentPhases, EndpointInv, EndpointTyped, ListenersBound
<1>12. ASSUME NEW p \in IpcParents, linkLocator(p) PROVE EndpointInv'
  <2>1. CASE locator # NoLocator
    BY <1>12, <2>1, AbortsKeep DEF linkLocator
  <2>2. CASE locator = NoLocator
    BY <1>11, <1>12, <2>2 DEF linkLocator
  <2> QED
    BY <2>1, <2>2
<1>13. ASSUME NEW p \in IpcParents, unlinkStaged(p) PROVE EndpointInv'
  BY <1>11, <1>13 DEF unlinkStaged
<1>14. ASSUME NEW p \in IpcParents, serve(p) PROVE EndpointInv'
  <2>1. CASE authority # p
    BY <1>14, <2>1, AbortsKeep DEF serve
  <2>2. CASE authority = p
    BY <1>11, <1>14, <2>2 DEF serve
  <2> QED
    BY <2>1, <2>2
<1>15. ASSUME NEW p \in IpcParents, closeLocator(p) PROVE EndpointInv'
  BY <1>11, <1>15 DEF closeLocator
<1>16. ASSUME NEW p \in IpcParents, closeServer(p) PROVE EndpointInv'
  BY <1>16, AbortsKeep DEF closeServer
<1>17. ASSUME NEW p \in IpcParents, crash(p) PROVE EndpointInv'
  BY <1>17, HangUpKeeps DEF crash
<1>18. CASE expiryPasses \/ loseAuthority \/ UNCHANGED ipcVars
  <2>1. UNCHANGED <<parentAt, leaf, cli>>
    BY <1>18 DEF expiryPasses, loseAuthority, ipcVars
  <2> QED
    BY <2>1, EndpointQuiet
<1>19. ASSUME NEW c \in IpcClients, NEW r \in Requests, send(c, r) PROVE EndpointInv'
  <2> DEFINE x == [st |-> "checked", by |-> locator.by, req |-> r, to |-> 0, reply |-> Failure]
  <2>1. cli' = [cli EXCEPT ![c] = x] /\ UNCHANGED <<parentAt, leaf>>
    BY <1>19 DEF send, ClientOnly
  <2>2. ConnInv(x)
    BY DEF ConnInv, IsConn
  <2> HIDE DEF x
  <2> QED
    BY <2>1, <2>2, ClientKeeps
<1>20. ASSUME NEW c \in IpcClients, connect(c) PROVE EndpointInv'
  <2>0. cli[c].st = "checked" /\ UNCHANGED <<parentAt, leaf>>
    BY <1>20 DEF connect, ClientOnly
  <2>1. CASE leaf # NoLeaf /\ Listening(leaf.by)
    <3> DEFINE x == [cli[c] EXCEPT !.st = "connected", !.to = leaf.by]
    <3>1. cli' = [cli EXCEPT ![c] = x]
      BY <1>20, <2>1 DEF connect
    <3>2. leaf.by \in IpcParents
      BY <2>1 DEF EndpointInv, EndpointTyped
    <3>3. cli[c] = [st |-> cli[c].st, by |-> cli[c].by, req |-> cli[c].req, to |-> cli[c].to, reply |-> cli[c].reply]
      BY <2>0 DEF EndpointInv, ConnInv, IsConn
    <3>4. x = [st |-> "connected", by |-> cli[c].by, req |-> cli[c].req, to |-> leaf.by, reply |-> cli[c].reply]
      BY <3>3, Connected
    <3>5. ConnInv(x)
      BY <2>1, <3>2, <3>4 DEF ConnInv, IsConn
    <3> HIDE DEF x
    <3> QED
      BY <2>0, <3>1, <3>5, ClientKeeps
  <2>2. CASE ~(leaf # NoLeaf /\ Listening(leaf.by))
    BY <1>20, <2>0, <2>2, Idles, ClientKeeps DEF connect
  <2> QED
    BY <2>1, <2>2
<1>21. ASSUME NEW c \in IpcClients, onConnect(c) PROVE EndpointInv'
  <2>0. cli[c].st = "connected" /\ UNCHANGED <<parentAt, leaf>>
    BY <1>21 DEF onConnect, ClientOnly
  <2>1. CASE EndpointMatches(cli[c].by)
    <3> DEFINE x == [cli[c] EXCEPT !.st = "sent"]
    <3>1. cli' = [cli EXCEPT ![c] = x]
      BY <1>21, <2>1 DEF onConnect
    <3>2. cli[c].to \in IpcParents /\ Listening(cli[c].to) /\ leaf.by = cli[c].by
      BY <2>0, <2>1 DEF EndpointInv, ConnInv, EndpointMatches
    <3>3. cli[c].to = cli[c].by
      BY <3>2 DEF EndpointInv, ListenersBound
    <3>4. cli[c] = [st |-> cli[c].st, by |-> cli[c].by, req |-> cli[c].req, to |-> cli[c].to, reply |-> cli[c].reply]
      BY <2>0 DEF EndpointInv, ConnInv, IsConn
    <3>5. x = [st |-> "sent", by |-> cli[c].by, req |-> cli[c].req, to |-> cli[c].to, reply |-> cli[c].reply]
      BY <3>4
    <3>6. ConnInv(x)
      BY <3>2, <3>3, <3>5 DEF ConnInv, IsConn
    <3> HIDE DEF x
    <3> QED
      BY <2>0, <3>1, <3>6, ClientKeeps
  <2>2. CASE ~EndpointMatches(cli[c].by)
    BY <1>21, <2>0, <2>2, Idles, ClientKeeps DEF onConnect
  <2> QED
    BY <2>1, <2>2
<1>22. ASSUME NEW c \in IpcClients, onSocketTimeout(c) PROVE EndpointInv'
  <2>1. replyTo(c, Failure) /\ UNCHANGED <<parentAt, leaf>>
    BY <1>22 DEF onSocketTimeout, ClientOnly, replyTo
  <2> QED
    BY <2>1, RepliesKeep, EndpointStands
<1>23. ASSUME NEW c \in IpcClients, parseResponse(c) \/ giveUp(c) PROVE EndpointInv'
  <2>1. cli' = [cli EXCEPT ![c] = NoConn] /\ UNCHANGED <<parentAt, leaf>>
    BY <1>23 DEF parseResponse, giveUp, ClientOnly
  <2> QED
    BY <2>1, Idles, ClientKeeps
<1> QED
  BY <1>1, <1>2, <1>3, <1>4, <1>5, <1>6, <1>7, <1>8, <1>9, <1>10, <1>12, <1>13, <1>14, <1>15, <1>16,
     <1>17, <1>18, <1>19, <1>20, <1>21, <1>22, <1>23 DEF IpcNext

\* An active endpoint is never replaced, and a request is only ever sent to
\* the parent whose locator the client read (prepareSocketLeaf, the connect
\* callback of sendSteeringIpcRequest), for any parents and clients.
THEOREM ActiveEndpointAlwaysKept == IpcSpec => []ActiveEndpointKept
<1>1. IpcInit => EndpointInv
  <2> SUFFICES ASSUME IpcInit PROVE EndpointInv
    OBVIOUS
  <2>1. EndpointTyped
    BY DEF IpcInit, EndpointTyped, ParentPhases
  <2>2. \A p \in IpcParents : ~Listening(p)
    BY DEF IpcInit, Listening
  <2>3. \A c \in IpcClients : ConnInv(cli[c])
    BY Idles DEF IpcInit, ConnInv
  <2> QED
    BY <2>1, <2>2, <2>3 DEF EndpointInv, ListenersBound
<1>2. EndpointInv => ActiveEndpointKept
  BY DEF EndpointInv, ListenersBound, ConnInv, ActiveEndpointKept
<1> QED
  BY <1>1, <1>2, EndpointInvStep, PTL DEF IpcSpec

-----------------------------------------------------------------------------
(* What the operator was told.  The log's projection can always be replayed, *)
(* a decision once recorded stays, and every reply on its way names one.     *)

CommandStates == {"none", "pending", "included", "refused", "withdrawn", "superseded", "expired"}
Reasons == CommandIds \cup {r.reason : r \in WithdrawRequests} \cup {"none"}
CommandRecs == [st : CommandStates, req : AdmitRequests \cup {"none"}, adm : Nat, term : Nat, why : Reasons]
ManifestRecs == [ids : Seq(CommandIds), at : Nat]
Projections == [ok : BOOLEAN, seq : Nat, commands : [CommandIds -> CommandRecs], manifests : Seq(ManifestRecs)]

\* The projection between batches: every prompt's inclusions are in, and the
\* commands that wait were admitted one by one.
Replayable(p) ==
  /\ p \in Projections /\ p.ok
  /\ assertSteeringProjectionConsistent(p)
  /\ \A i \in CommandIds : p.commands[i].adm <= p.seq
  /\ \A i, j \in CommandIds : pendingIn(p, i) /\ pendingIn(p, j) /\ i # j =>
       p.commands[i].adm # p.commands[j].adm
  /\ \A i \in CommandIds : pendingIn(p, i) => p.commands[i].adm > 0
  /\ \A i \in CommandIds : p.commands[i].st = "superseded" => p.commands[i].why \in CommandIds
  /\ \A m \in 1..Len(p.manifests) : \A k \in 1..Len(p.manifests[m].ids) :
       p.commands[p.manifests[m].ids[k]].st = "included"

\* What a decision says of a request is what p records of it.
Told(p, r, y) ==
  y.ok => LET k == p.commands[r.id] IN
    /\ k.st # "none" /\ y.kind \in {"admitted", "refused", "withdrawn"}
    /\ y.kind = "admitted" => k.req = r /\ k.adm = y.seq
    /\ y.kind = "refused" => k.req = r /\ k.st = "refused" /\ k.term = y.seq
    /\ y.kind = "withdrawn" => k.st = "withdrawn" /\ k.term = y.seq /\ k.why = r.reason

\* What is recorded stays recorded.
CommandKept(c, d) ==
  c.st # "none" =>
    /\ d.st # "none" /\ d.req = c.req /\ d.adm = c.adm
    /\ c.st \in {"refused", "withdrawn"} => d = c
Recorded(p, q) == \A i \in CommandIds : CommandKept(p.commands[i], q.commands[i])

\* A connection and a decision with all their fields.
IsLink(x) == x = [st |-> x.st, by |-> x.by, req |-> x.req, to |-> x.to, reply |-> x.reply]
IsJob(j) == j = [st |-> j.st, from |-> j.from, req |-> j.req, late |-> j.late, head |-> j.head, tries |-> j.tries]

LinkInv(x) ==
  /\ x # NoConn => IsLink(x) /\ x.req \in Requests
  /\ x # NoConn => x.st \in {"checked", "connected", "sent", "answered"}
  /\ x # NoConn /\ x.st = "answered" => Told(steering, x.req, x.reply)

JobInv(p) ==
  deciding[p] # Idle =>
    LET j == deciding[p] IN
    /\ IsJob(j) /\ j.st = "deciding" /\ j.req \in Requests /\ j.from \in IpcClients \cup {"gone"}
    /\ j.from \in IpcClients =>
         cli[j.from] # NoConn /\ cli[j.from].st = "sent" /\ cli[j.from].to = p /\ cli[j.from].req = j.req

AnswersTyped ==
  /\ cli = [c \in IpcClients |-> cli[c]]
  /\ deciding = [p \in IpcParents |-> deciding[p]]
  /\ \A o \in orphans : o.req \in Requests
  /\ \A a \in answers : a.req \in Requests /\ a.reply.ok

AnswersInv ==
  /\ Replayable(steering) /\ AnswersTyped
  /\ \A c \in IpcClients : LinkInv(cli[c])
  /\ \A p \in IpcParents : JobInv(p)
  /\ \A a \in answers : Told(steering, a.req, a.reply)

-----------------------------------------------------------------------------
(* The replay of a batch is a recursive function; that it exists is shown    *)
(* with the least number at which it would not.                              *)

LEMMA LeastNumber ==
  ASSUME NEW S \in SUBSET Nat, S # {}
  PROVE  \E m \in S : \A n \in S : m <= n
<1> DEFINE R == {ss \in Nat \X Nat : ss[1] < ss[2]}
<1>1. IsWellFoundedOn(R, Nat)
  BY NatLessThanWellFounded DEF OpToRel
<1>2. \A x, y \in Nat : y < x => <<y, x>> \in R
  OBVIOUS
<1> HIDE DEF R
<1>3. \E x \in S : \A y \in S : ~ (<<y, x>> \in R)
  BY <1>1, WFMin
<1>4. \E x \in S : \A y \in S : ~(y < x)
  BY <1>2, <1>3
<1> QED
  BY <1>4

\* f holds the projection after the first n events of es, for every n up to k.
Applied(p, es, k, f) ==
  f[0] = p /\ \A n \in 1..k : f[n] = applySteeringEvent(f[n - 1], es[n])

LEMMA AppliedExists ==
  ASSUME NEW p, NEW es, NEW k \in Nat
  PROVE  \E f : f = [n \in 0..k |-> f[n]] /\ Applied(p, es, k, f)
<1> DEFINE Solved(n) == \E f : f = [i \in 0..n |-> f[i]] /\ Applied(p, es, n, f)
           Bad == {n \in Nat : ~Solved(n)}
<1> SUFFICES ASSUME Bad # {} PROVE FALSE
  OBVIOUS
<1>1. PICK m \in Bad : \A n \in Bad : m <= n
  BY LeastNumber
<1>2. Solved(0)
  <2> DEFINE f == [i \in 0..0 |-> p]
  <2>1. f[0] = p /\ f = [i \in 0..0 |-> f[i]]
    OBVIOUS
  <2>2. \A n \in 1..0 : FALSE
    OBVIOUS
  <2> QED
    BY <2>1, <2>2 DEF Applied
<1>3. m \in Nat /\ m # 0 /\ ~Solved(m)
  BY <1>2
<1>4. m - 1 \in Nat /\ ~(m <= m - 1)
  BY <1>3
<1>5. PICK f : f = [i \in 0..(m - 1) |-> f[i]] /\ Applied(p, es, m - 1, f)
  BY <1>1, <1>4
<1> DEFINE g == [i \in 0..m |-> IF i = m THEN applySteeringEvent(f[m - 1], es[m]) ELSE f[i]]
<1>6. g = [i \in 0..m |-> g[i]]
  OBVIOUS
<1>7. g[0] = p
  BY <1>3, <1>5 DEF Applied
<1>8. ASSUME NEW n \in 1..m PROVE g[n] = applySteeringEvent(g[n - 1], es[n])
  <2>1. n - 1 \in 0..m /\ n \in 0..m /\ n - 1 # m
    BY <1>3
  <2>2. g[n - 1] = f[n - 1]
    BY <2>1
  <2>3. CASE n = m
    BY <2>1, <2>2, <2>3
  <2>4. CASE n # m
    <3>1. n \in 1..(m - 1)
      BY <1>3, <2>4
    <3>2. f[n] = applySteeringEvent(f[n - 1], es[n])
      BY <1>5, <3>1 DEF Applied
    <3> QED
      BY <2>1, <2>2, <2>4, <3>2
  <2> QED
    BY <2>3, <2>4
<1> HIDE DEF g
<1>9. Solved(m)
  BY <1>6, <1>7, <1>8 DEF Applied
<1> QED
  BY <1>3, <1>9

LEMMA ReduceIs ==
  ASSUME NEW p, NEW es, Len(es) \in Nat
  PROVE  \E f : Applied(p, es, Len(es), f) /\ reduceSteeringEvents(p, es) = f[Len(es)]
<1> DEFINE n == Len(es)
           Body(g) == [k \in 0..n |-> IF k = 0 THEN p ELSE applySteeringEvent(g[k - 1], es[k])]
           F == CHOOSE g : g = Body(g)
<1>1. reduceSteeringEvents(p, es) = F[n]
  BY DEF reduceSteeringEvents
<1>2. \E g : g = Body(g)
  <2>1. PICK g : g = [k \in 0..n |-> g[k]] /\ Applied(p, es, n, g)
    BY AppliedExists
  <2>2. ASSUME NEW k \in 0..n PROVE g[k] = Body(g)[k]
    <3>1. CASE k = 0
      BY <2>1, <3>1 DEF Applied
    <3>2. CASE k # 0
      <4>1. k \in 1..n
        BY <3>2
      <4>2. g[k] = applySteeringEvent(g[k - 1], es[k])
        BY <2>1, <4>1 DEF Applied
      <4> QED
        BY <3>2, <4>2
    <3> QED
      BY <3>1, <3>2
  <2>3. g = Body(g)
    BY <2>1, <2>2
  <2> QED
    BY <2>3
<1>3. F = Body(F)
  <2> HIDE DEF Body
  <2> QED
    BY <1>2
<1> HIDE DEF F
<1>4. Applied(p, es, n, F)
  <2>1. F[0] = p
    BY <1>3
  <2>2. ASSUME NEW k \in 1..n PROVE F[k] = applySteeringEvent(F[k - 1], es[k])
    BY <1>3
  <2> QED
    BY <2>1, <2>2 DEF Applied
<1> QED
  BY <1>1, <1>4

LEMMA ReduceShort ==
  ASSUME NEW p, NEW d, NEW e
  PROVE  /\ reduceSteeringEvents(p, <<>>) = p
         /\ reduceSteeringEvents(p, <<d>>) = applySteeringEvent(p, d)
         /\ reduceSteeringEvents(p, <<d>> \o <<e>>) = applySteeringEvent(applySteeringEvent(p, d), e)
<1>1. reduceSteeringEvents(p, <<>>) = p
  <2>1. Len(<<>>) = 0 /\ 0 \in Nat
    OBVIOUS
  <2>2. PICK f : Applied(p, <<>>, 0, f) /\ reduceSteeringEvents(p, <<>>) = f[0]
    BY <2>1, ReduceIs
  <2> QED
    BY <2>2 DEF Applied
<1>2. reduceSteeringEvents(p, <<d>>) = applySteeringEvent(p, d)
  <2> DEFINE s == <<d>>
  <2>1. Len(s) = 1 /\ s[1] = d /\ 1 \in Nat /\ 1 \in 1..1 /\ 1 - 1 = 0
    OBVIOUS
  <2> HIDE DEF s
  <2>2. PICK f : Applied(p, s, 1, f) /\ reduceSteeringEvents(p, s) = f[1]
    BY <2>1, ReduceIs
  <2>3. f[1] = applySteeringEvent(f[1 - 1], s[1]) /\ f[0] = p
    BY <2>1, <2>2 DEF Applied
  <2> QED
    BY <2>1, <2>2, <2>3 DEF s
<1>3. reduceSteeringEvents(p, <<d>> \o <<e>>) = applySteeringEvent(applySteeringEvent(p, d), e)
  <2> DEFINE s == <<d>> \o <<e>>
  <2>1. Len(s) = 2 /\ s[1] = d /\ s[2] = e
    OBVIOUS
  <2>2. 2 \in Nat /\ 1 \in 1..2 /\ 2 \in 1..2 /\ 1 - 1 = 0 /\ 2 - 1 = 1
    OBVIOUS
  <2> HIDE DEF s
  <2>3. PICK f : Applied(p, s, 2, f) /\ reduceSteeringEvents(p, s) = f[2]
    BY <2>1, <2>2, ReduceIs
  <2>4. f[0] = p /\ f[1] = applySteeringEvent(f[1 - 1], s[1]) /\ f[2] = applySteeringEvent(f[2 - 1], s[2])
    BY <2>2, <2>3 DEF Applied
  <2> QED
    BY <2>1, <2>2, <2>3, <2>4 DEF s
<1> QED
  BY <1>1, <1>2, <1>3

-----------------------------------------------------------------------------
(* One event.                                                                *)

LEMMA NothingOpen ==
  ASSUME NEW p, Replayable(p)
  PROVE  /\ incompletePromptBinding(p) = {}
         /\ \A i \in CommandIds : pendingIn(p, i) => ~isManifestReserved(p, i)
BY DEF Replayable, incompletePromptBinding, pendingIn, isManifestReserved

\* The projection p with the command i replaced, one event later.
With(p, i, c) ==
  [ok |-> p.ok, seq |-> p.seq + 1, commands |-> [p.commands EXCEPT ![i] = c], manifests |-> p.manifests]

LEMMA WithFields ==
  ASSUME NEW p, p \in Projections, NEW i \in CommandIds, NEW c \in CommandRecs
  PROVE  /\ With(p, i, c) \in Projections /\ (With(p, i, c).ok <=> p.ok) /\ With(p, i, c).seq = p.seq + 1
         /\ With(p, i, c).manifests = p.manifests
         /\ With(p, i, c).commands[i] = c
         /\ \A j \in CommandIds : j # i => With(p, i, c).commands[j] = p.commands[j]
<1>1. [p.commands EXCEPT ![i] = c] \in [CommandIds -> CommandRecs]
  BY DEF Projections
<1> QED
  BY <1>1 DEF With, Projections

\* What a prompt promises of its commands, and a command of its prompt.
ManifestsSound(ms, cs) ==
  \A m \in 1..Len(ms) : \A k \in 1..Len(ms[m].ids) : LET c == cs[ms[m].ids[k]] IN
    /\ \A n \in 1..Len(ms) : n # m => \A j \in 1..Len(ms[n].ids) : ms[n].ids[j] # ms[m].ids[k]
    /\ c.st \in {"pending", "included"}
    /\ c.adm < ms[m].at
    /\ c.st = "included" => c.term = ms[m].at + k
    /\ \A j \in 1..(k - 1) : cs[ms[m].ids[j]].adm < c.adm

LEMMA ConsistentIs ==
  ASSUME NEW p
  PROVE  assertSteeringProjectionConsistent(p) <=>
           /\ ManifestsSound(p.manifests, p.commands)
           /\ \A i \in CommandIds : LET c == p.commands[i] IN
                /\ c.st = "included" => isManifestReserved(p, i)
                /\ c.st = "superseded" => p.commands[c.why].st # "none" /\ p.commands[c.why].req.sup = i
                /\ c.st = "expired" => c.req.exp
BY DEF assertSteeringProjectionConsistent, ManifestsSound

LEMMA SameMembers ==
  ASSUME NEW ms \in Seq(ManifestRecs), NEW cs, NEW ds, ManifestsSound(ms, cs),
         \A m \in 1..Len(ms) : \A k \in 1..Len(ms[m].ids) : ds[ms[m].ids[k]] = cs[ms[m].ids[k]]
  PROVE  ManifestsSound(ms, ds)
<1> SUFFICES ASSUME NEW m \in 1..Len(ms), NEW k \in 1..Len(ms[m].ids)
             PROVE  LET c == cs[ms[m].ids[k]] IN
    /\ \A n \in 1..Len(ms) : n # m => \A j \in 1..Len(ms[n].ids) : ms[n].ids[j] # ms[m].ids[k]
    /\ c.st \in {"pending", "included"}
    /\ c.adm < ms[m].at
    /\ c.st = "included" => c.term = ms[m].at + k
    /\ \A j \in 1..(k - 1) : ds[ms[m].ids[j]].adm < c.adm
  BY DEF ManifestsSound
<1>1. Len(ms[m].ids) \in Nat
  BY DEF ManifestRecs
<1>2. \A j \in 1..(k - 1) : j \in 1..Len(ms[m].ids)
  BY <1>1
<1>3. \A j \in 1..(k - 1) : ds[ms[m].ids[j]] = cs[ms[m].ids[j]]
  BY <1>2
<1> QED
  BY SMTT(40), <1>3 DEF ManifestsSound

LEMMA CommandChanges ==
  ASSUME NEW p, Replayable(p), NEW i \in CommandIds, NEW c \in CommandRecs,
         NEW q, q = With(p, i, c),
         p.commands[i].st \in {"none", "pending"}, c.st \notin {"none", "included"},
         c.st = "pending" => p.commands[i].st = "none" /\ c.adm = p.seq + 1,
         p.commands[i].st = "none" => c.adm \in {0, p.seq + 1},
         p.commands[i].st = "pending" => c.req = p.commands[i].req /\ c.adm = p.commands[i].adm,
         c.st = "superseded" => /\ c.why \in CommandIds /\ q.commands[c.why].st # "none"
                                /\ q.commands[c.why].req.sup = i,
         c.st = "expired" => c.req.exp
  PROVE  Replayable(q) /\ Recorded(p, q)
<1>0. p \in Projections /\ p.ok
  BY DEF Replayable
<1>1. /\ q \in Projections /\ q.ok /\ q.seq = p.seq + 1 /\ q.manifests = p.manifests
      /\ q.commands[i] = c /\ \A j \in CommandIds : j # i => q.commands[j] = p.commands[j]
  BY <1>0, WithFields
<1>2. p \in Projections /\ p.seq \in Nat /\ \A j \in CommandIds : p.commands[j].adm \in Nat
  BY DEF Replayable, Projections, CommandRecs
<1>3. \A m \in 1..Len(p.manifests) : \A k \in 1..Len(p.manifests[m].ids) :
        /\ p.manifests[m].ids[k] \in CommandIds
        /\ p.commands[p.manifests[m].ids[k]].st = "included"
        /\ q.commands[p.manifests[m].ids[k]] = p.commands[p.manifests[m].ids[k]]
  <2> TAKE m \in 1..Len(p.manifests)
  <2> TAKE k \in 1..Len(p.manifests[m].ids)
  <2>1. p.manifests[m] \in ManifestRecs
    BY <1>2 DEF Projections
  <2>2. p.manifests[m].ids[k] \in CommandIds
    BY <2>1 DEF ManifestRecs
  <2>3. p.commands[p.manifests[m].ids[k]].st = "included"
    BY DEF Replayable
  <2> QED
    BY <1>1, <2>2, <2>3
<1>4. \A j \in CommandIds : q.commands[j].adm <= q.seq
  BY <1>1, <1>2 DEF Replayable
<1>5. \A j \in CommandIds : pendingIn(q, j) => q.commands[j].adm > 0
  BY <1>1, <1>2 DEF Replayable, pendingIn
<1>6. \A j, k \in CommandIds : pendingIn(q, j) /\ pendingIn(q, k) /\ j # k =>
        q.commands[j].adm # q.commands[k].adm
  <2> SUFFICES ASSUME NEW j \in CommandIds, NEW k \in CommandIds, pendingIn(q, j), pendingIn(q, k), j # k
               PROVE  q.commands[j].adm # q.commands[k].adm
    OBVIOUS
  <2>1. CASE j # i /\ k # i
    BY <1>1, <2>1 DEF Replayable, pendingIn
  <2>2. CASE j = i
    BY <1>1, <1>2, <2>2 DEF Replayable, pendingIn
  <2>3. CASE k = i
    BY <1>1, <1>2, <2>3 DEF Replayable, pendingIn
  <2> QED
    BY <2>1, <2>2, <2>3
<1>7. \A j \in CommandIds : q.commands[j].st = "superseded" => q.commands[j].why \in CommandIds
  BY <1>1 DEF Replayable
<1>8. \A m \in 1..Len(q.manifests) : \A k \in 1..Len(q.manifests[m].ids) :
        q.commands[q.manifests[m].ids[k]].st = "included"
  BY SMTT(40), <1>1, <1>3
<1>9. assertSteeringProjectionConsistent(q)
  <2>1. ManifestsSound(q.manifests, q.commands)
    <3>1. ManifestsSound(p.manifests, p.commands)
      BY ConsistentIs DEF Replayable
    <3>2. p.manifests \in Seq(ManifestRecs)
      BY <1>2 DEF Projections
    <3>3. ManifestsSound(p.manifests, q.commands)
      <4> DEFINE ms == p.manifests
                 cs == p.commands
                 ds == q.commands
      <4>1. /\ ms \in Seq(ManifestRecs) /\ ManifestsSound(ms, cs)
            /\ \A m \in 1..Len(ms) : \A k \in 1..Len(ms[m].ids) : ds[ms[m].ids[k]] = cs[ms[m].ids[k]]
        BY <1>3, <3>1, <3>2
      <4> HIDE DEF ms, cs, ds
      <4>2. ManifestsSound(ms, ds)
        BY <4>1, SameMembers
      <4> QED
        BY <4>2 DEF ms, ds
    <3> QED
      BY <1>1, <3>3
  <2>2. \A j \in CommandIds : q.commands[j].st = "included" => isManifestReserved(q, j)
    BY SMTT(40), <1>1 DEF Replayable, assertSteeringProjectionConsistent, isManifestReserved
  <2>3. \A j \in CommandIds : q.commands[j].st = "superseded" =>
          q.commands[q.commands[j].why].st # "none" /\ q.commands[q.commands[j].why].req.sup = j
    <3> SUFFICES ASSUME NEW j \in CommandIds, q.commands[j].st = "superseded", j # i
                 PROVE  q.commands[q.commands[j].why].st # "none" /\ q.commands[q.commands[j].why].req.sup = j
      BY <1>1
    <3>1. /\ q.commands[j] = p.commands[j] /\ p.commands[j].why \in CommandIds
          /\ p.commands[p.commands[j].why].st # "none" /\ p.commands[p.commands[j].why].req.sup = j
      BY SMTT(40), <1>1 DEF Replayable, assertSteeringProjectionConsistent
    <3>2. CASE p.commands[j].why = i
      BY <1>1, <3>1, <3>2
    <3>3. CASE p.commands[j].why # i
      BY <1>1, <3>1, <3>3
    <3> QED
      BY <3>2, <3>3
  <2>4. \A j \in CommandIds : q.commands[j].st = "expired" => q.commands[j].req.exp
    BY SMTT(40), <1>1 DEF Replayable, assertSteeringProjectionConsistent
  <2> QED
    BY <2>1, <2>2, <2>3, <2>4, ConsistentIs DEF isManifestReserved
<1>10. Recorded(p, q)
  BY <1>1 DEF Recorded, CommandKept
<1> QED
  BY <1>1, <1>4, <1>5, <1>6, <1>7, <1>8, <1>9, <1>10 DEF Replayable

\* An event that opens no prompt, at a projection between batches.
LEMMA EventApplied ==
  ASSUME NEW p, Replayable(p), NEW e,
         e.type \in {"prepared", "admitted", "refused", "terminal_refused", "withdrawn", "superseded",
                     "expired", "other"}
  PROVE  applySteeringEvent(p, e) =
           [(CASE e.type = "prepared" -> applyPrepared(p, e)
               [] e.type = "admitted" -> applyAdmitted(p, e)
               [] e.type = "refused" -> applyRefused(p, e)
               [] e.type = "terminal_refused" -> applyTerminalRefused(p, e)
               [] e.type = "included" -> applyIncluded(p, e)
               [] e.type = "withdrawn" -> applyWithdrawn(p, e)
               [] e.type = "superseded" -> applySuperseded(p, e)
               [] e.type = "expired" -> applyExpired(p, e)
               [] OTHER -> p) EXCEPT !.seq = p.seq + 1]
BY NothingOpen DEF Replayable, applySteeringEvent

LEMMA OneLater ==
  ASSUME NEW r, NEW a, NEW s, NEW cs, NEW ms, NEW n,
         r = [ok |-> a, seq |-> s, commands |-> cs, manifests |-> ms]
  PROVE  [r EXCEPT !.seq = n] = [ok |-> a, seq |-> n, commands |-> cs, manifests |-> ms]
OBVIOUS

\* Replacing one command by hand is With.
LEMMA ReplacedIs ==
  ASSUME NEW p, p \in Projections, NEW i \in CommandIds, NEW c
  PROVE  [[p EXCEPT !.commands[i] = c] EXCEPT !.seq = p.seq + 1] = With(p, i, c)
<1> DEFINE r == [p EXCEPT !.commands[i] = c]
           cs == [p.commands EXCEPT ![i] = c]
           n == p.seq + 1
<1>1. p = [ok |-> p.ok, seq |-> p.seq, commands |-> p.commands, manifests |-> p.manifests]
  BY DEF Projections
<1>2. r = [ok |-> p.ok, seq |-> p.seq, commands |-> cs, manifests |-> p.manifests]
  BY <1>1
<1>3. With(p, i, c) = [ok |-> p.ok, seq |-> n, commands |-> cs, manifests |-> p.manifests]
  BY DEF With
<1> HIDE DEF r, cs, n
<1>4. [r EXCEPT !.seq = n] = [ok |-> p.ok, seq |-> n, commands |-> cs, manifests |-> p.manifests]
  BY <1>2
<1> QED
  BY <1>3, <1>4 DEF n, r

LEMMA TerminalIs ==
  ASSUME NEW p, p \in Projections, NEW i \in CommandIds, NEW st, NEW why
  PROVE  [Terminal(p, i, st, why) EXCEPT !.seq = p.seq + 1] =
           With(p, i, [st |-> st, req |-> p.commands[i].req, adm |-> p.commands[i].adm,
                       term |-> p.seq + 1, why |-> why])
<1> DEFINE c == p.commands[i]
           d == [st |-> st, req |-> c.req, adm |-> c.adm, term |-> p.seq + 1, why |-> why]
<1>1. c = [st |-> c.st, req |-> c.req, adm |-> c.adm, term |-> c.term, why |-> c.why]
  BY DEF Projections, CommandRecs
<1>2. [c EXCEPT !.st = st, !.term = p.seq + 1, !.why = why] = d
  <2> DEFINE c1 == [c EXCEPT !.st = st]
             c2 == [c1 EXCEPT !.term = p.seq + 1]
  <2> HIDE DEF c
  <2>1. c1 = [st |-> st, req |-> c.req, adm |-> c.adm, term |-> c.term, why |-> c.why]
    BY <1>1
  <2>2. [c EXCEPT !.st = st, !.term = p.seq + 1, !.why = why] = [c2 EXCEPT !.why = why]
    OBVIOUS
  <2> HIDE DEF c1
  <2>3. c2 = [st |-> st, req |-> c.req, adm |-> c.adm, term |-> p.seq + 1, why |-> c.why]
    BY <2>1
  <2> HIDE DEF c2
  <2> QED
    BY <2>2, <2>3
<1>3. Terminal(p, i, st, why) = [p EXCEPT !.commands[i] = d]
  BY <1>2 DEF Terminal
<1> HIDE DEF d
<1>4. [[p EXCEPT !.commands[i] = d] EXCEPT !.seq = p.seq + 1] = With(p, i, d)
  BY ReplacedIs
<1>5. [Terminal(p, i, st, why) EXCEPT !.seq = p.seq + 1] = With(p, i, d)
  BY <1>3, <1>4
<1> QED
  BY <1>5 DEF d

LEMMA CommandMade ==
  ASSUME NEW r, NEW n
  PROVE  /\ [NoCommand EXCEPT !.st = "pending", !.req = r, !.adm = n]
              = [st |-> "pending", req |-> r, adm |-> n, term |-> 0, why |-> "none"]
         /\ [NoCommand EXCEPT !.st = "refused", !.req = r, !.term = n]
              = [st |-> "refused", req |-> r, adm |-> 0, term |-> n, why |-> "none"]
<1> DEFINE a1 == [NoCommand EXCEPT !.st = "pending"]
           a2 == [a1 EXCEPT !.req = r]
           b1 == [NoCommand EXCEPT !.st = "refused"]
           b2 == [b1 EXCEPT !.req = r]
<1>1. /\ a1 = [st |-> "pending", req |-> "none", adm |-> 0, term |-> 0, why |-> "none"]
      /\ b1 = [st |-> "refused", req |-> "none", adm |-> 0, term |-> 0, why |-> "none"]
  BY DEF NoCommand
<1>2. /\ [NoCommand EXCEPT !.st = "pending", !.req = r, !.adm = n] = [a2 EXCEPT !.adm = n]
      /\ [NoCommand EXCEPT !.st = "refused", !.req = r, !.term = n] = [b2 EXCEPT !.term = n]
  OBVIOUS
<1> HIDE DEF a1, b1
<1>3. /\ a2 = [st |-> "pending", req |-> r, adm |-> 0, term |-> 0, why |-> "none"]
      /\ b2 = [st |-> "refused", req |-> r, adm |-> 0, term |-> 0, why |-> "none"]
  BY <1>1
<1> HIDE DEF a2, b2
<1> QED
  BY <1>2, <1>3

LEMMA AdmittedIs ==
  ASSUME NEW p, Replayable(p), NEW r \in AdmitRequests, NEW late, p.commands[r.id].st = "none",
         ~(r.exp /\ late),
         r.sup = "none" \/ (pendingIn(p, r.sup) /\ ~isManifestReserved(p, r.sup))
  PROVE  LET q == applySteeringEvent(p, admissionEvent(r, late))
             c == [st |-> "pending", req |-> r, adm |-> p.seq + 1, term |-> 0, why |-> "none"] IN
         q = With(p, r.id, c) /\ Replayable(q) /\ Recorded(p, q)
<1> DEFINE e == admissionEvent(r, late)
           c == [st |-> "pending", req |-> r, adm |-> p.seq + 1, term |-> 0, why |-> "none"]
<1>1. e.type = "admitted" /\ e.req = r /\ e.late = late
  BY DEF admissionEvent
<1>2. p \in Projections /\ p.seq \in Nat
  BY DEF Replayable, Projections
<1>3. [NoCommand EXCEPT !.st = "pending", !.req = r, !.adm = p.seq + 1] = c
  <2> DEFINE n == p.seq + 1
  <2> HIDE DEF n
  <2>1. [NoCommand EXCEPT !.st = "pending", !.req = r, !.adm = n]
          = [st |-> "pending", req |-> r, adm |-> n, term |-> 0, why |-> "none"]
    BY CommandMade
  <2> QED
    BY <2>1 DEF n
<1> HIDE DEF e
<1>4. applyAdmitted(p, e) = [p EXCEPT !.commands[r.id] = c]
  BY <1>1, <1>3 DEF applyAdmitted
<1>c. c \in CommandRecs /\ c.st = "pending" /\ c.adm = p.seq + 1
  BY <1>2 DEF CommandRecs, CommandStates, Reasons
<1> HIDE DEF c
<1>5. applySteeringEvent(p, e) = [applyAdmitted(p, e) EXCEPT !.seq = p.seq + 1]
  BY <1>1, EventApplied
<1>6. r.id \in CommandIds
  BY DEF CommandIds, Requests
<1>7. [[p EXCEPT !.commands[r.id] = c] EXCEPT !.seq = p.seq + 1] = With(p, r.id, c)
  BY <1>2, <1>6, ReplacedIs
<1>8. Replayable(With(p, r.id, c)) /\ Recorded(p, With(p, r.id, c))
  BY <1>c, <1>6, CommandChanges
<1> QED
  BY <1>4, <1>5, <1>7, <1>8 DEF c, e

LEMMA RefusedIs ==
  ASSUME NEW p, Replayable(p), NEW r \in AdmitRequests, p.commands[r.id].st = "none"
  PROVE  LET q == applySteeringEvent(p, decisionEvent(r))
             c == [st |-> "refused", req |-> r, adm |-> 0, term |-> p.seq + 1, why |-> "none"] IN
         q = With(p, r.id, c) /\ Replayable(q) /\ Recorded(p, q)
<1> DEFINE e == decisionEvent(r)
           c == [st |-> "refused", req |-> r, adm |-> 0, term |-> p.seq + 1, why |-> "none"]
<1>1. e.type = "refused" /\ e.req = r
  BY DEF decisionEvent
<1>2. p \in Projections /\ p.seq \in Nat
  BY DEF Replayable, Projections
<1>3. [NoCommand EXCEPT !.st = "refused", !.req = r, !.term = p.seq + 1] = c
  <2> DEFINE n == p.seq + 1
  <2> HIDE DEF n
  <2>1. [NoCommand EXCEPT !.st = "refused", !.req = r, !.term = n]
          = [st |-> "refused", req |-> r, adm |-> 0, term |-> n, why |-> "none"]
    BY CommandMade
  <2> QED
    BY <2>1 DEF n
<1> HIDE DEF e
<1>4. applyRefused(p, e) = [p EXCEPT !.commands[r.id] = c]
  BY <1>1, <1>3 DEF applyRefused
<1>c. c \in CommandRecs /\ c.st = "refused" /\ c.adm = 0
  BY <1>2 DEF CommandRecs, CommandStates, Reasons
<1> HIDE DEF c
<1>5. applySteeringEvent(p, e) = [applyRefused(p, e) EXCEPT !.seq = p.seq + 1]
  BY <1>1, EventApplied
<1>6. r.id \in CommandIds
  BY DEF CommandIds, Requests
<1>7. [[p EXCEPT !.commands[r.id] = c] EXCEPT !.seq = p.seq + 1] = With(p, r.id, c)
  BY <1>2, <1>6, ReplacedIs
<1>8. Replayable(With(p, r.id, c)) /\ Recorded(p, With(p, r.id, c))
  BY <1>c, <1>6, CommandChanges
<1> QED
  BY <1>4, <1>5, <1>7, <1>8 DEF c, e

\* A waiting command that an event decides for good.
Decided(p, i, st, why) ==
  [st |-> st, req |-> p.commands[i].req, adm |-> p.commands[i].adm, term |-> p.seq + 1, why |-> why]

LEMMA CommandDecided ==
  ASSUME NEW p, Replayable(p), NEW i \in CommandIds, pendingIn(p, i),
         NEW st \in {"refused", "withdrawn", "superseded", "expired"}, NEW why \in Reasons,
         st = "superseded" => why \in CommandIds /\ pendingIn(p, why) /\ p.commands[why].req.sup = i,
         st = "expired" => p.commands[i].req.exp
  PROVE  LET q == With(p, i, Decided(p, i, st, why)) IN
         [Terminal(p, i, st, why) EXCEPT !.seq = p.seq + 1] = q /\ Replayable(q) /\ Recorded(p, q)
<1> DEFINE c == Decided(p, i, st, why)
           q == With(p, i, c)
<1>1. p \in Projections /\ p.seq \in Nat /\ p.commands[i] \in CommandRecs
  BY DEF Replayable, Projections
<1>2. [Terminal(p, i, st, why) EXCEPT !.seq = p.seq + 1] = q
  BY <1>1, TerminalIs DEF Decided
<1>3. c \in CommandRecs
  BY <1>1 DEF CommandRecs, CommandStates, Decided
<1>4. c.st = st /\ c.req = p.commands[i].req /\ c.adm = p.commands[i].adm /\ c.why = why
  BY DEF Decided
<1> HIDE DEF c
<1>5. st = "superseded" => q.commands[why].st # "none" /\ q.commands[why].req.sup = i
  <2> SUFFICES ASSUME st = "superseded" PROVE q.commands[why].st # "none" /\ q.commands[why].req.sup = i
    OBVIOUS
  <2>1. q.commands[i] = c /\ \A j \in CommandIds : j # i => q.commands[j] = p.commands[j]
    BY <1>1, <1>3, WithFields
  <2> HIDE DEF q
  <2>2. CASE why = i
    BY <1>4, <2>1, <2>2
  <2>3. CASE why # i
    BY <2>1, <2>3 DEF pendingIn
  <2> QED
    BY <2>2, <2>3
<1>6. Replayable(q) /\ Recorded(p, q)
  <2>1. q = With(p, i, c)
    OBVIOUS
  <2> HIDE DEF q
  <2> QED
    BY <1>3, <1>4, <1>5, <2>1, CommandChanges DEF pendingIn
<1> HIDE DEF q
<1> QED
  BY <1>2, <1>6 DEF c, q

LEMMA WithdrawnIs ==
  ASSUME NEW p, Replayable(p), NEW r \in WithdrawRequests, pendingIn(p, r.id)
  PROVE  LET q == applySteeringEvent(p, withdrawalEvent(r)) IN
         q = With(p, r.id, Decided(p, r.id, "withdrawn", r.reason)) /\ Replayable(q) /\ Recorded(p, q)
<1> DEFINE e == withdrawalEvent(r)
<1>1. e.type = "withdrawn" /\ e.id = r.id /\ e.reason = r.reason
  BY DEF withdrawalEvent
<1>2. r.id \in CommandIds /\ r.reason \in Reasons
  BY DEF CommandIds, Requests, Reasons
<1> HIDE DEF e
<1>3. applyWithdrawn(p, e) = Terminal(p, r.id, "withdrawn", r.reason)
  BY <1>1, <1>2, NothingOpen DEF applyWithdrawn
<1>4. applySteeringEvent(p, e) = [applyWithdrawn(p, e) EXCEPT !.seq = p.seq + 1]
  BY <1>1, EventApplied
<1> QED
  BY <1>2, <1>3, <1>4, CommandDecided DEF e

LEMMA SupersededIs ==
  ASSUME NEW p, Replayable(p), NEW r \in AdmitRequests, r.sup \in CommandIds, pendingIn(p, r.sup),
         pendingIn(p, r.id), p.commands[r.id].req.sup = r.sup
  PROVE  LET q == applySteeringEvent(p, supersessionEvent(r)) IN
         q = With(p, r.sup, Decided(p, r.sup, "superseded", r.id)) /\ Replayable(q) /\ Recorded(p, q)
<1> DEFINE e == supersessionEvent(r)
<1>1. e.type = "superseded" /\ e.id = r.sup /\ e.by = r.id
  BY DEF supersessionEvent
<1>2. r.id \in CommandIds /\ r.id \in Reasons
  BY DEF CommandIds, Requests, Reasons
<1> HIDE DEF e
<1>3. applySuperseded(p, e) = Terminal(p, r.sup, "superseded", r.id)
  BY <1>1, <1>2, NothingOpen DEF applySuperseded
<1>4. applySteeringEvent(p, e) = [applySuperseded(p, e) EXCEPT !.seq = p.seq + 1]
  BY <1>1, EventApplied
<1> QED
  BY <1>2, <1>3, <1>4, CommandDecided DEF e

LEMMA ExpiredIs ==
  ASSUME NEW p, Replayable(p), NEW i \in CommandIds, pendingIn(p, i), p.commands[i].req.exp,
         NEW e, e.type = "expired", e.id = i, e.late
  PROVE  LET q == applySteeringEvent(p, e) IN Replayable(q) /\ Recorded(p, q)
<1>1. applyExpired(p, e) = Terminal(p, i, "expired", "none")
  BY NothingOpen DEF applyExpired
<1>2. applySteeringEvent(p, e) = [applyExpired(p, e) EXCEPT !.seq = p.seq + 1]
  BY EventApplied
<1>3. "none" \in Reasons
  BY DEF Reasons
<1> QED
  BY <1>1, <1>2, <1>3, CommandDecided

LEMMA TerminalRefusedIs ==
  ASSUME NEW p, Replayable(p), NEW i \in CommandIds, pendingIn(p, i),
         NEW e, e.type = "terminal_refused", e.id = i
  PROVE  LET q == applySteeringEvent(p, e) IN Replayable(q) /\ Recorded(p, q)
<1>1. applyTerminalRefused(p, e) = Terminal(p, i, "refused", "none")
  BY NothingOpen DEF applyTerminalRefused
<1>2. applySteeringEvent(p, e) = [applyTerminalRefused(p, e) EXCEPT !.seq = p.seq + 1]
  BY EventApplied
<1>3. "none" \in Reasons
  BY DEF Reasons
<1> QED
  BY <1>1, <1>2, <1>3, CommandDecided

LEMMA OtherIs ==
  ASSUME NEW p, Replayable(p), NEW e, e.type = "other"
  PROVE  LET q == applySteeringEvent(p, e) IN Replayable(q) /\ Recorded(p, q)
<1> DEFINE q == applySteeringEvent(p, e)
<1>1. q = [p EXCEPT !.seq = p.seq + 1]
  BY EventApplied
<1>2. p \in Projections /\ p.seq \in Nat /\ \A i \in CommandIds : p.commands[i].adm \in Nat
  BY DEF Replayable, Projections, CommandRecs
<1> HIDE DEF q
<1>3. q \in Projections /\ (q.ok <=> p.ok) /\ q.seq = p.seq + 1 /\ q.commands = p.commands /\ q.manifests = p.manifests
  BY <1>1, <1>2 DEF Projections
<1>4. assertSteeringProjectionConsistent(q)
  <2>1. \A i \in CommandIds : isManifestReserved(q, i) <=> isManifestReserved(p, i)
    BY <1>3 DEF isManifestReserved
  <2>2. ManifestsSound(q.manifests, q.commands)
    BY <1>3, ConsistentIs DEF Replayable
  <2>3. \A i \in CommandIds : LET c == q.commands[i] IN
          /\ c.st = "included" => isManifestReserved(q, i)
          /\ c.st = "superseded" => q.commands[c.why].st # "none" /\ q.commands[c.why].req.sup = i
          /\ c.st = "expired" => c.req.exp
    BY <1>3, <2>1, ConsistentIs DEF Replayable
  <2> QED
    BY <2>2, <2>3, ConsistentIs
<1>5. Replayable(q)
  BY <1>2, <1>3, <1>4 DEF Replayable, pendingIn
<1> QED
  BY <1>3, <1>5 DEF q, Recorded, CommandKept

-----------------------------------------------------------------------------
(* The decision of a request.                                                *)

LEMMA RecordedOn ==
  ASSUME NEW p, NEW q, NEW r, Recorded(p, q), Recorded(q, r)
  PROVE  Recorded(p, r)
BY DEF Recorded, CommandKept

LEMMA StillTold ==
  ASSUME NEW p, NEW q, Recorded(p, q), NEW r \in Requests, NEW y, Told(p, r, y)
  PROVE  Told(q, r, y)
<1>1. CommandKept(p.commands[r.id], q.commands[r.id])
  BY DEF Recorded, CommandIds
<1> QED
  BY <1>1 DEF Told, CommandKept

LEMMA WhichRequest ==
  ASSUME NEW r \in Requests
  PROVE  /\ r.id \in CommandIds
         /\ r.op = "admit" => r \in AdmitRequests /\ (r.sup = "none" \/ r.sup \in CommandIds)
         /\ r.op # "admit" => r \in WithdrawRequests
BY IpcBounds DEF Requests, CommandIds

LEMMA AdmissionSound ==
  ASSUME Replayable(steering), NEW r \in AdmitRequests, NEW late
  PROVE  LET d == admit(r, late)  q == reduceSteeringEvents(steering, d.events) IN
         Replayable(q) /\ Recorded(steering, q) /\ Told(q, r, d.reply) /\ (d.events = <<>> => q = steering)
<1> DEFINE p == steering
           d == admit(r, late)
           q == reduceSteeringEvents(p, d.events)
           n == p.seq + 1
<1>1. /\ r \in Requests /\ r.id \in CommandIds /\ (r.sup = "none" \/ r.sup \in CommandIds)
      /\ p \in Projections /\ Recorded(p, p)
  BY WhichRequest, IpcBounds DEF Requests, Replayable, Recorded, CommandKept
<1>2. CASE p.commands[r.id].st # "none"
  <2> DEFINE y == resolveExistingAdmission(r)
  <2>1. d = Decision(y, <<>>)
    BY <1>2 DEF admit
  <2>2. d.reply = y /\ d.events = <<>>
    BY <2>1 DEF Decision
  <2>3. q = p
    BY <2>2, ReduceShort
  <2>4. Told(p, r, y)
    BY <1>2 DEF resolveExistingAdmission, Told, Answer, Failure
  <2> HIDE DEF d, q, y
  <2> QED
    BY <1>1, <2>2, <2>3, <2>4 DEF d, q
<1>3. CASE p.commands[r.id].st = "none" /\ refusalDecision(r, late)
  <2> DEFINE e == decisionEvent(r)
             c == [st |-> "refused", req |-> r, adm |-> 0, term |-> n, why |-> "none"]
  <2>1. d = Decision(Answer("refused", n), <<e>>)
    BY <1>3 DEF admit
  <2>2. d.reply = Answer("refused", n) /\ d.events = <<e>>
    BY <2>1 DEF Decision
  <2>3. q = applySteeringEvent(p, e)
    BY <2>2, ReduceShort
  <2>4. applySteeringEvent(p, e) = With(p, r.id, c) /\ Replayable(applySteeringEvent(p, e))
        /\ Recorded(p, applySteeringEvent(p, e))
    BY <1>3, RefusedIs
  <2>5. c \in CommandRecs
    BY <1>1 DEF CommandRecs, CommandStates, Reasons, Projections
  <2>6. With(p, r.id, c).commands[r.id] = c
    BY <1>1, <2>5, WithFields
  <2>7. q.commands[r.id] = c
    BY <2>3, <2>4, <2>6
  <2> HIDE DEF q
  <2>8. Told(q, r, Answer("refused", n))
    BY <2>7 DEF Told, Answer, Failure
  <2>9. d.events # <<>>
    BY <2>2
  <2> HIDE DEF d, e
  <2> QED
    BY <2>2, <2>3, <2>4, <2>8, <2>9 DEF d, q
<1>4. CASE p.commands[r.id].st = "none" /\ ~refusalDecision(r, late)
  <2> DEFINE e == admissionEvent(r, late)
             s == supersessionEvent(r)
             c == [st |-> "pending", req |-> r, adm |-> n, term |-> 0, why |-> "none"]
             p1 == applySteeringEvent(p, e)
  <2>1. d = Decision(Answer("admitted", n), <<e>> \o (IF r.sup = "none" THEN <<>> ELSE <<s>>))
    BY <1>4 DEF admit
  <2>2. d.reply = Answer("admitted", n) /\ d.events = <<e>> \o (IF r.sup = "none" THEN <<>> ELSE <<s>>)
    BY <2>1 DEF Decision
  <2>3. /\ ~(r.exp /\ late)
        /\ r.sup = "none" \/ (pendingIn(p, r.sup) /\ ~isManifestReserved(p, r.sup))
    BY <1>4 DEF refusalDecision
  <2>4. p1 = With(p, r.id, c) /\ Replayable(p1) /\ Recorded(p, p1)
    BY <1>4, <2>3, AdmittedIs
  <2>5. c \in CommandRecs
    BY <1>1 DEF CommandRecs, CommandStates, Reasons, Projections
  <2>6. With(p, r.id, c).commands[r.id] = c
        /\ \A j \in CommandIds : j # r.id => With(p, r.id, c).commands[j] = p.commands[j]
    BY <1>1, <2>5, WithFields
  <2> HIDE DEF p1
  <2>7. p1.commands[r.id] = c /\ \A j \in CommandIds : j # r.id => p1.commands[j] = p.commands[j]
    BY <2>4, <2>6
  <2>8. CASE r.sup = "none"
    <3>1. <<e>> \o <<>> = <<e>>
      OBVIOUS
    <3>2. d.events = <<e>>
      BY <2>2, <2>8, <3>1
    <3>3. q = p1
      BY <3>2, ReduceShort DEF p1
    <3>4. Told(p1, r, Answer("admitted", n))
      BY <2>7 DEF Told, Answer, Failure
    <3>5. d.events # <<>>
      BY <3>2
    <3> HIDE DEF d, q
    <3> QED
      BY <2>2, <2>4, <3>3, <3>4, <3>5 DEF d, q
  <2>9. CASE r.sup # "none"
    <3> DEFINE p2 == applySteeringEvent(p1, s)
               x == Decided(p1, r.sup, "superseded", r.id)
    <3>1. d.events = <<e>> \o <<s>>
      BY <2>2, <2>9
    <3>2. q = p2
      BY <3>1, ReduceShort DEF p1
    <3>3. r.sup \in CommandIds /\ pendingIn(p, r.sup) /\ r.sup # r.id
      BY <1>1, <1>4, <2>3, <2>9 DEF pendingIn
    <3>4. pendingIn(p1, r.sup) /\ pendingIn(p1, r.id) /\ p1.commands[r.id].req.sup = r.sup
      BY <2>7, <3>3 DEF pendingIn
    <3>5. p2 = With(p1, r.sup, x) /\ Replayable(p2) /\ Recorded(p1, p2)
      BY <2>4, <3>3, <3>4, SupersededIs
    <3>6. p1 \in Projections /\ p1.seq \in Nat /\ p1.commands[r.sup] \in CommandRecs
      BY <2>4, <3>3 DEF Replayable, Projections
    <3>7. x \in CommandRecs
      BY <1>1, <3>6 DEF CommandRecs, CommandStates, Decided, Reasons
    <3> HIDE DEF x, p2
    <3>8. With(p1, r.sup, x).commands[r.id] = p1.commands[r.id]
      BY <1>1, <3>3, <3>6, <3>7, WithFields
    <3>9. p2.commands[r.id] = c
      BY <2>7, <3>5, <3>8
    <3>10. Told(p2, r, Answer("admitted", n))
      BY <3>9 DEF Told, Answer, Failure
    <3>11. Recorded(p, p2)
      BY <2>4, <3>5, RecordedOn
    <3>12. d.events # <<>>
      BY <3>1
    <3> HIDE DEF d, q
    <3> QED
      BY <2>2, <3>2, <3>5, <3>10, <3>11, <3>12 DEF d, q
  <2> QED
    BY <2>8, <2>9
<1> QED
  BY <1>2, <1>3, <1>4

LEMMA WithdrawalSound ==
  ASSUME Replayable(steering), NEW r \in WithdrawRequests
  PROVE  LET d == withdraw(r)  q == reduceSteeringEvents(steering, d.events) IN
         Replayable(q) /\ Recorded(steering, q) /\ Told(q, r, d.reply) /\ (d.events = <<>> => q = steering)
<1> DEFINE p == steering
           d == withdraw(r)
           q == reduceSteeringEvents(p, d.events)
           n == p.seq + 1
<1>1. r \in Requests /\ r.id \in CommandIds /\ p \in Projections /\ p.seq \in Nat /\ Recorded(p, p)
  BY WhichRequest DEF Requests, Replayable, Projections, Recorded, CommandKept
<1>2. ASSUME NEW y, d = Decision(y, <<>>), Told(p, r, y)
      PROVE  Replayable(q) /\ Recorded(p, q) /\ Told(q, r, d.reply) /\ (d.events = <<>> => q = p)
  <2>1. d.reply = y /\ d.events = <<>>
    BY <1>2 DEF Decision
  <2>2. q = p
    BY <2>1, ReduceShort
  <2> HIDE DEF d, q
  <2> QED
    BY <1>1, <1>2, <2>1, <2>2
<1>3. CASE p.commands[r.id].st = "withdrawn"
  <2> DEFINE y == IF p.commands[r.id].why = r.reason THEN Answer("withdrawn", p.commands[r.id].term) ELSE Failure
  <2>1. d = Decision(y, <<>>)
    BY <1>3 DEF withdraw
  <2>2. Told(p, r, y)
    BY <1>3 DEF Told, Answer, Failure
  <2> QED
    BY <1>2, <2>1, <2>2
<1>4. CASE p.commands[r.id].st = "pending" /\ ~isManifestReserved(p, r.id)
  <2> DEFINE e == withdrawalEvent(r)
             c == Decided(p, r.id, "withdrawn", r.reason)
  <2>1. d = Decision(Answer("withdrawn", n), <<e>>)
    BY <1>4 DEF withdraw
  <2>2. d.reply = Answer("withdrawn", n) /\ d.events = <<e>>
    BY <2>1 DEF Decision
  <2>3. q = applySteeringEvent(p, e)
    BY <2>2, ReduceShort
  <2>4. applySteeringEvent(p, e) = With(p, r.id, c) /\ Replayable(applySteeringEvent(p, e))
        /\ Recorded(p, applySteeringEvent(p, e))
    BY <1>4, WithdrawnIs DEF pendingIn
  <2>5. c \in CommandRecs
    BY <1>1 DEF CommandRecs, CommandStates, Reasons, Projections, Decided
  <2>6. With(p, r.id, c).commands[r.id] = c
    BY <1>1, <2>5, WithFields
  <2>7. q.commands[r.id] = c
    BY <2>3, <2>4, <2>6
  <2>8. c.st = "withdrawn" /\ c.term = n /\ c.why = r.reason
    BY DEF Decided
  <2> HIDE DEF q, c
  <2>9. Told(q, r, Answer("withdrawn", n))
    BY <2>7, <2>8 DEF Told, Answer, Failure
  <2>10. d.events # <<>>
    BY <2>2
  <2> HIDE DEF d, e
  <2> QED
    BY <2>2, <2>3, <2>4, <2>9, <2>10 DEF d, q
<1>5. CASE p.commands[r.id].st # "withdrawn" /\ ~(p.commands[r.id].st = "pending" /\ ~isManifestReserved(p, r.id))
  <2>1. d = Decision(Failure, <<>>)
    BY <1>5 DEF withdraw
  <2>2. Told(p, r, Failure)
    BY DEF Told, Failure
  <2> QED
    BY <1>2, <2>1, <2>2
<1> QED
  BY <1>3, <1>4, <1>5

LEMMA DecisionSound ==
  ASSUME Replayable(steering), NEW r \in Requests, NEW late
  PROVE  LET d == decide(r, late)  q == reduceSteeringEvents(steering, d.events) IN
         Replayable(q) /\ Recorded(steering, q) /\ Told(q, r, d.reply) /\ (d.events = <<>> => q = steering)
<1>1. CASE r.op = "admit"
  <2>1. r \in AdmitRequests /\ decide(r, late) = admit(r, late)
    BY <1>1, WhichRequest DEF decide
  <2> QED
    BY <2>1, AdmissionSound
<1>2. CASE r.op # "admit"
  <2>1. r \in WithdrawRequests /\ decide(r, late) = withdraw(r)
    BY <1>2, WhichRequest DEF decide
  <2> QED
    BY <2>1, WithdrawalSound
<1> QED
  BY <1>1, <1>2

-----------------------------------------------------------------------------
(* A prompt: the commands that wait in the order of their admission, and     *)
(* their inclusions one by one.                                              *)

Waiting(p, S) == S \in SUBSET CommandIds /\ \A i \in S : pendingIn(p, i)
InOrder(p, S, ids) ==
  /\ ids \in [1..Cardinality(S) -> S]
  /\ \A j, k \in 1..Cardinality(S) : j < k => p.commands[ids[j]].adm < p.commands[ids[k]].adm

LEMMA WaitingFinite ==
  ASSUME NEW p, Replayable(p), NEW S, Waiting(p, S)
  PROVE  IsFiniteSet(S)
<1> DEFINE f == [i \in S |-> p.commands[i].adm]
<1>1. p \in Projections /\ p.seq \in Nat
  BY DEF Replayable, Projections
<1>2. \A i \in S : p.commands[i].adm \in 1..p.seq
  BY <1>1 DEF Waiting, Replayable, Projections, CommandRecs
<1>3. f \in [S -> 1..p.seq]
  BY <1>2
<1>4. \A i, j \in S : f[i] = f[j] => i = j
  BY DEF Waiting, Replayable
<1>5. f \in Injection(S, 1..p.seq)
  BY <1>3, <1>4 DEF Injection, IsInjective
<1>6. IsFiniteSet(1..p.seq)
  BY <1>1, FS_Interval
<1> HIDE DEF f
<1> QED
  BY <1>5, <1>6, FS_Injection

LEMMA WaitingInOrder ==
  ASSUME NEW p, Replayable(p), NEW S, Waiting(p, S)
  PROVE  \E ids : InOrder(p, S, ids)
<1> DEFINE Sorted(T) == \E ids : InOrder(p, T, ids)
           Bad == {n \in Nat : \E T \in SUBSET CommandIds : Waiting(p, T) /\ Cardinality(T) = n /\ ~Sorted(T)}
<1> SUFFICES Bad = {}
  <2>1. Cardinality(S) \in Nat
    BY WaitingFinite, FS_CardinalityType
  <2> QED
    BY <2>1 DEF Waiting
<1> SUFFICES ASSUME Bad # {} PROVE FALSE
  OBVIOUS
<1>1. PICK m \in Bad : \A n \in Bad : m <= n
  BY LeastNumber
<1>2. PICK T \in SUBSET CommandIds : Waiting(p, T) /\ Cardinality(T) = m /\ ~Sorted(T)
  BY <1>1
<1>3. m \in Nat /\ IsFiniteSet(T)
  BY <1>2, WaitingFinite
<1>4. T # {}
  <2> SUFFICES ASSUME T = {} PROVE FALSE
    OBVIOUS
  <2>1. Cardinality(T) = 0
    BY FS_EmptySet
  <2>2. [i \in 1..0 |-> i] \in [1..0 -> {}] /\ \A j \in 1..0 : FALSE
    OBVIOUS
  <2>3. InOrder(p, T, [i \in 1..0 |-> i])
    BY <2>1, <2>2 DEF InOrder
  <2> QED
    BY <1>2, <2>3
<1>5. \A i \in T : p.commands[i].adm \in 1..p.seq /\ p.seq \in Nat
  BY <1>2 DEF Waiting, Replayable, Projections, CommandRecs
<1>6. PICK x \in T : \A i \in T : p.commands[i].adm <= p.commands[x].adm
  <2> DEFINE D == {p.seq - p.commands[i].adm : i \in T}
  <2>1. D \in SUBSET Nat /\ D # {}
    BY <1>4, <1>5
  <2>2. PICK d \in D : \A e \in D : d <= e
    BY <2>1, LeastNumber
  <2>3. PICK x \in T : d = p.seq - p.commands[x].adm
    OBVIOUS
  <2>4. \A i \in T : p.seq - p.commands[x].adm <= p.seq - p.commands[i].adm
    BY <2>2, <2>3
  <2> QED
    BY <1>5, <2>4
<1> DEFINE U == T \ {x}
<1>7. Cardinality(U) = m - 1 /\ m - 1 \in Nat /\ ~(m <= m - 1)
  <2>1. Cardinality(U) = m - 1
    BY <1>2, <1>3, FS_RemoveElement
  <2>2. m # 0
    BY <1>2, <1>3, <1>4, FS_EmptySet
  <2> QED
    BY <1>3, <2>1, <2>2
<1>8. U \in SUBSET CommandIds /\ Waiting(p, U)
  BY <1>2 DEF Waiting
<1>9. Sorted(U)
  BY <1>1, <1>7, <1>8
<1>10. PICK g : InOrder(p, U, g)
  BY <1>9
<1> DEFINE h == [i \in 1..m |-> IF i = m THEN x ELSE g[i]]
<1>11. /\ \A i \in 1..(m - 1) : g[i] \in U
       /\ \A j, k \in 1..(m - 1) : j < k => p.commands[g[j]].adm < p.commands[g[k]].adm
  BY <1>7, <1>10 DEF InOrder
<1>12. \A i \in 1..m : i # m => i \in 1..(m - 1)
  BY <1>3
<1>13. h \in [1..m -> T]
  BY <1>11, <1>12
<1>14. ASSUME NEW j \in 1..m, NEW k \in 1..m, j < k
       PROVE  p.commands[h[j]].adm < p.commands[h[k]].adm
  <2>1. j # m
    BY <1>3, <1>14
  <2>2. h[j] = g[j] /\ g[j] \in U /\ j \in 1..(m - 1)
    BY <1>11, <1>12, <2>1
  <2>3. CASE k # m
    BY <1>11, <1>12, <1>14, <2>2, <2>3
  <2>4. CASE k = m
    <3>1. h[k] = x
      BY <2>4
    <3>2. p.commands[g[j]].adm <= p.commands[x].adm /\ p.commands[g[j]].adm # p.commands[x].adm
      BY <1>2, <1>6, <2>2 DEF Waiting, Replayable
    <3> QED
      BY <1>5, <2>2, <3>1, <3>2
  <2> QED
    BY <2>3, <2>4
<1> HIDE DEF h
<1>15. InOrder(p, T, h)
  BY <1>2, <1>13, <1>14 DEF InOrder
<1> QED
  BY <1>2, <1>15

LEMMA BoundaryIs ==
  ASSUME Replayable(steering), NEW late
  PROVE  LET ids == selectBoundary(late) IN
         /\ ids \in Seq(CommandIds)
         /\ \A k \in 1..Len(ids) : /\ pendingIn(steering, ids[k]) /\ ~isManifestReserved(steering, ids[k])
                                   /\ ~(steering.commands[ids[k]].req.exp /\ late)
         /\ \A j, k \in 1..Len(ids) : j < k => steering.commands[ids[j]].adm < steering.commands[ids[k]].adm
<1> DEFINE S == {i \in CommandIds : /\ pendingIn(steering, i) /\ ~isManifestReserved(steering, i)
                                    /\ ~(steering.commands[i].req.exp /\ late)}
           n == Cardinality(S)
           ids == selectBoundary(late)
<1>1. Waiting(steering, S)
  BY DEF Waiting
<1>2. n \in Nat
  BY <1>1, WaitingFinite, FS_CardinalityType
<1>3. \E b : InOrder(steering, S, b)
  BY <1>1, WaitingInOrder
<1>4. ids = CHOOSE b \in [1..n -> S] :
              \A j, k \in 1..n : j < k => steering.commands[b[j]].adm < steering.commands[b[k]].adm
  BY DEF selectBoundary
<1>5. \E b \in [1..n -> S] : \A j, k \in 1..n : j < k => steering.commands[b[j]].adm < steering.commands[b[k]].adm
  BY <1>3 DEF InOrder
<1> HIDE DEF ids, n
<1>6. /\ ids \in [1..n -> S]
      /\ \A j, k \in 1..n : j < k => steering.commands[ids[j]].adm < steering.commands[ids[k]].adm
  BY <1>4, <1>5
<1>7. \A k \in 1..n : ids[k] \in S
  BY <1>6
<1>8. ids \in Seq(S) /\ Len(ids) = n
  BY <1>2, <1>6
<1>9. ids \in Seq(CommandIds)
  BY <1>8
<1> QED
  BY <1>6, <1>7, <1>8, <1>9 DEF ids

-----------------------------------------------------------------------------
(* The prompt's batch: the projection after the manifest and its first k     *)
(* inclusions.                                                               *)

Promptable(p, ids) ==
  /\ ids \in Seq(CommandIds)
  /\ \A k \in 1..Len(ids) : pendingIn(p, ids[k])
  /\ \A j, k \in 1..Len(ids) : j < k => p.commands[ids[j]].adm < p.commands[ids[k]].adm

PromptOf(p, ids) == [ids |-> ids, at |-> p.seq + 1]
Taken(p, i, t) == [st |-> "included", req |-> p.commands[i].req, adm |-> p.commands[i].adm, term |-> t, why |-> "none"]

\* After the first k inclusions of the prompt ids that p was asked for.
Mid(p, ids, k, g) ==
  /\ g \in Projections /\ g.ok /\ g.seq = p.seq + 1 + k
  /\ g.manifests = Append(p.manifests, PromptOf(p, ids))
  /\ \A i \in CommandIds : (\A j \in 1..k : ids[j] # i) => g.commands[i] = p.commands[i]
  /\ \A j \in 1..k : g.commands[ids[j]] = Taken(p, ids[j], p.seq + 1 + j)

LEMMA PromptOnce ==
  ASSUME NEW p, Replayable(p), NEW ids, Promptable(p, ids)
  PROVE  /\ Len(ids) \in Nat /\ \A k \in 1..Len(ids) : ids[k] \in CommandIds
         /\ \A j, k \in 1..Len(ids) : ids[j] = ids[k] => j = k
<1>1. Len(ids) \in Nat /\ \A k \in 1..Len(ids) : ids[k] \in CommandIds
  BY DEF Promptable
<1>2. \A k \in 1..Len(ids) : p.commands[ids[k]].adm \in Nat
  BY <1>1 DEF Replayable, Projections, CommandRecs
<1>3. \A j, k \in 1..Len(ids) : j < k => ids[j] # ids[k]
  BY <1>2 DEF Promptable
<1> QED
  BY <1>1, <1>3

\* The manifests with the new one, and who is in which.
LEMMA PromptManifests ==
  ASSUME NEW p, Replayable(p), NEW ids, Promptable(p, ids), NEW k \in 0..Len(ids), NEW g, Mid(p, ids, k, g)
  PROVE  LET n == Len(p.manifests) IN
         /\ n \in Nat /\ Len(g.manifests) = n + 1 /\ g.manifests[n + 1] = PromptOf(p, ids)
         /\ \A m \in 1..n : g.manifests[m] = p.manifests[m] /\ p.manifests[m] \in ManifestRecs
<1> DEFINE n == Len(p.manifests)
           M == PromptOf(p, ids)
           ms == p.manifests
<1>1. ms \in Seq(ManifestRecs) /\ g.manifests = Append(ms, M)
  BY DEF Replayable, Projections, Mid
<1> HIDE DEF M
<1>2. n \in Nat /\ Len(g.manifests) = n + 1 /\ g.manifests[n + 1] = M
  BY <1>1
<1>3. \A m \in 1..n : g.manifests[m] = ms[m] /\ ms[m] \in ManifestRecs
  BY <1>1
<1> QED
  BY <1>2, <1>3 DEF M

\* A member of an earlier prompt is not in the new one.
LEMMA PromptOlder ==
  ASSUME NEW p, Replayable(p), NEW ids, Promptable(p, ids), NEW k \in 0..Len(ids), NEW g, Mid(p, ids, k, g),
         NEW m \in 1..Len(p.manifests), NEW j \in 1..Len(p.manifests[m].ids)
  PROVE  /\ p.manifests[m].ids[j] \in CommandIds
         /\ \A l \in 1..Len(ids) : ids[l] # p.manifests[m].ids[j]
         /\ g.commands[p.manifests[m].ids[j]] = p.commands[p.manifests[m].ids[j]]
<1>1. p.manifests[m] \in ManifestRecs
  BY DEF Replayable, Projections
<1>2. p.manifests[m].ids[j] \in CommandIds
  BY <1>1 DEF ManifestRecs
<1>3. p.commands[p.manifests[m].ids[j]].st = "included"
  BY DEF Replayable
<1>4. \A l \in 1..Len(ids) : ids[l] # p.manifests[m].ids[j]
  BY <1>3 DEF Promptable, pendingIn
<1>5. \A l \in 1..k : l \in 1..Len(ids)
  BY PromptOnce
<1> QED
  BY <1>2, <1>4, <1>5 DEF Mid

\* What a member of the prompt looks like in the middle of it.
LEMMA PromptMembers ==
  ASSUME NEW p, Replayable(p), NEW ids, Promptable(p, ids), NEW k \in 0..Len(ids), NEW g, Mid(p, ids, k, g),
         NEW j \in 1..Len(ids)
  PROVE  /\ j <= k => g.commands[ids[j]] = Taken(p, ids[j], p.seq + 1 + j)
         /\ j > k => g.commands[ids[j]] = p.commands[ids[j]]
         /\ g.commands[ids[j]].adm = p.commands[ids[j]].adm
         /\ g.commands[ids[j]].req = p.commands[ids[j]].req
<1>1. k \in Nat /\ j \in Nat /\ \A l \in 1..k : l \in 1..Len(ids)
  BY PromptOnce
<1>2. CASE j <= k
  <2>1. j \in 1..k
    BY <1>1, <1>2
  <2>2. g.commands[ids[j]] = Taken(p, ids[j], p.seq + 1 + j)
    BY <2>1 DEF Mid
  <2> QED
    BY <1>1, <1>2, <2>2 DEF Taken
<1>3. CASE j > k
  <2>1. \A l \in 1..k : l # j
    BY <1>1, <1>3
  <2>2. \A l \in 1..k : ids[l] # ids[j]
    BY <1>1, <2>1, PromptOnce
  <2>3. g.commands[ids[j]] = p.commands[ids[j]]
    BY <2>2, PromptOnce DEF Mid
  <2> QED
    BY <1>1, <1>3, <2>3
<1> QED
  BY <1>1, <1>2, <1>3

\* A command in the middle of a prompt is the one p had, or one of the prompt.
LEMMA PromptCommands ==
  ASSUME NEW p, Replayable(p), NEW ids, Promptable(p, ids), NEW k \in 0..Len(ids), NEW g, Mid(p, ids, k, g),
         NEW i \in CommandIds
  PROVE  /\ g.commands[i].req = p.commands[i].req /\ g.commands[i].adm = p.commands[i].adm
         /\ \/ g.commands[i] = p.commands[i]
            \/ /\ p.commands[i].st = "pending" /\ g.commands[i].st = "included"
               /\ \E j \in 1..Len(ids) : i = ids[j]
<1>1. \A l \in 1..k : l \in 1..Len(ids)
  BY PromptOnce
<1>2. CASE \A j \in 1..k : ids[j] # i
  BY <1>2 DEF Mid
<1>3. CASE \E j \in 1..k : ids[j] = i
  <2>1. PICK j \in 1..k : ids[j] = i
    BY <1>3
  <2>2. g.commands[i] = Taken(p, i, p.seq + 1 + j)
    BY <2>1 DEF Mid
  <2>3. p.commands[i].st = "pending"
    BY <1>1, <2>1 DEF Promptable, pendingIn
  <2> QED
    BY <1>1, <2>1, <2>2, <2>3 DEF Taken
<1> QED
  BY <1>2, <1>3

LEMMA PromptSound ==
  ASSUME NEW p, Replayable(p), NEW ids, Promptable(p, ids), NEW k \in 0..Len(ids), NEW g, Mid(p, ids, k, g)
  PROVE  assertSteeringProjectionConsistent(g)
<1> DEFINE n == Len(p.manifests)
           ms == p.manifests
           gs == g.manifests
<1>1. /\ n \in Nat /\ Len(gs) = n + 1 /\ gs[n + 1] = PromptOf(p, ids)
      /\ \A m \in 1..n : gs[m] = ms[m] /\ ms[m] \in ManifestRecs
  BY PromptManifests
<1>2. \A m \in 1..n : \A j \in 1..Len(ms[m].ids) :
        /\ ms[m].ids[j] \in CommandIds
        /\ \A l \in 1..Len(ids) : ids[l] # ms[m].ids[j]
        /\ g.commands[ms[m].ids[j]] = p.commands[ms[m].ids[j]]
  <2> TAKE m \in 1..n
  <2> TAKE j \in 1..Len(ms[m].ids)
  <2> QED
    BY PromptOlder
<1>3. ManifestsSound(ms, p.commands)
  BY ConsistentIs DEF Replayable
<1>4. /\ p.seq \in Nat /\ \A i \in CommandIds : p.commands[i].adm \in Nat /\ p.commands[i].adm <= p.seq
      /\ Len(ids) \in Nat /\ \A j \in 1..Len(ids) : ids[j] \in CommandIds
  BY PromptOnce DEF Replayable, Projections, CommandRecs
<1>5. ASSUME NEW m \in 1..(n + 1), NEW j \in 1..Len(gs[m].ids)
      PROVE  LET c == g.commands[gs[m].ids[j]] IN
             /\ \A l \in 1..Len(gs) : l # m => \A h \in 1..Len(gs[l].ids) : gs[l].ids[h] # gs[m].ids[j]
             /\ c.st \in {"pending", "included"}
             /\ c.adm < gs[m].at
             /\ c.st = "included" => c.term = gs[m].at + j
             /\ \A h \in 1..(j - 1) : g.commands[gs[m].ids[h]].adm < c.adm
  <2>0. \A l \in 1..(n + 1) : l \in 1..n \/ l = n + 1
    BY <1>1
  <2>1. CASE m = n + 1
    <3>1. gs[m].ids = ids /\ gs[m].at = p.seq + 1 /\ j \in 1..Len(ids)
      BY <1>1, <2>1 DEF PromptOf
    <3>2. \A l \in 1..Len(gs) : l # m => \A h \in 1..Len(gs[l].ids) : gs[l].ids[h] # ids[j]
      <4> TAKE l \in 1..Len(gs)
      <4> HAVE l # m
      <4> TAKE h \in 1..Len(gs[l].ids)
      <4>1. l \in 1..n /\ gs[l] = ms[l]
        BY <1>1, <2>0, <2>1
      <4>2. h \in 1..Len(ms[l].ids)
        BY <4>1
      <4>3. ids[j] # ms[l].ids[h]
        BY <1>2, <3>1, <4>1, <4>2
      <4> QED
        BY <4>1, <4>3
    <3>3. /\ g.commands[ids[j]].adm = p.commands[ids[j]].adm
          /\ j <= k => g.commands[ids[j]] = Taken(p, ids[j], p.seq + 1 + j)
          /\ j > k => g.commands[ids[j]] = p.commands[ids[j]]
      BY <3>1, PromptMembers
    <3>4. /\ g.commands[ids[j]].st \in {"pending", "included"}
          /\ g.commands[ids[j]].st = "included" => g.commands[ids[j]].term = p.seq + 1 + j
      <4>1. p.commands[ids[j]].st = "pending"
        BY <3>1 DEF Promptable, pendingIn
      <4>2. j <= k \/ j > k
        BY <1>4, <3>1
      <4> QED
        BY <3>3, <4>1, <4>2 DEF Taken
    <3>5. p.commands[ids[j]].adm < p.seq + 1
      BY <1>4, <3>1
    <3>6. \A h \in 1..(j - 1) : g.commands[ids[h]].adm < g.commands[ids[j]].adm
      <4> TAKE h \in 1..(j - 1)
      <4>1. h \in 1..Len(ids) /\ h < j
        BY <1>4, <3>1
      <4>2. g.commands[ids[h]].adm = p.commands[ids[h]].adm
        BY <4>1, PromptMembers
      <4> QED
        BY <3>1, <3>3, <4>1, <4>2 DEF Promptable
    <3> QED
      BY <3>1, <3>2, <3>3, <3>4, <3>5, <3>6
  <2>2. CASE m \in 1..n
    <3>1. gs[m] = ms[m] /\ j \in 1..Len(ms[m].ids) /\ g.commands[ms[m].ids[j]] = p.commands[ms[m].ids[j]]
      BY <1>1, <1>2, <2>2
    <3>2. \A l \in 1..Len(gs) : l # m => \A h \in 1..Len(gs[l].ids) : gs[l].ids[h] # ms[m].ids[j]
      <4> SUFFICES ASSUME NEW l \in 1..Len(gs), l # m, NEW h \in 1..Len(gs[l].ids)
                   PROVE  gs[l].ids[h] # ms[m].ids[j]
        OBVIOUS
      <4>1. CASE l = n + 1
        <5>1. gs[l].ids = ids
          BY <1>1, <4>1 DEF PromptOf
        <5> QED
          BY <1>2, <2>2, <3>1, <5>1
      <4>2. CASE l \in 1..n
        <5>1. gs[l] = ms[l] /\ h \in 1..Len(ms[l].ids)
          BY <1>1, <4>2
        <5>2. \A h1 \in 1..Len(ms[l].ids) : ms[l].ids[h1] # ms[m].ids[j]
          BY ZenonT(40), <1>3, <2>2, <3>1, <4>2 DEF ManifestsSound
        <5> QED
          BY <5>1, <5>2
      <4> QED
        BY <1>1, <2>0, <4>1, <4>2
    <3>3. /\ p.commands[ms[m].ids[j]].st \in {"pending", "included"}
          /\ p.commands[ms[m].ids[j]].adm < ms[m].at
          /\ p.commands[ms[m].ids[j]].st = "included" => p.commands[ms[m].ids[j]].term = ms[m].at + j
          /\ \A h \in 1..(j - 1) : p.commands[ms[m].ids[h]].adm < p.commands[ms[m].ids[j]].adm
      BY <1>3, <2>2, <3>1 DEF ManifestsSound
    <3>4. \A h \in 1..(j - 1) : g.commands[ms[m].ids[h]] = p.commands[ms[m].ids[h]]
      <4>1. Len(ms[m].ids) \in Nat
        BY <1>1, <2>2 DEF ManifestRecs
      <4>2. \A h \in 1..(j - 1) : h \in 1..Len(ms[m].ids)
        BY <3>1, <4>1
      <4> QED
        BY <1>2, <2>2, <4>2
    <3> QED
      BY <3>1, <3>2, <3>3, <3>4
  <2> QED
    BY <2>0, <2>1, <2>2
<1>6. ManifestsSound(gs, g.commands)
  BY <1>1, <1>5 DEF ManifestsSound
<1>7. \A i \in CommandIds : g.commands[i].st = "included" => isManifestReserved(g, i)
  <2> SUFFICES ASSUME NEW i \in CommandIds, g.commands[i].st = "included"
               PROVE  \E m \in 1..Len(gs) : \E j \in 1..Len(gs[m].ids) : gs[m].ids[j] = i
    BY DEF isManifestReserved
  <2>1. CASE \E j \in 1..Len(ids) : i = ids[j]
    BY <1>1, <2>1 DEF PromptOf
  <2>2. CASE g.commands[i] = p.commands[i]
    <3>1. isManifestReserved(p, i)
      BY <2>2, ConsistentIs DEF Replayable
    <3>2. PICK m \in 1..n : \E j \in 1..Len(ms[m].ids) : ms[m].ids[j] = i
      BY <3>1 DEF isManifestReserved
    <3>3. m \in 1..Len(gs) /\ gs[m] = ms[m]
      BY <1>1
    <3> QED
      BY <3>2, <3>3
  <2> QED
    BY <2>1, <2>2, PromptCommands
<1>8. ASSUME NEW i \in CommandIds
      PROVE  /\ g.commands[i].st = "superseded" =>
                  g.commands[g.commands[i].why].st # "none" /\ g.commands[g.commands[i].why].req.sup = i
             /\ g.commands[i].st = "expired" => g.commands[i].req.exp
  <2>1. CASE g.commands[i].st \in {"superseded", "expired"}
    <3>1. g.commands[i] = p.commands[i]
      BY <2>1, PromptCommands
    <3>2. /\ p.commands[i].st = "superseded" =>
               /\ p.commands[i].why \in CommandIds /\ p.commands[p.commands[i].why].st # "none"
               /\ p.commands[p.commands[i].why].req.sup = i
          /\ p.commands[i].st = "expired" => p.commands[i].req.exp
      BY DEF Replayable, assertSteeringProjectionConsistent
    <3>3. \A h \in CommandIds : p.commands[h].st # "none" => g.commands[h].st # "none"
      <4> TAKE h \in CommandIds
      <4> QED
        BY PromptCommands
    <3>4. \A h \in CommandIds : g.commands[h].req = p.commands[h].req
      BY PromptCommands
    <3> QED
      BY <3>1, <3>2, <3>3, <3>4
  <2> QED
    BY <2>1
<1> QED
  BY <1>6, <1>7, <1>8, ConsistentIs

LEMMA PromptBegins ==
  ASSUME NEW p, Replayable(p), NEW ids, Promptable(p, ids), NEW late,
         \A k \in 1..Len(ids) : ~(p.commands[ids[k]].req.exp /\ late),
         NEW e, e.type = "prepared", e.ids = ids, e.cutoff = p.seq, e.late = late
  PROVE  Mid(p, ids, 0, applySteeringEvent(p, e))
<1> DEFINE r == applyPrepared(p, e)
           q == applySteeringEvent(p, e)
           M == PromptOf(p, ids)
           ms == Append(p.manifests, M)
           n == p.seq + 1
<1>1. p \in Projections /\ p.seq \in Nat /\ p.ok
  BY DEF Replayable, Projections
<1>2. \A k \in 1..Len(ids) : pendingIn(p, ids[k]) /\ ~isManifestReserved(p, ids[k])
  BY PromptOnce, NothingOpen DEF Promptable
<1>3. \A k \in 1..Len(ids) : \A j \in 1..(k - 1) : p.commands[ids[j]].adm < p.commands[ids[k]].adm
  <2> TAKE k \in 1..Len(ids)
  <2> TAKE j \in 1..(k - 1)
  <2>1. j \in 1..Len(ids) /\ j < k
    BY PromptOnce
  <2> QED
    BY <2>1 DEF Promptable
<1>4. r = [p EXCEPT !.manifests = ms]
  BY <1>2, <1>3 DEF applyPrepared, PromptOf
<1>5. M \in ManifestRecs
  BY <1>1 DEF ManifestRecs, PromptOf, Promptable
<1>6. ms \in Seq(ManifestRecs)
  <2> HIDE DEF M
  <2> QED
    BY <1>1, <1>5 DEF Projections
<1>7. q = [r EXCEPT !.seq = n]
  BY EventApplied
<1>8. p = [ok |-> p.ok, seq |-> p.seq, commands |-> p.commands, manifests |-> p.manifests]
  BY <1>1 DEF Projections
<1>9. q = [ok |-> p.ok, seq |-> n, commands |-> p.commands, manifests |-> ms]
  <2> HIDE DEF r, q, ms, n
  <2>1. r = [ok |-> p.ok, seq |-> p.seq, commands |-> p.commands, manifests |-> ms]
    BY <1>4, <1>8
  <2> QED
    BY <1>7, <2>1
<1> HIDE DEF q
<1>10. q.ok /\ q.seq = n /\ q.commands = p.commands /\ q.manifests = ms
  <2> HIDE DEF ms, n
  <2> QED
    BY <1>1, <1>9
<1>11. q \in Projections
  <2> HIDE DEF ms
  <2> QED
    BY <1>1, <1>6, <1>9 DEF Projections
<1>12. n = p.seq + 1 + 0
  BY <1>1
<1>13. \A j \in 1..0 : FALSE
  OBVIOUS
<1> HIDE DEF M
<1>14. Mid(p, ids, 0, q)
  BY <1>10, <1>11, <1>12, <1>13 DEF Mid, M
<1> QED
  BY <1>14 DEF q

LEMMA PromptIncludes ==
  ASSUME NEW p, Replayable(p), NEW ids, Promptable(p, ids), NEW k \in 1..Len(ids), NEW g,
         Mid(p, ids, k - 1, g), NEW e, e.type = "included", e.id = ids[k]
  PROVE  Mid(p, ids, k, applySteeringEvent(g, e))
<1> DEFINE i == ids[k]
           c == Taken(p, i, p.seq + 1 + k)
           q == applySteeringEvent(g, e)
           n == Len(g.manifests)
<1>1. /\ Len(ids) \in Nat /\ k \in Nat /\ k - 1 \in 0..Len(ids) /\ p.seq \in Nat /\ i \in CommandIds
      /\ \A j \in 1..(k - 1) : j \in 1..Len(ids) /\ j <= k - 1 /\ j # k
  BY PromptOnce DEF Replayable, Projections
<1>2. g \in Projections /\ g.ok /\ g.seq = p.seq + k
  <2>1. g \in Projections /\ g.ok /\ g.seq = p.seq + 1 + (k - 1)
    BY DEF Mid
  <2> QED
    BY <1>1, <2>1
<1>3. n > 0 /\ n \in 1..n /\ g.manifests[n] = PromptOf(p, ids)
  BY <1>1, PromptManifests
<1>4. g.manifests[n].ids = ids /\ g.manifests[n].at = p.seq + 1
  BY <1>3 DEF PromptOf
<1>5. g.commands[i] = p.commands[i] /\ p.commands[i].st = "pending"
  <2>1. k > k - 1
    BY <1>1
  <2>2. g.commands[i] = p.commands[i]
    BY <1>1, <2>1, PromptMembers
  <2> QED
    BY <2>2 DEF Promptable, pendingIn
<1>6. \A j \in 1..(k - 1) : ~pendingIn(g, ids[j])
  <2> TAKE j \in 1..(k - 1)
  <2>1. g.commands[ids[j]] = Taken(p, ids[j], p.seq + 1 + j)
    BY <1>1, PromptMembers
  <2> QED
    BY <2>1 DEF pendingIn, Taken
<1>7. i \in incompletePromptBinding(g)
  BY <1>1, <1>3, <1>4, <1>5, <1>6 DEF incompletePromptBinding, pendingIn
<1>8. assertSteeringProjectionConsistent(g)
  BY <1>1, PromptSound
<1>9. applyIncluded(g, e) = Terminal(g, i, "included", "none")
  <2>1. g.seq + 1 = g.manifests[n].at + k
    BY <1>1, <1>2, <1>4
  <2> QED
    BY <1>3, <1>4, <1>5, <2>1 DEF applyIncluded, pendingIn
<1>10. q = [applyIncluded(g, e) EXCEPT !.seq = g.seq + 1]
  BY <1>2, <1>7, <1>8 DEF applySteeringEvent
<1>11. q = With(g, i, c)
  <2>1. [Terminal(g, i, "included", "none") EXCEPT !.seq = g.seq + 1]
          = With(g, i, [st |-> "included", req |-> g.commands[i].req, adm |-> g.commands[i].adm,
                        term |-> g.seq + 1, why |-> "none"])
    BY <1>1, <1>2, TerminalIs
  <2>2. g.seq + 1 = p.seq + 1 + k
    BY <1>1, <1>2
  <2> QED
    BY <1>5, <1>9, <1>10, <2>1, <2>2 DEF Taken
<1>12. c \in CommandRecs
  <2>1. p.commands[i] \in CommandRecs
    BY <1>1 DEF Replayable, Projections
  <2> QED
    BY SMTT(40), <1>1, <2>1 DEF CommandRecs, CommandStates, Reasons, Taken
<1> HIDE DEF q, c, i
<1>13. /\ q \in Projections /\ q.ok /\ q.seq = g.seq + 1 /\ q.manifests = g.manifests
       /\ q.commands[i] = c /\ \A h \in CommandIds : h # i => q.commands[h] = g.commands[h]
  BY <1>1, <1>2, <1>11, <1>12, WithFields
<1>14. q.seq = p.seq + 1 + k /\ q.manifests = Append(p.manifests, PromptOf(p, ids))
  BY <1>1, <1>2, <1>13 DEF Mid
<1>15. ASSUME NEW h \in CommandIds, \A j \in 1..k : ids[j] # h PROVE q.commands[h] = p.commands[h]
  <2>1. k \in 1..k /\ \A j \in 1..(k - 1) : j \in 1..k
    BY <1>1
  <2>2. h # i
    BY <1>15, <2>1 DEF i
  <2>3. \A j \in 1..(k - 1) : ids[j] # h
    BY <1>15, <2>1
  <2>4. g.commands[h] = p.commands[h]
    BY <2>3 DEF Mid
  <2> QED
    BY <1>13, <2>2, <2>4
<1>16. ASSUME NEW j \in 1..k PROVE q.commands[ids[j]] = Taken(p, ids[j], p.seq + 1 + j)
  <2>1. CASE j = k
    BY <1>13, <2>1 DEF i, c
  <2>2. CASE j # k
    <3>1. j \in 1..(k - 1)
      BY <1>1, <2>2
    <3>2. ids[j] \in CommandIds /\ ids[j] # i
      BY <1>1, <2>2, <3>1, PromptOnce DEF i
    <3>3. g.commands[ids[j]] = Taken(p, ids[j], p.seq + 1 + j)
      BY <3>1 DEF Mid
    <3> QED
      BY <1>13, <3>2, <3>3
  <2> QED
    BY <2>1, <2>2
<1>17. Mid(p, ids, k, q)
  BY <1>13, <1>14, <1>15, <1>16 DEF Mid
<1> QED
  BY <1>17 DEF q

LEMMA PromptEnds ==
  ASSUME NEW p, Replayable(p), NEW ids, Promptable(p, ids), NEW g, Mid(p, ids, Len(ids), g)
  PROVE  Replayable(g) /\ Recorded(p, g)
<1> DEFINE k == Len(ids)
           n == Len(p.manifests)
<1>1. k \in Nat /\ k \in 0..k /\ p.seq \in Nat /\ \A i \in CommandIds : p.commands[i].adm \in Nat
  BY PromptOnce DEF Replayable, Projections, CommandRecs
<1>2. g \in Projections /\ g.ok /\ g.seq = p.seq + 1 + k
  BY DEF Mid
<1>3. assertSteeringProjectionConsistent(g)
  BY <1>1, PromptSound
<1>4. \A i \in CommandIds :
        /\ g.commands[i].req = p.commands[i].req /\ g.commands[i].adm = p.commands[i].adm
        /\ \/ g.commands[i] = p.commands[i]
           \/ p.commands[i].st = "pending" /\ g.commands[i].st = "included"
  <2> TAKE i \in CommandIds
  <2> QED
    BY <1>1, PromptCommands
<1>5. \A i \in CommandIds : g.commands[i].adm <= g.seq
  BY <1>1, <1>2, <1>4 DEF Replayable
<1>6. \A i, j \in CommandIds : pendingIn(g, i) /\ pendingIn(g, j) /\ i # j => g.commands[i].adm # g.commands[j].adm
  BY <1>4 DEF Replayable, pendingIn
<1>7. \A i \in CommandIds : pendingIn(g, i) => g.commands[i].adm > 0
  BY <1>4 DEF Replayable, pendingIn
<1>8. \A i \in CommandIds : g.commands[i].st = "superseded" => g.commands[i].why \in CommandIds
  BY <1>4 DEF Replayable
<1>9. ASSUME NEW m \in 1..Len(g.manifests), NEW j \in 1..Len(g.manifests[m].ids)
      PROVE  g.commands[g.manifests[m].ids[j]].st = "included"
  <2>1. /\ n \in Nat /\ Len(g.manifests) = n + 1 /\ g.manifests[n + 1] = PromptOf(p, ids)
        /\ \A l \in 1..n : g.manifests[l] = p.manifests[l]
    BY <1>1, PromptManifests
  <2>2. CASE m = n + 1
    <3>1. g.manifests[m].ids = ids /\ j \in 1..k
      BY <2>1, <2>2 DEF PromptOf
    <3>2. g.commands[ids[j]] = Taken(p, ids[j], p.seq + 1 + j)
      BY <3>1 DEF Mid
    <3> QED
      BY <3>1, <3>2 DEF Taken
  <2>3. CASE m # n + 1
    <3>1. m \in 1..n /\ g.manifests[m] = p.manifests[m]
      BY <2>1, <2>3
    <3>2. j \in 1..Len(p.manifests[m].ids)
      BY <3>1
    <3>3. g.commands[p.manifests[m].ids[j]] = p.commands[p.manifests[m].ids[j]]
      <4>1. Len(ids) \in 0..Len(ids)
        BY <1>1
      <4>2. m \in 1..Len(p.manifests)
        BY <3>1
      <4> HIDE DEF k, n
      <4> QED
        BY <3>2, <4>1, <4>2, PromptOlder
    <3>4. p.commands[p.manifests[m].ids[j]].st = "included"
      BY <3>1, <3>2 DEF Replayable
    <3> QED
      BY <3>1, <3>3, <3>4
  <2> QED
    BY <2>2, <2>3
<1>10. Replayable(g)
  BY <1>2, <1>3, <1>5, <1>6, <1>7, <1>8, <1>9 DEF Replayable
<1>11. Recorded(p, g)
  BY <1>4 DEF Recorded, CommandKept
<1> QED
  BY <1>10, <1>11

LEMMA PromptReplays ==
  ASSUME NEW p, Replayable(p), NEW ids, Promptable(p, ids), NEW late,
         \A k \in 1..Len(ids) : ~(p.commands[ids[k]].req.exp /\ late)
  PROVE  LET q == reduceSteeringEvents(p,
                    <<[type |-> "prepared", ids |-> ids, cutoff |-> p.seq, late |-> late]>> \o
                    [k \in 1..Len(ids) |-> [type |-> "included", id |-> ids[k]]]) IN
         Replayable(q) /\ Recorded(p, q)
<1> DEFINE d == [type |-> "prepared", ids |-> ids, cutoff |-> p.seq, late |-> late]
           is == [k \in 1..Len(ids) |-> [type |-> "included", id |-> ids[k]]]
           es == <<d>> \o is
           n == Len(ids)
           q == reduceSteeringEvents(p, es)
<1>1. n \in Nat /\ \A k \in 1..n : ids[k] \in CommandIds
  BY PromptOnce
<1>2. is \in Seq([type : {"included"}, id : CommandIds]) /\ Len(is) = n
  BY <1>1
<1>3. Len(es) = n + 1 /\ es[1] = d /\ \A k \in 1..n : es[k + 1] = is[k]
  <2> HIDE DEF is, d
  <2>1. <<d>> \in Seq({d}) /\ Len(<<d>>) = 1 /\ <<d>>[1] = d
    OBVIOUS
  <2> QED
    BY <1>1, <1>2, <2>1
<1>4. \A k \in 1..n : es[k + 1].type = "included" /\ es[k + 1].id = ids[k]
  <2> TAKE k \in 1..n
  <2>1. es[k + 1] = is[k]
    BY <1>3
  <2>2. is[k].type = "included" /\ is[k].id = ids[k]
    OBVIOUS
  <2> HIDE DEF es, is
  <2> QED
    BY <2>1, <2>2
<1>5. d.type = "prepared" /\ d.ids = ids /\ d.cutoff = p.seq /\ d.late = late
  OBVIOUS
<1> HIDE DEF is, d, es
<1>6. PICK f : Applied(p, es, n + 1, f) /\ q = f[n + 1]
  BY <1>1, <1>3, ReduceIs
<1>7. f[0] = p /\ \A k \in 1..(n + 1) : f[k] = applySteeringEvent(f[k - 1], es[k])
  BY <1>6 DEF Applied
<1>8. Mid(p, ids, 0, f[1])
  <2>1. f[1] = applySteeringEvent(f[1 - 1], es[1]) /\ 1 - 1 = 0
    BY <1>1, <1>7
  <2>2. f[1] = applySteeringEvent(p, d)
    BY <1>3, <1>7, <2>1
  <2> QED
    BY <1>5, <2>2, PromptBegins
<1> DEFINE Bad == {k \in Nat : k <= n /\ ~Mid(p, ids, k, f[k + 1])}
<1>9. Bad = {}
  <2> SUFFICES ASSUME Bad # {} PROVE FALSE
    OBVIOUS
  <2>1. PICK m \in Bad : \A k \in Bad : m <= k
    BY LeastNumber
  <2>2. m # 0
    <3>1. 0 + 1 = 1
      OBVIOUS
    <3> QED
      BY <1>8, <2>1, <3>1
  <2>3. m \in 1..n /\ m - 1 \in Nat /\ m - 1 <= n /\ ~(m <= m - 1) /\ m + 1 \in 1..(n + 1)
        /\ (m - 1) + 1 = m /\ (m + 1) - 1 = m /\ ~Mid(p, ids, m, f[m + 1])
    BY <1>1, <2>1, <2>2
  <2>4. Mid(p, ids, m - 1, f[(m - 1) + 1])
    BY <2>1, <2>3
  <2>5. Mid(p, ids, m - 1, f[m])
    BY <2>3, <2>4
  <2>6. f[m + 1] = applySteeringEvent(f[m], es[m + 1])
    BY <1>7, <2>3
  <2>7. es[m + 1].type = "included" /\ es[m + 1].id = ids[m]
    BY <1>4, <2>3
  <2>8. Mid(p, ids, m, applySteeringEvent(f[m], es[m + 1]))
    BY <2>3, <2>5, <2>7, PromptIncludes
  <2> QED
    BY <2>3, <2>6, <2>8
<1>10. Mid(p, ids, n, f[n + 1])
  BY <1>1, <1>9
<1> HIDE DEF q
<1>11. Replayable(q) /\ Recorded(p, q)
  BY <1>6, <1>10, PromptEnds
<1> QED
  BY <1>11 DEF q, es, d, is

-----------------------------------------------------------------------------
(* The connections and the decisions.                                        *)

LEMMA AnswersInitially == IpcInit => AnswersInv
<1> SUFFICES ASSUME IpcInit PROVE AnswersInv
  OBVIOUS
<1>1. /\ steering = emptySteeringProjection /\ cli = [c \in IpcClients |-> NoConn] /\ orphans = {} /\ answers = {}
      /\ deciding = [p \in IpcParents |-> Idle]
  BY DEF IpcInit
<1>2. NoCommand \in CommandRecs /\ NoCommand.st = "none" /\ NoCommand.adm = 0
  BY DEF NoCommand, CommandRecs, CommandStates, Reasons
<1>3. steering \in Projections /\ steering.ok /\ steering.seq = 0 /\ steering.manifests = <<>>
      /\ \A i \in CommandIds : steering.commands[i] = NoCommand
  <2> HIDE DEF NoCommand
  <2> QED
    BY <1>1, <1>2 DEF emptySteeringProjection, Projections
<1>4. \A m \in 1..Len(<<>>) : FALSE
  OBVIOUS
<1>5. assertSteeringProjectionConsistent(steering)
  <2> HIDE DEF NoCommand
  <2> QED
    BY <1>2, <1>3, <1>4 DEF assertSteeringProjectionConsistent
<1>6. Replayable(steering)
  <2> HIDE DEF NoCommand
  <2> QED
    BY <1>2, <1>3, <1>4, <1>5 DEF Replayable, pendingIn
<1>7. \A c \in IpcClients : LinkInv(cli[c])
  BY <1>1 DEF LinkInv
<1>8. \A p \in IpcParents : JobInv(p)
  BY <1>1 DEF JobInv
<1>9. AnswersTyped
  BY <1>1 DEF AnswersTyped
<1> QED
  BY <1>1, <1>6, <1>7, <1>8, <1>9 DEF AnswersInv

LEMMA RecordedItself ==
  ASSUME NEW p
  PROVE  Recorded(p, p)
BY DEF Recorded, CommandKept

\* Nothing but the log moves.
LEMMA LogMoves ==
  ASSUME AnswersInv, Replayable(steering'), Recorded(steering, steering'),
         UNCHANGED <<cli, deciding, orphans, answers>>
  PROVE  AnswersInv'
<1>1. AnswersTyped'
  BY DEF AnswersInv, AnswersTyped
<1>2. ASSUME NEW c \in IpcClients PROVE LinkInv(cli[c])'
  <2>1. LinkInv(cli[c]) /\ cli'[c] = cli[c]
    BY DEF AnswersInv
  <2> QED
    BY <2>1, StillTold DEF LinkInv
<1>3. \A p \in IpcParents : JobInv(p)'
  BY DEF AnswersInv, JobInv
<1>4. ASSUME NEW a \in answers' PROVE Told(steering', a.req, a.reply)
  BY StillTold DEF AnswersInv, AnswersTyped
<1>5. Replayable(steering)'
  BY DEF Replayable
<1>6. \A a \in answers' : Told(steering, a.req, a.reply)'
  BY <1>4 DEF Told
<1> QED
  BY <1>1, <1>2, <1>3, <1>5, <1>6 DEF AnswersInv

LEMMA NothingAnswered ==
  ASSUME AnswersInv, UNCHANGED <<steering, cli, deciding, orphans, answers>>
  PROVE  AnswersInv'
BY LogMoves, RecordedItself DEF AnswersInv

LEMMA SentIs ==
  ASSUME NEW x, LinkInv(x), x.st # "idle"
  PROVE  x # NoConn /\ IsLink(x) /\ x.req \in Requests
BY DEF LinkInv, NoConn

\* The connection of one client is replaced; no decision is about it.
LEMMA Relinked ==
  ASSUME AnswersInv, NEW c \in IpcClients, NEW x, LinkInv(x), cli' = [cli EXCEPT ![c] = x],
         \A p \in IpcParents : deciding[p] # Idle => deciding[p].from # c,
         UNCHANGED <<steering, deciding, orphans>>,
         \A a \in answers' : a \in answers \/ (a.req \in Requests /\ a.reply.ok /\ Told(steering, a.req, a.reply))
  PROVE  AnswersInv'
<1>1. /\ cli = [d \in IpcClients |-> cli[d]] /\ cli'[c] = x
      /\ \A d \in IpcClients : d # c => cli'[d] = cli[d]
  BY DEF AnswersInv, AnswersTyped
<1>2. AnswersTyped'
  <2>1. cli' = [d \in IpcClients |-> cli'[d]]
    BY <1>1
  <2> QED
    BY <2>1 DEF AnswersInv, AnswersTyped
<1>3. ASSUME NEW d \in IpcClients PROVE LinkInv(cli[d])'
  <2>1. LinkInv(cli[d]) /\ (d # c => cli'[d] = cli[d])
    BY <1>1 DEF AnswersInv
  <2> QED
    BY <1>1, <2>1 DEF LinkInv
<1>4. ASSUME NEW p \in IpcParents PROVE JobInv(p)'
  <2>1. JobInv(p) /\ deciding'[p] = deciding[p]
    BY DEF AnswersInv
  <2> QED
    BY <1>1, <2>1 DEF JobInv
<1>5. \A a \in answers' : Told(steering, a.req, a.reply)'
  BY DEF AnswersInv, Told
<1>6. Replayable(steering)'
  BY DEF AnswersInv, Replayable
<1> QED
  BY <1>2, <1>3, <1>4, <1>5, <1>6 DEF AnswersInv

LEMMA NotInHand ==
  ASSUME AnswersInv, NEW c \in IpcClients, cli[c].st # "sent"
  PROVE  \A p \in IpcParents : deciding[p] # Idle => deciding[p].from # c
BY DEF AnswersInv, JobInv

LEMMA LinkChanges ==
  ASSUME NEW x, IsLink(x), NEW s, NEW y
  PROVE  /\ [x EXCEPT !.st = s] = [st |-> s, by |-> x.by, req |-> x.req, to |-> x.to, reply |-> x.reply]
         /\ [x EXCEPT !.st = s, !.reply = y] = [st |-> s, by |-> x.by, req |-> x.req, to |-> x.to, reply |-> y]
<1> DEFINE z == [x EXCEPT !.st = s]
<1>0. x = [st |-> x.st, by |-> x.by, req |-> x.req, to |-> x.to, reply |-> x.reply]
  BY DEF IsLink
<1>1. z = [st |-> s, by |-> x.by, req |-> x.req, to |-> x.to, reply |-> x.reply]
  BY <1>0
<1>2. [x EXCEPT !.st = s, !.reply = y] = [z EXCEPT !.reply = y]
  OBVIOUS
<1>3. z = [x EXCEPT !.st = s]
  OBVIOUS
<1> HIDE DEF z
<1> QED
  BY <1>1, <1>2, <1>3

LEMMA LinkConnects ==
  ASSUME NEW x, IsLink(x), NEW t
  PROVE  [x EXCEPT !.st = "connected", !.to = t]
           = [st |-> "connected", by |-> x.by, req |-> x.req, to |-> t, reply |-> x.reply]
<1> DEFINE z == [x EXCEPT !.st = "connected"]
<1>0. x = [st |-> x.st, by |-> x.by, req |-> x.req, to |-> x.to, reply |-> x.reply]
  BY DEF IsLink
<1>1. z = [st |-> "connected", by |-> x.by, req |-> x.req, to |-> x.to, reply |-> x.reply]
  BY <1>0
<1>2. [x EXCEPT !.st = "connected", !.to = t] = [z EXCEPT !.to = t]
  OBVIOUS
<1> HIDE DEF z
<1> QED
  BY <1>1, <1>2

LEMMA LinkSet ==
  ASSUME NEW f, NEW c \in IpcClients, f = [d \in IpcClients |-> f[d]], NEW s, NEW y
  PROVE  /\ [f EXCEPT ![c].st = s] = [f EXCEPT ![c] = [f[c] EXCEPT !.st = s]]
         /\ [f EXCEPT ![c].st = s, ![c].reply = y] = [f EXCEPT ![c] = [f[c] EXCEPT !.st = s, !.reply = y]]
         /\ [f EXCEPT ![c].st = s, ![c].to = y] = [f EXCEPT ![c] = [f[c] EXCEPT !.st = s, !.to = y]]
<1> DEFINE z == [f[c] EXCEPT !.st = s]
           h == [f EXCEPT ![c].st = s]
<1>1. h = [f EXCEPT ![c] = z]
  OBVIOUS
<1>2. /\ [f EXCEPT ![c].st = s, ![c].reply = y] = [h EXCEPT ![c].reply = y]
      /\ [f EXCEPT ![c].st = s, ![c].to = y] = [h EXCEPT ![c].to = y]
      /\ [f[c] EXCEPT !.st = s, !.reply = y] = [z EXCEPT !.reply = y]
      /\ [f[c] EXCEPT !.st = s, !.to = y] = [z EXCEPT !.to = y]
  OBVIOUS
<1>3. h = [f EXCEPT ![c].st = s] /\ z = [f[c] EXCEPT !.st = s]
  OBVIOUS
<1> HIDE DEF h, z
<1>4. h[c] = z /\ h = [d \in IpcClients |-> h[d]]
  BY <1>1
<1>5. [h EXCEPT ![c].reply = y] = [f EXCEPT ![c] = [z EXCEPT !.reply = y]]
  <2> DEFINE w == [z EXCEPT !.reply = y]
  <2>1. [h EXCEPT ![c].reply = y] = [h EXCEPT ![c] = w]
    BY <1>4
  <2> HIDE DEF w
  <2>2. [h EXCEPT ![c] = w] = [f EXCEPT ![c] = w]
    BY <1>1, <1>4
  <2> QED
    BY <2>1, <2>2 DEF w
<1>6. [h EXCEPT ![c].to = y] = [f EXCEPT ![c] = [z EXCEPT !.to = y]]
  <2> DEFINE w == [z EXCEPT !.to = y]
  <2>1. [h EXCEPT ![c].to = y] = [h EXCEPT ![c] = w]
    BY <1>4
  <2> HIDE DEF w
  <2>2. [h EXCEPT ![c] = w] = [f EXCEPT ![c] = w]
    BY <1>1, <1>4
  <2> QED
    BY <2>1, <2>2 DEF w
<1> QED
  BY <1>1, <1>2, <1>3, <1>5, <1>6

LEMMA LinkIs ==
  ASSUME NEW s \in {"checked", "connected", "sent"}, NEW b, NEW r \in Requests, NEW t, NEW y
  PROVE  LinkInv([st |-> s, by |-> b, req |-> r, to |-> t, reply |-> y])
<1> DEFINE x == [st |-> s, by |-> b, req |-> r, to |-> t, reply |-> y]
<1>1. x.st = s /\ x.by = b /\ x.req = r /\ x.to = t /\ x.reply = y
  OBVIOUS
<1>2. x = [st |-> x.st, by |-> x.by, req |-> x.req, to |-> x.to, reply |-> x.reply]
  OBVIOUS
<1> HIDE DEF x
<1>3. LinkInv(x)
  BY <1>1, <1>2 DEF LinkInv, IsLink
<1> QED
  BY <1>3 DEF x

LEMMA AnsweredLinkIs ==
  ASSUME NEW b, NEW r \in Requests, NEW t, NEW y, Told(steering, r, y)
  PROVE  LinkInv([st |-> "answered", by |-> b, req |-> r, to |-> t, reply |-> y])
<1> DEFINE x == [st |-> "answered", by |-> b, req |-> r, to |-> t, reply |-> y]
<1>1. x.st = "answered" /\ x.by = b /\ x.req = r /\ x.to = t /\ x.reply = y
  OBVIOUS
<1>2. x = [st |-> x.st, by |-> x.by, req |-> x.req, to |-> x.to, reply |-> x.reply]
  OBVIOUS
<1> HIDE DEF x
<1>3. LinkInv(x)
  BY <1>1, <1>2 DEF LinkInv, IsLink
<1> QED
  BY <1>3 DEF x

LEMMA NoLinkIs == LinkInv(NoConn)
BY DEF LinkInv

LEMMA ClientMoves ==
  ASSUME AnswersInv, NEW c \in IpcClients,
         \/ \E r \in Requests : send(c, r)
         \/ connect(c) \/ onConnect(c) \/ onSocketTimeout(c) \/ parseResponse(c)
  PROVE  AnswersInv'
<1>0. LinkInv(cli[c]) /\ cli = [d \in IpcClients |-> cli[d]]
  BY DEF AnswersInv, AnswersTyped
<1>1. ASSUME NEW r \in Requests, send(c, r) PROVE AnswersInv'
  <2> DEFINE x == [st |-> "checked", by |-> locator.by, req |-> r, to |-> 0, reply |-> Failure]
  <2>1. LinkInv(x)
    BY LinkIs
  <2>2. cli[c].st # "sent" /\ cli' = [cli EXCEPT ![c] = x] /\ UNCHANGED <<steering, deciding, orphans, answers>>
    BY <1>1 DEF send, ClientOnly, logVars
  <2> HIDE DEF x
  <2> QED
    BY <2>1, <2>2, Relinked, NotInHand
<1>2. CASE connect(c)
  <2>1. cli[c].st = "checked" /\ UNCHANGED <<steering, deciding, orphans, answers>>
    BY <1>2 DEF connect, ClientOnly, logVars
  <2>2. IsLink(cli[c]) /\ cli[c].req \in Requests
    BY <1>0, <2>1, SentIs
  <2> DEFINE x == [st |-> "connected", by |-> cli[c].by, req |-> cli[c].req, to |-> leaf.by, reply |-> cli[c].reply]
  <2>3. cli' = [cli EXCEPT ![c].st = "connected", ![c].to = leaf.by] \/ cli' = [cli EXCEPT ![c] = NoConn]
    BY <1>2 DEF connect
  <2>4. [cli EXCEPT ![c].st = "connected", ![c].to = leaf.by] = [cli EXCEPT ![c] = x]
    <3>1. [cli EXCEPT ![c].st = "connected", ![c].to = leaf.by]
            = [cli EXCEPT ![c] = [cli[c] EXCEPT !.st = "connected", !.to = leaf.by]]
      BY <1>0, LinkSet
    <3>2. [cli[c] EXCEPT !.st = "connected", !.to = leaf.by] = x
      <4> DEFINE l == cli[c]
                 t == leaf.by
      <4>1. IsLink(l)
        BY <2>2
      <4>2. x = [st |-> "connected", by |-> l.by, req |-> l.req, to |-> t, reply |-> l.reply]
        OBVIOUS
      <4> HIDE DEF l, t, x
      <4>3. [l EXCEPT !.st = "connected", !.to = t] = x
        BY <4>1, <4>2, LinkConnects
      <4> QED
        BY <4>3 DEF l, t
    <3> QED
      BY <3>1, <3>2
  <2>5. LinkInv(x) /\ LinkInv(NoConn)
    BY <2>2, LinkIs, NoLinkIs
  <2> HIDE DEF x, NoConn
  <2> QED
    BY <2>1, <2>3, <2>4, <2>5, Relinked, NotInHand
<1>3. CASE onConnect(c)
  <2>1. cli[c].st = "connected" /\ UNCHANGED <<steering, deciding, orphans, answers>>
    BY <1>3 DEF onConnect, ClientOnly, logVars
  <2>2. IsLink(cli[c]) /\ cli[c].req \in Requests
    BY <1>0, <2>1, SentIs
  <2> DEFINE x == [st |-> "sent", by |-> cli[c].by, req |-> cli[c].req, to |-> cli[c].to, reply |-> cli[c].reply]
  <2>3. cli' = [cli EXCEPT ![c].st = "sent"] \/ cli' = [cli EXCEPT ![c] = NoConn]
    BY <1>3 DEF onConnect
  <2>4. [cli EXCEPT ![c].st = "sent"] = [cli EXCEPT ![c] = x]
    BY <1>0, <2>2, LinkSet, LinkChanges
  <2>5. LinkInv(x) /\ LinkInv(NoConn)
    BY <2>2, LinkIs, NoLinkIs
  <2> HIDE DEF x, NoConn
  <2> QED
    BY <2>1, <2>3, <2>4, <2>5, Relinked, NotInHand
<1>4. CASE onSocketTimeout(c)
  <2>1. /\ cli[c].st # "idle" /\ UNCHANGED <<steering, deciding, orphans, answers>>
        /\ \A p \in IpcParents : deciding[p].from # c
        /\ cli' = [cli EXCEPT ![c].st = "answered", ![c].reply = Failure]
    BY <1>4 DEF onSocketTimeout, ClientOnly, logVars
  <2>2. IsLink(cli[c]) /\ cli[c].req \in Requests
    BY <1>0, <2>1, SentIs
  <2> DEFINE x == [st |-> "answered", by |-> cli[c].by, req |-> cli[c].req, to |-> cli[c].to, reply |-> Failure]
  <2>3. cli' = [cli EXCEPT ![c] = x]
    <3> HIDE DEF Failure
    <3>1. cli' = [cli EXCEPT ![c] = [cli[c] EXCEPT !.st = "answered", !.reply = Failure]]
      BY <1>0, <2>1, LinkSet
    <3>2. [cli[c] EXCEPT !.st = "answered", !.reply = Failure] = x
      BY <2>2, LinkChanges
    <3> QED
      BY <3>1, <3>2
  <2>4. Told(steering, cli[c].req, Failure)
    BY DEF Told, Failure
  <2>5. LinkInv(x)
    BY <2>2, <2>4, AnsweredLinkIs
  <2> HIDE DEF x
  <2> QED
    BY <2>1, <2>3, <2>5, Relinked
<1>5. CASE parseResponse(c)
  <2>1. /\ cli[c].st = "answered" /\ UNCHANGED <<steering, deciding, orphans>>
        /\ cli' = [cli EXCEPT ![c] = NoConn]
        /\ answers' = answers \cup printed(cli[c].req, cli[c].reply)
    BY <1>5 DEF parseResponse, ClientOnly, logVars
  <2>2. cli[c].req \in Requests /\ Told(steering, cli[c].req, cli[c].reply)
    BY <1>0, <2>1 DEF LinkInv, NoConn
  <2>3. \A a \in printed(cli[c].req, cli[c].reply) :
          a.req = cli[c].req /\ a.reply = cli[c].reply /\ a.reply.ok
    BY DEF printed
  <2>4. \A a \in answers' : a \in answers \/ (a.req \in Requests /\ a.reply.ok /\ Told(steering, a.req, a.reply))
    BY <2>1, <2>2, <2>3
  <2> HIDE DEF NoConn
  <2> QED
    BY <2>1, <2>4, NoLinkIs, Relinked, NotInHand
<1> QED
  BY <1>1, <1>2, <1>3, <1>4, <1>5

LEMMA GivesUp ==
  ASSUME AnswersInv, NEW c \in IpcClients, giveUp(c)
  PROVE  AnswersInv'
<1>0. /\ cli = [d \in IpcClients |-> cli[d]] /\ deciding = [p \in IpcParents |-> deciding[p]]
      /\ "gone" \notin IpcClients
  BY IpcBounds DEF AnswersInv, AnswersTyped
<1>1. /\ cli' = [cli EXCEPT ![c] = NoConn] /\ UNCHANGED <<steering, answers>>
      /\ deciding' = [p \in IpcParents |->
            IF deciding[p].from = c THEN [deciding[p] EXCEPT !.from = "gone"] ELSE deciding[p]]
  BY DEF giveUp, logVars
<1>2. cli'[c] = NoConn /\ (\A d \in IpcClients : d # c => cli'[d] = cli[d]) /\ cli' = [d \in IpcClients |-> cli'[d]]
  BY <1>0, <1>1
<1>3. orphans' = orphans \/ (cli[c].st = "sent" /\ orphans' = orphans \cup {[to |-> cli[c].to, req |-> cli[c].req]})
  BY DEF giveUp
<1>4. \A o \in orphans' : o.req \in Requests
  <2>1. CASE orphans' = orphans
    BY <2>1 DEF AnswersInv, AnswersTyped
  <2>2. CASE cli[c].st = "sent" /\ orphans' = orphans \cup {[to |-> cli[c].to, req |-> cli[c].req]}
    <3>1. cli[c].req \in Requests
      BY <2>2, SentIs DEF AnswersInv
    <3> QED
      BY <2>2, <3>1 DEF AnswersInv, AnswersTyped
  <2> QED
    BY <1>3, <2>1, <2>2
<1>5. AnswersTyped'
  <2>1. deciding' = [p \in IpcParents |-> deciding'[p]]
    BY <1>1
  <2> QED
    BY <1>1, <1>2, <1>4, <2>1 DEF AnswersInv, AnswersTyped
<1>6. ASSUME NEW d \in IpcClients PROVE LinkInv(cli[d])'
  <2>1. LinkInv(cli[d]) /\ (cli'[d] = NoConn \/ cli'[d] = cli[d])
    BY <1>2 DEF AnswersInv
  <2> QED
    BY <1>1, <2>1 DEF LinkInv
<1>7. ASSUME NEW p \in IpcParents PROVE JobInv(p)'
  <2>1. CASE deciding[p].from = c
    <3> DEFINE j == deciding[p]
               i == [j EXCEPT !.from = "gone"]
    <3>1. j # Idle
      BY <1>0, <2>1 DEF Idle
    <3>2. IsJob(j) /\ j.st = "deciding" /\ j.req \in Requests
      BY <3>1 DEF AnswersInv, JobInv
    <3>3. deciding'[p] = i
      BY <1>1, <2>1
    <3> HIDE DEF j
    <3>4. i = [st |-> j.st, from |-> "gone", req |-> j.req, late |-> j.late, head |-> j.head, tries |-> j.tries]
      BY <3>2 DEF IsJob
    <3> HIDE DEF i
    <3>5. /\ i.st = "deciding" /\ i.from = "gone" /\ i.req = j.req
          /\ i = [st |-> i.st, from |-> i.from, req |-> i.req, late |-> i.late, head |-> i.head, tries |-> i.tries]
      BY <3>2, <3>4
    <3> QED
      BY <1>0, <3>2, <3>3, <3>5 DEF JobInv, IsJob
  <2>2. CASE deciding[p].from # c
    <3>1. deciding'[p] = deciding[p] /\ JobInv(p)
      BY <1>1, <2>2 DEF AnswersInv
    <3> QED
      BY <1>2, <2>2, <3>1 DEF JobInv
  <2> QED
    BY <2>1, <2>2
<1>8. \A a \in answers' : Told(steering, a.req, a.reply)'
  BY <1>1 DEF AnswersInv, Told
<1>9. Replayable(steering)'
  BY <1>1 DEF AnswersInv, Replayable
<1> QED
  BY <1>5, <1>6, <1>7, <1>8, <1>9 DEF AnswersInv

\* A parent ends: its connections and its decision go with it.
LEMMA HangsUp ==
  ASSUME AnswersInv, NEW p \in IpcParents, hangUp(p), UNCHANGED <<steering, answers>>
  PROVE  AnswersInv'
<1>0. /\ cli = [d \in IpcClients |-> cli[d]] /\ deciding = [q \in IpcParents |-> deciding[q]]
      /\ "gone" \notin IpcClients
  BY IpcBounds DEF AnswersInv, AnswersTyped
<1>1. /\ cli' = [c \in IpcClients |->
                   IF cli[c].st \in {"connected", "sent"} /\ cli[c].to = p THEN NoConn ELSE cli[c]]
      /\ orphans' \in SUBSET orphans
      /\ deciding'[p] = Idle /\ (\A q \in IpcParents : q # p => deciding'[q] = deciding[q])
      /\ deciding' = [q \in IpcParents |-> deciding'[q]]
  BY <1>0 DEF hangUp
<1>2. AnswersTyped'
  BY <1>1 DEF AnswersInv, AnswersTyped
<1>3. ASSUME NEW d \in IpcClients PROVE LinkInv(cli[d])'
  <2>1. LinkInv(cli[d]) /\ (cli'[d] = NoConn \/ cli'[d] = cli[d])
    BY <1>1 DEF AnswersInv
  <2> QED
    BY <2>1 DEF LinkInv
<1>4. ASSUME NEW q \in IpcParents PROVE JobInv(q)'
  <2>1. CASE q = p
    BY <1>1, <2>1 DEF JobInv
  <2>2. CASE q # p
    <3>1. deciding'[q] = deciding[q] /\ JobInv(q)
      BY <1>1, <2>2 DEF AnswersInv
    <3>2. \A c \in IpcClients : cli[c].to = q => cli'[c] = cli[c]
      BY <1>1, <2>2
    <3> QED
      BY <3>1, <3>2 DEF JobInv
  <2> QED
    BY <2>1, <2>2
<1>5. \A a \in answers' : Told(steering, a.req, a.reply)'
  BY DEF AnswersInv, Told
<1>6. Replayable(steering)'
  BY DEF AnswersInv, Replayable
<1> QED
  BY <1>2, <1>3, <1>4, <1>5, <1>6 DEF AnswersInv

\* A decision ends: the client that still waits is told, and told the truth.
LEMMA Replied ==
  ASSUME AnswersInv, NEW p \in IpcParents, NEW from \in IpcClients \cup {"gone"}, NEW y,
         from \in IpcClients => cli[from].st = "sent" /\ cli[from].to = p /\ Told(steering', cli[from].req, y),
         replyTo(from, y), deciding'[p] = Idle,
         \A q \in IpcParents : q # p => deciding'[q] = deciding[q],
         deciding' = [q \in IpcParents |-> deciding'[q]],
         Replayable(steering'), Recorded(steering, steering'), orphans' \in SUBSET orphans, answers' = answers
  PROVE  AnswersInv'
<1>0. cli = [d \in IpcClients |-> cli[d]] /\ "gone" \notin IpcClients
  BY IpcBounds DEF AnswersInv, AnswersTyped
<1>1. ASSUME NEW d \in IpcClients PROVE LinkInv(cli[d])
  BY DEF AnswersInv
<1>2. ASSUME NEW x, LinkInv(x) PROVE LinkInv(x)'
  BY <1>2, StillTold DEF LinkInv
<1>3. \A a \in answers' : Told(steering, a.req, a.reply)'
  <2>1. \A a \in answers' : Told(steering', a.req, a.reply)
    BY StillTold DEF AnswersInv, AnswersTyped
  <2> QED
    BY <2>1 DEF Told
<1>4. Replayable(steering)'
  BY DEF Replayable
<1>5. CASE from \notin IpcClients
  <2>1. cli' = cli
    BY <1>5 DEF replyTo
  <2>2. AnswersTyped'
    BY <2>1 DEF AnswersInv, AnswersTyped
  <2>3. ASSUME NEW d \in IpcClients PROVE LinkInv(cli[d])'
    <3>1. PICK x : x = cli[d]
      OBVIOUS
    <3>2. LinkInv(x)' /\ x = cli'[d]
      BY <1>1, <1>2, <2>1, <3>1
    <3> QED
      BY <3>2 DEF LinkInv
  <2>4. ASSUME NEW q \in IpcParents PROVE JobInv(q)'
    <3>1. JobInv(q) /\ (deciding'[q] = Idle \/ deciding'[q] = deciding[q])
      BY DEF AnswersInv
    <3> QED
      BY <2>1, <3>1 DEF JobInv
  <2> QED
    BY <1>3, <1>4, <2>2, <2>3, <2>4 DEF AnswersInv
<1>6. CASE from \in IpcClients
  <2> DEFINE x == [st |-> "answered", by |-> cli[from].by, req |-> cli[from].req, to |-> cli[from].to, reply |-> y]
  <2>1. LinkInv(cli[from]) /\ cli[from].st = "sent" /\ cli[from].to = p /\ Told(steering', cli[from].req, y)
    BY <1>6 DEF AnswersInv
  <2>2. IsLink(cli[from]) /\ cli[from].req \in Requests
    BY <2>1, SentIs
  <2>3. cli' = [cli EXCEPT ![from].st = "answered", ![from].reply = y]
    BY <1>6 DEF replyTo
  <2>4. cli' = [cli EXCEPT ![from] = [cli[from] EXCEPT !.st = "answered", !.reply = y]]
    BY <1>0, <1>6, <2>3, LinkSet
  <2>5. [cli[from] EXCEPT !.st = "answered", !.reply = y] = x
    BY <2>2, LinkChanges
  <2>6. x.st = "answered" /\ x.req = cli[from].req /\ x.reply = y
        /\ x = [st |-> x.st, by |-> x.by, req |-> x.req, to |-> x.to, reply |-> x.reply]
    OBVIOUS
  <2> HIDE DEF x
  <2>7. cli'[from] = x /\ (\A d \in IpcClients : d # from => cli'[d] = cli[d]) /\ cli' = [d \in IpcClients |-> cli'[d]]
    BY <1>0, <1>6, <2>4, <2>5
  <2>8. AnswersTyped'
    BY <2>7 DEF AnswersInv, AnswersTyped
  <2>9. ASSUME NEW d \in IpcClients PROVE LinkInv(cli[d])'
    <3>1. CASE d = from
      <4>1. Told(steering', cli'[d].req, cli'[d].reply)
        BY <2>1, <2>6, <2>7, <3>1
      <4>2. cli'[d] = [st |-> cli'[d].st, by |-> cli'[d].by, req |-> cli'[d].req, to |-> cli'[d].to, reply |-> cli'[d].reply]
        BY <2>6, <2>7, <3>1
      <4>3. cli'[d].st = "answered" /\ cli'[d].req \in Requests
        BY <2>2, <2>6, <2>7, <3>1
      <4> QED
        BY <4>1, <4>2, <4>3 DEF LinkInv, IsLink
    <3>2. CASE d # from
      <4>1. PICK z : z = cli[d]
        OBVIOUS
      <4>2. LinkInv(z)' /\ z = cli'[d]
        BY <1>1, <1>2, <2>7, <3>2, <4>1
      <4> QED
        BY <4>2 DEF LinkInv
    <3> QED
      BY <3>1, <3>2
  <2>10. ASSUME NEW q \in IpcParents PROVE JobInv(q)'
    <3>1. CASE q = p
      BY <3>1 DEF JobInv
    <3>2. CASE q # p
      <4>1. JobInv(q) /\ deciding'[q] = deciding[q]
        BY <3>2 DEF AnswersInv
      <4>2. \A d \in IpcClients : cli[d].to = q => cli'[d] = cli[d]
        BY <2>1, <2>7, <3>2
      <4> QED
        BY <4>1, <4>2 DEF JobInv
    <3> QED
      BY <3>1, <3>2
  <2> QED
    BY <1>3, <1>4, <2>8, <2>9, <2>10 DEF AnswersInv
<1> QED
  BY <1>5, <1>6

LEMMA FailureTold ==
  ASSUME NEW p, NEW r
  PROVE  Told(p, r, Failure)
BY DEF Told, Failure

\* A decision is taken up again, or answered at once.
LEMMA Snapshots ==
  ASSUME AnswersInv, NEW p \in IpcParents, NEW j, IsJob(j), j.st = "deciding", j.req \in Requests,
         j.from \in IpcClients \cup {"gone"},
         j.from \in IpcClients => cli[j.from].st = "sent" /\ cli[j.from].to = p /\ cli[j.from].req = j.req,
         snapshot(p, j), UNCHANGED <<steering, answers>>, orphans' \in SUBSET orphans
  PROVE  AnswersInv'
<1> DEFINE d == decide(j.req, j.late)
<1>0. deciding = [q \in IpcParents |-> deciding[q]]
  BY DEF AnswersInv, AnswersTyped
<1>1. Replayable(steering) /\ Recorded(steering, steering) /\ Replayable(steering') /\ Recorded(steering, steering')
  BY RecordedItself DEF AnswersInv
<1>2. steering.ok
  BY <1>1 DEF Replayable
<1>3. CASE d.events # <<>>
  <2> DEFINE i == [j EXCEPT !.head = steering.seq]
  <2>1. deciding' = [deciding EXCEPT ![p] = i] /\ cli' = cli
    BY <1>2, <1>3 DEF snapshot
  <2>2. i = [st |-> j.st, from |-> j.from, req |-> j.req, late |-> j.late, head |-> steering.seq, tries |-> j.tries]
    BY DEF IsJob
  <2> HIDE DEF i
  <2>3. /\ i.st = "deciding" /\ i.req = j.req /\ i.from = j.from
        /\ i = [st |-> i.st, from |-> i.from, req |-> i.req, late |-> i.late, head |-> i.head, tries |-> i.tries]
    BY <2>2
  <2>4. deciding'[p] = i /\ (\A q \in IpcParents : q # p => deciding'[q] = deciding[q])
        /\ deciding' = [q \in IpcParents |-> deciding'[q]]
    BY <1>0, <2>1
  <2>5. AnswersTyped'
    BY <2>1, <2>4 DEF AnswersInv, AnswersTyped
  <2>6. ASSUME NEW c \in IpcClients PROVE LinkInv(cli[c])'
    <3>1. LinkInv(cli[c]) /\ cli'[c] = cli[c]
      BY <2>1 DEF AnswersInv
    <3> QED
      BY <3>1 DEF LinkInv
  <2>7. ASSUME NEW q \in IpcParents PROVE JobInv(q)'
    <3>1. CASE q = p
      <4>1. j.from \in IpcClients => cli[j.from] # NoConn
        BY DEF NoConn
      <4> QED
        BY <2>1, <2>3, <2>4, <3>1, <4>1 DEF JobInv, IsJob
    <3>2. CASE q # p
      <4>1. JobInv(q) /\ deciding'[q] = deciding[q]
        BY <2>4, <3>2 DEF AnswersInv
      <4> QED
        BY <2>1, <4>1 DEF JobInv
    <3> QED
      BY <3>1, <3>2
  <2>8. \A a \in answers' : Told(steering, a.req, a.reply)'
    BY DEF AnswersInv, Told
  <2>9. Replayable(steering)'
    BY <1>1 DEF Replayable
  <2> QED
    BY <2>5, <2>6, <2>7, <2>8, <2>9 DEF AnswersInv
<1>4. CASE d.events = <<>>
  <2>1. deciding' = [deciding EXCEPT ![p] = Idle] /\ replyTo(j.from, d.reply)
    BY <1>2, <1>4 DEF snapshot
  <2>2. deciding'[p] = Idle /\ (\A q \in IpcParents : q # p => deciding'[q] = deciding[q])
        /\ deciding' = [q \in IpcParents |-> deciding'[q]]
    BY <1>0, <2>1
  <2>3. Told(steering, j.req, d.reply)
    BY <1>1, <1>4, DecisionSound
  <2> DEFINE y == d.reply
  <2> HIDE DEF d, y
  <2>4. Told(steering', j.req, y) /\ replyTo(j.from, y)
    BY <2>1, <2>3 DEF y
  <2>5. PICK f : f = j.from
    OBVIOUS
  <2>6. /\ f \in IpcClients \cup {"gone"} /\ replyTo(f, y)
        /\ f \in IpcClients => cli[f].st = "sent" /\ cli[f].to = p /\ Told(steering', cli[f].req, y)
    BY <2>4, <2>5
  <2> QED
    BY <1>1, <2>2, <2>6, Replied
<1> QED
  BY <1>3, <1>4

LEMMA JobIs ==
  ASSUME NEW f, NEW r
  PROVE  LET j == Job(f, r) IN IsJob(j) /\ j.st = "deciding" /\ j.from = f /\ j.req = r
BY DEF Job, IsJob

LEMMA RequestEnds ==
  ASSUME AnswersInv, NEW p \in IpcParents,
         (\E c \in IpcClients : onEnd(p, c)) \/ (\E o \in orphans : onEndOrphan(p, o))
  PROVE  AnswersInv'
<1>0. deciding = [q \in IpcParents |-> deciding[q]] /\ "gone" \notin IpcClients
  BY IpcBounds DEF AnswersInv, AnswersTyped
<1>00. Replayable(steering) /\ Recorded(steering, steering)
  BY RecordedItself DEF AnswersInv
<1>1. ASSUME NEW c \in IpcClients, onEnd(p, c) PROVE AnswersInv'
  <2>1. /\ cli[c].st = "sent" /\ cli[c].to = p /\ deciding[p] = Idle
        /\ UNCHANGED <<steering, answers, orphans>>
    BY <1>1 DEF onEnd, logVars
  <2>2. cli[c].req \in Requests
    BY <2>1, SentIs DEF AnswersInv
  <2>3. CASE authority = p
    <3>1. PICK r : r = cli[c].req
      OBVIOUS
    <3>2. PICK j : j = Job(c, r)
      OBVIOUS
    <3>3. IsJob(j) /\ j.st = "deciding" /\ j.from = c /\ j.req = r
      BY <3>2, JobIs
    <3>4. snapshot(p, j)
      BY <1>1, <2>3, <3>1, <3>2 DEF onEnd
    <3> QED
      BY <2>1, <2>2, <3>1, <3>3, <3>4, Snapshots
  <2>4. CASE authority # p
    <3>1. replyTo(c, Failure) /\ deciding' = deciding
      BY <1>1, <2>4 DEF onEnd
    <3>2. Told(steering', cli[c].req, Failure)
      BY FailureTold
    <3> HIDE DEF Failure
    <3>3. /\ deciding'[p] = Idle /\ (\A q \in IpcParents : q # p => deciding'[q] = deciding[q])
          /\ deciding' = [q \in IpcParents |-> deciding'[q]]
      BY <1>0, <2>1, <3>1
    <3>4. Replayable(steering') /\ Recorded(steering, steering')
      BY <1>00, <2>1
    <3> QED
      BY <2>1, <3>1, <3>2, <3>3, <3>4, Replied
  <2> QED
    BY <2>3, <2>4
<1>2. ASSUME NEW o \in orphans, onEndOrphan(p, o) PROVE AnswersInv'
  <2>1. deciding[p] = Idle /\ UNCHANGED <<steering, answers>> /\ orphans' \in SUBSET orphans
    BY <1>2 DEF onEndOrphan, logVars
  <2>2. o.req \in Requests
    BY DEF AnswersInv, AnswersTyped
  <2>3. CASE authority = p
    <3>1. PICK r : r = o.req
      OBVIOUS
    <3>2. PICK j : j = Job("gone", r)
      OBVIOUS
    <3>3. IsJob(j) /\ j.st = "deciding" /\ j.from = "gone" /\ j.req = r
      BY <3>2, JobIs
    <3>4. snapshot(p, j)
      BY <1>2, <2>3, <3>1, <3>2 DEF onEndOrphan
    <3> QED
      BY <1>0, <2>1, <2>2, <3>1, <3>3, <3>4, Snapshots
  <2>4. CASE authority # p
    <3>1. cli' = cli /\ deciding' = deciding
      BY <1>2, <2>4 DEF onEndOrphan
    <3>2. replyTo("gone", Failure)
      BY <1>0, <3>1 DEF replyTo
    <3> HIDE DEF Failure
    <3>3. /\ deciding'[p] = Idle /\ (\A q \in IpcParents : q # p => deciding'[q] = deciding[q])
          /\ deciding' = [q \in IpcParents |-> deciding'[q]]
      BY <1>0, <2>1, <3>1
    <3>4. Replayable(steering') /\ Recorded(steering, steering')
      BY <1>00, <2>1
    <3>5. "gone" \in IpcClients \cup {"gone"}
      OBVIOUS
    <3> QED
      BY <1>0, <2>1, <3>2, <3>3, <3>4, <3>5, Replied
  <2> QED
    BY <2>3, <2>4
<1> QED
  BY <1>1, <1>2

LEMMA Appends ==
  ASSUME AnswersInv, NEW p \in IpcParents, appendAtHead(p)
  PROVE  AnswersInv'
<1>0. deciding = [q \in IpcParents |-> deciding[q]] /\ Replayable(steering) /\ Recorded(steering, steering)
  BY RecordedItself DEF AnswersInv, AnswersTyped
<1>1. PICK j : j = deciding[p]
  OBVIOUS
<1>2. j.st = "deciding" /\ UNCHANGED <<orphans, answers>>
  BY <1>1 DEF appendAtHead
<1>3. j # Idle
  BY <1>2 DEF Idle
<1>4. /\ IsJob(j) /\ j.req \in Requests /\ j.from \in IpcClients \cup {"gone"}
      /\ j.from \in IpcClients => cli[j.from].st = "sent" /\ cli[j.from].to = p /\ cli[j.from].req = j.req
  BY <1>1, <1>3 DEF AnswersInv, JobInv
<1>5. PICK f : f = j.from
  OBVIOUS
<1>6. CASE j.head = steering.seq
  <2> DEFINE d == decide(j.req, j.late)
             q == reduceSteeringEvents(steering, d.events)
             y == d.reply
  <2>1. steering' = q /\ deciding' = [deciding EXCEPT ![p] = Idle] /\ replyTo(f, y)
    BY <1>1, <1>5, <1>6 DEF appendAtHead
  <2>2. Replayable(q) /\ Recorded(steering, q) /\ Told(q, j.req, y)
    BY <1>0, <1>4, DecisionSound
  <2> HIDE DEF d, q, y
  <2>3. Replayable(steering') /\ Recorded(steering, steering') /\ Told(steering', j.req, y)
    BY <2>1, <2>2
  <2>4. /\ deciding'[p] = Idle /\ (\A h \in IpcParents : h # p => deciding'[h] = deciding[h])
        /\ deciding' = [h \in IpcParents |-> deciding'[h]]
    BY <1>0, <2>1
  <2>5. /\ f \in IpcClients \cup {"gone"}
        /\ f \in IpcClients => cli[f].st = "sent" /\ cli[f].to = p /\ Told(steering', cli[f].req, y)
    BY <1>4, <1>5, <2>3
  <2> QED
    BY <1>2, <2>1, <2>3, <2>4, <2>5, Replied
<1>7. CASE j.head # steering.seq
  <2>1. steering' = steering
    BY <1>1, <1>7 DEF appendAtHead
  <2>2. CASE j.tries < MaxCasRetries
    <3> DEFINE i == [j EXCEPT !.tries = @ + 1]
               n == j.tries + 1
    <3>1. snapshot(p, i)
      BY <1>1, <1>7, <2>2 DEF appendAtHead
    <3>2. i = [st |-> j.st, from |-> j.from, req |-> j.req, late |-> j.late, head |-> j.head, tries |-> n]
      BY <1>4 DEF IsJob
    <3> HIDE DEF i, n
    <3>3. /\ i.st = "deciding" /\ i.req = j.req /\ i.from = j.from
          /\ i = [st |-> i.st, from |-> i.from, req |-> i.req, late |-> i.late, head |-> i.head, tries |-> i.tries]
      BY <1>2, <3>2
    <3>4. IsJob(i)
      BY <3>3 DEF IsJob
    <3> QED
      BY <1>2, <1>4, <2>1, <3>1, <3>3, <3>4, Snapshots
  <2>3. CASE ~(j.tries < MaxCasRetries)
    <3>1. deciding' = [deciding EXCEPT ![p] = Idle] /\ replyTo(f, Failure)
      BY <1>1, <1>5, <1>7, <2>3 DEF appendAtHead
    <3>2. /\ deciding'[p] = Idle /\ (\A h \in IpcParents : h # p => deciding'[h] = deciding[h])
          /\ deciding' = [h \in IpcParents |-> deciding'[h]]
      BY <1>0, <3>1
    <3>3. /\ f \in IpcClients \cup {"gone"}
          /\ f \in IpcClients => cli[f].st = "sent" /\ cli[f].to = p /\ Told(steering', cli[f].req, Failure)
      BY <1>4, <1>5, FailureTold
    <3>4. Replayable(steering') /\ Recorded(steering, steering')
      BY <1>0, <2>1
    <3> HIDE DEF Failure
    <3> QED
      BY <1>2, <3>1, <3>2, <3>3, <3>4, Replied
  <2> QED
    BY <2>2, <2>3
<1> QED
  BY <1>6, <1>7

\* The other events of the log.
LEMMA LoopWrites ==
  ASSUME AnswersInv, NEW p \in IpcParents,
         \/ \E i \in CommandIds : expire(p, i) \/ refuseTerminalPending(p, i)
         \/ \E s \in {"waiting", "blocked", "over"} : sessionMoves(p, s)
         \/ prepareAttemptPrompt(p)
  PROVE  AnswersInv'
<1>0. Replayable(steering)
  BY DEF AnswersInv
<1>1. ASSUME NEW i \in CommandIds, expire(p, i) PROVE AnswersInv'
  <2> DEFINE e == expiryEvent(i)
  <2>1. /\ pendingIn(steering, i) /\ steering.commands[i].req.exp /\ due
        /\ steering' = reduceSteeringEvents(steering, <<e>>)
        /\ UNCHANGED <<cli, deciding, orphans, answers>>
    BY <1>1 DEF expire
  <2>2. steering' = applySteeringEvent(steering, e)
    BY <2>1, ReduceShort
  <2>3. e.type = "expired" /\ e.id = i /\ e.late = due
    BY DEF expiryEvent
  <2> HIDE DEF e
  <2>4. Replayable(steering') /\ Recorded(steering, steering')
    BY <1>0, <2>1, <2>2, <2>3, ExpiredIs
  <2> QED
    BY <2>1, <2>4, LogMoves
<1>2. ASSUME NEW i \in CommandIds, refuseTerminalPending(p, i) PROVE AnswersInv'
  <2> DEFINE e == [type |-> "terminal_refused", id |-> i]
  <2>1. /\ pendingIn(steering, i)
        /\ steering' = reduceSteeringEvents(steering, <<e>>)
        /\ UNCHANGED <<cli, deciding, orphans, answers>>
    BY <1>2 DEF refuseTerminalPending, Untouched
  <2>2. steering' = applySteeringEvent(steering, e)
    BY <2>1, ReduceShort
  <2>3. e.type = "terminal_refused" /\ e.id = i
    OBVIOUS
  <2> HIDE DEF e
  <2>4. Replayable(steering') /\ Recorded(steering, steering')
    BY <1>0, <2>1, <2>2, <2>3, TerminalRefusedIs
  <2> QED
    BY <2>1, <2>4, LogMoves
<1>3. ASSUME NEW s, sessionMoves(p, s) PROVE AnswersInv'
  <2> DEFINE e == [type |-> "other"]
  <2>1. steering' = reduceSteeringEvents(steering, <<e>>) /\ UNCHANGED <<cli, deciding, orphans, answers>>
    BY <1>3 DEF sessionMoves, Untouched
  <2>2. steering' = applySteeringEvent(steering, e)
    BY <2>1, ReduceShort
  <2>3. e.type = "other"
    OBVIOUS
  <2> HIDE DEF e
  <2>4. Replayable(steering') /\ Recorded(steering, steering')
    BY <1>0, <2>2, <2>3, OtherIs
  <2> QED
    BY <2>1, <2>4, LogMoves
<1>4. CASE prepareAttemptPrompt(p)
  <2> DEFINE ids == selectBoundary(due)
  <2>1. /\ steering' = reduceSteeringEvents(steering,
             <<[type |-> "prepared", ids |-> ids, cutoff |-> steering.seq, late |-> due]>> \o
             [k \in 1..Len(ids) |-> [type |-> "included", id |-> ids[k]]])
        /\ UNCHANGED <<cli, deciding, orphans, answers>>
    BY <1>4 DEF prepareAttemptPrompt, Untouched
  <2>2. Promptable(steering, ids)
    BY <1>0, BoundaryIs DEF Promptable
  <2>3. \A k \in 1..Len(ids) : ~(steering.commands[ids[k]].req.exp /\ due)
    BY <1>0, BoundaryIs
  <2> HIDE DEF ids
  <2>4. Replayable(steering') /\ Recorded(steering, steering')
    BY <1>0, <2>1, <2>2, <2>3, PromptReplays
  <2> QED
    BY <2>1, <2>4, LogMoves
<1> QED
  BY <1>1, <1>2, <1>3, <1>4

\* The life of a parent and its endpoint.
LEMMA ParentMoves ==
  ASSUME AnswersInv, NEW p \in IpcParents,
         \/ acquireLeases(p) \/ inspectLeaf(p) \/ prepareSocketLeaf(p) \/ reclaimEndpointLocator(p)
         \/ listen(p) \/ pinPermissions(p) \/ linkLocator(p) \/ unlinkStaged(p) \/ serve(p)
         \/ closeLocator(p) \/ closeServer(p) \/ crash(p)
  PROVE  AnswersInv'
<1>1. UNCHANGED <<steering, answers>>
  BY DEF acquireLeases, inspectLeaf, prepareSocketLeaf, reclaimEndpointLocator, listen, pinPermissions,
         linkLocator, unlinkStaged, serve, closeLocator, closeServer, crash, Unrelated, logVars
<1>2. hangUp(p) \/ UNCHANGED <<cli, deciding, orphans>>
  BY DEF acquireLeases, inspectLeaf, prepareSocketLeaf, reclaimEndpointLocator, listen, pinPermissions,
         linkLocator, unlinkStaged, serve, closeLocator, closeServer, crash, Aborts
<1> QED
  BY <1>1, <1>2, HangsUp, NothingAnswered

LEMMA AnswersStep == AnswersInv /\ [IpcNext]_ipcVars => AnswersInv'
<1> SUFFICES ASSUME AnswersInv, [IpcNext]_ipcVars PROVE AnswersInv'
  OBVIOUS
<1>1. ASSUME NEW p \in IpcParents,
             \/ \E c \in IpcClients : onEnd(p, c)
             \/ \E o \in orphans : onEndOrphan(p, o)
      PROVE AnswersInv'
  BY <1>1, RequestEnds
<1>2. ASSUME NEW p \in IpcParents, appendAtHead(p) PROVE AnswersInv'
  BY <1>2, Appends
<1>3. ASSUME NEW p \in IpcParents,
             \/ \E i \in CommandIds : expire(p, i) \/ refuseTerminalPending(p, i)
             \/ \E s \in {"waiting", "blocked", "over"} : sessionMoves(p, s)
             \/ prepareAttemptPrompt(p)
      PROVE AnswersInv'
  BY <1>3, LoopWrites
<1>4. ASSUME NEW p \in IpcParents,
             \/ acquireLeases(p) \/ inspectLeaf(p) \/ prepareSocketLeaf(p) \/ reclaimEndpointLocator(p)
             \/ listen(p) \/ pinPermissions(p) \/ linkLocator(p) \/ unlinkStaged(p) \/ serve(p)
             \/ closeLocator(p) \/ closeServer(p) \/ crash(p)
      PROVE AnswersInv'
  BY <1>4, ParentMoves
<1>5. CASE expiryPasses \/ loseAuthority
  BY <1>5, NothingAnswered DEF expiryPasses, loseAuthority, Unrelated, logVars
<1>6. ASSUME NEW c \in IpcClients,
             \/ \E r \in Requests : send(c, r)
             \/ connect(c) \/ onConnect(c) \/ onSocketTimeout(c) \/ parseResponse(c)
      PROVE AnswersInv'
  BY <1>6, ClientMoves
<1>7. ASSUME NEW c \in IpcClients, giveUp(c) PROVE AnswersInv'
  BY <1>7, GivesUp
<1>8. CASE UNCHANGED ipcVars
  BY <1>8, NothingAnswered DEF ipcVars
<1> QED
  BY <1>1, <1>2, <1>3, <1>4, <1>5, <1>6, <1>7, <1>8 DEF IpcNext

\* The result the operator of `steer admit' or `steer withdraw' is shown is the
\* decision recorded for exactly that request, whatever the two parents, the
\* losses and the retries did in between, and the log they write can always be
\* replayed (casLoop in src/steering/service.ts, applySteeringEvent in
\* src/steering/reducer.ts), for every number of parents, clients, requests and
\* retries.
THEOREM AnswersAlwaysHold == IpcSpec => []AnswersHold
<1>1. AnswersInv => AnswersHold
  <2> SUFFICES ASSUME AnswersInv PROVE AnswersHold
    OBVIOUS
  <2>1. steering.ok
    BY DEF AnswersInv, Replayable
  <2>2. ASSUME NEW a \in answers
        PROVE  LET k == steering.commands[a.req.id] IN
               CASE a.reply.kind = "admitted" -> k.req = a.req /\ k.adm = a.reply.seq
                 [] a.reply.kind = "refused" -> k.req = a.req /\ k.st = "refused" /\ k.term = a.reply.seq
                 [] a.reply.kind = "withdrawn" ->
                      k.st = "withdrawn" /\ k.term = a.reply.seq /\ k.why = a.req.reason
    <3>1. Told(steering, a.req, a.reply) /\ a.reply.ok
      BY DEF AnswersInv, AnswersTyped
    <3> QED
      BY <3>1 DEF Told
  <2> QED
    BY <2>1, <2>2 DEF AnswersHold
<1> QED
  BY <1>1, AnswersInitially, AnswersStep, PTL DEF IpcSpec

-----------------------------------------------------------------------------
(* The views.  What a stream has told is on the wire, asked for or shown, and *)
(* something is always under way that brings a viewer back.                   *)

\* A state (epoch, sequence) is at least as late as another.
NotBefore(e, s, e0, s0) == e > e0 \/ (e = e0 /\ s >= s0)
ViewFrames == {"ready", "changed", "resync"}

\* The head the stream has told, a frame in the way counted.
ToldUpTo == IF stream.at = "drain" /\ stream.next = "sent" THEN stream.last + 1 ELSE stream.last
\* The stream goes on serving its range.
Serving == stream.at \in {"loop", "send", "wait"} \/ (stream.at = "drain" /\ stream.next # "end")

FrameRecs == [kind : ViewFrames \cup {"slow", "closing", "beat"}, epoch : Nat, seq : Nat, head : Nat]
StreamRecs == [at : {"none", "loop", "send", "drain", "wait"}, last : Nat, upto : Nat, dirty : BOOLEAN,
               next : {"loop", "sent", "end"}]

StreamTyped ==
  /\ instance \in Nat /\ runEpoch \in Nat \ {0} /\ headSeq \in Nat
  /\ service \in {"up", "closing", "down"} /\ conn \in {"none", "open", "ended"}
  /\ stream \in StreamRecs /\ wire \in Seq(FrameRecs)

\* A response lives as long as its stream, and a service that is down has none.
StreamConnected ==
  /\ conn = "open" <=> stream.at # "none"
  /\ conn = "none" => wire = <<>>
  /\ service = "down" => stream.at = "none" /\ wire = <<>>

\* What the socket holds.
Bounded ==
  /\ stream.at \in {"loop", "send", "wait"} => Len(wire) < HighWater
  /\ stream.at = "drain" => Len(wire) <= HighWater
  /\ BacklogBounded

\* Every view frame on the wire is about the run of the store.
FramesCurrent ==
  \A i \in 1..Len(wire) : wire[i].kind \in ViewFrames =>
    wire[i].epoch = runEpoch /\ wire[i].head <= headSeq /\ wire[i].seq <= wire[i].head

\* What a stream has not read it will be woken for.
Behind ==
  /\ Serving => stream.last <= stream.upto /\ stream.upto <= headSeq
  /\ stream.at = "drain" /\ stream.next = "sent" => stream.last < stream.upto
  /\ stream.at = "wait" => stream.last = stream.upto
  /\ stream.at \in {"send", "wait"} \/ (stream.at = "drain" /\ stream.next = "sent")
       => stream.upto = headSeq \/ wakeScheduled \/ stream.dirty

StreamInv == StreamTyped /\ StreamConnected /\ Bounded /\ FramesCurrent /\ Behind

-----------------------------------------------------------------------------
SnapRecs == [epoch : Nat, seq : Nat, instance : Nat]
Fetches == [state : {"none", "asked", "answered", "aborted"}, snap : SnapRecs]
Cursors == [epoch : Nat, after : Nat]

\* A snapshot that the store can have given.
Possible(snap) == NotBefore(runEpoch, headSeq, snap.epoch, snap.seq)

RoomRecs ==
  [mode : {"stopped", "loading", "ready", "degraded", "failed"}, snap : SnapRecs,
   pending : Cursors, fetch : Fetches, pass : Nat, poll : BOOLEAN,
   link : {"closed", "opening", "retry", "up", "done"}, available : BOOLEAN]

RoomFollows(r) ==
  /\ r.mode = "stopped" => r.link \in {"closed", "done"}
  /\ Possible(r.snap) /\ Possible(r.fetch.snap)
  /\ r.fetch.state = "answered" =>
       NotBefore(r.fetch.snap.epoch, r.fetch.snap.seq, r.snap.epoch, r.snap.seq)
  /\ r.mode = "ready" /\ r.fetch = NoFetch => r.pending = NoCursor
  /\ r.mode \in {"degraded", "failed"} => r.poll \/ r.fetch # NoFetch

\* What the stream told the room is on the wire, asked for, or shown.
Heard(r) ==
  \/ r.pending.epoch = runEpoch /\ r.pending.after >= ToldUpTo
  \/ r.snap.epoch = runEpoch /\ r.snap.seq >= ToldUpTo
Coming == \E i \in 1..Len(wire) : wire[i].kind \in ViewFrames /\ wire[i].head >= ToldUpTo
RoomTold == Serving => Coming \/ Heard(room)

RoomInv ==
  viewer = "room" =>
    /\ room \in RoomRecs /\ RoomFollows(room) /\ RoomTold
    /\ room.link = "up" <=> conn # "none"

-----------------------------------------------------------------------------
Waiters == {"boot", "resync", "open", "debounce", "poll", "nobody"}
PageRecs ==
  [shown : SnapRecs, known : BOOLEAN, epoch : Nat, applied : Nat,
   source : {"none", "connecting", "open"}, url : Cursors, lastId : Nat,
   fetch : Fetches, waits : SUBSET Waiters, queued : SUBSET {"open", "resync", "nobody"},
   trailing : BOOLEAN, debounce : BOOLEAN, retry : BOOLEAN,
   polling : BOOLEAN, failures : Nat, started : BOOLEAN]

\* What the page knows of the run it shows.
PageKnows(p) ==
  /\ p.known <=> p.epoch # 0
  /\ p.known => /\ p.shown.epoch = p.epoch /\ p.shown.seq <= p.applied
                /\ NotBefore(runEpoch, headSeq, p.epoch, p.applied)
  /\ p.fetch.state = "answered" =>
       /\ Possible(p.fetch.snap) /\ p.fetch.snap.epoch > 0 /\ p.fetch.snap.epoch >= p.epoch

\* Its source names a position it has reached.
PageSource(p) ==
  /\ p.source # "none" =>
       /\ p.known /\ p.url.epoch > 0 /\ p.url.epoch <= p.epoch
       /\ p.url.epoch = p.epoch => p.url.after <= p.applied /\ p.lastId <= p.applied
  /\ "open" \in p.waits \cup p.queued => p.source # "none"

PageOK(p) == p \in PageRecs /\ PageKnows(p) /\ PageSource(p)

\* Something other than the refresh under way brings it back.
PageAlive(p) ==
  \/ p.source # "none" \/ p.retry \/ p.debounce \/ p.polling \/ p.trailing \/ "resync" \in p.queued

PageWaits(p) ==
  /\ p.waits # {} <=> p.fetch # NoFetch
  /\ p.queued # {} \/ p.trailing => p.fetch # NoFetch
  /\ p.started => PageAlive(p) \/ {"boot", "resync", "debounce"} \cap p.waits # {}

\* What it has been told it shows, or a refresh that cannot be ignored will show it.
PageSettled(p) ==
  p.source = "open" => p.shown.seq >= p.applied \/ p.debounce \/ p.trailing \/ "open" \in p.queued
PageShows(p) == PageSettled(p) \/ {"debounce", "open"} \cap p.waits # {}

PageTold ==
  page.source = "open" /\ Serving =>
    /\ page.url.epoch = runEpoch
    /\ \/ \E i \in 1..Len(wire) : wire[i].kind = "changed" /\ wire[i].seq >= ToldUpTo
       \/ page.applied >= ToldUpTo

PageLife(p) == PageOK(p) /\ PageWaits(p) /\ PageShows(p)

PageInv ==
  viewer = "page" =>
    /\ PageLife(page) /\ PageTold
    /\ page.source = "open" <=> conn # "none"

-----------------------------------------------------------------------------
(* The broker.                                                             *)

\* What writing a frame makes of the stream.
LEMMA Writes ==
  ASSUME wire \in Seq(FrameRecs), Len(wire) < HighWater, NEW s \in StreamRecs, s.at # "none",
         NEW f \in FrameRecs, NEW next \in {"loop", "sent", "end"}, writeFrame(s, f, next)
  PROVE  /\ wire' \in Seq(FrameRecs) /\ Len(wire') = Len(wire) + 1 /\ wire'[Len(wire')] = f
         /\ \A i \in 1..Len(wire) : wire'[i] = wire[i]
         /\ stream' \in StreamRecs
         /\ (stream'.upto = s.upto /\ stream'.dirty = s.dirty) \/ (next = "end" /\ stream' = NoStream)
         /\ stream'.last = s.last \/ (next = "sent" /\ stream'.at = "send" /\ stream'.last = s.last + 1)
                                  \/ (next = "end" /\ stream' = NoStream)
         /\ \/ stream'.at = "drain" /\ stream'.next = next /\ stream'.last = s.last
            \/ /\ Len(wire) + 1 < HighWater
               /\ stream'.at = (CASE next = "loop" -> "loop" [] next = "sent" -> "send" [] next = "end" -> "none")
               /\ next = "sent" => stream'.last = s.last + 1
         /\ conn' = IF stream'.at = "none" THEN "ended" ELSE "open"
<1>1. Len(wire) \in Nat /\ HighWater \in Nat
  BY SseBounds
<1>2. /\ wire' \in Seq(FrameRecs) /\ Len(wire') = Len(wire) + 1 /\ wire'[Len(wire')] = f
      /\ \A i \in 1..Len(wire) : wire'[i] = wire[i]
  BY DEF writeFrame
<1>3. conn' = IF stream'.at = "none" THEN "ended" ELSE "open"
  BY DEF writeFrame
<1>4. NoStream \in StreamRecs /\ NoStream.at = "none"
  BY DEF NoStream, StreamRecs
<1>5. CASE Len(wire) + 1 >= HighWater
  <2>1. stream' = [s EXCEPT !.at = "drain", !.next = next]
    BY <1>5 DEF writeFrame
  <2>2. stream' \in StreamRecs /\ stream'.at = "drain" /\ stream'.next = next /\ stream'.last = s.last
        /\ stream'.upto = s.upto /\ stream'.dirty = s.dirty
    BY <2>1 DEF StreamRecs
  <2> QED
    BY <1>2, <1>3, <2>2
<1>6. CASE Len(wire) + 1 < HighWater
  <2>1. stream' = proceed(s, next)
    BY <1>1, <1>6 DEF writeFrame
  <2>2. CASE next = "loop"
    <3>1. stream' = [s EXCEPT !.at = "loop"]
      BY <2>1, <2>2 DEF proceed
    <3>2. stream' \in StreamRecs /\ stream'.at = "loop" /\ stream'.last = s.last
          /\ stream'.upto = s.upto /\ stream'.dirty = s.dirty
      BY <3>1 DEF StreamRecs
    <3> QED
      BY <1>2, <1>3, <1>6, <2>2, <3>2
  <2>3. CASE next = "sent"
    <3> DEFINE d == [s EXCEPT !.last = s.last + 1]
    <3>1. stream' = [d EXCEPT !.at = "send"]
      BY <2>1, <2>3 DEF proceed
    <3>3. d \in StreamRecs /\ d.last = s.last + 1 /\ d.upto = s.upto /\ d.dirty = s.dirty
      BY DEF StreamRecs
    <3> HIDE DEF d
    <3>2. stream' \in StreamRecs /\ stream'.at = "send" /\ stream'.last = s.last + 1
          /\ stream'.upto = s.upto /\ stream'.dirty = s.dirty
      BY <3>1, <3>3 DEF StreamRecs
    <3> QED
      BY <1>2, <1>3, <1>6, <2>3, <3>2
  <2>4. CASE next = "end"
    <3>1. stream' = NoStream
      BY <2>1, <2>4 DEF proceed
    <3> QED
      BY <1>2, <1>3, <1>4, <1>6, <2>4, <3>1
  <2> QED
    BY <2>2, <2>3, <2>4
<1> QED
  BY <1>1, <1>5, <1>6

\* A frame about the present adds nothing false to the wire.
LEMMA CurrentKept ==
  ASSUME StreamInv, UNCHANGED <<runEpoch, headSeq>>, wire' \in Seq(FrameRecs),
         \/ wire' = wire \/ wire' = <<>>
         \/ /\ wire # <<>> /\ wire' = Tail(wire)
         \/ /\ Len(wire') = Len(wire) + 1 /\ \A i \in 1..Len(wire) : wire'[i] = wire[i]
            /\ LET f == wire'[Len(wire')] IN
                 f.kind \in ViewFrames => f.epoch = runEpoch /\ f.head <= headSeq /\ f.seq <= f.head
  PROVE  FramesCurrent'
<1>1. wire \in Seq(FrameRecs) /\ Len(wire) \in Nat
  BY DEF StreamInv, StreamTyped
<1> USE DEF StreamInv, FramesCurrent
<1>2. CASE wire' = wire
  BY <1>2
<1>3. CASE wire' = <<>>
  BY <1>3
<1>4. CASE wire # <<>> /\ wire' = Tail(wire)
  <2>1. Len(wire') = Len(wire) - 1 /\ \A i \in 1..Len(wire') : wire'[i] = wire[i + 1] /\ i + 1 \in 1..Len(wire)
    BY <1>1, <1>4
  <2> QED
    BY <2>1
<1>5. CASE /\ Len(wire') = Len(wire) + 1 /\ \A i \in 1..Len(wire) : wire'[i] = wire[i]
           /\ LET f == wire'[Len(wire')] IN
                f.kind \in ViewFrames => f.epoch = runEpoch /\ f.head <= headSeq /\ f.seq <= f.head
  <2>1. \A i \in 1..Len(wire') : i \in 1..Len(wire) \/ i = Len(wire')
    BY <1>1, <1>5
  <2> QED
    BY <1>5, <2>1
<1> QED
  BY <1>2, <1>3, <1>4, <1>5

\* What a step of the broker or the store means to who listens: nothing is
\* taken back, and a head newly told is on the wire.
Onward ==
  /\ conn = "none" <=> conn' = "none"
  /\ NotBefore(runEpoch', headSeq', runEpoch, headSeq)
  /\ Serving' =>
       /\ Serving /\ runEpoch' = runEpoch
       /\ Len(wire') >= Len(wire) /\ \A i \in 1..Len(wire) : wire'[i] = wire[i]
       /\ \/ ToldUpTo' = ToldUpTo
          \/ \E i \in 1..Len(wire') :
               wire'[i].kind = "changed" /\ wire'[i].seq >= ToldUpTo' /\ wire'[i].head >= ToldUpTo'

\* Steps that leave the wire and the response as they are.
LEMMA QuietOnward ==
  ASSUME StreamInv, UNCHANGED <<wire, conn>>, NotBefore(runEpoch', headSeq', runEpoch, headSeq),
         Serving' => Serving /\ runEpoch' = runEpoch /\ ToldUpTo' = ToldUpTo
  PROVE  Onward
<1>1. Len(wire) \in Nat
  BY DEF StreamInv, StreamTyped
<1> QED
  BY <1>1 DEF Onward

\* A stream that ends says at most why.
LEMMA EndKeeps ==
  ASSUME StreamInv, finishStream, stream.at # "none", UNCHANGED <<instance, runEpoch, headSeq, service>>,
         \/ wire' = wire
         \/ \E f \in {slowClientFrame, closingFrame} : wire' = Append(wire, f)
  PROVE  StreamInv' /\ Onward
<1>1. stream' = NoStream /\ conn' = "ended" /\ NoStream \in StreamRecs /\ NoStream.at = "none" /\ ~Serving'
  BY DEF finishStream, NoStream, StreamRecs, Serving
<1>2. conn = "open" /\ wire \in Seq(FrameRecs) /\ Len(wire) \in Nat /\ HighWater \in Nat
  BY SseBounds DEF StreamInv, StreamTyped, StreamConnected
<1>3. /\ wire' \in Seq(FrameRecs)
      /\ \/ wire' = wire
         \/ /\ Len(wire') = Len(wire) + 1 /\ (\A i \in 1..Len(wire) : wire'[i] = wire[i])
            /\ wire'[Len(wire')].kind \notin ViewFrames
  <2>1. CASE wire' = wire
    BY <1>2, <2>1
  <2>2. ASSUME NEW f \in {slowClientFrame, closingFrame}, wire' = Append(wire, f)
        PROVE  /\ wire' \in Seq(FrameRecs)
               /\ Len(wire') = Len(wire) + 1 /\ (\A i \in 1..Len(wire) : wire'[i] = wire[i])
               /\ wire'[Len(wire')].kind \notin ViewFrames
    <3>1. f \in FrameRecs /\ f.kind \notin ViewFrames
      BY DEF slowClientFrame, closingFrame, Frame, FrameRecs, ViewFrames
    <3> QED
      BY <1>2, <2>2, <3>1
  <2> QED
    BY <2>1, <2>2
<1>4. FramesCurrent'
  BY <1>3, CurrentKept
<1>5. Len(wire') <= HighWater + 1
  BY <1>2, <1>3 DEF StreamInv, StreamTyped, StreamRecs, Bounded, BacklogBounded
<1>6. service # "down"
  BY <1>2 DEF StreamInv, StreamConnected
<1>7. StreamTyped' /\ StreamConnected'
  BY <1>1, <1>3, <1>6 DEF StreamInv, StreamTyped, StreamConnected
<1>8. Bounded'
  BY <1>1, <1>5 DEF Bounded, BacklogBounded
<1>9. Behind'
  BY <1>1 DEF Behind
<1>10. Onward
  BY <1>1, <1>2 DEF Onward, NotBefore, StreamInv, StreamTyped
<1> QED
  BY <1>4, <1>7, <1>8, <1>9, <1>10 DEF StreamInv

\* A frame that is written leaves the stream as it should be.
LEMMA WriteKeeps ==
  ASSUME StreamInv, service = "up", UNCHANGED <<instance, runEpoch, headSeq, service, wakeScheduled>>,
         stream.at \in {"loop", "send", "wait"},
         NEW s \in StreamRecs, s.at = stream.at, s.last = stream.last, s.upto = stream.upto,
         NEW f \in FrameRecs, NEW next \in {"loop", "sent", "end"}, writeFrame(s, f, next),
         f.kind \in ViewFrames => f.epoch = runEpoch /\ f.head <= headSeq /\ f.seq <= f.head,
         next = "sent" => /\ s.last < s.upto /\ s.dirty = stream.dirty /\ stream.at = "send"
                          /\ f.kind = "changed" /\ f.seq = s.last + 1 /\ f.head = s.upto
  PROVE  StreamInv' /\ Onward
<1>1. wire \in Seq(FrameRecs) /\ Len(wire) < HighWater /\ Len(wire) \in Nat /\ HighWater \in Nat
      /\ s.last \in Nat /\ s.upto \in Nat /\ stream.last \in Nat
  BY SseBounds DEF StreamInv, StreamTyped, Bounded, StreamRecs
<1>2. /\ wire' \in Seq(FrameRecs) /\ Len(wire') = Len(wire) + 1 /\ wire'[Len(wire')] = f
      /\ \A i \in 1..Len(wire) : wire'[i] = wire[i]
      /\ stream' \in StreamRecs
      /\ (stream'.upto = s.upto /\ stream'.dirty = s.dirty) \/ (next = "end" /\ stream' = NoStream)
      /\ stream'.last = s.last \/ (next = "sent" /\ stream'.at = "send" /\ stream'.last = s.last + 1)
                               \/ (next = "end" /\ stream' = NoStream)
      /\ \/ stream'.at = "drain" /\ stream'.next = next /\ stream'.last = s.last
         \/ /\ Len(wire) + 1 < HighWater
            /\ stream'.at = (CASE next = "loop" -> "loop" [] next = "sent" -> "send" [] next = "end" -> "none")
            /\ next = "sent" => stream'.last = s.last + 1
      /\ conn' = IF stream'.at = "none" THEN "ended" ELSE "open"
  BY <1>1, Writes
<1>3. FramesCurrent'
  BY <1>2, CurrentKept
<1>4. Bounded'
  BY <1>1, <1>2 DEF Bounded, BacklogBounded, StreamRecs
<1>5. StreamTyped' /\ StreamConnected'
  BY <1>1, <1>2 DEF StreamInv, StreamTyped, StreamConnected
<1>6. NoStream.at = "none"
  BY DEF NoStream
<1>7. s.last <= s.upto /\ s.upto <= headSeq /\ Serving
      /\ (stream.at = "send" => s.upto = headSeq \/ wakeScheduled \/ stream.dirty)
  BY DEF StreamInv, Behind, Serving
<1>8. CASE next = "end"
  <2>1. ~Serving' /\ stream'.at \in {"drain", "none"} /\ (stream'.at = "drain" => stream'.next = "end")
    BY <1>2, <1>8 DEF Serving
  <2> QED
    BY <1>1, <1>2, <1>3, <1>4, <1>5, <2>1 DEF StreamInv, StreamTyped, StreamConnected, Behind, Onward, NotBefore
<1>9. CASE next = "loop"
  <2>1. /\ stream'.at \in {"drain", "loop"} /\ (stream'.at = "drain" => stream'.next = "loop")
        /\ stream'.last = s.last /\ stream'.upto = s.upto
    BY <1>2, <1>9
  <2>2. Behind' /\ ToldUpTo' = ToldUpTo
    BY <1>7, <2>1 DEF Behind, ToldUpTo
  <2> QED
    BY <1>1, <1>2, <1>3, <1>4, <1>5, <1>7, <2>1, <2>2 DEF StreamInv, StreamTyped, StreamConnected, Onward, NotBefore
<1>10. CASE next = "sent"
  <2>1. /\ \/ stream'.at = "drain" /\ stream'.next = "sent" /\ stream'.last = s.last
           \/ stream'.at = "send" /\ stream'.last = s.last + 1
        /\ stream'.upto = s.upto /\ stream'.dirty = s.dirty
    BY <1>2, <1>10
  <2>2. ToldUpTo' = s.last + 1
    BY <2>1 DEF ToldUpTo
  <2>3. Behind'
    BY <1>1, <1>7, <1>10, <2>1 DEF Behind
  <2>4. Len(wire') \in 1..Len(wire') /\ f.seq >= ToldUpTo' /\ f.head >= ToldUpTo' /\ f.kind = "changed"
    BY <1>1, <1>2, <1>10, <2>2
  <2>6. conn # "none" /\ conn' # "none"
    BY <1>2 DEF StreamInv, StreamConnected
  <2>7. NotBefore(runEpoch', headSeq', runEpoch, headSeq)
    BY DEF NotBefore, StreamInv, StreamTyped
  <2>8. \E i \in 1..Len(wire') :
          wire'[i].kind = "changed" /\ wire'[i].seq >= ToldUpTo' /\ wire'[i].head >= ToldUpTo'
    BY <1>2, <2>4
  <2>9. Len(wire') >= Len(wire)
    BY <1>1, <1>2
  <2>5. Onward
    BY <1>2, <1>7, <2>6, <2>7, <2>8, <2>9 DEF Onward
  <2> QED
    BY <1>3, <1>4, <1>5, <2>3, <2>5 DEF StreamInv
<1> QED
  BY <1>8, <1>9, <1>10

\* Every step of the broker and of the store.
LEMMA SseKeeps ==
  ASSUME StreamInv, SseNext
  PROVE  StreamInv' /\ Onward
<1>1. /\ wire \in Seq(FrameRecs) /\ Len(wire) \in Nat /\ stream \in StreamRecs /\ headSeq \in Nat
      /\ runEpoch \in Nat \ {0} /\ stream.last \in Nat /\ stream.upto \in Nat /\ HighWater \in Nat
  BY SseBounds DEF StreamInv, StreamTyped, StreamRecs
<1>2. CASE append
  <2>1. /\ headSeq' = headSeq + 1 /\ wakeScheduled'
        /\ UNCHANGED <<instance, runEpoch, service, stream, conn, wire>>
    BY <1>2 DEF append
  <2>2. StreamTyped' /\ StreamConnected' /\ Bounded'
    BY <1>1, <2>1 DEF StreamInv, StreamTyped, StreamConnected, Bounded, BacklogBounded
  <2>3. FramesCurrent'
    <3> SUFFICES ASSUME NEW i \in 1..Len(wire), wire[i].kind \in ViewFrames
                 PROVE  wire[i].epoch = runEpoch /\ wire[i].head <= headSeq + 1 /\ wire[i].seq <= wire[i].head
      BY <2>1 DEF FramesCurrent
    <3>1. wire[i].epoch = runEpoch /\ wire[i].head <= headSeq /\ wire[i].seq <= wire[i].head /\ wire[i] \in FrameRecs
      BY <1>1 DEF StreamInv, FramesCurrent
    <3> QED
      BY <1>1, <3>1 DEF FrameRecs
  <2>4. Behind' /\ (Serving' <=> Serving) /\ ToldUpTo' = ToldUpTo
    BY <1>1, <2>1 DEF StreamInv, Behind, Serving, ToldUpTo
  <2>5. Onward
    BY <1>1, <2>1, <2>4, QuietOnward DEF NotBefore
  <2> QED
    BY <2>2, <2>3, <2>4, <2>5 DEF StreamInv
<1>3. CASE notifyAfterCommit
  <2>1. /\ stream' = [stream EXCEPT !.dirty = stream.at # "none"]
        /\ UNCHANGED <<instance, runEpoch, headSeq, service, conn, wire>>
    BY <1>3 DEF notifyAfterCommit
  <2>2. /\ stream' \in StreamRecs /\ stream'.at = stream.at /\ stream'.last = stream.last
        /\ stream'.upto = stream.upto /\ stream'.next = stream.next
        /\ (stream.at # "none" => stream'.dirty)
    BY <1>1, <2>1 DEF StreamRecs
  <2>3. StreamTyped' /\ StreamConnected' /\ Bounded' /\ FramesCurrent'
    BY <2>1, <2>2 DEF StreamInv, StreamTyped, StreamConnected, Bounded, BacklogBounded, FramesCurrent
  <2>4. Behind' /\ (Serving' <=> Serving) /\ ToldUpTo' = ToldUpTo
    BY <1>1, <2>1, <2>2 DEF StreamInv, Behind, Serving, ToldUpTo
  <2>5. Onward
    BY <1>1, <2>1, <2>4, QuietOnward DEF NotBefore
  <2> QED
    BY <2>3, <2>4, <2>5 DEF StreamInv
<1>4. CASE preflight
  <2> DEFINE s == [stream EXCEPT !.dirty = FALSE]
  <2>1. s \in StreamRecs /\ s.at = "loop" /\ s.last = stream.last /\ s.upto = stream.upto
    BY <1>1, <1>4 DEF preflight, StreamRecs
  <2>2. stream.at = "loop" /\ service = "up" /\ UNCHANGED <<instance, runEpoch, headSeq, wakeScheduled, service>>
    BY <1>4 DEF preflight
  <2>3. CASE headSeq - s.last > MaxReplay
    <3>1. writeFrame(s, Frame("resync", runEpoch, headSeq, headSeq), "end")
      BY <1>4, <2>3 DEF preflight, resync
    <3> HIDE DEF s
    <3>2. /\ Frame("resync", runEpoch, headSeq, headSeq) \in FrameRecs
          /\ LET f == Frame("resync", runEpoch, headSeq, headSeq)
             IN  f.epoch = runEpoch /\ f.head <= headSeq /\ f.seq <= f.head
      BY <1>1 DEF Frame, FrameRecs, ViewFrames
    <3> QED
      BY <2>1, <2>2, <3>1, <3>2, WriteKeeps
  <2>4. CASE ~(headSeq - s.last > MaxReplay)
    <3>1. stream' = [s EXCEPT !.at = "send", !.upto = headSeq] /\ UNCHANGED <<conn, wire>>
      BY <1>4, <2>4 DEF preflight
    <3> HIDE DEF s
    <3>2. stream' \in StreamRecs /\ stream'.at = "send" /\ stream'.upto = headSeq /\ stream'.last = stream.last
      BY <1>1, <2>1, <3>1 DEF StreamRecs
    <3>3. StreamTyped' /\ StreamConnected' /\ Bounded' /\ FramesCurrent'
      BY <2>2, <3>1, <3>2 DEF StreamInv, StreamTyped, StreamConnected, Bounded, BacklogBounded, FramesCurrent
    <3>4. stream.last <= headSeq /\ Serving
      BY <1>1, <2>2 DEF StreamInv, Behind, Serving
    <3>5. Behind' /\ ToldUpTo' = ToldUpTo
      BY <1>1, <2>2, <3>2, <3>4 DEF Behind, ToldUpTo
    <3>6. Onward
      BY <1>1, <2>2, <3>1, <3>4, <3>5, QuietOnward DEF NotBefore
    <3> QED
      BY <3>3, <3>5, <3>6 DEF StreamInv
  <2> QED
    BY <2>3, <2>4
<1>5. CASE sourceError
  BY <1>5, EndKeeps DEF sourceError
<1>6. CASE sendNotification
  <2>1. /\ stream.at = "send" /\ service = "up" /\ stream.last < stream.upto
        /\ writeFrame(stream, Frame("changed", runEpoch, stream.last + 1, stream.upto), "sent")
        /\ UNCHANGED <<instance, runEpoch, headSeq, wakeScheduled, service>>
    BY <1>6 DEF sendNotification
  <2>2. /\ Frame("changed", runEpoch, stream.last + 1, stream.upto) \in FrameRecs
        /\ LET f == Frame("changed", runEpoch, stream.last + 1, stream.upto)
           IN  /\ f.kind = "changed" /\ f.epoch = runEpoch /\ f.seq = stream.last + 1
               /\ f.head = stream.upto
    BY <1>1 DEF Frame, FrameRecs, ViewFrames
  <2>3. stream.upto <= headSeq /\ stream.last + 1 <= stream.upto
    BY <1>1, <2>1 DEF StreamInv, Behind, Serving
  <2> QED
    BY <1>1, <2>1, <2>2, <2>3, WriteKeeps
<1>7. CASE settleBatch
  <2>1. /\ stream.at = "send" /\ service = "up" /\ stream.last = stream.upto
        /\ stream' = [stream EXCEPT !.at = IF stream.dirty THEN "loop" ELSE "wait"]
        /\ UNCHANGED <<instance, runEpoch, headSeq, wakeScheduled, service, conn, wire>>
    BY <1>7 DEF settleBatch
  <2>2. /\ stream' \in StreamRecs /\ stream'.last = stream.last /\ stream'.upto = stream.upto
        /\ stream'.dirty = stream.dirty /\ stream'.at \in {"loop", "wait"} 
    BY <1>1, <2>1 DEF StreamRecs
  <2>3. StreamTyped' /\ StreamConnected' /\ Bounded' /\ FramesCurrent'
    BY <2>1, <2>2 DEF StreamInv, StreamTyped, StreamConnected, Bounded, BacklogBounded, FramesCurrent
  <2>4. Behind' /\ Serving /\ ToldUpTo' = ToldUpTo
    BY <1>1, <2>1, <2>2 DEF StreamInv, Behind, Serving, ToldUpTo
  <2>5. Onward
    BY <1>1, <2>1, <2>4, QuietOnward DEF NotBefore
  <2> QED
    BY <2>3, <2>4, <2>5 DEF StreamInv
<1>8. CASE waitForActivity
  <2>1. /\ stream.at = "wait" /\ service = "up"
        /\ UNCHANGED <<instance, runEpoch, headSeq, wakeScheduled, service>>
    BY <1>8 DEF waitForActivity
  <2>2. CASE stream.dirty /\ stream' = [stream EXCEPT !.at = "loop"] /\ UNCHANGED <<conn, wire>>
    <3>2. /\ stream' \in StreamRecs /\ stream'.last = stream.last /\ stream'.upto = stream.upto
          /\ stream'.dirty = stream.dirty /\ stream'.at = "loop"
      BY <1>1, <2>2 DEF StreamRecs
    <3>3. StreamTyped' /\ StreamConnected' /\ Bounded' /\ FramesCurrent'
      BY <2>1, <2>2, <3>2 DEF StreamInv, StreamTyped, StreamConnected, Bounded, BacklogBounded, FramesCurrent
    <3>4. Behind' /\ Serving /\ ToldUpTo' = ToldUpTo
      BY <1>1, <2>1, <3>2 DEF StreamInv, Behind, Serving, ToldUpTo
    <3>5. Onward
      BY <1>1, <2>1, <2>2, <3>4, QuietOnward DEF NotBefore
    <3> QED
      BY <3>3, <3>4, <3>5 DEF StreamInv
  <2>3. CASE writeFrame(stream, heartbeatFrame, "loop")
    <3>1. heartbeatFrame \in FrameRecs /\ heartbeatFrame.kind \notin ViewFrames
      BY DEF heartbeatFrame, Frame, FrameRecs, ViewFrames
    <3> QED
      BY <1>1, <2>1, <2>3, <3>1, WriteKeeps
  <2> QED
    BY <1>8, <2>2, <2>3 DEF waitForActivity
<1>9. CASE waitForDrain
  <2>1. /\ stream.at = "drain" /\ service = "up"
        /\ UNCHANGED <<instance, runEpoch, headSeq, wakeScheduled, service>>
    BY <1>9 DEF waitForDrain
  <2>2. CASE wire # <<>> /\ wire' = Append(wire, slowClientFrame) /\ finishStream
    BY <2>1, <2>2, EndKeeps
  <2>3. CASE /\ wire = <<>> /\ wire' = wire
             /\ stream' = proceed(stream, stream.next)
             /\ conn' = IF stream.next = "end" THEN "ended" ELSE "open"
    <3>1. /\ stream' \in StreamRecs
          /\ \/ stream.next = "loop" /\ stream'.at = "loop" /\ stream'.last = stream.last
                /\ stream'.upto = stream.upto /\ stream'.dirty = stream.dirty
             \/ stream.next = "sent" /\ stream'.at = "send" /\ stream'.last = stream.last + 1
                /\ stream'.upto = stream.upto /\ stream'.dirty = stream.dirty
             \/ stream.next = "end" /\ stream'.at = "none"
      <4>1. CASE stream.next = "loop"
        <5>1. stream' = [stream EXCEPT !.at = "loop"]
          BY <2>3, <4>1 DEF proceed
        <5> QED
          BY <1>1, <4>1, <5>1 DEF StreamRecs
      <4>2. CASE stream.next = "sent"
        <5> DEFINE d == [stream EXCEPT !.last = stream.last + 1]
        <5>1. stream' = [d EXCEPT !.at = "send"]
          BY <2>3, <4>2 DEF proceed
        <5>2. d \in StreamRecs /\ d.last = stream.last + 1 /\ d.upto = stream.upto /\ d.dirty = stream.dirty
          BY <1>1 DEF StreamRecs
        <5> HIDE DEF d
        <5> QED
          BY <4>2, <5>1, <5>2 DEF StreamRecs
      <4>3. CASE stream.next = "end"
        BY <2>3, <4>3 DEF proceed, NoStream, StreamRecs
      <4> QED
        BY <1>1, <4>1, <4>2, <4>3 DEF StreamRecs
    <3>2. Len(wire) = 0 /\ conn = "open" /\ HighWater >= 1
      BY <2>1, <2>3, SseBounds DEF StreamInv, StreamConnected
    <3>3. StreamTyped' /\ StreamConnected'
      BY <2>1, <2>3, <3>1, <3>2 DEF StreamInv, StreamTyped, StreamConnected
    <3>4. Bounded' /\ FramesCurrent'
      BY <1>1, <2>1, <2>3, <3>1, <3>2 DEF StreamInv, Bounded, BacklogBounded, FramesCurrent
    <3>5. Behind'
      BY <1>1, <2>1, <3>1 DEF StreamInv, Behind, Serving
    <3>6. Serving' => Serving /\ ToldUpTo' = ToldUpTo
      BY <2>1, <3>1 DEF Serving, ToldUpTo
    <3>7. conn # "none" /\ conn' # "none"
      BY <2>3, <3>2
    <3>8. NotBefore(runEpoch', headSeq', runEpoch, headSeq)
      BY <1>1, <2>1 DEF NotBefore
    <3>9. Onward
      BY <1>1, <2>1, <2>3, <3>6, <3>7, <3>8 DEF Onward
    <3> QED
      BY <3>3, <3>4, <3>5, <3>9 DEF StreamInv
  <2> QED
    BY <1>9, <2>2, <2>3 DEF waitForDrain
<1>10. CASE shutdownBroker
  <2>1. service = "up" /\ service' = "closing"
        /\ UNCHANGED <<instance, runEpoch, headSeq, wakeScheduled, stream, conn, wire>>
    BY <1>10 DEF shutdownBroker
  <2>2. StreamInv'
    BY <1>1, <2>1 DEF StreamInv, StreamTyped, StreamConnected, Bounded, BacklogBounded, FramesCurrent, Behind, Serving
  <2>3. (Serving' <=> Serving) /\ ToldUpTo' = ToldUpTo
    BY <2>1 DEF Serving, ToldUpTo
  <2>4. Onward
    BY <1>1, <2>1, <2>3, QuietOnward DEF NotBefore
  <2> QED
    BY <2>2, <2>4
<1>11. CASE handleTermination
  BY <1>11, EndKeeps DEF handleTermination
<1>12. CASE serviceGone
  <2>1. /\ service = "closing" /\ stream.at = "none" /\ service' = "down"
        /\ wire' = <<>> /\ conn' = (IF conn = "none" THEN "none" ELSE "ended")
        /\ UNCHANGED <<instance, runEpoch, headSeq, wakeScheduled, stream>>
    BY <1>12 DEF serviceGone
  <2>2. conn # "open" /\ ~Serving'
    BY <2>1 DEF StreamInv, StreamConnected, Serving
  <2>3. StreamTyped' /\ StreamConnected' /\ Bounded' /\ FramesCurrent' /\ Behind'
    BY <1>1, <2>1, <2>2 DEF StreamInv, StreamTyped, StreamConnected, Bounded, BacklogBounded, FramesCurrent, Behind, Serving
  <2>4. Onward
    BY <1>1, <2>1, <2>2 DEF Onward, NotBefore
  <2> QED
    BY <2>3, <2>4 DEF StreamInv
<1>13. CASE serviceBack
  <2>1. /\ service = "down" /\ service' = "up" /\ instance' = instance + 1
        /\ \/ UNCHANGED <<runEpoch, headSeq>>
           \/ runEpoch' = runEpoch + 1 /\ headSeq' = 0
        /\ UNCHANGED <<stream, conn, wire>>
    BY <1>13 DEF serviceBack
  <2>2. stream.at = "none" /\ wire = <<>> /\ ~Serving'
    BY <2>1 DEF StreamInv, StreamConnected, Serving
  <2>3. StreamTyped' /\ StreamConnected' /\ Bounded' /\ FramesCurrent' /\ Behind'
    BY <1>1, <2>1, <2>2 DEF StreamInv, StreamTyped, StreamConnected, Bounded, BacklogBounded, FramesCurrent, Behind, Serving
  <2>4. NotBefore(runEpoch', headSeq', runEpoch, headSeq)
    BY <1>1, <2>1 DEF NotBefore
  <2>5. Onward
    BY <2>1, <2>2, <2>4 DEF Onward
  <2> QED
    BY <2>3, <2>5 DEF StreamInv
<1> QED
  BY <1>2, <1>3, <1>4, <1>5, <1>6, <1>7, <1>8, <1>9, <1>10, <1>11, <1>12, <1>13 DEF SseNext

-----------------------------------------------------------------------------
(* The clients' side of the stream.                                        *)

\* A cursor is where a stream starts; without one it starts by saying so.
LEMMA OpenKeeps ==
  ASSUME StreamInv, conn = "none", NEW c \in Cursors, openStream(c)
  PROVE  /\ StreamInv' /\ conn' # "none" /\ KeepStore
         /\ c = NoCursor => (Serving' => Coming')
         /\ c # NoCursor => (Serving' => c.epoch = runEpoch /\ ToldUpTo' = c.after)
<1>1. /\ wire = <<>> /\ wire \in Seq(FrameRecs) /\ Len(wire) = 0 /\ HighWater \in Nat \ {0}
      /\ runEpoch \in Nat \ {0} /\ headSeq \in Nat /\ c.epoch \in Nat /\ c.after \in Nat
  BY SseBounds DEF StreamInv, StreamTyped, StreamConnected, Cursors
<1>2. service = "up" /\ runStream(c) /\ KeepStore
  BY DEF openStream, KeepStore
<1> DEFINE s == Subscribed(IF c = NoCursor THEN headSeq ELSE c.after)
           z == Frame("resync", runEpoch, headSeq, headSeq)
           r == Frame("ready", runEpoch, headSeq, headSeq)
<1>3. /\ s \in StreamRecs /\ s.at = "loop" /\ s.upto = s.last
      /\ s.last = (IF c = NoCursor THEN headSeq ELSE c.after)
  BY <1>1 DEF Subscribed, StreamRecs
<1>4. /\ r \in FrameRecs /\ z \in FrameRecs
      /\ r.kind \in ViewFrames /\ r.epoch = runEpoch /\ r.head = headSeq /\ r.seq = headSeq
      /\ z.kind \in ViewFrames /\ z.epoch = runEpoch /\ z.head = headSeq /\ z.seq = headSeq
  BY <1>1 DEF Frame, FrameRecs, ViewFrames
<1>5. \/ c = NoCursor /\ writeFrame(s, r, "loop")
      \/ c # NoCursor /\ writeFrame(s, z, "end")
      \/ /\ c # NoCursor /\ c.epoch = runEpoch /\ c.after <= headSeq
         /\ stream' = s /\ conn' = "open" /\ UNCHANGED wire
  BY <1>1, <1>2 DEF runStream, resync
<1> HIDE DEF s, r, z
<1>6. CASE c = NoCursor /\ writeFrame(s, r, "loop")
  <2>1. /\ wire' \in Seq(FrameRecs) /\ Len(wire') = 1 /\ wire'[1] = r
        /\ stream' \in StreamRecs /\ stream'.upto = s.upto /\ stream'.last = s.last
        /\ \/ stream'.at = "drain" /\ stream'.next = "loop"
           \/ 1 < HighWater /\ stream'.at = "loop"
        /\ conn' = "open"
    BY <1>1, <1>3, <1>4, <1>6, Writes
  <2>2. StreamTyped' /\ StreamConnected' /\ Bounded'
    BY <1>1, <1>2, <2>1 DEF StreamInv, StreamTyped, StreamConnected, Bounded, BacklogBounded, KeepStore
  <2>3. FramesCurrent'
    <3> SUFFICES ASSUME NEW i \in 1..Len(wire')
                 PROVE  wire'[i].epoch = runEpoch' /\ wire'[i].head <= headSeq' /\ wire'[i].seq <= wire'[i].head
      BY DEF FramesCurrent
    <3>1. i = 1
      BY <2>1
    <3> QED
      BY <1>1, <1>2, <1>4, <2>1, <3>1 DEF KeepStore
  <2>4. Behind'
    BY <1>1, <1>2, <1>3, <1>6, <2>1 DEF Behind, Serving, KeepStore
  <2>5. ToldUpTo' = headSeq
    BY <1>3, <1>6, <2>1 DEF ToldUpTo
  <2>6. Coming'
    BY <1>1, <1>4, <2>1, <2>5 DEF Coming
  <2> QED
    BY <1>2, <1>6, <2>1, <2>2, <2>3, <2>4, <2>6 DEF StreamInv
<1>7. CASE c # NoCursor /\ writeFrame(s, z, "end")
  <2>1. /\ wire' \in Seq(FrameRecs) /\ Len(wire') = 1 /\ wire'[1] = z
        /\ stream' \in StreamRecs
        /\ \/ stream'.at = "drain" /\ stream'.next = "end"
           \/ 1 < HighWater /\ stream'.at = "none"
        /\ conn' = IF stream'.at = "none" THEN "ended" ELSE "open"
    BY <1>1, <1>3, <1>4, <1>7, Writes
  <2>2. StreamTyped' /\ StreamConnected' /\ Bounded'
    BY <1>1, <1>2, <2>1 DEF StreamInv, StreamTyped, StreamConnected, Bounded, BacklogBounded, KeepStore
  <2>3. FramesCurrent'
    <3> SUFFICES ASSUME NEW i \in 1..Len(wire')
                 PROVE  wire'[i].epoch = runEpoch' /\ wire'[i].head <= headSeq' /\ wire'[i].seq <= wire'[i].head
      BY DEF FramesCurrent
    <3>1. i = 1
      BY <2>1
    <3> QED
      BY <1>1, <1>2, <1>4, <2>1, <3>1 DEF KeepStore
  <2>4. Behind' /\ ~Serving'
    BY <2>1 DEF Behind, Serving
  <2> QED
    BY <1>2, <1>7, <2>1, <2>2, <2>3, <2>4 DEF StreamInv
<1>8. CASE /\ c # NoCursor /\ c.epoch = runEpoch /\ c.after <= headSeq
           /\ stream' = s /\ conn' = "open" /\ UNCHANGED wire
  <2>1. StreamTyped' /\ StreamConnected' /\ Bounded' /\ FramesCurrent'
    BY <1>1, <1>2, <1>3, <1>8 DEF StreamInv, StreamTyped, StreamConnected, Bounded, BacklogBounded,
                                  FramesCurrent, KeepStore
  <2>2. Behind' /\ ToldUpTo' = c.after
    BY <1>1, <1>2, <1>3, <1>8 DEF Behind, Serving, ToldUpTo, KeepStore
  <2> QED
    BY <1>2, <1>8, <2>1, <2>2 DEF StreamInv
<1> QED
  BY <1>5, <1>6, <1>7, <1>8

LEMMA LostKeeps ==
  ASSUME StreamInv, HangUp, KeepStore
  PROVE  StreamInv' /\ ~Serving' /\ conn' = "none"
<1>1. /\ conn' = "none" /\ wire' = <<>> /\ stream' = NoStream /\ NoStream.at = "none" /\ NoStream \in StreamRecs
      /\ wire' \in Seq(FrameRecs) /\ Len(wire') = 0 /\ HighWater \in Nat
      /\ UNCHANGED <<instance, runEpoch, headSeq, service>>
  BY SseBounds DEF HangUp, NoStream, StreamRecs, KeepStore
<1>2. ~Serving'
  BY <1>1 DEF Serving
<1> QED
  BY <1>1, <1>2 DEF StreamInv, StreamTyped, StreamConnected, Bounded, BacklogBounded, FramesCurrent, Behind

LEMMA ReadKeeps ==
  ASSUME StreamInv, wire # <<>>, wire' = Tail(wire), UNCHANGED <<stream, conn>>, KeepStore
  PROVE  /\ StreamInv' /\ (Serving' <=> Serving) /\ ToldUpTo' = ToldUpTo
         /\ wire[1] \in FrameRecs /\ 1 \in 1..Len(wire)
         /\ \A i \in 1..Len(wire) : i # 1 => i - 1 \in 1..Len(wire') /\ wire'[i - 1] = wire[i]
<1>1. wire \in Seq(FrameRecs) /\ Len(wire) \in Nat /\ HighWater \in Nat /\ UNCHANGED <<instance, runEpoch, headSeq, wakeScheduled, service>>
  BY SseBounds DEF StreamInv, StreamTyped, KeepStore
<1>2. /\ wire' \in Seq(FrameRecs) /\ Len(wire') = Len(wire) - 1 /\ 1 \in 1..Len(wire)
      /\ wire[1] \in FrameRecs
      /\ \A i \in 1..Len(wire') : wire'[i] = wire[i + 1]
  BY <1>1
<1>3. \A i \in 1..Len(wire) : i # 1 => i - 1 \in 1..Len(wire') /\ wire'[i - 1] = wire[i]
  BY <1>1, <1>2
<1>4. FramesCurrent'
  BY <1>1, <1>2, CurrentKept
<1>5. (Serving' <=> Serving) /\ ToldUpTo' = ToldUpTo
  BY DEF Serving, ToldUpTo
<1>6. StreamTyped' /\ StreamConnected' /\ Bounded'
  BY <1>1, <1>2 DEF StreamInv, StreamTyped, StreamConnected, Bounded, BacklogBounded
<1>7. Behind'
  BY <1>1, <1>5 DEF StreamInv, Behind
<1> QED
  BY <1>2, <1>3, <1>4, <1>5, <1>6, <1>7 DEF StreamInv

LEMMA StillKeeps ==
  ASSUME StreamInv, KeepSse
  PROVE  StreamInv' /\ (Serving' <=> Serving) /\ ToldUpTo' = ToldUpTo /\ (Coming' <=> Coming)
BY DEF KeepSse, StreamInv, StreamTyped, StreamConnected, Bounded, BacklogBounded, FramesCurrent, Behind,
       Serving, ToldUpTo, Coming

-----------------------------------------------------------------------------
(* The control room.                                                       *)

LEMMA FetchValues ==
  /\ NoFetch \in Fetches /\ NoFetch.state = "none" /\ NoFetch.snap = Nothing
  /\ Asked \in Fetches /\ Asked.state = "asked" /\ Asked.snap = Nothing /\ Asked # NoFetch
  /\ Nothing \in SnapRecs /\ Nothing.epoch = 0 /\ Nothing.seq = 0
  /\ NoCursor \in Cursors /\ NoCursor.epoch = 0 /\ NoCursor.after = 0
BY DEF NoFetch, Asked, Nothing, Fetches, SnapRecs, NoCursor, Cursors

LEMMA RefreshFields ==
  ASSUME NEW r \in RoomRecs
  PROVE  LET q == refresh(r) IN
           /\ q \in RoomRecs /\ q.mode = r.mode /\ q.snap = r.snap /\ q.pending = r.pending
           /\ q.link = r.link /\ q.available = r.available
           /\ \/ r.fetch # NoFetch /\ q = r
              \/ q.fetch = Asked
<1>1. CASE r.fetch = NoFetch
  <2> DEFINE d == [r EXCEPT !.fetch = Asked, !.pass = 1, !.poll = FALSE]
  <2>1. /\ d \in RoomRecs /\ d.mode = r.mode /\ d.snap = r.snap /\ d.pending = r.pending
        /\ d.link = r.link /\ d.available = r.available /\ d.fetch = Asked
    BY FetchValues DEF RoomRecs
  <2>2. refresh(r) = d
    BY <1>1 DEF refresh, performRefresh
  <2> QED
    BY <2>1, <2>2
<1>2. CASE r.fetch # NoFetch
  BY <1>2 DEF refresh
<1> QED
  BY <1>1, <1>2

LEMMA LostFields ==
  ASSUME NEW r \in RoomRecs
  PROVE  LET q == subscriptionLost(r) IN
           /\ q \in RoomRecs /\ q.snap = r.snap /\ q.pending = r.pending /\ q.fetch = r.fetch
           /\ q.link = r.link
           /\ \/ q.mode = r.mode /\ q.poll = r.poll
              \/ q.mode = "degraded" /\ q.poll
           /\ r.mode = "stopped" <=> q.mode = "stopped"
<1> DEFINE d == [r EXCEPT !.available = FALSE]
           f == [r EXCEPT !.available = FALSE, !.mode = "degraded", !.poll = TRUE]
<1>1. /\ d \in RoomRecs /\ d.snap = r.snap /\ d.pending = r.pending /\ d.fetch = r.fetch
      /\ d.link = r.link /\ d.mode = r.mode /\ d.poll = r.poll
  BY DEF RoomRecs
<1>2. /\ f \in RoomRecs /\ f.snap = r.snap /\ f.pending = r.pending /\ f.fetch = r.fetch
      /\ f.link = r.link /\ f.mode = "degraded" /\ f.poll
  BY DEF RoomRecs
<1>3. [d EXCEPT !.mode = "degraded", !.poll = TRUE] = f
  BY DEF RoomRecs
<1>4. subscriptionLost(r) = d \/ (r.mode # "stopped" /\ subscriptionLost(r) = f)
  BY <1>3 DEF subscriptionLost
<1> HIDE DEF d, f
<1> QED
  BY <1>1, <1>2, <1>4

LEMMA PossibleNow ==
  ASSUME StreamInv
  PROVE  Possible(Nothing) /\ Possible(Snapshot) /\ Snapshot \in SnapRecs
         /\ Answered(Snapshot) \in Fetches /\ Answered(Snapshot).state = "answered"
         /\ Answered(Snapshot).snap = Snapshot /\ Snapshot.epoch > 0 /\ Answered(Snapshot) # NoFetch
BY DEF StreamInv, StreamTyped, Possible, NotBefore, Nothing, Snapshot, SnapRecs, Answered, Fetches, NoFetch

\* What the store goes on to leaves the room behind, and no more.
LEMMA FollowsOn ==
  ASSUME StreamInv, StreamInv', NEW r \in RoomRecs, RoomFollows(r),
         NotBefore(runEpoch', headSeq', runEpoch, headSeq)
  PROVE  RoomFollows(r)'
<1>1. /\ r.snap.epoch \in Nat /\ r.snap.seq \in Nat /\ r.fetch.snap.epoch \in Nat /\ r.fetch.snap.seq \in Nat
      /\ runEpoch \in Nat /\ headSeq \in Nat /\ runEpoch' \in Nat /\ headSeq' \in Nat
  BY DEF RoomRecs, Fetches, SnapRecs, StreamInv, StreamTyped
<1>2. NotBefore(runEpoch', headSeq', r.snap.epoch, r.snap.seq)
      /\ NotBefore(runEpoch', headSeq', r.fetch.snap.epoch, r.fetch.snap.seq)
  BY <1>1 DEF RoomFollows, Possible, NotBefore
<1> QED
  BY <1>2 DEF RoomFollows, Possible

LEMMA SseToRoom ==
  ASSUME StreamInv, StreamInv', RoomInv, Onward, UNCHANGED <<viewer, room>>
  PROVE  RoomInv'
<1> SUFFICES ASSUME viewer = "room"
             PROVE  room \in RoomRecs /\ RoomFollows(room)' /\ RoomTold' /\ (room.link = "up" <=> conn' # "none")
  BY DEF RoomInv
<1>1. room \in RoomRecs /\ RoomFollows(room) /\ RoomTold /\ (room.link = "up" <=> conn # "none")
  BY DEF RoomInv
<1>2. RoomFollows(room)'
  BY <1>1, FollowsOn DEF Onward
<1>3. RoomTold'
  <2> SUFFICES ASSUME Serving' PROVE Coming' \/ Heard(room)'
    BY DEF RoomTold
  <2>1. /\ Serving /\ runEpoch' = runEpoch
        /\ Len(wire') >= Len(wire) /\ \A i \in 1..Len(wire) : wire'[i] = wire[i]
        /\ \/ ToldUpTo' = ToldUpTo
           \/ \E i \in 1..Len(wire') :
                wire'[i].kind = "changed" /\ wire'[i].seq >= ToldUpTo' /\ wire'[i].head >= ToldUpTo'
    BY DEF Onward
  <2>2. Len(wire) \in Nat /\ Len(wire') \in Nat
    BY DEF StreamInv, StreamTyped
  <2>3. CASE ToldUpTo' = ToldUpTo /\ Coming
    <3>1. PICK i \in 1..Len(wire) : wire[i].kind \in ViewFrames /\ wire[i].head >= ToldUpTo
      BY <2>3 DEF Coming
    <3>2. i \in 1..Len(wire') /\ wire'[i] = wire[i]
      BY <2>1, <2>2
    <3> QED
      BY <2>3, <3>1, <3>2 DEF Coming
  <2>4. CASE ToldUpTo' = ToldUpTo /\ Heard(room)
    BY <2>1, <2>4 DEF Heard
  <2>5. CASE \E i \in 1..Len(wire') :
               wire'[i].kind = "changed" /\ wire'[i].seq >= ToldUpTo' /\ wire'[i].head >= ToldUpTo'
    BY <2>5 DEF Coming, ViewFrames
  <2> QED
    BY <1>1, <2>1, <2>3, <2>4, <2>5 DEF RoomTold
<1> QED
  BY <1>1, <1>2, <1>3 DEF Onward

\* Steps of the room that leave the stream alone.
LEMMA RoomStill ==
  ASSUME StreamInv, viewer = "room", RoomInv, KeepSse, UNCHANGED viewer, NEW r, room' = r,
         r \in RoomRecs, RoomFollows(r), Heard(room) => Heard(r), r.link = "up" <=> room.link = "up"
  PROVE  StreamInv' /\ RoomInv'
<1>1. StreamInv' /\ (Serving' <=> Serving) /\ ToldUpTo' = ToldUpTo /\ (Coming' <=> Coming)
  BY StillKeeps
<1>2. UNCHANGED <<runEpoch, headSeq, conn>>
  BY DEF KeepSse
<1>3. RoomFollows(room)' /\ (Heard(room)' <=> Heard(r))
  BY <1>1, <1>2 DEF RoomFollows, Possible, Heard
<1>4. RoomTold'
  BY <1>1, <1>3 DEF RoomInv, RoomTold
<1> QED
  BY <1>1, <1>2, <1>3, <1>4 DEF RoomInv

\* Steps after which the stream of the room is gone.
LEMMA RoomGone ==
  ASSUME StreamInv, viewer = "room", HangUp, KeepStore, UNCHANGED viewer, NEW r, room' = r,
         r \in RoomRecs, RoomFollows(r), r.link # "up"
  PROVE  StreamInv' /\ RoomInv'
<1>1. StreamInv' /\ ~Serving' /\ conn' = "none"
  BY LostKeeps
<1>2. UNCHANGED <<runEpoch, headSeq>>
  BY DEF KeepStore
<1>3. RoomFollows(room)' /\ RoomTold'
  BY <1>1, <1>2 DEF RoomFollows, Possible, RoomTold
<1> QED
  BY <1>1, <1>3 DEF RoomInv

LEMMA RoomKeeps ==
  ASSUME StreamInv, viewer = "room", RoomInv, RoomNext
  PROVE  StreamInv' /\ RoomInv'
<1>1. room \in RoomRecs /\ RoomFollows(room) /\ RoomTold /\ (room.link = "up" <=> conn # "none")
  BY DEF RoomInv
<1>2. /\ runEpoch \in Nat \ {0} /\ headSeq \in Nat /\ wire \in Seq(FrameRecs)
      /\ room.pending \in Cursors /\ room.pending.epoch \in Nat /\ room.pending.after \in Nat
      /\ room.snap \in SnapRecs /\ room.snap.epoch \in Nat /\ room.snap.seq \in Nat
      /\ room.fetch \in Fetches /\ room.fetch.snap \in SnapRecs
      /\ room.fetch.snap.epoch \in Nat /\ room.fetch.snap.seq \in Nat /\ room.pass \in Nat
  BY <1>1 DEF StreamInv, StreamTyped, RoomRecs, Cursors, SnapRecs, Fetches
<1> USE FetchValues
<1>3. CASE roomStart
  <2> DEFINE r == performRefresh([room EXCEPT !.mode = "loading", !.link = "opening"])
  <2>1. room' = r /\ KeepSse /\ UNCHANGED viewer /\ room.link = "closed"
    BY <1>3 DEF roomStart
  <2>2. /\ r \in RoomRecs /\ r.mode = "loading" /\ r.link = "opening" /\ r.fetch = Asked
        /\ r.pending = room.pending /\ r.snap = room.snap
    BY <1>1, <1>2 DEF performRefresh, RoomRecs
  <2> HIDE DEF r
  <2>3. RoomFollows(r) /\ (Heard(room) => Heard(r))
    BY <1>1, <2>2, PossibleNow DEF RoomFollows, Heard
  <2> QED
    BY <2>1, <2>2, <2>3, RoomStill
<1>4. CASE connectRoom
  <2>1. room.link \in {"opening", "retry"} /\ UNCHANGED viewer /\ conn = "none" /\ room.mode # "stopped"
    BY <1>1, <1>4 DEF connectRoom, RoomFollows
  <2>2. CASE openStream(NoCursor)
             /\ room' = [IF room.link = "retry" THEN subscriptionLost(room) ELSE room EXCEPT !.link = "up"]
    <3> DEFINE q == IF room.link = "retry" THEN subscriptionLost(room) ELSE room
               r == [q EXCEPT !.link = "up"]
    <3>1. /\ q \in RoomRecs /\ q.snap = room.snap /\ q.pending = room.pending /\ q.fetch = room.fetch
          /\ \/ q.mode = room.mode /\ q.poll = room.poll
             \/ q.mode = "degraded" /\ q.poll
          /\ q.mode # "stopped"
      BY <1>1, <2>1, LostFields
    <3>2. room' = r
      BY <2>2
    <3> HIDE DEF q
    <3>3. /\ r \in RoomRecs /\ r.snap = q.snap /\ r.pending = q.pending /\ r.fetch = q.fetch
          /\ r.mode = q.mode /\ r.poll = q.poll /\ r.link = "up"
      BY <3>1 DEF RoomRecs
    <3> HIDE DEF r
    <3>4. RoomFollows(r)
      BY <1>1, <3>1, <3>3 DEF RoomFollows
    <3>5. StreamInv' /\ conn' # "none" /\ KeepStore /\ (Serving' => Coming')
      BY <2>1, <2>2, OpenKeeps
    <3>6. RoomFollows(room)' /\ RoomTold'
      BY <3>2, <3>4, <3>5 DEF KeepStore, RoomFollows, Possible, RoomTold
    <3> QED
      BY <2>1, <3>2, <3>3, <3>5, <3>6 DEF RoomInv
  <2>3. CASE KeepSse /\ room' = [subscriptionLost(room) EXCEPT !.link = "retry"]
    <3> DEFINE q == subscriptionLost(room)
               r == [q EXCEPT !.link = "retry"]
    <3>1. /\ q \in RoomRecs /\ q.snap = room.snap /\ q.pending = room.pending /\ q.fetch = room.fetch
          /\ \/ q.mode = room.mode /\ q.poll = room.poll
             \/ q.mode = "degraded" /\ q.poll
          /\ q.mode # "stopped"
      BY <1>1, <2>1, LostFields
    <3>2. room' = r
      BY <2>3
    <3> HIDE DEF q
    <3>3. /\ r \in RoomRecs /\ r.snap = q.snap /\ r.pending = q.pending /\ r.fetch = q.fetch
          /\ r.mode = q.mode /\ r.poll = q.poll /\ r.link = "retry"
      BY <3>1 DEF RoomRecs
    <3> HIDE DEF r
    <3>4. RoomFollows(r) /\ (Heard(room) => Heard(r))
      BY <1>1, <3>1, <3>3 DEF RoomFollows, Heard
    <3> QED
      BY <2>1, <2>3, <3>2, <3>3, <3>4, RoomStill
  <2> QED
    BY <1>4, <2>2, <2>3 DEF connectRoom
<1>5. CASE consumeSse
  <2> DEFINE f == wire[1]
             a == [room EXCEPT !.available = TRUE]
             k == [epoch |-> f.epoch,
                   after |-> IF f.head > a.pending.after THEN f.head ELSE a.pending.after]
             p == [a EXCEPT !.pending = k]
             r == refresh(p)
  <2>1. /\ room.link = "up" /\ wire # <<>> /\ wire' = Tail(wire) /\ UNCHANGED <<stream, conn>> /\ KeepStore
        /\ UNCHANGED viewer
        /\ room' = IF f.kind \in ViewFrames THEN notification(a, f.epoch, f.head) ELSE room
    BY <1>5 DEF consumeSse, ViewFrames
  <2>2. /\ StreamInv' /\ (Serving' <=> Serving) /\ ToldUpTo' = ToldUpTo
        /\ f \in FrameRecs /\ 1 \in 1..Len(wire)
        /\ \A i \in 1..Len(wire) : i # 1 => i - 1 \in 1..Len(wire') /\ wire'[i - 1] = wire[i]
    BY <2>1, ReadKeeps
  <2>3. Coming => Coming' \/ (f.kind \in ViewFrames /\ f.head >= ToldUpTo)
    BY <2>2 DEF Coming
  <2>4. UNCHANGED <<runEpoch, headSeq>>
    BY <2>1 DEF KeepStore
  <2>5. CASE f.kind \notin ViewFrames
    <3>1. room' = room /\ RoomTold' /\ RoomFollows(room)'
      BY <1>1, <2>1, <2>2, <2>3, <2>4, <2>5 DEF RoomTold, Heard, RoomFollows, Possible
    <3> QED
      BY <1>1, <2>1, <2>2, <3>1 DEF RoomInv
  <2>6. CASE f.kind \in ViewFrames
    <3>1. f.epoch = runEpoch /\ f.head \in Nat
      BY <2>2, <2>6 DEF StreamInv, FramesCurrent, FrameRecs
    <3>2. /\ a \in RoomRecs /\ a.pending = room.pending /\ a.mode = room.mode /\ a.snap = room.snap
          /\ a.fetch = room.fetch /\ a.link = "up" /\ a.poll = room.poll
      BY <1>1, <2>1 DEF RoomRecs
    <3>3. room.mode # "stopped"
      BY <1>1, <2>1 DEF RoomFollows
    <3>4. room' = r
      BY <2>1, <2>6, <3>2, <3>3 DEF notification
    <3> HIDE DEF a, f
    <3>11. k \in Cursors /\ k.epoch = runEpoch /\ k.after >= f.head /\ k.after >= room.pending.after
      BY <1>2, <3>1, <3>2 DEF Cursors
    <3> HIDE DEF k
    <3>5. /\ p \in RoomRecs /\ p.mode = room.mode /\ p.snap = room.snap /\ p.fetch = room.fetch
          /\ p.link = "up" /\ p.pending.epoch = runEpoch
          /\ p.pending.after >= f.head /\ p.pending.after >= room.pending.after /\ p.pending.after \in Nat
      BY <3>2, <3>11 DEF RoomRecs, Cursors
    <3> HIDE DEF p
    <3>6. /\ r \in RoomRecs /\ r.mode = p.mode /\ r.snap = p.snap /\ r.pending = p.pending
          /\ r.link = p.link
          /\ \/ p.fetch # NoFetch /\ r.fetch = p.fetch
             \/ r.fetch = Asked
      BY <3>5, RefreshFields
    <3> HIDE DEF r
    <3>7. RoomFollows(r)
      BY <1>1, <3>3, <3>5, <3>6, PossibleNow DEF RoomFollows
    <3>8. ToldUpTo \in Int
      BY DEF ToldUpTo, StreamInv, StreamTyped, StreamRecs
    <3>9. (Heard(room) \/ f.head >= ToldUpTo) => Heard(r)
      BY <1>2, <3>1, <3>5, <3>6, <3>8 DEF Heard
    <3>10. RoomFollows(room)' /\ RoomTold'
      BY <1>1, <2>2, <2>3, <2>4, <3>4, <3>7, <3>9 DEF RoomFollows, Possible, RoomTold, Heard
    <3> QED
      BY <1>1, <2>1, <2>2, <3>4, <3>5, <3>6, <3>10 DEF RoomInv
  <2> QED
    BY <2>5, <2>6
<1>6. CASE scheduleReconnect
  <2> DEFINE q == subscriptionLost(room)
             r == [q EXCEPT !.link = "retry"]
  <2>1. room.link = "up" /\ HangUp /\ KeepStore /\ UNCHANGED viewer /\ room' = r
    BY <1>6 DEF scheduleReconnect
  <2>2. /\ q \in RoomRecs /\ q.snap = room.snap /\ q.pending = room.pending /\ q.fetch = room.fetch
        /\ \/ q.mode = room.mode /\ q.poll = room.poll
           \/ q.mode = "degraded" /\ q.poll
        /\ q.mode # "stopped"
    BY <1>1, <2>1, LostFields DEF RoomFollows
  <2> HIDE DEF q
  <2>3. /\ r \in RoomRecs /\ r.snap = q.snap /\ r.pending = q.pending /\ r.fetch = q.fetch
        /\ r.mode = q.mode /\ r.poll = q.poll /\ r.link = "retry"
    BY <2>2 DEF RoomRecs
  <2> HIDE DEF r
  <2>4. RoomFollows(r)
    BY <1>1, <2>2, <2>3 DEF RoomFollows
  <2> QED
    BY <2>1, <2>3, <2>4, RoomGone
<1>7. CASE answerRoom
  <2> DEFINE s == Answered(Snapshot)
             r == [room EXCEPT !.fetch = s]
  <2>1. room' = r /\ KeepSse /\ UNCHANGED viewer
    BY <1>7 DEF answerRoom
  <2>2. s \in Fetches /\ s.state = "answered" /\ s # NoFetch /\ Possible(s.snap)
        /\ s.snap.epoch = runEpoch /\ s.snap.seq = headSeq
    BY <1>2, PossibleNow DEF Snapshot
  <2> HIDE DEF s
  <2>3. /\ r \in RoomRecs /\ r.snap = room.snap /\ r.pending = room.pending /\ r.fetch = s
        /\ r.mode = room.mode /\ r.poll = room.poll /\ r.link = room.link
    BY <1>1, <2>2 DEF RoomRecs
  <2> HIDE DEF r
  <2>4. RoomFollows(r) /\ (Heard(room) => Heard(r))
    BY <1>1, <1>2, <2>2, <2>3 DEF RoomFollows, Heard, Possible, NotBefore
  <2> QED
    BY <2>1, <2>3, <2>4, RoomStill
<1>8. CASE adoptRoom
  <2>1. KeepSse /\ UNCHANGED viewer /\ room.fetch.state = "answered"
    BY <1>8 DEF adoptRoom
  <2>2. NotBefore(room.fetch.snap.epoch, room.fetch.snap.seq, room.snap.epoch, room.snap.seq)
        /\ Possible(room.fetch.snap)
    BY <1>1, <2>1 DEF RoomFollows
  <2>3. CASE ~missed(room, room.fetch.snap)
    <3> DEFINE r == [room EXCEPT !.fetch = NoFetch, !.pending = NoCursor,
                           !.snap = room.fetch.snap,
                           !.poll = room.poll \/ ~room.available,
                           !.mode = IF room.available THEN "ready" ELSE "degraded"]
    <3>1. room' = r
      BY <1>8, <2>3 DEF adoptRoom
    <3>2. /\ r \in RoomRecs /\ r.fetch = NoFetch /\ r.pending = NoCursor /\ r.snap = room.fetch.snap
          /\ r.link = room.link /\ r.mode \in {"ready", "degraded"} /\ (r.mode = "degraded" => r.poll)
      BY <1>1, <1>2 DEF RoomRecs
    <3> HIDE DEF r
    <3>3. RoomFollows(r)
      BY <1>1, <2>2, <3>2, PossibleNow DEF RoomFollows
    <3>4. ToldUpTo \in Int
      BY DEF ToldUpTo, StreamInv, StreamTyped, StreamRecs
    <3>5. Heard(room) => Heard(r)
      <4>1. CASE room.pending.epoch = runEpoch /\ room.pending.after >= ToldUpTo
        <5>1. room.pending # NoCursor
          BY <1>2, <4>1
        <5>2. room.pending.epoch = room.fetch.snap.epoch /\ room.pending.after <= room.fetch.snap.seq
          BY <1>2, <2>3, <5>1 DEF missed
        <5> QED
          BY <1>2, <3>2, <3>4, <4>1, <5>2 DEF Heard
      <4>2. CASE room.snap.epoch = runEpoch /\ room.snap.seq >= ToldUpTo
        BY <1>2, <2>2, <3>2, <3>4, <4>2 DEF Heard, NotBefore, Possible
      <4> QED
        BY <4>1, <4>2 DEF Heard
    <3> QED
      BY <2>1, <3>1, <3>2, <3>3, <3>5, RoomStill
  <2>4. CASE missed(room, room.fetch.snap) /\ room.pass < RefetchPasses
    <3> DEFINE n == room.pass + 1
               r == [room EXCEPT !.fetch = Asked, !.pass = n]
    <3>1. room' = r
      BY <1>8, <2>4 DEF adoptRoom
    <3>4. n \in Nat
      BY <1>2
    <3> HIDE DEF n
    <3>2. /\ r \in RoomRecs /\ r.fetch = Asked /\ r.pending = room.pending /\ r.snap = room.snap
          /\ r.link = room.link /\ r.mode = room.mode
      BY <1>1, <3>4 DEF RoomRecs
    <3> HIDE DEF r
    <3>3. RoomFollows(r) /\ (Heard(room) => Heard(r))
      BY <1>1, <3>2, PossibleNow DEF RoomFollows, Heard
    <3> QED
      BY <2>1, <3>1, <3>2, <3>3, RoomStill
  <2>5. CASE missed(room, room.fetch.snap) /\ ~(room.pass < RefetchPasses)
    <3> DEFINE r == [room EXCEPT !.fetch = NoFetch, !.mode = "failed", !.poll = TRUE]
    <3>1. room' = r
      BY <1>8, <2>5 DEF adoptRoom
    <3>2. /\ r \in RoomRecs /\ r.fetch = NoFetch /\ r.pending = room.pending /\ r.snap = room.snap
          /\ r.link = room.link /\ r.mode = "failed" /\ r.poll
      BY <1>1, <1>2 DEF RoomRecs
    <3> HIDE DEF r
    <3>3. RoomFollows(r) /\ (Heard(room) => Heard(r))
      BY <1>1, <3>2, PossibleNow DEF RoomFollows, Heard
    <3> QED
      BY <2>1, <3>1, <3>2, <3>3, RoomStill
  <2> QED
    BY <2>3, <2>4, <2>5
<1>9. CASE snapshotFailed
  <2> DEFINE r == [room EXCEPT !.fetch = NoFetch, !.mode = "failed", !.poll = TRUE]
  <2>1. room' = r /\ KeepSse /\ UNCHANGED viewer /\ room.fetch # NoFetch
    BY <1>9 DEF snapshotFailed
  <2>2. /\ r \in RoomRecs /\ r.fetch = NoFetch /\ r.pending = room.pending /\ r.snap = room.snap
        /\ r.link = room.link /\ r.mode = "failed" /\ r.poll
    BY <1>1, <1>2 DEF RoomRecs
  <2> HIDE DEF r
  <2>3. RoomFollows(r) /\ (Heard(room) => Heard(r))
    BY <1>1, <2>2, PossibleNow DEF RoomFollows, Heard
  <2> QED
    BY <2>1, <2>2, <2>3, RoomStill
<1>10. CASE schedulePoll
  <2> DEFINE q == [room EXCEPT !.poll = FALSE]
             r == refresh(q)
  <2>1. room' = r /\ KeepSse /\ UNCHANGED viewer
    BY <1>10 DEF schedulePoll
  <2>2. /\ q \in RoomRecs /\ q.fetch = room.fetch /\ q.pending = room.pending /\ q.snap = room.snap
        /\ q.link = room.link /\ q.mode = room.mode
    BY <1>1, <1>2 DEF RoomRecs
  <2> HIDE DEF q
  <2>3. /\ r \in RoomRecs /\ r.mode = q.mode /\ r.snap = q.snap /\ r.pending = q.pending
        /\ r.link = q.link
        /\ \/ q.fetch # NoFetch /\ r.fetch = q.fetch
           \/ r.fetch = Asked
    BY <2>2, RefreshFields
  <2> HIDE DEF r
  <2>4. RoomFollows(r) /\ (Heard(room) => Heard(r))
    BY <1>1, <2>2, <2>3, PossibleNow DEF RoomFollows, Heard
  <2> QED
    BY <2>1, <2>2, <2>3, <2>4, RoomStill
<1>11. CASE roomStop
  <2> DEFINE r == [room EXCEPT !.mode = "stopped", !.fetch = NoFetch, !.poll = FALSE,
                          !.pending = NoCursor, !.link = "done"]
  <2>1. room' = r /\ HangUp /\ KeepStore /\ UNCHANGED viewer
    BY <1>11 DEF roomStop
  <2>2. /\ r \in RoomRecs /\ r.fetch = NoFetch /\ r.snap = room.snap
        /\ r.link = "done" /\ r.mode = "stopped"
    BY <1>1, <1>2 DEF RoomRecs
  <2> HIDE DEF r
  <2>3. RoomFollows(r)
    BY <1>1, <2>2, PossibleNow DEF RoomFollows
  <2> QED
    BY <2>1, <2>2, <2>3, RoomGone
<1> QED
  BY <1>3, <1>4, <1>5, <1>6, <1>7, <1>8, <1>9, <1>10, <1>11 DEF RoomNext

-----------------------------------------------------------------------------
(* The page: what its operators do.                                        *)

LEMMA CloseFields ==
  ASSUME NEW p \in PageRecs
  PROVE  LET q == closeSource(p) IN
           /\ q \in PageRecs /\ q.source = "none"
           /\ "open" \notin q.waits /\ "open" \notin q.queued
           /\ (q.waits = {} <=> p.waits = {}) /\ (q.queued = {} <=> p.queued = {})
           /\ \A w \in Waiters \ {"open", "nobody"} :
                (w \in q.waits <=> w \in p.waits) /\ (w \in q.queued <=> w \in p.queued)
           /\ q.shown = p.shown /\ q.known = p.known /\ q.epoch = p.epoch /\ q.applied = p.applied
           /\ q.fetch = p.fetch /\ q.trailing = p.trailing /\ q.debounce = p.debounce
           /\ q.retry = p.retry /\ q.polling = p.polling /\ q.failures = p.failures
           /\ q.started = p.started
<1> DEFINE w == Disowned(p.waits)
           u == Disowned(p.queued)
<1>1. /\ w \in SUBSET Waiters /\ "open" \notin w /\ (w = {} <=> p.waits = {})
      /\ \A x \in Waiters \ {"open", "nobody"} : x \in w <=> x \in p.waits
  BY DEF Disowned, Waiters, PageRecs
<1>2. /\ u \in SUBSET {"open", "resync", "nobody"} /\ "open" \notin u /\ (u = {} <=> p.queued = {})
      /\ \A x \in Waiters \ {"open", "nobody"} : x \in u <=> x \in p.queued
  BY DEF Disowned, Waiters, PageRecs
<1>3. closeSource(p) = [p EXCEPT !.source = "none", !.url = NoCursor, !.lastId = 0, !.waits = w, !.queued = u]
  BY DEF closeSource
<1> HIDE DEF w, u
<1>4. NoCursor \in Cursors
  BY FetchValues
<1> DEFINE q == [p EXCEPT !.source = "none", !.url = NoCursor, !.lastId = 0, !.waits = w, !.queued = u]
<1>5. /\ q \in PageRecs /\ q.source = "none" /\ q.waits = w /\ q.queued = u
      /\ q.shown = p.shown /\ q.known = p.known /\ q.epoch = p.epoch /\ q.applied = p.applied
      /\ q.fetch = p.fetch /\ q.trailing = p.trailing /\ q.debounce = p.debounce
      /\ q.retry = p.retry /\ q.polling = p.polling /\ q.failures = p.failures
      /\ q.started = p.started
  BY <1>1, <1>2, <1>4 DEF PageRecs
<1> HIDE DEF q
<1> QED
  BY <1>1, <1>2, <1>3, <1>5 DEF q

\* The same source, position and knowledge.
SamePlace(p, q) ==
  /\ q.shown = p.shown /\ q.known = p.known /\ q.epoch = p.epoch /\ q.applied = p.applied
  /\ q.source = p.source /\ q.url = p.url /\ q.lastId = p.lastId /\ q.started = p.started

LEMMA FailureFields ==
  ASSUME NEW p \in PageRecs
  PROVE  LET q == recordFailure(p) IN
           /\ q \in PageRecs /\ SamePlace(p, q)
           /\ q.fetch = p.fetch /\ q.waits = p.waits /\ q.queued = p.queued
           /\ q.trailing = p.trailing /\ q.debounce = p.debounce /\ q.retry = p.retry
           /\ p.polling => q.polling
<1> DEFINE n == IF p.failures < FailureThreshold THEN p.failures + 1 ELSE p.failures
           b == p.polling \/ n >= FailureThreshold
           q == [p EXCEPT !.failures = n, !.polling = b]
<1>1. n \in Nat
  BY DEF PageRecs
<1>2. recordFailure(p) = q
  BY DEF recordFailure
<1>4. b \in BOOLEAN /\ (p.polling => b)
  OBVIOUS
<1> HIDE DEF n, b
<1>3. /\ q \in PageRecs /\ q.polling = b
      /\ q.shown = p.shown /\ q.known = p.known /\ q.epoch = p.epoch /\ q.applied = p.applied
      /\ q.source = p.source /\ q.url = p.url /\ q.lastId = p.lastId /\ q.started = p.started
      /\ q.fetch = p.fetch /\ q.waits = p.waits /\ q.queued = p.queued
      /\ q.trailing = p.trailing /\ q.debounce = p.debounce /\ q.retry = p.retry
  BY <1>1, <1>4 DEF PageRecs
<1> HIDE DEF q
<1> QED
  BY <1>2, <1>3, <1>4 DEF SamePlace

LEMMA RetryFields ==
  ASSUME NEW p \in PageRecs, NEW b \in BOOLEAN
  PROVE  LET q == [p EXCEPT !.retry = b] IN
           /\ q \in PageRecs /\ SamePlace(p, q) /\ q.retry = b
           /\ q.fetch = p.fetch /\ q.waits = p.waits /\ q.queued = p.queued
           /\ q.trailing = p.trailing /\ q.debounce = p.debounce /\ q.polling = p.polling
<1> DEFINE q == [p EXCEPT !.retry = b]
<1>1. /\ q \in PageRecs /\ q.retry = b
      /\ q.shown = p.shown /\ q.known = p.known /\ q.epoch = p.epoch /\ q.applied = p.applied
      /\ q.source = p.source /\ q.url = p.url /\ q.lastId = p.lastId /\ q.started = p.started
      /\ q.fetch = p.fetch /\ q.waits = p.waits /\ q.queued = p.queued
      /\ q.trailing = p.trailing /\ q.debounce = p.debounce /\ q.polling = p.polling
  BY DEF PageRecs
<1> HIDE DEF q
<1>2. q = [p EXCEPT !.retry = b]
  BY DEF q
<1> QED
  BY <1>1, <1>2 DEF SamePlace

LEMMA RequestFields ==
  ASSUME NEW p \in PageRecs, NEW who \in Waiters
  PROVE  LET q == requestRefresh(p, who) IN
           /\ q \in PageRecs /\ SamePlace(p, q) /\ q.queued = p.queued
           /\ q.debounce = p.debounce /\ q.retry = p.retry /\ q.polling = p.polling
           /\ \/ p.fetch # NoFetch /\ q.fetch = p.fetch /\ q.trailing /\ q.waits = p.waits \cup {who}
              \/ p.fetch = NoFetch /\ q.fetch = Asked /\ q.trailing = p.trailing /\ q.waits = {who}
<1>1. CASE p.fetch # NoFetch
  <2> DEFINE w == p.waits \cup {who}
             q == [p EXCEPT !.trailing = TRUE, !.waits = w]
  <2>1. requestRefresh(p, who) = q
    BY <1>1 DEF requestRefresh
  <2>2. w \in SUBSET Waiters
    BY DEF PageRecs
  <2> HIDE DEF w
  <2>3. /\ q \in PageRecs /\ q.queued = p.queued /\ q.fetch = p.fetch /\ q.trailing /\ q.waits = w
        /\ q.shown = p.shown /\ q.known = p.known /\ q.epoch = p.epoch /\ q.applied = p.applied
        /\ q.source = p.source /\ q.url = p.url /\ q.lastId = p.lastId /\ q.started = p.started
        /\ q.debounce = p.debounce /\ q.retry = p.retry /\ q.polling = p.polling
    BY <2>2 DEF PageRecs
  <2> HIDE DEF q
  <2> QED
    BY <1>1, <2>1, <2>3 DEF SamePlace, w
<1>2. CASE p.fetch = NoFetch
  <2> DEFINE q == [p EXCEPT !.fetch = Asked, !.waits = {who}]
  <2>1. requestRefresh(p, who) = q
    BY <1>2 DEF requestRefresh
  <2>3. /\ q \in PageRecs /\ q.queued = p.queued /\ q.fetch = Asked /\ q.trailing = p.trailing /\ q.waits = {who}
        /\ q.shown = p.shown /\ q.known = p.known /\ q.epoch = p.epoch /\ q.applied = p.applied
        /\ q.source = p.source /\ q.url = p.url /\ q.lastId = p.lastId /\ q.started = p.started
        /\ q.debounce = p.debounce /\ q.retry = p.retry /\ q.polling = p.polling
    BY FetchValues DEF PageRecs
  <2> HIDE DEF q
  <2> QED
    BY <1>2, <2>1, <2>3 DEF SamePlace
<1> QED
  BY <1>1, <1>2

LEMMA OpenFields ==
  ASSUME NEW p \in PageRecs
  PROVE  LET q == openSource(p) IN
           /\ q \in PageRecs
           /\ q.shown = p.shown /\ q.known = p.known /\ q.epoch = p.epoch /\ q.applied = p.applied
           /\ q.fetch = p.fetch /\ q.waits = p.waits /\ q.queued = p.queued /\ q.started = p.started
           /\ q.trailing = p.trailing /\ q.debounce = p.debounce /\ q.polling = p.polling
           /\ \/ (p.source # "none" \/ p.epoch = 0) /\ q = p
              \/ /\ p.source = "none" /\ p.epoch # 0 /\ q.source = "connecting" /\ q.lastId = 0
                 /\ q.url.epoch = p.epoch /\ q.url.after = p.applied
<1>1. CASE p.source # "none" \/ p.epoch = 0
  BY <1>1 DEF openSource
<1>2. CASE ~(p.source # "none" \/ p.epoch = 0)
  <2> DEFINE u == [epoch |-> p.epoch, after |-> p.applied]
             q == [p EXCEPT !.source = "connecting", !.retry = FALSE, !.lastId = 0, !.url = u]
  <2>1. openSource(p) = q
    BY <1>2 DEF openSource
  <2>2. u \in Cursors /\ u.epoch = p.epoch /\ u.after = p.applied
    BY DEF PageRecs, Cursors
  <2> HIDE DEF u
  <2>3. /\ q \in PageRecs /\ q.source = "connecting" /\ q.lastId = 0 /\ q.url = u
        /\ q.shown = p.shown /\ q.known = p.known /\ q.epoch = p.epoch /\ q.applied = p.applied
        /\ q.fetch = p.fetch /\ q.waits = p.waits /\ q.queued = p.queued /\ q.started = p.started
        /\ q.trailing = p.trailing /\ q.debounce = p.debounce /\ q.polling = p.polling
    BY <2>2 DEF PageRecs
  <2> HIDE DEF q
  <2> QED
    BY <1>2, <2>1, <2>2, <2>3
<1> QED
  BY <1>1, <1>2

LEMMA InvalidateFields ==
  ASSUME NEW p \in PageRecs
  PROVE  LET q == scheduleInvalidation(p) IN
           /\ q \in PageRecs /\ SamePlace(p, q)
           /\ q.fetch = p.fetch /\ q.waits = p.waits /\ q.queued = p.queued
           /\ q.retry = p.retry /\ q.polling = p.polling
           /\ \/ q.debounce /\ q.trailing = p.trailing
              \/ p.fetch # NoFetch /\ q.trailing /\ q.debounce = p.debounce
<1>1. CASE p.debounce
  BY <1>1 DEF scheduleInvalidation, SamePlace
<1>2. CASE ~p.debounce /\ p.fetch # NoFetch
  <2> DEFINE q == [p EXCEPT !.trailing = TRUE]
  <2>1. scheduleInvalidation(p) = q
    BY <1>2 DEF scheduleInvalidation
  <2>2. /\ q \in PageRecs /\ q.trailing /\ q.debounce = p.debounce
        /\ q.shown = p.shown /\ q.known = p.known /\ q.epoch = p.epoch /\ q.applied = p.applied
        /\ q.source = p.source /\ q.url = p.url /\ q.lastId = p.lastId /\ q.started = p.started
        /\ q.fetch = p.fetch /\ q.waits = p.waits /\ q.queued = p.queued
        /\ q.retry = p.retry /\ q.polling = p.polling
    BY DEF PageRecs
  <2> HIDE DEF q
  <2> QED
    BY <1>2, <2>1, <2>2 DEF SamePlace
<1>3. CASE ~p.debounce /\ p.fetch = NoFetch
  <2> DEFINE q == [p EXCEPT !.debounce = TRUE]
  <2>1. scheduleInvalidation(p) = q
    BY <1>3 DEF scheduleInvalidation
  <2>2. /\ q \in PageRecs /\ q.debounce /\ q.trailing = p.trailing
        /\ q.shown = p.shown /\ q.known = p.known /\ q.epoch = p.epoch /\ q.applied = p.applied
        /\ q.source = p.source /\ q.url = p.url /\ q.lastId = p.lastId /\ q.started = p.started
        /\ q.fetch = p.fetch /\ q.waits = p.waits /\ q.queued = p.queued
        /\ q.retry = p.retry /\ q.polling = p.polling
    BY DEF PageRecs
  <2> HIDE DEF q
  <2> QED
    BY <2>1, <2>2 DEF SamePlace
<1> QED
  BY <1>1, <1>2, <1>3

\* What was queued becomes the refresh under way.
LEMMA QueuedFields ==
  ASSUME NEW p \in PageRecs, p.fetch = NoFetch, ~p.trailing
  PROVE  LET q == runQueued(p) IN
           /\ q \in PageRecs /\ SamePlace(p, q)
           /\ q.debounce = p.debounce /\ q.retry = p.retry /\ q.polling = p.polling
           /\ q.queued = {}
           /\ \/ p.queued = {} /\ q.fetch = NoFetch /\ ~q.trailing /\ q.waits = p.waits
              \/ p.queued # {} /\ q.fetch = Asked /\ q.waits = p.queued
<1> DEFINE Q == p.queued
           idle == [p EXCEPT !.queued = {}, !.trailing = p.trailing /\ "resync" \notin Q]
           one == IF "resync" \in Q THEN requestRefresh(idle, "resync") ELSE idle
           two == IF "open" \in Q THEN requestRefresh(one, "open") ELSE one
           end == IF "nobody" \in Q THEN requestRefresh(two, "nobody") ELSE two
           Like(q) == /\ q \in PageRecs /\ SamePlace(p, q)
                      /\ q.debounce = p.debounce /\ q.retry = p.retry /\ q.polling = p.polling
                      /\ q.queued = {}
           Fresh(q) == q.fetch = NoFetch /\ ~q.trailing
<1>1. runQueued(p) = end
  BY DEF runQueued
<1>2. Q \in SUBSET {"open", "resync", "nobody"}
  BY DEF PageRecs
<1>3. idle = [p EXCEPT !.queued = {}, !.trailing = FALSE]
  OBVIOUS
<1> HIDE DEF idle
<1>4. Like(idle) /\ Fresh(idle) /\ idle.waits = p.waits
  BY <1>3 DEF PageRecs, SamePlace
<1> HIDE DEF Q
<1>5. /\ Like(one)
      /\ \/ "resync" \notin Q /\ Fresh(one) /\ one.waits = p.waits
         \/ "resync" \in Q /\ one.fetch = Asked /\ one.waits = {"resync"}
  BY <1>4, RequestFields DEF SamePlace, Waiters
<1> HIDE DEF one
<1>6. /\ Like(two)
      /\ \/ {"resync", "open"} \cap Q = {} /\ Fresh(two) /\ two.waits = p.waits
         \/ {"resync", "open"} \cap Q # {} /\ two.fetch = Asked /\ two.waits = {"resync", "open"} \cap Q
  <2>1. CASE "open" \notin Q
    BY <1>5, <2>1
  <2>2. CASE "open" \in Q
    <3>1. two = requestRefresh(one, "open") /\ Asked # NoFetch
      BY <2>2, FetchValues
    <3>2. /\ Like(two) 
          /\ \/ one.fetch # NoFetch /\ two.fetch = one.fetch /\ two.waits = one.waits \cup {"open"}
             \/ one.fetch = NoFetch /\ two.fetch = Asked /\ two.waits = {"open"}
      BY <1>5, <3>1, RequestFields DEF SamePlace, Waiters
    <3> QED
      BY <1>5, <2>2, <3>1, <3>2
  <2> QED
    BY <2>1, <2>2
<1> HIDE DEF two
<1>7. /\ Like(end)
      /\ \/ Q = {} /\ Fresh(end) /\ end.waits = p.waits
         \/ Q # {} /\ end.fetch = Asked /\ end.waits = Q
  <2>1. CASE "nobody" \notin Q
    BY <1>2, <1>6, <2>1
  <2>2. CASE "nobody" \in Q
    <3>1. end = requestRefresh(two, "nobody") /\ Asked # NoFetch
      BY <2>2, FetchValues
    <3>2. /\ Like(end) 
          /\ \/ two.fetch # NoFetch /\ end.fetch = two.fetch /\ end.waits = two.waits \cup {"nobody"}
             \/ two.fetch = NoFetch /\ end.fetch = Asked /\ end.waits = {"nobody"}
      BY <1>6, <3>1, RequestFields DEF SamePlace, Waiters
    <3> QED
      BY <1>2, <1>6, <2>2, <3>1, <3>2
  <2> QED
    BY <2>1, <2>2
<1> HIDE DEF end
<1> QED
  BY <1>1, <1>7 DEF Q

\* The place a page knows and the source it has there.
LEMMA PlaceKept ==
  ASSUME NEW p, NEW q, q \in PageRecs, PageOK(p), SamePlace(p, q),
         q.fetch.state = "answered" => q.fetch = p.fetch,
         "open" \in q.waits \cup q.queued => "open" \in p.waits \cup p.queued
  PROVE  PageOK(q)
BY DEF PageOK, PageKnows, PageSource, SamePlace

\* Nothing is lost when a page has nothing under way and starts what is queued.
LEMMA RunQueuedKeeps ==
  ASSUME NEW p, PageOK(p), p.fetch = NoFetch, p.waits = {}, ~p.trailing, p.started => PageAlive(p), PageSettled(p)
  PROVE  PageLife(runQueued(p)) /\ SamePlace(p, runQueued(p))
<1>1. p \in PageRecs
  BY DEF PageOK
<1> DEFINE q == runQueued(p)
<1>2. /\ q \in PageRecs /\ SamePlace(p, q)
      /\ q.debounce = p.debounce /\ q.retry = p.retry /\ q.polling = p.polling
      /\ q.queued = {}
      /\ \/ p.queued = {} /\ q.fetch = NoFetch /\ ~q.trailing /\ q.waits = p.waits
         \/ p.queued # {} /\ q.fetch = Asked /\ q.waits = p.queued
  BY <1>1, QueuedFields
<1> HIDE DEF q
<1>3. PageOK(q)
  <2>1. q.fetch.state # "answered"
    BY <1>2, FetchValues
  <2> QED
    BY <1>2, <2>1, PlaceKept
<1>4. PageWaits(q)
  BY <1>2, FetchValues DEF PageWaits, PageAlive, SamePlace
<1>5. PageShows(q)
  BY <1>2 DEF PageShows, PageSettled, SamePlace
<1> QED
  BY <1>2, <1>3, <1>4, <1>5 DEF PageLife, q

\* The end of a refresh.
LEMMA SettleKeeps ==
  ASSUME NEW p, PageOK(p), p.started => PageAlive(p), PageSettled(p)
  PROVE  PageLife(settleRefresh(p)) /\ SamePlace(p, settleRefresh(p))
<1> DEFINE free == [p EXCEPT !.fetch = NoFetch, !.waits = {}, !.trailing = FALSE]
           q == IF p.trailing THEN scheduleInvalidation(free) ELSE free
<1>1. p \in PageRecs /\ p.trailing \in BOOLEAN
  BY DEF PageOK, PageRecs
<1>2. /\ free \in PageRecs /\ free.fetch = NoFetch /\ free.waits = {} /\ free.trailing = FALSE
      /\ free.queued = p.queued /\ free.debounce = p.debounce /\ free.retry = p.retry
      /\ free.polling = p.polling /\ SamePlace(p, free)
  BY <1>1, FetchValues DEF PageRecs, SamePlace
<1>3. settleRefresh(p) = runQueued(q)
  BY DEF settleRefresh
<1> HIDE DEF free
<1>4. /\ q \in PageRecs /\ q.fetch = NoFetch /\ q.waits = {} /\ ~q.trailing
      /\ q.queued = p.queued /\ (p.debounce \/ p.trailing => q.debounce) /\ q.retry = p.retry
      /\ q.polling = p.polling /\ SamePlace(p, q)
  <2>1. CASE p.trailing
    BY <1>2, <2>1, InvalidateFields DEF SamePlace
  <2>2. CASE ~p.trailing
    BY <1>1, <1>2, <2>2
  <2> QED
    BY <2>1, <2>2
<1> HIDE DEF q
<1>5. PageOK(q)
  <2>1. q.fetch.state # "answered"
    BY <1>4, FetchValues
  <2> QED
    BY <1>4, <2>1, PlaceKept
<1>6. (q.started => PageAlive(q)) /\ PageSettled(q)
  BY <1>4 DEF PageAlive, PageSettled, SamePlace
<1>7. PageLife(runQueued(q)) /\ SamePlace(q, runQueued(q))
  BY <1>4, <1>5, <1>6, RunQueuedKeeps
<1> QED
  BY <1>3, <1>4, <1>7 DEF SamePlace

\* A refresh that is asked for.
LEMMA RequestKeeps ==
  ASSUME NEW p, PageOK(p), NEW who \in Waiters \ {"open"},
         p.waits # {} <=> p.fetch # NoFetch, p.queued # {} \/ p.trailing => p.fetch # NoFetch,
         p.started => PageAlive(p) \/ {"boot", "resync", "debounce"} \cap (p.waits \cup {who}) # {},
         PageSettled(p) \/ {"debounce", "open"} \cap (p.waits \cup {who}) # {}
  PROVE  PageLife(requestRefresh(p, who)) /\ SamePlace(p, requestRefresh(p, who))
<1>1. p \in PageRecs
  BY DEF PageOK
<1> DEFINE q == requestRefresh(p, who)
<1>2. /\ q \in PageRecs /\ SamePlace(p, q) /\ q.queued = p.queued
      /\ q.debounce = p.debounce /\ q.retry = p.retry /\ q.polling = p.polling
      /\ \/ p.fetch # NoFetch /\ q.fetch = p.fetch /\ q.trailing /\ q.waits = p.waits \cup {who}
         \/ p.fetch = NoFetch /\ q.fetch = Asked /\ q.trailing = p.trailing /\ q.waits = {who}
  BY <1>1, RequestFields
<1> HIDE DEF q
<1>3. /\ q.waits = p.waits \cup {who} /\ q.fetch # NoFetch
      /\ (q.fetch.state = "answered" => q.fetch = p.fetch)
      /\ (p.trailing => q.trailing)
  BY <1>2, FetchValues
<1>4. PageOK(q)
  BY <1>2, <1>3, PlaceKept
<1>5. PageWaits(q)
  BY <1>2, <1>3 DEF PageWaits, PageAlive, SamePlace
<1>6. PageShows(q)
  BY <1>2, <1>3 DEF PageShows, PageSettled, SamePlace
<1> QED
  BY <1>2, <1>4, <1>5, <1>6 DEF PageLife, q

\* A page that gives its source up and will try again.
LEMMA GiveUpFields ==
  ASSUME NEW p \in PageRecs
  PROVE  LET q == scheduleRetry(recordFailure(closeSource(p))) IN
           /\ q \in PageRecs /\ q.source = "none" /\ q.retry
           /\ "open" \notin q.waits /\ "open" \notin q.queued
           /\ (q.waits = {} <=> p.waits = {}) /\ (q.queued = {} <=> p.queued = {})
           /\ \A w \in Waiters \ {"open", "nobody"} : w \in q.waits <=> w \in p.waits
           /\ q.shown = p.shown /\ q.known = p.known /\ q.epoch = p.epoch /\ q.applied = p.applied
           /\ q.fetch = p.fetch /\ q.trailing = p.trailing /\ q.started = p.started
<1> DEFINE c == closeSource(p)
           f == recordFailure(c)
<1>1. /\ c \in PageRecs /\ c.source = "none"
      /\ "open" \notin c.waits /\ "open" \notin c.queued
      /\ (c.waits = {} <=> p.waits = {}) /\ (c.queued = {} <=> p.queued = {})
      /\ \A w \in Waiters \ {"open", "nobody"} : w \in c.waits <=> w \in p.waits
      /\ c.shown = p.shown /\ c.known = p.known /\ c.epoch = p.epoch /\ c.applied = p.applied
      /\ c.fetch = p.fetch /\ c.trailing = p.trailing /\ c.started = p.started
  BY CloseFields
<1> HIDE DEF c
<1>2. /\ f \in PageRecs /\ SamePlace(c, f)
      /\ f.fetch = c.fetch /\ f.waits = c.waits /\ f.queued = c.queued /\ f.trailing = c.trailing
  BY <1>1, FailureFields
<1> HIDE DEF f
<1> DEFINE q == [f EXCEPT !.retry = TRUE]
<1>3. /\ q \in PageRecs /\ SamePlace(f, q) /\ q.retry = TRUE
      /\ q.fetch = f.fetch /\ q.waits = f.waits /\ q.queued = f.queued /\ q.trailing = f.trailing
  BY <1>2, RetryFields
<1>4. scheduleRetry(recordFailure(closeSource(p))) = q
  BY DEF scheduleRetry, c, f
<1> HIDE DEF q
<1> QED
  BY <1>1, <1>2, <1>3, <1>4 DEF SamePlace

LEMMA GiveUpKeeps ==
  ASSUME NEW p, PageOK(p)
  PROVE  LET q == scheduleRetry(recordFailure(closeSource(p))) IN
           /\ PageOK(q) /\ PageAlive(q) /\ PageSettled(q) /\ q.source = "none"
           /\ PageWaits(p) => PageLife(q)
<1> DEFINE q == scheduleRetry(recordFailure(closeSource(p)))
<1>1. p \in PageRecs
  BY DEF PageOK
<1>2. /\ q \in PageRecs /\ q.source = "none" /\ q.retry
      /\ "open" \notin q.waits /\ "open" \notin q.queued
      /\ (q.waits = {} <=> p.waits = {}) /\ (q.queued = {} <=> p.queued = {})
      /\ q.shown = p.shown /\ q.known = p.known /\ q.epoch = p.epoch /\ q.applied = p.applied
      /\ q.fetch = p.fetch /\ q.trailing = p.trailing /\ q.started = p.started
  BY <1>1, GiveUpFields
<1> HIDE DEF q
<1>3. PageOK(q)
  BY <1>2 DEF PageOK, PageKnows, PageSource
<1>4. PageAlive(q) /\ PageSettled(q) /\ PageShows(q)
  BY <1>2 DEF PageAlive, PageSettled, PageShows
<1>5. PageWaits(p) => PageWaits(q)
  BY <1>2, <1>4 DEF PageWaits
<1> QED
  BY <1>2, <1>3, <1>4, <1>5 DEF PageLife, q

\* What the continuations of a refresh leave of the page they are given.
Derived(p, q) ==
  /\ PageOK(q) /\ q.known /\ q.shown = p.shown /\ q.epoch = p.epoch /\ q.applied = p.applied
  /\ q.started = p.started
  /\ q.source = "open" => p.source = "open" /\ q.url = p.url
  /\ \A w \in Waiters \ {"open", "nobody"} : w \in q.waits <=> w \in p.waits

LEMMA RestartDerives ==
  ASSUME NEW p, PageOK(p), p.known
  PROVE  Derived(p, restartAfterIdentityChange(p)) /\ PageAlive(restartAfterIdentityChange(p))
<1>1. p \in PageRecs
  BY DEF PageOK
<1>2. restartAfterIdentityChange(p) = scheduleRetry(recordFailure(closeSource(p)))
  BY DEF restartAfterIdentityChange
<1> QED
  BY <1>1, <1>2, GiveUpFields, GiveUpKeeps DEF Derived

LEMMA OpenDerives ==
  ASSUME NEW p, PageOK(p), p.known
  PROVE  Derived(p, openSource(p)) /\ PageAlive(openSource(p)) /\ openSource(p).source # "none"
<1> DEFINE q == openSource(p)
<1>1. p \in PageRecs /\ p.epoch # 0 /\ p.epoch \in Nat /\ p.applied \in Nat
  BY DEF PageOK, PageKnows, PageRecs
<1>2. /\ q \in PageRecs
      /\ q.shown = p.shown /\ q.known = p.known /\ q.epoch = p.epoch /\ q.applied = p.applied
      /\ q.fetch = p.fetch /\ q.waits = p.waits /\ q.queued = p.queued /\ q.started = p.started
      /\ q.trailing = p.trailing /\ q.debounce = p.debounce /\ q.polling = p.polling
      /\ \/ p.source # "none" /\ q = p
         \/ /\ p.source = "none" /\ q.source = "connecting" /\ q.lastId = 0
            /\ q.url.epoch = p.epoch /\ q.url.after = p.applied
  BY <1>1, OpenFields
<1> HIDE DEF q
<1>3. CASE p.source # "none" /\ q = p
  BY <1>3 DEF Derived, PageAlive, q
<1>4. CASE /\ p.source = "none" /\ q.source = "connecting" /\ q.lastId = 0
           /\ q.url.epoch = p.epoch /\ q.url.after = p.applied
  <2>1. PageOK(q)
    BY <1>1, <1>2, <1>4 DEF PageOK, PageKnows, PageSource
  <2> QED
    BY <1>2, <1>4, <2>1 DEF Derived, PageAlive, q
<1> QED
  BY <1>2, <1>3, <1>4

LEMMA ReopenDerives ==
  ASSUME NEW p, PageOK(p), p.known
  PROVE  Derived(p, Reopened(p)) /\ PageAlive(Reopened(p))
<1> DEFINE c == closeSource(p)
           r == [c EXCEPT !.retry = FALSE]
<1>1. p \in PageRecs
  BY DEF PageOK
<1>2. /\ c \in PageRecs /\ c.source = "none"
      /\ "open" \notin c.waits /\ "open" \notin c.queued
      /\ \A w \in Waiters \ {"open", "nobody"} : w \in c.waits <=> w \in p.waits
      /\ c.shown = p.shown /\ c.known = p.known /\ c.epoch = p.epoch /\ c.applied = p.applied
      /\ c.fetch = p.fetch /\ c.started = p.started
  BY <1>1, CloseFields
<1>3. Reopened(p) = openSource(r)
  BY DEF Reopened
<1> HIDE DEF c
<1>4. /\ r \in PageRecs /\ SamePlace(c, r) /\ r.fetch = c.fetch /\ r.waits = c.waits /\ r.queued = c.queued
  BY <1>2, RetryFields
<1> HIDE DEF r
<1>5. PageOK(r) /\ r.known
  BY <1>2, <1>4 DEF PageOK, PageKnows, PageSource, SamePlace
<1>6. Derived(r, openSource(r)) /\ PageAlive(openSource(r)) 
  BY <1>5, OpenDerives
<1> QED
  BY <1>2, <1>3, <1>4, <1>6 DEF Derived, SamePlace

LEMMA DerivedTwice ==
  ASSUME NEW p, NEW q, NEW r, Derived(p, q), Derived(q, r)
  PROVE  Derived(p, r)
BY DEF Derived

LEMMA ContinuedKeeps ==
  ASSUME NEW p, PageOK(p), p.known, p.shown.seq = p.applied, NEW inst \in BOOLEAN, NEW sel \in BOOLEAN,
         p.started => PageAlive(p) \/ {"boot", "resync", "debounce"} \cap p.waits # {}
  PROVE  LET q == Continued(p, inst, sel)
         IN  Derived(p, q) /\ PageSettled(q) /\ (q.started => PageAlive(q))
<1> DEFINE Both(q, otherwise) == IF inst THEN restartAfterIdentityChange(q)
                                 ELSE IF sel THEN Reopened(q) ELSE otherwise
           a == IF {"debounce", "poll"} \cap p.waits = {} THEN p ELSE Both(p, OpenIfIdle(p))
           b == IF "open" \notin a.waits THEN a
                ELSE Both(a, [a EXCEPT !.failures = 0, !.polling = FALSE])
           d == IF {"boot", "resync"} \cap p.waits = {} THEN b ELSE openSource(b)
<1>1. Continued(p, inst, sel) = d
  BY DEF Continued
<1>2. Derived(p, p)
  BY DEF Derived
<1>3. /\ Derived(p, a)
      /\ p.started => PageAlive(a) \/ {"boot", "resync"} \cap p.waits # {}
  <2>1. CASE {"debounce", "poll"} \cap p.waits = {}
    BY <1>2, <2>1
  <2>2. CASE {"debounce", "poll"} \cap p.waits # {}
    <3>1. CASE inst
      BY <2>2, <3>1, RestartDerives
    <3>2. CASE ~inst /\ sel
      BY <2>2, <3>2, ReopenDerives
    <3>3. CASE ~inst /\ ~sel
      <4>1. a = OpenIfIdle(p)
        BY <2>2, <3>3
      <4>2. a = openSource(p) \/ (a = p /\ (p.source # "none" \/ p.retry))
        BY <4>1 DEF OpenIfIdle
      <4> QED
        BY <1>2, <4>2, OpenDerives DEF PageAlive
    <3> QED
      BY <3>1, <3>2, <3>3
  <2> QED
    BY <2>1, <2>2
<1> HIDE DEF a
<1>4. PageOK(a) /\ a.known
  BY <1>3 DEF Derived
<1>5. /\ Derived(a, b)
      /\ PageAlive(a) \/ {"boot", "resync"} \cap p.waits # {} => PageAlive(b) \/ {"boot", "resync"} \cap p.waits # {}
  <2>1. CASE "open" \notin a.waits
    BY <1>4, <2>1 DEF Derived
  <2>2. CASE "open" \in a.waits
    <3>1. CASE inst
      BY <1>4, <2>2, <3>1, RestartDerives
    <3>2. CASE ~inst /\ sel
      BY <1>4, <2>2, <3>2, ReopenDerives
    <3>3. CASE ~inst /\ ~sel
      <4> DEFINE e == [a EXCEPT !.failures = 0, !.polling = FALSE]
      <4>1. b = e
        BY <2>2, <3>3
      <4>2. a \in PageRecs /\ a.source # "none"
        BY <1>4, <2>2 DEF PageOK, PageSource
      <4>3. /\ e \in PageRecs
            /\ e.shown = a.shown /\ e.known = a.known /\ e.epoch = a.epoch /\ e.applied = a.applied
            /\ e.source = a.source /\ e.url = a.url /\ e.lastId = a.lastId /\ e.started = a.started
            /\ e.fetch = a.fetch /\ e.waits = a.waits /\ e.queued = a.queued
        BY <4>2 DEF PageRecs
      <4> HIDE DEF e
      <4>4. PageOK(e)
        BY <1>4, <4>3, PlaceKept DEF SamePlace
      <4> QED
        BY <1>4, <4>1, <4>2, <4>3, <4>4 DEF Derived, PageAlive
    <3> QED
      BY <3>1, <3>2, <3>3
  <2> QED
    BY <2>1, <2>2
<1> HIDE DEF b
<1>6. PageOK(b) /\ b.known
  BY <1>5 DEF Derived
<1>7. /\ Derived(b, d)
      /\ PageAlive(b) \/ {"boot", "resync"} \cap p.waits # {} => PageAlive(d)
  <2>1. CASE {"boot", "resync"} \cap p.waits = {}
    BY <1>6, <2>1 DEF Derived
  <2>2. CASE {"boot", "resync"} \cap p.waits # {}
    BY <1>6, <2>2, OpenDerives
  <2> QED
    BY <2>1, <2>2
<1> HIDE DEF d
<1>8. Derived(p, d)
  BY <1>3, <1>5, <1>7, DerivedTwice
<1>9. PageSettled(d)
  <2>1. d.shown.seq = d.applied /\ d.applied \in Nat
    BY <1>8 DEF Derived, PageOK, PageRecs
  <2> QED
    BY <2>1 DEF PageSettled
<1> QED
  BY <1>1, <1>3, <1>5, <1>7, <1>8, <1>9 DEF Derived

\* What a failed refresh leaves.
LEMMA FailedKeeps ==
  ASSUME NEW p, PageLife(p)
  PROVE  LET q == Failed(p)
         IN  /\ PageOK(q) /\ PageSettled(q) /\ (q.started => PageAlive(q))
             /\ q.source = "none" \/ SamePlace(p, q)
<1>1. p \in PageRecs /\ PageOK(p)
  BY DEF PageLife, PageOK
<1> DEFINE f == recordFailure(p)
           b == IF "boot" \in p.waits THEN scheduleRetry(f) ELSE p
           q == IF {"debounce", "open", "resync"} \cap p.waits = {} THEN b ELSE terminalFailure(b)
<1>2. Failed(p) = q
  BY DEF Failed
<1>3. /\ f \in PageRecs /\ SamePlace(p, f)
      /\ f.fetch = p.fetch /\ f.waits = p.waits /\ f.queued = p.queued
      /\ f.trailing = p.trailing /\ f.debounce = p.debounce
  BY <1>1, FailureFields
<1> HIDE DEF f
<1>4. /\ b \in PageRecs /\ SamePlace(p, b)
      /\ b.fetch = p.fetch /\ b.waits = p.waits /\ b.queued = p.queued
      /\ b.trailing = p.trailing /\ b.debounce = p.debounce
      /\ ("boot" \notin p.waits /\ b = p) \/ b.retry
  <2>1. CASE "boot" \in p.waits
    <3> DEFINE r == [f EXCEPT !.retry = TRUE]
    <3>1. b = r
      BY <2>1 DEF scheduleRetry
    <3>2. /\ r \in PageRecs /\ SamePlace(f, r) /\ r.retry = TRUE
          /\ r.fetch = f.fetch /\ r.waits = f.waits /\ r.queued = f.queued
          /\ r.trailing = f.trailing /\ r.debounce = f.debounce
      BY <1>3, RetryFields
    <3> HIDE DEF r
    <3> QED
      BY <1>3, <3>1, <3>2 DEF SamePlace
  <2>2. CASE "boot" \notin p.waits
    BY <1>1, <2>2 DEF SamePlace
  <2> QED
    BY <2>1, <2>2
<1> HIDE DEF b
<1>5. PageOK(b)
  BY <1>1, <1>4, PlaceKept
<1>6. CASE {"debounce", "open", "resync"} \cap p.waits = {}
  <2>1. q = b
    BY <1>6
  <2>2. PageSettled(b)
    BY <1>4, <1>6 DEF PageLife, PageShows, PageSettled, SamePlace
  <2>3. b.started => PageAlive(b)
    BY <1>4, <1>6 DEF PageLife, PageWaits, PageAlive, SamePlace
  <2> QED
    BY <1>2, <1>4, <1>5, <2>1, <2>2, <2>3
<1>7. CASE {"debounce", "open", "resync"} \cap p.waits # {}
  <2>1. q = scheduleRetry(recordFailure(closeSource(b)))
    BY <1>7 DEF terminalFailure
  <2> QED
    BY <1>2, <1>5, <2>1, GiveUpKeeps
<1> QED
  BY <1>6, <1>7

-----------------------------------------------------------------------------
(* The page: its steps.                                                    *)

LEMMA SseToPage ==
  ASSUME StreamInv, StreamInv', PageInv, Onward, UNCHANGED <<viewer, page>>
  PROVE  PageInv'
<1> SUFFICES ASSUME viewer = "page"
             PROVE  PageLife(page)' /\ PageTold' /\ (page.source = "open" <=> conn' # "none")
  BY DEF PageInv
<1>1. PageLife(page) /\ PageTold /\ (page.source = "open" <=> conn # "none") /\ page \in PageRecs
  BY DEF PageInv, PageLife, PageOK
<1>2. PageLife(page)'
  <2>1. /\ page.epoch \in Nat /\ page.applied \in Nat /\ page.fetch.snap.epoch \in Nat /\ page.fetch.snap.seq \in Nat
        /\ runEpoch \in Nat /\ headSeq \in Nat /\ runEpoch' \in Nat /\ headSeq' \in Nat
        /\ NotBefore(runEpoch', headSeq', runEpoch, headSeq)
    BY <1>1 DEF PageRecs, Fetches, SnapRecs, StreamInv, StreamTyped, Onward
  <2>2. PageKnows(page)'
    BY <1>1, <2>1 DEF PageLife, PageOK, PageKnows, Possible, NotBefore
  <2>3. (page \in PageRecs)' /\ PageSource(page)' /\ PageWaits(page)' /\ PageShows(page)'
    BY <1>1 DEF PageLife, PageOK, PageSource, PageWaits, PageShows, PageSettled, PageAlive
  <2> QED
    BY <2>2, <2>3 DEF PageLife, PageOK
<1>3. PageTold'
  <2> SUFFICES ASSUME page.source = "open", Serving'
               PROVE  /\ page.url.epoch = runEpoch'
                      /\ \/ \E i \in 1..Len(wire') : wire'[i].kind = "changed" /\ wire'[i].seq >= ToldUpTo'
                         \/ page.applied >= ToldUpTo'
    BY DEF PageTold
  <2>1. /\ Serving /\ runEpoch' = runEpoch
        /\ Len(wire') >= Len(wire) /\ \A i \in 1..Len(wire) : wire'[i] = wire[i]
        /\ \/ ToldUpTo' = ToldUpTo
           \/ \E i \in 1..Len(wire') :
                wire'[i].kind = "changed" /\ wire'[i].seq >= ToldUpTo' /\ wire'[i].head >= ToldUpTo'
    BY DEF Onward
  <2>2. Len(wire) \in Nat /\ Len(wire') \in Nat
    BY DEF StreamInv, StreamTyped
  <2>3. \A i \in 1..Len(wire) : i \in 1..Len(wire')
    BY <2>1, <2>2
  <2>4. /\ page.url.epoch = runEpoch
        /\ \/ \E i \in 1..Len(wire) : wire[i].kind = "changed" /\ wire[i].seq >= ToldUpTo
           \/ page.applied >= ToldUpTo
    BY <1>1, <2>1 DEF PageTold
  <2>5. CASE ToldUpTo' = ToldUpTo
    BY <2>1, <2>3, <2>4, <2>5
  <2>6. CASE \E i \in 1..Len(wire') :
                wire'[i].kind = "changed" /\ wire'[i].seq >= ToldUpTo' /\ wire'[i].head >= ToldUpTo'
    BY <2>1, <2>4, <2>6
  <2> QED
    BY <2>1, <2>5, <2>6
<1> QED
  BY <1>1, <1>2, <1>3 DEF Onward

\* A page that keeps its source keeps what it was told there.
LEMMA ShowKeeps ==
  ASSUME StreamInv, viewer = "page", PageInv, NEW q, ShowPage(q), PageLife(q),
         q.source = "open" => /\ page.source = "open" /\ q.url = page.url
                              /\ page.url.epoch = runEpoch => q.applied >= page.applied
  PROVE  StreamInv' /\ PageInv'
<1>1. /\ PageLife(page) /\ PageTold /\ (page.source = "open" <=> conn # "none")
      /\ page' = q /\ UNCHANGED viewer
      /\ IF page.source # "none" /\ (q.source # page.source \/ q.url # page.url)
           THEN HangUp /\ KeepStore ELSE KeepSse
  BY DEF PageInv, ShowPage
<1>2. UNCHANGED <<runEpoch, headSeq>>
  BY <1>1 DEF KeepStore, KeepSse
<1>3. PageLife(page)'
  BY <1>1, <1>2 DEF PageLife, PageOK, PageKnows, PageSource, PageWaits, PageShows, PageSettled, PageAlive, Possible
<1>4. CASE page.source # "none" /\ (q.source # page.source \/ q.url # page.url)
  <2>1. StreamInv' /\ ~Serving' /\ conn' = "none" /\ q.source # "open"
    BY <1>1, <1>4, LostKeeps
  <2> QED
    BY <1>1, <1>3, <2>1 DEF PageInv, PageTold
<1>5. CASE ~(page.source # "none" /\ (q.source # page.source \/ q.url # page.url))
  <2>1. KeepSse
    BY <1>1, <1>5
  <2>2. StreamInv' /\ (Serving' <=> Serving) /\ ToldUpTo' = ToldUpTo /\ UNCHANGED <<wire, conn>>
    BY <2>1, StillKeeps DEF KeepSse
  <2>3. q.source = "open" <=> page.source = "open"
    BY <1>5
  <2>4. ToldUpTo \in Int /\ q.applied \in Nat /\ page.applied \in Nat
    BY <1>1 DEF ToldUpTo, StreamInv, StreamTyped, StreamRecs, PageLife, PageOK, PageRecs
  <2>5. PageTold'
    BY <1>1, <1>2, <2>2, <2>3, <2>4 DEF PageTold
  <2> QED
    BY <1>1, <1>3, <2>2, <2>3, <2>5 DEF PageInv
<1> QED
  BY <1>4, <1>5

\* A resynchronisation: the page forgets where it was.
LEMMA ResyncKeeps ==
  ASSUME NEW p, PageLife(p)
  PROVE  PageLife(runQueued(performResync(p))) /\ runQueued(performResync(p)).source = "none"
<1>1. p \in PageRecs
  BY DEF PageLife, PageOK
<1> DEFINE c == closeSource(p)
           f == IF p.fetch = NoFetch THEN NoFetch ELSE [state |-> "aborted", snap |-> Nothing]
           u == c.queued \cup {"resync"}
           q == [c EXCEPT !.retry = FALSE, !.debounce = FALSE, !.epoch = 0, !.applied = 0, !.known = FALSE,
                          !.fetch = f, !.queued = u]
<1>2. /\ c \in PageRecs /\ c.source = "none"
      /\ "open" \notin c.waits /\ "open" \notin c.queued
      /\ (c.waits = {} <=> p.waits = {}) /\ (c.queued = {} <=> p.queued = {})
      /\ c.trailing = p.trailing /\ c.started = p.started
  BY <1>1, CloseFields
<1>3. performResync(p) = q
  BY DEF performResync
<1> HIDE DEF c
<1>4. /\ f \in Fetches /\ f.state # "answered" /\ (f = NoFetch <=> p.fetch = NoFetch)
      /\ u \in SUBSET {"open", "resync", "nobody"} /\ "open" \notin u /\ "resync" \in u
  BY <1>2, FetchValues DEF Fetches, PageRecs, NoFetch
<1> HIDE DEF f, u
<1>5. /\ q \in PageRecs /\ q.source = "none" /\ q.epoch = 0 /\ q.known = FALSE /\ q.fetch = f /\ q.queued = u
      /\ q.waits = c.waits /\ q.trailing = c.trailing /\ q.started = c.started
  BY <1>2, <1>4 DEF PageRecs
<1> HIDE DEF q
<1>6. PageOK(q) /\ PageAlive(q) /\ PageSettled(q)
  BY <1>2, <1>4, <1>5 DEF PageOK, PageKnows, PageSource, PageAlive, PageSettled
<1>7. CASE p.fetch = NoFetch
  <2>1. q.fetch = NoFetch /\ q.waits = {} /\ ~q.trailing
    BY <1>2, <1>4, <1>5, <1>7 DEF PageLife, PageWaits
  <2>2. PageLife(runQueued(q)) /\ SamePlace(q, runQueued(q))
    BY <1>6, <2>1, RunQueuedKeeps
  <2> QED
    BY <1>3, <1>5, <2>2 DEF SamePlace
<1>8. CASE p.fetch # NoFetch
  <2>1. runQueued(q) = q
    BY <1>4, <1>5, <1>8 DEF runQueued
  <2>2. PageWaits(q)
    BY <1>2, <1>4, <1>5, <1>6, <1>8 DEF PageLife, PageWaits
  <2> QED
    BY <1>3, <1>5, <1>6, <2>1, <2>2 DEF PageLife, PageShows
<1> QED
  BY <1>7, <1>8

LEMMA AdoptKeeps ==
  ASSUME StreamInv, viewer = "page", PageInv, adoptPage
  PROVE  StreamInv' /\ PageInv'
<1> DEFINE snap == page.fetch.snap
           d == Failed(page)
           p == adoptSnapshot(page, snap)
           e == Continued(p, page.known /\ snap.instance # page.shown.instance,
                          page.known /\ snap.epoch # page.epoch)
<1>1. /\ page.fetch.state = "answered"
      /\ ShowPage(settleRefresh(IF behindCursor(page, snap) THEN d ELSE e))
  BY DEF adoptPage
<1>2. /\ PageLife(page) /\ PageOK(page) /\ page \in PageRecs /\ snap \in SnapRecs
      /\ snap.epoch \in Nat /\ snap.seq \in Nat /\ page.epoch \in Nat /\ page.applied \in Nat
      /\ runEpoch \in Nat /\ headSeq \in Nat /\ page.known \in BOOLEAN
  BY DEF PageInv, PageLife, PageOK, PageRecs, Fetches, SnapRecs, StreamInv, StreamTyped
<1>3. CASE behindCursor(page, snap)
  <2>1. /\ PageOK(d) /\ PageSettled(d) /\ (d.started => PageAlive(d))
        /\ d.source = "none" \/ SamePlace(page, d)
    BY <1>2, FailedKeeps
  <2> HIDE DEF d
  <2>2. PageLife(settleRefresh(d)) /\ SamePlace(d, settleRefresh(d))
    BY <2>1, SettleKeeps
  <2> QED
    BY <1>1, <1>2, <1>3, <2>1, <2>2, ShowKeeps DEF SamePlace
<1>4. CASE ~behindCursor(page, snap)
  <2>1. /\ p \in PageRecs /\ p.shown = snap /\ p.known = TRUE /\ p.epoch = snap.epoch /\ p.applied = snap.seq
        /\ p.source = page.source /\ p.url = page.url /\ p.lastId = page.lastId /\ p.fetch = page.fetch
        /\ p.waits = page.waits /\ p.queued = page.queued /\ p.trailing = page.trailing
        /\ p.debounce = page.debounce /\ p.retry = page.retry /\ p.polling = page.polling
        /\ p.started = page.started
    BY <1>2 DEF adoptSnapshot, PageRecs
  <2> HIDE DEF p
  <2>2. snap.epoch > 0 /\ Possible(snap) /\ snap.epoch >= page.epoch
    BY <1>1, <1>2 DEF PageOK, PageKnows
  <2>3. page.known /\ snap.epoch = page.epoch => snap.seq >= page.applied
    BY <1>2, <1>4 DEF behindCursor
  <2>4. PageKnows(p)
    BY <1>2, <2>1, <2>2 DEF PageKnows, Possible, NotBefore
  <2>5. PageSource(p)
    <3>1. /\ page.url \in Cursors /\ page.url.epoch \in Nat /\ page.url.after \in Nat /\ page.lastId \in Nat
      BY <1>2 DEF PageRecs, Cursors
    <3> QED
      BY <1>2, <2>1, <2>2, <2>3, <3>1 DEF PageOK, PageSource
  <2>6. PageOK(p) /\ p.known /\ p.shown.seq = p.applied
    BY <2>1, <2>4, <2>5 DEF PageOK
  <2>7. p.started => PageAlive(p) \/ {"boot", "resync", "debounce"} \cap p.waits # {}
    BY <1>2, <2>1 DEF PageLife, PageWaits, PageAlive
  <2>8. Derived(p, e) /\ PageSettled(e) /\ (e.started => PageAlive(e))
    <3> DEFINE inst == page.known /\ snap.instance # page.shown.instance
               sel == page.known /\ snap.epoch # page.epoch
    <3>1. inst \in BOOLEAN /\ sel \in BOOLEAN
      BY <1>2
    <3>2. e = Continued(p, inst, sel)
      OBVIOUS
    <3> HIDE DEF inst, sel
    <3> QED
      BY <2>6, <2>7, <3>1, <3>2, ContinuedKeeps
  <2> HIDE DEF e
  <2>9. PageLife(settleRefresh(e)) /\ SamePlace(e, settleRefresh(e))
    BY <2>8, SettleKeeps DEF Derived
  <2> DEFINE q == settleRefresh(e)
  <2>10. ASSUME q.source = "open"
         PROVE  /\ page.source = "open" /\ q.url = page.url
                /\ page.url.epoch = runEpoch => q.applied >= page.applied
    <3>1. page.source = "open" /\ q.url = page.url /\ q.applied = snap.seq
      BY <2>1, <2>8, <2>9, <2>10 DEF Derived, SamePlace
    <3>2. page.known /\ page.url.epoch <= page.epoch /\ page.epoch <= runEpoch /\ snap.epoch <= runEpoch
      BY <1>2, <2>2, <3>1 DEF PageOK, PageKnows, PageSource, Possible, NotBefore
    <3>3. page.url.epoch \in Nat
      BY <1>2 DEF PageRecs, Cursors
    <3> QED
      BY <1>2, <2>2, <2>3, <3>1, <3>2, <3>3
  <2>11. ShowPage(q)
    BY <1>1, <1>4
  <2> HIDE DEF q
  <2> QED
    BY <2>9, <2>10, <2>11, ShowKeeps DEF q
<1> QED
  BY <1>3, <1>4

LEMMA TimersKeep ==
  ASSUME StreamInv, viewer = "page", PageInv, pageTimers
  PROVE  StreamInv' /\ PageInv'
<1>1. /\ PageLife(page) /\ PageOK(page) /\ page \in PageRecs /\ PageWaits(page) /\ PageShows(page)
  BY DEF PageInv, PageLife, PageOK
<1>2. CASE page.debounce /\ ShowPage(requestRefresh([page EXCEPT !.debounce = FALSE], "debounce"))
  <2> DEFINE p == [page EXCEPT !.debounce = FALSE]
             q == requestRefresh(p, "debounce")
  <2>1. /\ p \in PageRecs /\ SamePlace(page, p) /\ p.fetch = page.fetch /\ p.waits = page.waits
        /\ p.queued = page.queued /\ p.trailing = page.trailing
    BY <1>1 DEF PageRecs, SamePlace
  <2> HIDE DEF p
  <2>2. PageOK(p)
    BY <1>1, <2>1, PlaceKept
  <2>3. PageLife(q) /\ SamePlace(p, q)
    <3>1. "debounce" \in Waiters \ {"open"}
      BY DEF Waiters
    <3>2. /\ (p.waits # {} <=> p.fetch # NoFetch)
          /\ (p.queued # {} \/ p.trailing => p.fetch # NoFetch)
      BY <1>1, <2>1 DEF PageWaits
    <3> QED
      BY <2>2, <3>1, <3>2, RequestKeeps
  <2>4. page.applied \in Nat /\ p.applied = page.applied
    BY <1>1, <2>1 DEF PageRecs, SamePlace
  <2>5. ShowPage(q)
    BY <1>2 DEF p
  <2> HIDE DEF q
  <2> QED
    BY <2>1, <2>3, <2>4, <2>5, ShowKeeps DEF SamePlace
<1>3. CASE /\ page.retry
           /\ ShowPage(IF page.known THEN openSource([page EXCEPT !.retry = FALSE])
                       ELSE requestRefresh([page EXCEPT !.retry = FALSE], "boot"))
  <2> DEFINE p == [page EXCEPT !.retry = FALSE]
  <2>1. /\ p \in PageRecs /\ SamePlace(page, p) /\ p.fetch = page.fetch /\ p.waits = page.waits
        /\ p.queued = page.queued /\ p.trailing = page.trailing /\ p.debounce = page.debounce
    BY <1>1, RetryFields
  <2>2. ShowPage(IF page.known THEN openSource(p) ELSE requestRefresh(p, "boot"))
    BY <1>3
  <2> HIDE DEF p
  <2>3. PageOK(p)
    BY <1>1, <2>1, PlaceKept
  <2>4. page.applied \in Nat /\ p.applied = page.applied /\ p.known = page.known /\ page.epoch \in Nat
    BY <1>1, <2>1 DEF PageRecs, SamePlace
  <2>5. CASE page.known
    <3> DEFINE q == openSource(p)
    <3>1. Derived(p, q) /\ PageAlive(q) /\ q.source # "none"
      BY <2>3, <2>4, <2>5, OpenDerives
    <3>2. /\ q.waits = p.waits /\ q.queued = p.queued /\ q.fetch = p.fetch /\ q.trailing = p.trailing
          /\ q.debounce = p.debounce
      BY <2>1, OpenFields
    <3> HIDE DEF q
    <3>3. PageWaits(q) /\ PageShows(q)
      BY <1>1, <2>1, <3>1, <3>2 DEF PageWaits, PageShows, PageSettled, Derived, SamePlace
    <3>4. PageLife(q) /\ q.applied = page.applied
      BY <2>4, <3>1, <3>3 DEF PageLife, Derived
    <3>5. ShowPage(q)
      BY <2>2, <2>5 DEF q
    <3> QED
      BY <2>1, <2>4, <3>1, <3>4, <3>5, ShowKeeps DEF SamePlace, Derived
  <2>6. CASE ~page.known
    <3> DEFINE q == requestRefresh(p, "boot")
    <3>3. PageLife(q) /\ SamePlace(p, q)
      <4>1. "boot" \in Waiters \ {"open"}
        BY DEF Waiters
      <4>2. /\ (p.waits # {} <=> p.fetch # NoFetch)
            /\ (p.queued # {} \/ p.trailing => p.fetch # NoFetch)
            /\ PageSettled(p) \/ {"debounce", "open"} \cap p.waits # {}
        BY <1>1, <2>1 DEF PageWaits, PageShows, PageSettled, SamePlace
      <4> QED
        BY <2>3, <4>1, <4>2, RequestKeeps
    <3>5. ShowPage(q)
      BY <2>2, <2>6
    <3> HIDE DEF q
    <3> QED
      BY <2>1, <2>4, <3>3, <3>5, ShowKeeps DEF SamePlace
  <2> QED
    BY <2>5, <2>6
<1>4. CASE page.polling /\ ShowPage(requestRefresh(page, "poll"))
  <2> DEFINE q == requestRefresh(page, "poll")
  <2>1. PageLife(q) /\ SamePlace(page, q)
    <3>1. "poll" \in Waiters \ {"open"}
      BY DEF Waiters
    <3>2. /\ (page.waits # {} <=> page.fetch # NoFetch)
          /\ (page.queued # {} \/ page.trailing => page.fetch # NoFetch)
          /\ PageSettled(page) \/ {"debounce", "open"} \cap page.waits # {}
          /\ (page.started => PageAlive(page))
      BY <1>1, <1>4 DEF PageWaits, PageShows, PageAlive
    <3> QED
      BY <1>1, <3>1, <3>2, RequestKeeps
  <2>2. page.applied \in Nat
    BY <1>1 DEF PageRecs
  <2> QED
    BY <1>4, <2>1, <2>2, ShowKeeps DEF SamePlace
<1> QED
  BY <1>2, <1>3, <1>4 DEF pageTimers

LEMMA ConnectKeeps ==
  ASSUME StreamInv, viewer = "page", PageInv, sourceConnects
  PROVE  StreamInv' /\ PageInv'
<1> DEFINE c == IF page.lastId > 0 THEN [epoch |-> page.url.epoch, after |-> page.lastId] ELSE page.url
           u == page.queued \cup {"open"}
           p == [page EXCEPT !.source = "open", !.queued = u]
           q == runQueued(p)
<1>1. page.source = "connecting" /\ openStream(c) /\ page' = q /\ UNCHANGED viewer
  BY DEF sourceConnects
<1>2. /\ PageLife(page) /\ PageOK(page) /\ page \in PageRecs /\ PageWaits(page) /\ conn = "none"
  BY <1>1 DEF PageInv, PageLife, PageOK
<1>3. /\ page.url \in Cursors /\ page.url.epoch \in Nat /\ page.url.after \in Nat /\ page.lastId \in Nat
      /\ page.epoch \in Nat /\ page.applied \in Nat /\ runEpoch \in Nat
  BY <1>2 DEF PageRecs, Cursors, StreamInv, StreamTyped
<1>4. /\ page.known /\ page.url.epoch > 0 /\ page.url.epoch <= page.epoch /\ page.epoch <= runEpoch
      /\ page.url.epoch = page.epoch => page.url.after <= page.applied /\ page.lastId <= page.applied
  BY <1>1, <1>2, <1>3 DEF PageOK, PageKnows, PageSource, NotBefore
<1>5. c \in Cursors /\ c # NoCursor /\ c.epoch = page.url.epoch /\ (c.after = page.lastId \/ c.after = page.url.after)
  BY <1>3, <1>4, FetchValues DEF Cursors
<1> HIDE DEF c
<1>6. /\ StreamInv' /\ conn' # "none" /\ KeepStore
      /\ Serving' => c.epoch = runEpoch /\ ToldUpTo' = c.after
  BY <1>1, <1>2, <1>5, OpenKeeps
<1>7. u \in SUBSET {"open", "resync", "nobody"}
  BY <1>2 DEF PageRecs
<1>8. /\ p \in PageRecs /\ p.source = "open" /\ p.queued = u
      /\ p.shown = page.shown /\ p.known = page.known /\ p.epoch = page.epoch /\ p.applied = page.applied
      /\ p.url = page.url /\ p.lastId = page.lastId /\ p.fetch = page.fetch /\ p.waits = page.waits
      /\ p.trailing = page.trailing /\ p.started = page.started
  BY <1>2, <1>7 DEF PageRecs
<1>9. "open" \in p.queued
  BY <1>8
<1> HIDE DEF u, p
<1>10. PageOK(p)
  BY <1>2, <1>4, <1>8 DEF PageOK, PageKnows, PageSource
<1>11. PageAlive(p) /\ PageSettled(p)
  BY <1>8, <1>9 DEF PageAlive, PageSettled
<1>12. PageLife(q) /\ SamePlace(p, q)
  <2>1. CASE page.fetch = NoFetch
    <3>1. p.fetch = NoFetch /\ p.waits = {} /\ ~p.trailing
      BY <1>2, <1>8, <2>1 DEF PageWaits
    <3> QED
      BY <1>10, <1>11, <3>1, RunQueuedKeeps
  <2>2. CASE page.fetch # NoFetch
    <3>1. q = p
      BY <1>8, <2>2 DEF runQueued
    <3>2. PageWaits(p)
      BY <1>2, <1>8, <1>11, <2>2 DEF PageWaits
    <3> QED
      BY <1>10, <1>11, <3>1, <3>2 DEF PageLife, PageShows, SamePlace
  <2> QED
    BY <2>1, <2>2
<1> HIDE DEF q
<1>13. UNCHANGED <<runEpoch, headSeq>>
  BY <1>6 DEF KeepStore
<1>14. PageLife(page)'
  BY <1>1, <1>12, <1>13 DEF PageLife, PageOK, PageKnows, PageSource, PageWaits, PageShows, PageSettled, PageAlive, Possible
<1>15. PageTold'
  <2>1. page'.url = page.url /\ page'.applied = page.applied
    BY <1>1, <1>8, <1>12 DEF SamePlace
  <2>2. Serving' => page.url.epoch = runEpoch /\ page.applied >= ToldUpTo'
    BY <1>3, <1>4, <1>5, <1>6
  <2> QED
    BY <1>13, <2>1, <2>2 DEF PageTold
<1>16. page'.source = "open"
  BY <1>1, <1>8, <1>12 DEF SamePlace
<1> QED
  BY <1>6, <1>14, <1>15, <1>16 DEF PageInv

\* A page whose source is not open after a step that ended its connection.
LEMMA PageGone ==
  ASSUME StreamInv, viewer = "page", HangUp, KeepStore, UNCHANGED viewer, NEW q, page' = q,
         PageLife(q), q.source # "open"
  PROVE  StreamInv' /\ PageInv'
<1>1. StreamInv' /\ ~Serving' /\ conn' = "none"
  BY LostKeeps
<1>2. PageLife(page)'
  BY DEF PageLife, PageOK, PageKnows, PageSource, PageWaits, PageShows, PageSettled, PageAlive, Possible, KeepStore
<1> QED
  BY <1>1, <1>2 DEF PageInv, PageTold

LEMMA ErrorsKeep ==
  ASSUME StreamInv, viewer = "page", PageInv, sourceErrors
  PROVE  StreamInv' /\ PageInv'
<1> DEFINE f == recordFailure(page)
           p == [f EXCEPT !.source = "connecting"]
           q == scheduleRetry(closeSource(f))
<1>1. page.source # "none" /\ (page' = p \/ page' = q) /\ HangUp /\ KeepStore /\ UNCHANGED viewer
  BY DEF sourceErrors
<1>2. PageLife(page) /\ PageOK(page) /\ page \in PageRecs /\ PageWaits(page)
  BY DEF PageInv, PageLife, PageOK
<1>3. /\ f \in PageRecs /\ SamePlace(page, f)
      /\ f.fetch = page.fetch /\ f.waits = page.waits /\ f.queued = page.queued
      /\ f.trailing = page.trailing /\ f.debounce = page.debounce /\ f.retry = page.retry
  BY <1>2, FailureFields
<1> HIDE DEF f
<1>4. PageOK(f)
  BY <1>2, <1>3, PlaceKept
<1>5. CASE page' = p
  <2>1. /\ p \in PageRecs /\ p.source = "connecting"
        /\ p.shown = f.shown /\ p.known = f.known /\ p.epoch = f.epoch /\ p.applied = f.applied
        /\ p.url = f.url /\ p.lastId = f.lastId /\ p.fetch = f.fetch /\ p.waits = f.waits
        /\ p.queued = f.queued /\ p.trailing = f.trailing /\ p.started = f.started
    BY <1>3 DEF PageRecs
  <2> HIDE DEF p
  <2>2. PageOK(p)
    BY <1>1, <1>3, <1>4, <2>1 DEF PageOK, PageKnows, PageSource, SamePlace
  <2>3. PageLife(p)
    BY <1>2, <1>3, <2>1, <2>2 DEF PageLife, PageWaits, PageShows, PageSettled, PageAlive
  <2> QED
    BY <1>1, <1>5, <2>1, <2>3, PageGone
<1>6. CASE page' = q
  <2> DEFINE c == closeSource(f)
  <2>1. /\ c \in PageRecs /\ c.source = "none"
        /\ "open" \notin c.waits /\ "open" \notin c.queued
        /\ (c.waits = {} <=> f.waits = {}) /\ (c.queued = {} <=> f.queued = {})
        /\ c.shown = f.shown /\ c.known = f.known /\ c.epoch = f.epoch /\ c.applied = f.applied
        /\ c.fetch = f.fetch /\ c.trailing = f.trailing
    BY <1>3, CloseFields
  <2>2. q = [c EXCEPT !.retry = TRUE]
    BY DEF scheduleRetry
  <2> HIDE DEF c, q
  <2>3. /\ q \in PageRecs /\ SamePlace(c, q) /\ q.retry = TRUE
        /\ q.fetch = c.fetch /\ q.waits = c.waits /\ q.queued = c.queued /\ q.trailing = c.trailing
    BY <2>1, <2>2, RetryFields
  <2>4. PageOK(q)
    BY <1>4, <2>1, <2>3 DEF PageOK, PageKnows, PageSource, SamePlace
  <2>5. PageLife(q) /\ q.source = "none"
    BY <1>2, <1>3, <2>1, <2>3, <2>4 DEF PageLife, PageWaits, PageShows, PageSettled, PageAlive, SamePlace
  <2> QED
    BY <1>1, <1>6, <2>5, PageGone
<1> QED
  BY <1>1, <1>5, <1>6

LEMMA FrameKeeps ==
  ASSUME StreamInv, viewer = "page", PageInv, frameArrives
  PROVE  StreamInv' /\ PageInv'
<1> DEFINE f == wire[1]
           q == onFrame(page, f)
<1>1. /\ page.source = "open" /\ wire # <<>> /\ page' = q /\ KeepStore /\ UNCHANGED viewer
      /\ IF page'.source = "open" THEN wire' = Tail(wire) /\ UNCHANGED <<stream, conn>> ELSE HangUp
  BY DEF frameArrives
<1>2. /\ PageLife(page) /\ PageOK(page) /\ page \in PageRecs /\ PageWaits(page) /\ PageTold /\ conn # "none"
      /\ page.applied \in Nat /\ page.epoch \in Nat /\ page.lastId \in Nat /\ page.url \in Cursors
      /\ page.url.epoch \in Nat /\ page.url.after \in Nat /\ page.shown.seq \in Nat
      /\ runEpoch \in Nat /\ headSeq \in Nat /\ wire \in Seq(FrameRecs) /\ Len(wire) \in Nat
  BY <1>1 DEF PageInv, PageLife, PageOK, PageRecs, Cursors, SnapRecs, StreamInv, StreamTyped
<1>3. f \in FrameRecs /\ f.seq \in Nat /\ 1 \in 1..Len(wire)
  <2>1. Len(wire) >= 1
    BY <1>1, <1>2
  <2>2. 1 \in 1..Len(wire)
    BY <1>2, <2>1
  <2>3. f \in FrameRecs
    BY <1>2, <2>2
  <2> QED
    BY <2>2, <2>3 DEF FrameRecs
<1>4. CASE PageLife(q) /\ q.source # "open"
  BY <1>1, <1>4, PageGone
<1>5. CASE /\ PageLife(q) /\ q.source = "open" /\ q.url = page.url /\ q.applied >= page.applied /\ q.applied \in Nat
           /\ f.kind = "changed" => q.applied >= f.seq
  <2>1. wire' = Tail(wire) /\ UNCHANGED <<stream, conn>>
    BY <1>1, <1>5
  <2>2. /\ StreamInv' /\ (Serving' <=> Serving) /\ ToldUpTo' = ToldUpTo
        /\ \A i \in 1..Len(wire) : i # 1 => i - 1 \in 1..Len(wire') /\ wire'[i - 1] = wire[i]
    BY <1>1, <2>1, ReadKeeps
  <2>3. UNCHANGED <<runEpoch, headSeq>>
    BY <1>1 DEF KeepStore
  <2>4. PageLife(page)'
    BY <1>1, <1>5, <2>3 DEF PageLife, PageOK, PageKnows, PageSource, PageWaits, PageShows, PageSettled, PageAlive, Possible
  <2>5. ToldUpTo \in Int
    BY DEF ToldUpTo, StreamInv, StreamTyped, StreamRecs
  <2>6. PageTold'
    <3> SUFFICES ASSUME Serving'
                 PROVE  /\ q.url.epoch = runEpoch
                        /\ \/ \E i \in 1..Len(wire') : wire'[i].kind = "changed" /\ wire'[i].seq >= ToldUpTo
                           \/ q.applied >= ToldUpTo
      BY <1>1, <2>2, <2>3 DEF PageTold
    <3>1. /\ page.url.epoch = runEpoch
          /\ \/ \E i \in 1..Len(wire) : wire[i].kind = "changed" /\ wire[i].seq >= ToldUpTo
             \/ page.applied >= ToldUpTo
      BY <1>1, <1>2, <2>2 DEF PageTold
    <3>2. CASE page.applied >= ToldUpTo
      BY <1>2, <1>5, <2>5, <3>1, <3>2
    <3>3. ASSUME NEW i \in 1..Len(wire), wire[i].kind = "changed", wire[i].seq >= ToldUpTo
          PROVE  \/ \E j \in 1..Len(wire') : wire'[j].kind = "changed" /\ wire'[j].seq >= ToldUpTo
                 \/ q.applied >= ToldUpTo
      <4>1. CASE i = 1
        BY <1>3, <1>5, <2>5, <3>3, <4>1
      <4>2. CASE i # 1
        BY <2>2, <3>3, <4>2
      <4> QED
        BY <4>1, <4>2
    <3> QED
      BY <1>5, <3>1, <3>2, <3>3
  <2> QED
    BY <1>1, <1>2, <1>5, <2>1, <2>2, <2>4, <2>6 DEF PageInv
<1>6. CASE f.kind = "changed" /\ f.epoch = page.epoch /\ f.seq > page.applied
  <2> DEFINE n == f.seq
             p == [page EXCEPT !.applied = n, !.lastId = n]
  <2>1. q = scheduleInvalidation(p)
    BY <1>6 DEF onFrame
  <2>2. n \in Nat /\ n > page.applied
    BY <1>3, <1>6
  <2>3. page.epoch = runEpoch /\ n <= headSeq
    <3>1. f.epoch = runEpoch /\ f.head <= headSeq /\ f.seq <= f.head /\ f.head \in Nat
      BY <1>3, <1>6 DEF StreamInv, FramesCurrent, ViewFrames, FrameRecs
    <3> QED
      BY <1>2, <1>3, <1>6, <3>1
  <2> HIDE DEF n
  <2>4. /\ p \in PageRecs /\ p.applied = n /\ p.lastId = n
        /\ p.shown = page.shown /\ p.known = page.known /\ p.epoch = page.epoch /\ p.source = "open"
        /\ p.url = page.url /\ p.fetch = page.fetch /\ p.waits = page.waits /\ p.queued = page.queued
        /\ p.trailing = page.trailing /\ p.started = page.started
    BY <1>1, <1>2, <2>2 DEF PageRecs
  <2> HIDE DEF p
  <2>5. PageOK(p)
    BY <1>1, <1>2, <2>2, <2>3, <2>4 DEF PageOK, PageKnows, PageSource, NotBefore
  <2>6. /\ q \in PageRecs /\ SamePlace(p, q)
        /\ q.fetch = p.fetch /\ q.waits = p.waits /\ q.queued = p.queued
        /\ \/ q.debounce /\ q.trailing = p.trailing
           \/ p.fetch # NoFetch /\ q.trailing
    BY <2>1, <2>4, InvalidateFields
  <2>7. PageOK(q)
    BY <2>5, <2>6, PlaceKept
  <2>8. PageWaits(q) /\ PageShows(q)
    BY <1>2, <2>4, <2>6 DEF PageWaits, PageShows, PageSettled, PageAlive, SamePlace
  <2>9. q.applied = n /\ q.source = "open" /\ q.url = page.url
    BY <2>4, <2>6 DEF SamePlace
  <2>10. n = f.seq
    BY DEF n
  <2> HIDE DEF q
  <2> QED
    BY <1>2, <1>5, <2>2, <2>7, <2>8, <2>9, <2>10 DEF PageLife
<1>7. CASE \/ f.kind \in {"slow", "closing"}
           \/ f.kind = "changed" /\ ~(f.epoch = page.epoch /\ f.seq > page.applied)
  <2>1. q = scheduleRetry(recordFailure(closeSource(page)))
    BY <1>7 DEF onFrame, terminalFailure
  <2>2. PageLife(q) /\ q.source = "none"
    BY <1>2, <2>1, GiveUpKeeps
  <2> QED
    BY <1>4, <2>2
<1>8. CASE f.kind = "resync"
  <2>1. q = runQueued(performResync(page))
    BY <1>8 DEF onFrame
  <2>2. PageLife(q) /\ q.source = "none"
    BY <1>2, <2>1, ResyncKeeps
  <2> QED
    BY <1>4, <2>2
<1>9. CASE f.kind \in {"ready", "beat"}
  <2>1. q = page
    BY <1>9 DEF onFrame
  <2> QED
    BY <1>1, <1>2, <1>5, <1>9, <2>1
<1> QED
  BY <1>3, <1>6, <1>7, <1>8, <1>9 DEF FrameRecs, ViewFrames

LEMMA BootKeeps ==
  ASSUME StreamInv, viewer = "page", PageInv, bootstrap
  PROVE  StreamInv' /\ PageInv'
<1> DEFINE p == [page EXCEPT !.started = TRUE]
           q == requestRefresh(p, "boot")
<1>1. ShowPage(q)
  BY DEF bootstrap
<1>2. PageLife(page) /\ PageOK(page) /\ page \in PageRecs /\ PageWaits(page) /\ PageShows(page)
  BY DEF PageInv, PageLife, PageOK
<1>3. /\ p \in PageRecs
      /\ p.shown = page.shown /\ p.known = page.known /\ p.epoch = page.epoch /\ p.applied = page.applied
      /\ p.source = page.source /\ p.url = page.url /\ p.lastId = page.lastId
      /\ p.fetch = page.fetch /\ p.waits = page.waits /\ p.queued = page.queued
      /\ p.trailing = page.trailing /\ p.debounce = page.debounce
  BY <1>2 DEF PageRecs, SamePlace
<1> HIDE DEF p
<1>4. PageOK(p)
  BY <1>2, <1>3 DEF PageOK, PageKnows, PageSource
<1>5. PageLife(q) /\ SamePlace(p, q)
  <2>1. "boot" \in Waiters \ {"open"}
    BY DEF Waiters
  <2>2. /\ (p.waits # {} <=> p.fetch # NoFetch)
        /\ (p.queued # {} \/ p.trailing => p.fetch # NoFetch)
        /\ PageSettled(p) \/ {"debounce", "open"} \cap p.waits # {}
    BY <1>2, <1>3 DEF PageWaits, PageShows, PageSettled
  <2> QED
    BY <1>4, <2>1, <2>2, RequestKeeps
<1>6. page.applied \in Nat
  BY <1>2 DEF PageRecs
<1> HIDE DEF q
<1> QED
  BY <1>1, <1>3, <1>5, <1>6, ShowKeeps DEF SamePlace

LEMMA AnswerKeeps ==
  ASSUME StreamInv, viewer = "page", PageInv, answerPage
  PROVE  StreamInv' /\ PageInv'
<1> DEFINE a == Answered(Snapshot)
           q == [page EXCEPT !.fetch = a]
<1>1. page.fetch = Asked /\ page' = q /\ KeepSse /\ UNCHANGED <<viewer, room>>
  BY DEF answerPage
<1>2. PageLife(page) /\ PageOK(page) /\ page \in PageRecs /\ PageWaits(page) /\ PageShows(page)
  BY DEF PageInv, PageLife, PageOK
<1>3. a \in Fetches /\ a.state = "answered" /\ a.snap = Snapshot /\ a # NoFetch
      /\ Possible(Snapshot) /\ Snapshot.epoch > 0 /\ Snapshot.epoch = runEpoch
  BY PossibleNow DEF Snapshot
<1> HIDE DEF a
<1>4. /\ q \in PageRecs /\ q.fetch = a
      /\ q.shown = page.shown /\ q.known = page.known /\ q.epoch = page.epoch /\ q.applied = page.applied
      /\ q.source = page.source /\ q.url = page.url /\ q.lastId = page.lastId
      /\ q.waits = page.waits /\ q.queued = page.queued /\ q.started = page.started
      /\ q.trailing = page.trailing /\ q.debounce = page.debounce
      /\ q.retry = page.retry /\ q.polling = page.polling
  BY <1>2, <1>3 DEF PageRecs
<1>5. ShowPage(q)
  BY <1>1, <1>4 DEF ShowPage
<1> HIDE DEF q
<1>6. page.epoch \in Nat /\ page.applied \in Nat /\ runEpoch \in Nat /\ headSeq \in Nat /\ page.known \in BOOLEAN
  BY <1>2 DEF PageRecs, StreamInv, StreamTyped
<1>7. page.epoch <= runEpoch
  BY <1>2, <1>6 DEF PageOK, PageKnows, NotBefore
<1>8. PageKnows(q)
  BY <1>2, <1>3, <1>4, <1>6, <1>7 DEF PageOK, PageKnows
<1>9. PageSource(q)
  BY <1>2, <1>4 DEF PageOK, PageSource
<1>10. PageWaits(q) /\ PageShows(q)
  BY <1>1, <1>2, <1>3, <1>4, FetchValues DEF PageWaits, PageShows, PageSettled, PageAlive
<1>11. PageLife(q)
  BY <1>4, <1>8, <1>9, <1>10 DEF PageLife, PageOK
<1> QED
  BY <1>4, <1>5, <1>6, <1>11, ShowKeeps

LEMMA FailKeeps ==
  ASSUME StreamInv, viewer = "page", PageInv, fetchFailed
  PROVE  StreamInv' /\ PageInv'
<1> DEFINE d == Failed(page)
           q == settleRefresh(d)
<1>1. ShowPage(q)
  BY DEF fetchFailed
<1>2. PageLife(page) /\ page.applied \in Nat
  BY DEF PageInv, PageLife, PageOK, PageRecs
<1>3. /\ PageOK(d) /\ PageSettled(d) /\ (d.started => PageAlive(d))
      /\ d.source = "none" \/ SamePlace(page, d)
  BY <1>2, FailedKeeps
<1> HIDE DEF d
<1>4. PageLife(q) /\ SamePlace(d, q)
  BY <1>3, SettleKeeps
<1> HIDE DEF q
<1> QED
  BY <1>1, <1>2, <1>3, <1>4, ShowKeeps DEF SamePlace

LEMMA PageKeeps ==
  ASSUME StreamInv, viewer = "page", PageInv, PageNext
  PROVE  StreamInv' /\ PageInv'
BY BootKeeps, AnswerKeeps, AdoptKeeps, FailKeeps, TimersKeep, ConnectKeeps, ErrorsKeep, FrameKeeps DEF PageNext

ViewsInv == viewer \in {"room", "page"} /\ StreamInv /\ RoomInv /\ PageInv

LEMMA ViewsStart == LiveInit => ViewsInv
<1> SUFFICES ASSUME LiveInit PROVE ViewsInv
  OBVIOUS
<1>1. StreamInv
  <2>1. NoStream \in StreamRecs /\ NoStream.at = "none"
    BY DEF NoStream, StreamRecs
  <2>2. Len(wire) = 0 /\ wire \in Seq(FrameRecs)
    BY DEF LiveInit, SseInit
  <2>3. stream = NoStream /\ instance = 1 /\ runEpoch = 1 /\ headSeq = 0 /\ service = "up" /\ conn = "none" /\ wire = <<>>
    BY DEF LiveInit, SseInit
  <2>4. StreamTyped /\ StreamConnected
    BY <2>1, <2>2, <2>3 DEF StreamTyped, StreamConnected
  <2>5. Bounded
    BY <2>1, <2>2, <2>3, SseBounds DEF Bounded, BacklogBounded
  <2>6. FramesCurrent
    BY <2>2 DEF FramesCurrent
  <2>7. Behind
    BY <2>1, <2>3 DEF Behind, Serving
  <2> QED
    BY <2>4, <2>5, <2>6, <2>7 DEF StreamInv
<1>2. ~Serving /\ conn = "none" /\ runEpoch = 1 /\ headSeq = 0
  BY DEF LiveInit, SseInit, NoStream, Serving
<1>3. RoomInv
  <2>1. room \in RoomRecs
    BY FetchValues DEF LiveInit, RoomRecs
  <2>2. RoomFollows(room)
    BY <1>1, PossibleNow, FetchValues DEF LiveInit, RoomFollows
  <2> QED
    BY <1>2, <2>1, <2>2 DEF LiveInit, RoomInv, RoomTold
<1>4. PageInv
  <2>1. page \in PageRecs
    BY FetchValues DEF LiveInit, PageRecs
  <2>2. PageKnows(page) /\ PageSource(page) /\ PageWaits(page) /\ PageShows(page)
    BY FetchValues DEF LiveInit, PageKnows, PageSource, PageWaits, PageShows, PageSettled, PageAlive
  <2> QED
    BY <1>2, <2>1, <2>2 DEF LiveInit, PageInv, PageLife, PageOK, PageTold
<1> QED
  BY <1>1, <1>3, <1>4 DEF LiveInit, ViewsInv

LEMMA ViewsStep == ViewsInv /\ [LiveNext]_liveVars => ViewsInv'
<1> SUFFICES ASSUME ViewsInv, [LiveNext]_liveVars PROVE ViewsInv'
  OBVIOUS
<1> USE DEF ViewsInv
<1>1. CASE SseNext /\ UNCHANGED <<viewer, room, page>>
  BY <1>1, SseKeeps, SseToRoom, SseToPage
<1>2. CASE RoomNext
  <2>1. viewer = "room" /\ viewer' = viewer
    BY <1>2 DEF RoomNext, roomStart, connectRoom, consumeSse, scheduleReconnect, answerRoom, adoptRoom,
                snapshotFailed, schedulePoll, roomStop
  <2> QED
    BY <1>2, <2>1, RoomKeeps DEF PageInv
<1>3. CASE PageNext
  <2>1. viewer = "page" /\ viewer' = viewer
    BY <1>3 DEF PageNext, bootstrap, answerPage, adoptPage, fetchFailed, pageTimers, sourceConnects,
                sourceErrors, frameArrives, ShowPage
  <2> QED
    BY <1>3, <2>1, PageKeeps DEF RoomInv
<1>4. CASE UNCHANGED liveVars
  <2>1. KeepSse /\ UNCHANGED <<viewer, room, page>>
    BY <1>4 DEF liveVars, KeepSse
  <2>2. StreamInv' /\ (Serving' <=> Serving) /\ ToldUpTo' = ToldUpTo /\ (Coming' <=> Coming)
    BY <2>1, StillKeeps
  <2>3. RoomInv'
    BY <2>1, <2>2 DEF RoomInv, RoomFollows, RoomTold, Heard, Possible, KeepSse
  <2>4. PageInv'
    BY <2>1, <2>2 DEF PageInv, PageTold, PageLife, PageOK, PageKnows, PageSource, PageWaits, PageShows,
                      PageSettled, PageAlive, Possible, KeepSse
  <2> QED
    BY <2>1, <2>2, <2>3, <2>4
<1> QED
  BY <1>1, <1>2, <1>3, <1>4 DEF LiveNext

\* A quiet stream has told everything, and nothing of it is on its way.
LEMMA QuietTold ==
  ASSUME StreamInv, StreamQuiet
  PROVE  Serving /\ ToldUpTo = headSeq /\ ~Coming /\ headSeq \in Nat /\ runEpoch \in Nat
         /\ wire = <<>>
<1>1. stream.at = "wait" /\ ~wakeScheduled /\ ~stream.dirty /\ wire = <<>>
  BY DEF StreamQuiet, StreamIsBehind, StreamInv, StreamTyped, StreamRecs, StreamConnected
<1>2. stream.upto = headSeq /\ stream.last = stream.upto
  BY <1>1 DEF StreamInv, Behind
<1>3. Len(wire) = 0
  BY <1>1
<1> QED
  BY <1>1, <1>2, <1>3 DEF Serving, ToldUpTo, Coming, StreamInv, StreamTyped

LEMMA ViewsMean == ViewsInv => ViewsCatchUp
<1> SUFFICES ASSUME ViewsInv PROVE ViewsCatchUp
  OBVIOUS
<1>1. RoomCatchesUp
  <2> SUFFICES ASSUME viewer = "room" PROVE RoomCatchesUp
    BY DEF RoomCatchesUp
  <2>1. room \in RoomRecs /\ RoomFollows(room) /\ RoomTold
    BY DEF ViewsInv, RoomInv
  <2>2. ASSUME room.mode = "ready", StreamQuiet, room.fetch = NoFetch
        PROVE  UpToDate(room.snap)
    <3>1. Serving /\ ToldUpTo = headSeq /\ ~Coming /\ headSeq \in Nat /\ runEpoch \in Nat /\ runEpoch # 0
      BY <2>2, QuietTold DEF ViewsInv, StreamInv, StreamTyped
    <3>2. room.pending = NoCursor /\ Possible(room.snap)
      BY <2>1, <2>2 DEF RoomFollows
    <3>3. room.snap.epoch \in Nat /\ room.snap.seq \in Nat
      BY <2>1 DEF RoomRecs, SnapRecs
    <3>4. room.pending.epoch # runEpoch
      BY <3>1, <3>2, FetchValues
    <3>5. room.snap.epoch = runEpoch /\ room.snap.seq >= headSeq
      BY <2>1, <3>1, <3>4 DEF RoomTold, Heard
    <3> QED
      BY <3>1, <3>2, <3>3, <3>5 DEF UpToDate, Possible, NotBefore
  <2> QED
    BY <2>1, <2>2 DEF RoomCatchesUp, RoomFollows
<1>2. PageCatchesUp
  <2> SUFFICES ASSUME viewer = "page", page.started PROVE PageCatchesUp
    BY DEF PageCatchesUp
  <2>1. /\ page \in PageRecs /\ PageKnows(page) /\ PageSource(page) /\ PageWaits(page) /\ PageShows(page) /\ PageTold
    BY DEF ViewsInv, PageInv, PageLife, PageOK
  <2>2. ASSUME page.source = "open", StreamQuiet, page.fetch = NoFetch, ~page.debounce
        PROVE  UpToDate(page.shown)
    <3>1. Serving /\ ToldUpTo = headSeq /\ headSeq \in Nat /\ runEpoch \in Nat /\ Len(wire) = 0
      BY <2>2, QuietTold DEF ViewsInv
    <3>2. /\ page.url.epoch \in Nat /\ page.epoch \in Nat /\ page.applied \in Nat
          /\ page.shown.epoch \in Nat /\ page.shown.seq \in Nat
      BY <2>1 DEF PageRecs, Cursors, SnapRecs
    <3>3. page.url.epoch = runEpoch /\ page.applied >= headSeq
      BY <2>1, <2>2, <3>1 DEF PageTold
    <3>4. page.known /\ page.url.epoch <= page.epoch
      BY <2>1, <2>2 DEF PageSource
    <3>5. page.shown.epoch = page.epoch /\ page.shown.seq <= page.applied
          /\ NotBefore(runEpoch, headSeq, page.epoch, page.applied)
      BY <2>1, <3>4 DEF PageKnows
    <3>6. page.epoch = runEpoch /\ page.applied = headSeq
      BY <3>1, <3>2, <3>3, <3>4, <3>5 DEF NotBefore
    <3>7. page.waits = {} /\ page.queued = {} /\ ~page.trailing
      BY <2>1, <2>2 DEF PageWaits
    <3>8. page.shown.seq >= page.applied
      BY <2>1, <2>2, <3>7 DEF PageShows, PageSettled
    <3> QED
      BY <3>1, <3>2, <3>5, <3>6, <3>8 DEF UpToDate
  <2>3. page.source # "none" \/ page.retry \/ page.debounce \/ page.polling \/ page.fetch # NoFetch
    BY <2>1 DEF PageWaits, PageAlive
  <2> QED
    BY <2>2, <2>3 DEF PageCatchesUp
<1>3. BacklogBounded
  BY DEF ViewsInv, StreamInv, Bounded
<1> QED
  BY <1>1, <1>2, <1>3 DEF ViewsCatchUp

\* No viewer of a run is left behind: whatever was in flight, failed or was
\* restarted, a control room that says "ready" and a dashboard page with
\* nothing to do show the head of the run once the stream of control/sse.ts
\* is quiet, what they show is otherwise fetched or polled for, and the socket
\* of a slow viewer holds a bounded number of frames.
THEOREM ViewsAlwaysCatchUp == LiveSpec => []ViewsCatchUp
<1>1. LiveInit => ViewsInv
  BY ViewsStart
<1>2. ViewsInv /\ [LiveNext]_liveVars => ViewsInv'
  BY ViewsStep
<1>3. ViewsInv => ViewsCatchUp
  BY ViewsMean
<1> QED
  BY <1>1, <1>2, <1>3, PTL DEF LiveSpec
=============================================================================
