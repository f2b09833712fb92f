------------------------------ MODULE LiveView ------------------------------
(* The two programs that watch a run through the event stream: the terminal  *)
(* control room (control-room/client.ts over control-service-transport.ts)   *)
(* and the dashboard page (createClient in dashboard/render.ts).  Both treat *)
(* a frame as a wake only: what they show is a snapshot they fetch, and the  *)
(* answer to a fetch may be overtaken by frames, failures and restarts.      *)
(* Delays are timers that may fire at any moment; the page's project has a   *)
(* run (the waiting poll of a project without one is left out).              *)
EXTENDS Sse, FiniteSets

CONSTANTS RefetchPasses,    \* maximumRefetchPasses
          FailureThreshold  \* FAILURE_FALLBACK_THRESHOLD

ASSUME LiveViewBounds == RefetchPasses \in Nat \ {0} /\ FailureThreshold \in Nat \ {0}

VARIABLES viewer,   \* "room" or "page": the program of this behaviour
          room,     \* the control room's client and its transport
          page      \* the page's client

liveVars == <<instance, runEpoch, headSeq, wakeScheduled, service, stream,
              conn, wire, viewer, room, page>>

Nothing == [epoch |-> 0, seq |-> 0, instance |-> 0]
Snapshot == [epoch |-> runEpoch, seq |-> headSeq, instance |-> instance]
NoFetch == [state |-> "none", snap |-> Nothing]
Asked == [state |-> "asked", snap |-> Nothing]
Answered(snap) == [state |-> "answered", snap |-> snap]

LiveInit ==
  /\ SseInit /\ viewer \in {"room", "page"}
  /\ room = [mode |-> "stopped", snap |-> Nothing, pending |-> NoCursor,
             fetch |-> NoFetch, pass |-> 0, poll |-> FALSE, link |-> "closed",
             available |-> FALSE]
  /\ page = [shown |-> Nothing, known |-> FALSE, epoch |-> 0, applied |-> 0,
             source |-> "none", url |-> NoCursor, lastId |-> 0,
             fetch |-> NoFetch, waits |-> {}, queued |-> {},
             trailing |-> FALSE, debounce |-> FALSE, retry |-> FALSE,
             polling |-> FALSE, failures |-> 0, started |-> FALSE]

\* The connection as the client loses it: what was written and not read is gone,
\* and the broker aborts the stream.
HangUp == conn' = "none" /\ wire' = <<>> /\ stream' = NoStream
KeepStore == UNCHANGED <<instance, runEpoch, headSeq, wakeScheduled, service>>
KeepSse == UNCHANGED <<instance, runEpoch, headSeq, wakeScheduled, service, stream, conn, wire>>

-----------------------------------------------------------------------------
(* The control room's client.                                                *)

performRefresh(r) == [r EXCEPT !.fetch = Asked, !.pass = 1, !.poll = FALSE]
refresh(r) == IF r.fetch = NoFetch THEN performRefresh(r) ELSE r

\* A frame names a sequence the next snapshot must reach.
notification(r, e, seq) ==
  IF r.mode = "stopped" THEN r
    ELSE refresh([r EXCEPT !.pending =
           [epoch |-> e, after |-> IF seq > r.pending.after THEN seq ELSE r.pending.after]])

\* connecting or unavailable: what is shown is marked, and polled for.  The mode
\* "failed" is degraded for want of a snapshot, "degraded" for want of the stream.
subscriptionLost(r) ==
  LET lost == [r EXCEPT !.available = FALSE] IN
    IF r.mode \in {"stopped", "loading"} THEN lost
      ELSE IF r.available \/ r.mode # "degraded" \/ r.fetch = NoFetch
             THEN [lost EXCEPT !.mode = "degraded", !.poll = TRUE]
             ELSE lost

missed(r, snap) == /\ r.pending # NoCursor
                   /\ r.pending.epoch # snap.epoch \/ r.pending.after > snap.seq

roomStart ==
  /\ viewer = "room" /\ room.mode = "stopped" /\ room.link = "closed"
  /\ room' = performRefresh([room EXCEPT !.mode = "loading", !.link = "opening"])
  /\ KeepSse /\ UNCHANGED <<viewer, page>>

\* connect: the request carries no cursor; a broker that is closing, full or
\* gone refuses it and the transport tries again later.
connectRoom ==
  /\ viewer = "room" /\ room.link \in {"opening", "retry"}
  /\ \/ /\ openStream(NoCursor)
        /\ room' = [IF room.link = "retry" THEN subscriptionLost(room) ELSE room
                     EXCEPT !.link = "up"]
     \/ KeepSse /\ room' = [subscriptionLost(room) EXCEPT !.link = "retry"]
  /\ UNCHANGED <<viewer, page>>

consumeSse ==
  /\ viewer = "room" /\ room.link = "up" /\ wire # <<>>
  /\ LET f == wire[1] IN
       room' = IF f.kind \in {"ready", "changed", "resync"}
                 THEN notification([room EXCEPT !.available = TRUE], f.epoch, f.head)
                 ELSE room
  /\ wire' = Tail(wire)
  /\ UNCHANGED <<stream, conn, viewer, page>> /\ KeepStore

\* The response ends or breaks, or never said a word in time.
scheduleReconnect ==
  /\ viewer = "room" /\ room.link = "up"
  /\ room' = [subscriptionLost(room) EXCEPT !.link = "retry"]
  /\ HangUp /\ KeepStore /\ UNCHANGED <<viewer, page>>

\* The service answers with the head it has when it reads the store.
answerRoom ==
  /\ viewer = "room" /\ room.fetch = Asked /\ service = "up"
  /\ room' = [room EXCEPT !.fetch = Answered(Snapshot)]
  /\ KeepSse /\ UNCHANGED <<viewer, page>>

\* The answer is shown unless a frame has named a later sequence meanwhile.
adoptRoom ==
  /\ viewer = "room" /\ room.fetch.state = "answered"
  /\ room' =
       IF ~missed(room, room.fetch.snap)
         THEN [room EXCEPT !.fetch = NoFetch, !.pending = NoCursor,
                           !.snap = room.fetch.snap,
                           !.poll = room.poll \/ ~room.available,
                           !.mode = IF room.available THEN "ready" ELSE "degraded"]
         ELSE IF room.pass < RefetchPasses
                THEN [room EXCEPT !.fetch = Asked, !.pass = room.pass + 1]
                ELSE [room EXCEPT !.fetch = NoFetch, !.mode = "failed", !.poll = TRUE]
  /\ KeepSse /\ UNCHANGED <<viewer, page>>

snapshotFailed ==
  /\ viewer = "room" /\ room.fetch # NoFetch
  /\ room' = [room EXCEPT !.fetch = NoFetch, !.mode = "failed", !.poll = TRUE]
  /\ KeepSse /\ UNCHANGED <<viewer, page>>

schedulePoll ==
  /\ viewer = "room" /\ room.poll
  /\ room' = refresh([room EXCEPT !.poll = FALSE])
  /\ KeepSse /\ UNCHANGED <<viewer, page>>

roomStop ==
  /\ viewer = "room" /\ room.mode # "stopped"
  /\ room' = [room EXCEPT !.mode = "stopped", !.fetch = NoFetch, !.poll = FALSE,
                          !.pending = NoCursor, !.link = "done"]
  /\ HangUp /\ KeepStore /\ UNCHANGED <<viewer, page>>

-----------------------------------------------------------------------------
(* The page's client.  `waits` are the continuations of the refresh that is   *)
(* in flight, `queued` those that ask for another one when it is settled: a   *)
(* source that opened, and a resynchronisation.                               *)

requestRefresh(p, who) ==
  IF p.fetch # NoFetch THEN [p EXCEPT !.trailing = TRUE, !.waits = @ \cup {who}]
    ELSE [p EXCEPT !.fetch = Asked, !.waits = {who}]

scheduleInvalidation(p) ==
  IF p.debounce THEN p
    ELSE IF p.fetch # NoFetch THEN [p EXCEPT !.trailing = TRUE]
           ELSE [p EXCEPT !.debounce = TRUE]

\* The handlers of a closed source do nothing; the refresh it asked for goes on.
Disowned(set) == {IF w = "open" THEN "nobody" ELSE w : w \in set}
closeSource(p) ==
  [p EXCEPT !.source = "none", !.url = NoCursor, !.lastId = 0,
            !.waits = Disowned(@), !.queued = Disowned(@)]

scheduleRetry(p) == [p EXCEPT !.retry = TRUE]
recordFailure(p) ==
  LET n == IF p.failures < FailureThreshold THEN p.failures + 1 ELSE p.failures IN
    [p EXCEPT !.failures = n, !.polling = @ \/ n >= FailureThreshold]
terminalFailure(p) == scheduleRetry(recordFailure(closeSource(p)))
restartAfterIdentityChange(p) == scheduleRetry(recordFailure(closeSource(p)))

openSource(p) ==
  IF p.source # "none" \/ p.epoch = 0 THEN p
    ELSE [p EXCEPT !.source = "connecting", !.retry = FALSE, !.lastId = 0,
                   !.url = [epoch |-> p.epoch, after |-> p.applied]]

\* The requests of a refresh in flight are aborted: it will fail.
performResync(p) ==
  [closeSource(p) EXCEPT
     !.retry = FALSE, !.debounce = FALSE, !.epoch = 0, !.applied = 0, !.known = FALSE,
     !.fetch = IF p.fetch = NoFetch THEN NoFetch ELSE [state |-> "aborted", snap |-> Nothing],
     !.queued = @ \cup {"resync"}]

\* What the queued ones do once nothing is in flight.
runQueued(p) ==
  LET q == p.queued
      idle == [p EXCEPT !.queued = {}, !.trailing = @ /\ "resync" \notin q]
      one == IF "resync" \in q THEN requestRefresh(idle, "resync") ELSE idle
      two == IF "open" \in q THEN requestRefresh(one, "open") ELSE one
  IN IF p.fetch # NoFetch THEN p
       ELSE IF "nobody" \in q THEN requestRefresh(two, "nobody") ELSE two

\* The end of a refresh: a frame that came meanwhile asks for another one.
settleRefresh(p) ==
  LET free == [p EXCEPT !.fetch = NoFetch, !.waits = {}, !.trailing = FALSE] IN
    runQueued(IF p.trailing THEN scheduleInvalidation(free) ELSE free)

\* adoptSnapshot: what the snapshot changes, or nothing if it is behind the cursor.
behindCursor(p, snap) == p.known /\ snap.epoch = p.epoch /\ snap.seq < p.applied
adoptSnapshot(p, snap) ==
  [p EXCEPT !.shown = snap, !.known = TRUE, !.epoch = snap.epoch, !.applied = snap.seq]

Reopened(p) == openSource([closeSource(p) EXCEPT !.retry = FALSE])
OpenIfIdle(p) == IF p.source = "none" /\ ~p.retry THEN openSource(p) ELSE p

\* The continuations of a refresh that succeeded; `inst` and `sel` say whether
\* the service or the run is another one than before.
Continued(p, inst, sel) ==
  LET Both(q, otherwise) == IF inst THEN restartAfterIdentityChange(q)
                              ELSE IF sel THEN Reopened(q) ELSE otherwise
      invalidated == IF {"debounce", "poll"} \cap p.waits = {} THEN p
                       ELSE Both(p, OpenIfIdle(p))
      opened == IF "open" \notin invalidated.waits THEN invalidated
                  ELSE Both(invalidated, [invalidated EXCEPT !.failures = 0, !.polling = FALSE])
  IN IF {"boot", "resync"} \cap p.waits = {} THEN opened ELSE openSource(opened)

\* Those of a refresh that failed; a poll only says so.
Failed(p) ==
  LET booted == IF "boot" \in p.waits THEN scheduleRetry(recordFailure(p)) ELSE p
  IN IF {"debounce", "open", "resync"} \cap p.waits = {} THEN booted
       ELSE terminalFailure(booted)

\* A page that has closed its source has closed the connection.
ShowPage(p) ==
  /\ page' = p
  /\ IF page.source # "none" /\ (p.source # page.source \/ p.url # page.url)
       THEN HangUp /\ KeepStore ELSE KeepSse
  /\ UNCHANGED <<viewer, room>>

bootstrap ==
  /\ viewer = "page" /\ ~page.started
  /\ ShowPage(requestRefresh([page EXCEPT !.started = TRUE], "boot"))

answerPage ==
  /\ viewer = "page" /\ page.fetch = Asked /\ service = "up"
  /\ page' = [page EXCEPT !.fetch = Answered(Snapshot)]
  /\ KeepSse /\ UNCHANGED <<viewer, room>>

adoptPage ==
  /\ viewer = "page" /\ page.fetch.state = "answered"
  /\ LET snap == page.fetch.snap IN
       ShowPage(settleRefresh(
         IF behindCursor(page, snap) THEN Failed(page)
           ELSE Continued(adoptSnapshot(page, snap),
                          page.known /\ snap.instance # page.shown.instance,
                          page.known /\ snap.epoch # page.epoch)))

fetchFailed ==
  /\ viewer = "page" /\ page.fetch.state \in {"asked", "aborted"}
  /\ ShowPage(settleRefresh(Failed(page)))

\* The debounce, retry and poll timers.
pageTimers ==
  /\ viewer = "page"
  /\ \/ /\ page.debounce
        /\ ShowPage(requestRefresh([page EXCEPT !.debounce = FALSE], "debounce"))
     \/ /\ page.retry
        /\ LET p == [page EXCEPT !.retry = FALSE] IN
             ShowPage(IF page.known THEN openSource(p) ELSE requestRefresh(p, "boot"))
     \/ /\ page.polling /\ "poll" \notin page.waits
        /\ ShowPage(requestRefresh(page, "poll"))

\* The browser connects, with the identifier of the last event it dispatched.
sourceConnects ==
  /\ viewer = "page" /\ page.source = "connecting"
  /\ openStream(IF page.lastId > 0 THEN [epoch |-> page.url.epoch, after |-> page.lastId]
                                   ELSE page.url)
  /\ page' = runQueued([page EXCEPT !.source = "open", !.queued = @ \cup {"open"}])
  /\ UNCHANGED <<viewer, room>>

\* onerror: the browser tries again by itself, or has given the source up.
sourceErrors ==
  /\ viewer = "page" /\ page.source # "none"
  /\ \E p \in {[recordFailure(page) EXCEPT !.source = "connecting"],
               scheduleRetry(closeSource(recordFailure(page)))} :
       page' = p
  /\ HangUp /\ KeepStore /\ UNCHANGED <<viewer, room>>

\* A notification of the page's run that is not newer than its cursor.
Overlaps(p, f) == f.kind = "changed" /\ f.epoch = p.epoch /\ f.seq <= p.applied

\* What a frame does to the page: a notification must be newer than the cursor.
onFrame(p, f) ==
  CASE f.kind = "changed" ->
         IF f.epoch = p.epoch /\ f.seq > p.applied
           THEN scheduleInvalidation([p EXCEPT !.applied = f.seq, !.lastId = f.seq])
           ELSE terminalFailure(p)
    [] f.kind = "resync" -> runQueued(performResync(p))
    [] f.kind \in {"slow", "closing"} -> scheduleRetry(recordFailure(closeSource(p)))
    [] OTHER -> p

frameArrives ==
  /\ viewer = "page" /\ page.source = "open" /\ wire # <<>>
  /\ page' = onFrame(page, wire[1])
  /\ IF page'.source = "open" THEN wire' = Tail(wire) /\ UNCHANGED <<stream, conn>> ELSE HangUp
  /\ KeepStore /\ UNCHANGED <<viewer, room>>

-----------------------------------------------------------------------------
RoomNext == \/ roomStart \/ connectRoom \/ consumeSse \/ scheduleReconnect
            \/ answerRoom \/ adoptRoom \/ snapshotFailed \/ schedulePoll \/ roomStop
PageNext == \/ bootstrap \/ answerPage \/ adoptPage \/ fetchFailed \/ pageTimers
            \/ sourceConnects \/ sourceErrors \/ frameArrives
LiveNext == (SseNext /\ UNCHANGED <<viewer, room, page>>) \/ RoomNext \/ PageNext

LiveSpec == LiveInit /\ [][LiveNext]_liveVars

-----------------------------------------------------------------------------
StreamQuiet == conn = "open" /\ wire = <<>> /\ ~StreamIsBehind
UpToDate(snap) == snap.epoch = runEpoch /\ snap.seq = headSeq

\* A control room that says "ready" shows the head of the run as soon as nothing
\* is on its way to it, and one that does not say so is fetching or will poll.
RoomCatchesUp ==
  viewer = "room" =>
    /\ room.mode = "ready" /\ StreamQuiet /\ room.fetch = NoFetch => UpToDate(room.snap)
    /\ room.mode \in {"degraded", "failed"} => room.poll \/ room.fetch # NoFetch

\* A page with a quiet stream and nothing to do shows the head of the run, and a
\* page never runs out of things that would bring it back to one.
PageCatchesUp ==
  viewer = "page" /\ page.started =>
    /\ page.source = "open" /\ StreamQuiet /\ page.fetch = NoFetch /\ ~page.debounce
         => UpToDate(page.shown)
    /\ page.source # "none" \/ page.retry \/ page.debounce \/ page.polling
         \/ page.fetch # NoFetch

\* Watching never misses: no wake is lost between the store's commit and what the
\* viewer shows, whatever is in flight, fails or restarts, and the socket of a
\* slow viewer holds a bounded number of frames.
ViewsCatchUp == RoomCatchesUp /\ PageCatchesUp /\ BacklogBounded

\* "Replay/live overlap is discarded by durable sequence": a page that an honest
\* service serves never has to reject what it is told as a protocol failure, be
\* it a notification its snapshot has overtaken or the other way round.
OverlapDiscarded ==
  viewer = "page" =>
    /\ ~(page.source = "open" /\ wire # <<>> /\ Overlaps(page, wire[1]))
    /\ ~(page.fetch.state = "answered" /\ behindCursor(page, page.fetch.snap))
=============================================================================
