-------------------------------- MODULE Sse --------------------------------
(* The run-scoped event stream of the control service (control/sse.ts, the   *)
(* "events" route of control/server.ts and the wake of control/store.ts).    *)
(* The store wakes its subscribers after a commit; a stream rereads the      *)
(* durable range behind its cursor and writes one notification per event.    *)
(* One connection is modelled: the broker shares nothing between its streams *)
(* but their number, so other viewers only make an attempt find it full.     *)
EXTENDS Integers, Sequences

CONSTANTS MaxSeq,       \* events in one epoch of the store
          MaxInstances, \* service processes, one after the other
          MaxReplay,    \* limits.maxReplayEvents: events of one batch
          HighWater     \* frames the socket takes before write() answers false

ASSUME SseBounds == /\ MaxSeq \in Nat /\ MaxInstances \in Nat \ {0}
                    /\ MaxReplay \in Nat \ {0} /\ HighWater \in Nat \ {0}

VARIABLES
  instance,       \* the service process
  runEpoch,       \* the run the store belongs to
  headSeq,        \* the last committed event
  wakeScheduled,  \* a wake is queued and not yet delivered
  service,        \* "up", "closing" or "down"
  stream,         \* the broker's StreamState: [at, last, upto, dirty, next]
  conn,           \* "none", "open" or "ended": the response that carries it
  wire            \* frames written and not yet read by the client

sseVars == <<instance, runEpoch, headSeq, wakeScheduled, service, stream, conn, wire>>

NoStream == [at |-> "none", last |-> 0, upto |-> 0, dirty |-> FALSE, next |-> "end"]
NoCursor == [epoch |-> 0, after |-> 0]
Frame(kind, e, seq, head) == [kind |-> kind, epoch |-> e, seq |-> seq, head |-> head]
slowClientFrame == Frame("slow", 0, 0, 0)
closingFrame == Frame("closing", 0, 0, 0)
heartbeatFrame == Frame("beat", 0, 0, 0)

SseInit ==
  /\ instance = 1 /\ runEpoch = 1 /\ headSeq = 0 /\ wakeScheduled = FALSE
  /\ service = "up" /\ stream = NoStream /\ conn = "none" /\ wire = <<>>

-----------------------------------------------------------------------------
(* The durable store.                                                         *)

append ==
  /\ headSeq < MaxSeq
  /\ headSeq' = headSeq + 1 /\ wakeScheduled' = TRUE
  /\ UNCHANGED <<instance, runEpoch, service, stream, conn, wire>>

\* The queued wake: every subscribed stream is marked.
notifyAfterCommit ==
  /\ wakeScheduled /\ wakeScheduled' = FALSE
  /\ stream' = [stream EXCEPT !.dirty = stream.at # "none"]
  /\ UNCHANGED <<instance, runEpoch, headSeq, service, conn, wire>>

-----------------------------------------------------------------------------
(* Writing a frame: `next` is what the stream does once the socket took it.   *)

proceed(s, next) ==
  CASE next = "loop" -> [s EXCEPT !.at = "loop"]
    [] next = "sent" -> [s EXCEPT !.at = "send", !.last = s.last + 1]
    [] next = "end" -> NoStream

writeFrame(s, frame, next) ==
  /\ wire' = Append(wire, frame)
  /\ stream' = IF Len(wire) + 1 >= HighWater
                 THEN [s EXCEPT !.at = "drain", !.next = next]
                 ELSE proceed(s, next)
  /\ conn' = IF stream'.at = "none" THEN "ended" ELSE "open"

\* resync: the client is told to take a snapshot, and the stream ends.
resync(s) == writeFrame(s, Frame("resync", runEpoch, headSeq, headSeq), "end")

finishStream == stream' = NoStream /\ conn' = "ended"

-----------------------------------------------------------------------------
(* The "events" route and runStream.  Everything up to the first await is one *)
(* step: the subscription, the head, the comparison with the cursor and the   *)
(* first frame.                                                               *)

Subscribed(after) == [at |-> "loop", last |-> after, upto |-> after,
                      dirty |-> TRUE, next |-> "loop"]

runStream(cursor) ==
  LET s == Subscribed(IF cursor = NoCursor THEN headSeq ELSE cursor.after) IN
    IF cursor = NoCursor
      THEN writeFrame(s, Frame("ready", runEpoch, headSeq, headSeq), "loop")
      ELSE IF cursor.epoch # runEpoch \/ cursor.after > headSeq
             THEN resync(s)
             ELSE stream' = s /\ conn' = "open" /\ UNCHANGED wire

\* The stream of a dropped connection is aborted: it writes nothing that is read.
openStream(cursor) ==
  /\ service = "up"
  /\ runStream(cursor)
  /\ UNCHANGED <<instance, runEpoch, headSeq, wakeScheduled, service>>

\* The top of the loop: the mark is cleared before the range is read.
preflight ==
  /\ stream.at = "loop" /\ service = "up"
  /\ LET s == [stream EXCEPT !.dirty = FALSE] IN
       IF headSeq - s.last > MaxReplay
         THEN resync(s)
         ELSE /\ stream' = [s EXCEPT !.at = "send", !.upto = headSeq]
              /\ UNCHANGED <<conn, wire>>
  /\ UNCHANGED <<instance, runEpoch, headSeq, wakeScheduled, service>>

\* A range that cannot be read ends the stream without a frame.
sourceError ==
  /\ stream.at = "loop" /\ service = "up"
  /\ finishStream
  /\ UNCHANGED <<instance, runEpoch, headSeq, wakeScheduled, service, wire>>

sendNotification ==
  /\ stream.at = "send" /\ service = "up" /\ stream.last < stream.upto
  /\ writeFrame(stream, Frame("changed", runEpoch, stream.last + 1, stream.upto), "sent")
  /\ UNCHANGED <<instance, runEpoch, headSeq, wakeScheduled, service>>

\* Mutant: the wake that came during the writes is taken for the one served.
settleBatch_Forgets ==
  /\ stream.at = "send" /\ service = "up" /\ stream.last = stream.upto
  /\ stream' = [stream EXCEPT !.at = "wait", !.dirty = FALSE]
  /\ UNCHANGED <<instance, runEpoch, headSeq, wakeScheduled, service, conn, wire>>

\* The batch is out: read again if a wake came meanwhile, else wait for one.
settleBatch ==
  /\ stream.at = "send" /\ service = "up" /\ stream.last = stream.upto
  /\ stream' = [stream EXCEPT !.at = IF stream.dirty THEN "loop" ELSE "wait"]
  /\ UNCHANGED <<instance, runEpoch, headSeq, wakeScheduled, service, conn, wire>>

waitForActivity ==
  /\ stream.at = "wait" /\ service = "up"
  /\ \/ stream.dirty /\ stream' = [stream EXCEPT !.at = "loop"] /\ UNCHANGED <<conn, wire>>
     \/ ~stream.dirty /\ writeFrame(stream, heartbeatFrame, "loop")
  /\ UNCHANGED <<instance, runEpoch, headSeq, wakeScheduled, service>>

waitForDrain ==
  /\ stream.at = "drain" /\ service = "up"
  /\ \/ /\ wire = <<>>
        /\ stream' = proceed(stream, stream.next)
        /\ conn' = IF stream.next = "end" THEN "ended" ELSE "open"
        /\ UNCHANGED wire
     \/ wire # <<>> /\ wire' = Append(wire, slowClientFrame) /\ finishStream
  /\ UNCHANGED <<instance, runEpoch, headSeq, wakeScheduled, service>>

-----------------------------------------------------------------------------
(* The service goes down, and another one comes up: it may find a new run     *)
(* under the old name.                                                        *)

shutdownBroker ==
  /\ service = "up" /\ service' = "closing"
  /\ UNCHANGED <<instance, runEpoch, headSeq, wakeScheduled, stream, conn, wire>>

handleTermination ==
  /\ service = "closing" /\ stream.at # "none"
  /\ wire' = Append(wire, closingFrame) /\ finishStream
  /\ UNCHANGED <<instance, runEpoch, headSeq, wakeScheduled, service>>

\* The listener is closed once the streams are done; a client that has not read
\* the rest finds its connection gone.
serviceGone ==
  /\ service = "closing" /\ stream.at = "none" /\ service' = "down"
  /\ wire' = <<>> /\ conn' = IF conn = "none" THEN "none" ELSE "ended"
  /\ UNCHANGED <<instance, runEpoch, headSeq, wakeScheduled, stream>>

serviceBack ==
  /\ service = "down" /\ instance < MaxInstances
  /\ service' = "up" /\ instance' = instance + 1 /\ wakeScheduled' = FALSE
  /\ \/ UNCHANGED <<runEpoch, headSeq>>
     \/ runEpoch' = runEpoch + 1 /\ headSeq' = 0
  /\ UNCHANGED <<stream, conn, wire>>

SseNext == \/ append \/ notifyAfterCommit \/ preflight \/ sourceError
           \/ sendNotification \/ settleBatch \/ waitForActivity \/ waitForDrain
           \/ shutdownBroker \/ handleTermination \/ serviceGone \/ serviceBack

SseSpec == SseInit /\ [][SseNext]_sseVars

\* Work the broker still has to do for the connection it serves.
StreamIsBehind == wakeScheduled \/ stream.dirty \/ stream.at \in {"loop", "send", "drain"}

\* What the socket holds is bounded: a full socket stops the stream, which adds
\* at most the frame that says why it ends.
BacklogBounded == Len(wire) <= HighWater + 1
=============================================================================
