--------------------------- MODULE AdapterSession ---------------------------
(* One turn of a provider that speaks a structured protocol: the framer that *)
(* cuts its standard output into records, the ACP or Pi codec that decides   *)
(* the verdict, and the driver that answers on its standard input            *)
(* (streaming.ts, adapters/codec.ts, adapters/acp-v1.ts, adapters/pi-rpc.ts). *)
(* A record is one symbol, its kind; a longer one is over the frame limit.    *)
EXTENDS Integers, Sequences, FiniteSets

CONSTANTS MaxFrameBytes,   \* largest record
          MaxTotalBytes,   \* largest stream
          MaxFrames,       \* most records of a stream
          MaxSent,         \* symbols the provider writes
          MaxPipe,         \* symbols waiting in the pipe
          MaxOddities      \* records the provider writes off its script

ASSUME AdapterBounds == /\ {MaxFrameBytes, MaxTotalBytes, MaxFrames} \subseteq Nat \ {0}
                        /\ {MaxSent, MaxPipe, MaxOddities} \subseteq Nat

VARIABLES
  grammar,   \* "acp" or "pi"
  sent,      \* every symbol the provider wrote: the transcript
  fed,       \* how many of them were pushed
  stdoutStream,    \* the StdoutStream: framer, codec and driver
  cancelAsked,
  oddities,
  verdict    \* "none", "success", "failure", "cancelled", "uncertain", "fatal"

adapterVars == <<grammar, sent, fed, stdoutStream, cancelAsked, oddities, verdict>>

acpResponseEnvelope == {"init", "session", "update", "permission", "end", "cancelled",
                        "error", "drift", "foreign", "garbage"}
responseEnvelope == {"init", "session", "accept", "reject", "update", "assistant",
                     "failing", "settled", "after", "abort", "garbage"}
Kinds == [acp |-> acpResponseEnvelope, pi |-> responseEnvelope]

(* written: the messages sent to the provider; closed: its input was ended.  *)
NewStream ==
  [held |-> <<>>, total |-> 0, frames |-> 0, fatal |-> FALSE,
   phase |-> "init", accepted |-> FALSE, last |-> "none", terminal |-> "none",
   uncertain |-> FALSE, aborted |-> FALSE, cancel |-> "idle",
   written |-> <<"init">>, closed |-> FALSE, writeFailed |-> FALSE]

AdapterInit ==
  /\ grammar \in {"acp", "pi"} /\ sent = <<>> /\ fed = 0 /\ stdoutStream = NewStream
  /\ cancelAsked = FALSE /\ oddities = 0 /\ verdict = "none"

-----------------------------------------------------------------------------
(* The driver.  A write after the input was closed spoils the transport.     *)
writeProtocol(s, m) ==
  IF s.closed THEN [s EXCEPT !.writeFailed = TRUE]
  ELSE [s EXCEPT !.written = Append(@, m)]

closeProtocol(s) == [s EXCEPT !.closed = TRUE]

(* The cancel message is written once, and not before the prompt.            *)
sendCancel(s) ==
  IF s.cancel = "pending" THEN writeProtocol([s EXCEPT !.cancel = "sent"], "cancel") ELSE s

sendPrompt(s) == sendCancel(writeProtocol([s EXCEPT !.phase = "turn"], "prompt"))

fail(s) == [s EXCEPT !.phase = "failed"]
markUncertain(s) == [s EXCEPT !.uncertain = TRUE]

-----------------------------------------------------------------------------
(* ACP: the answers to initialize and session/new, then one turn.            *)
PromptAnswers == [end |-> "success", cancelled |-> "cancelled", error |-> "failure",
                  drift |-> "none"]

(* An update of the session, or an event the codec only reports.             *)
handleSessionUpdate(s, k) == IF k = "update" THEN s ELSE markUncertain(s)
handlePermission(s) == writeProtocol(s, "permission")

(* Variant: a record after the answer to the prompt is ignored.              *)
acpTurn_Lax(s, k) ==
  IF s.uncertain \/ s.terminal # "none" THEN s
  ELSE IF k \in {"end", "cancelled", "error"}
    THEN [s EXCEPT !.terminal = PromptAnswers[k]]
  ELSE IF k = "permission" THEN handlePermission(s)
  ELSE handleSessionUpdate(s, k)

acpTurn(s, k) ==
  IF s.uncertain THEN s
  ELSE IF s.terminal # "none" THEN markUncertain(s)
  ELSE IF k \in {"end", "cancelled", "error"}
    THEN [s EXCEPT !.terminal = PromptAnswers[k]]
  ELSE IF k = "permission" THEN handlePermission(s)
  ELSE handleSessionUpdate(s, k)

AcpV1SessionCodec(s, k) ==
  CASE s.phase = "init" ->
         IF k = "init" THEN writeProtocol([s EXCEPT !.phase = "session"], "session")
         ELSE fail(s)
    [] s.phase = "session" -> IF k = "session" THEN sendPrompt(s) ELSE fail(s)
    [] s.phase = "turn" ->
         LET t == acpTurn(s, k)
         IN IF k \in DOMAIN PromptAnswers /\ ~t.closed THEN closeProtocol(t) ELSE t
    [] s.phase = "failed" -> s

-----------------------------------------------------------------------------
(* Pi: state, statistics, one turn, statistics again.                        *)
handleResponse(s, k) ==
  CASE k \in {"accept", "reject"} ->
         IF s.accepted THEN markUncertain(s)
         ELSE IF k = "accept" THEN [s EXCEPT !.accepted = TRUE]
         ELSE [s EXCEPT !.terminal = "failure"]
    [] k = "abort" -> IF s.aborted THEN markUncertain(s) ELSE [s EXCEPT !.aborted = TRUE]
    [] OTHER -> markUncertain(s)

assistantMessage == [assistant |-> "success", failing |-> "failure"]

handleEvent(s, k) ==
  CASE k = "update" -> s
    [] k \in DOMAIN assistantMessage -> [s EXCEPT !.last = assistantMessage[k]]
    [] k = "settled" -> IF s.last = "none" THEN markUncertain(s)
                        ELSE [s EXCEPT !.terminal = s.last]

piTurn(s, k) ==
  IF s.uncertain THEN s
  ELSE IF k \in {"accept", "reject", "abort", "init", "session", "after"}
    THEN handleResponse(s, k)
  ELSE IF k = "garbage" \/ ~s.accepted THEN markUncertain(s)
  ELSE handleEvent(s, k)

(* Statistics of the same session, none of them below the first ones.        *)
derivePiTurnUsage(k) == k = "after"

PiRpcSessionCodec(s, k) ==
  CASE s.phase = "init" ->
         IF k = "init" THEN writeProtocol([s EXCEPT !.phase = "session"], "session")
         ELSE fail(s)
    [] s.phase = "session" -> IF k = "session" THEN sendPrompt(s) ELSE fail(s)
    [] s.phase = "turn" ->
         LET t == piTurn(s, k) IN
           CASE k = "settled" -> writeProtocol([t EXCEPT !.phase = "after"], "after")
             [] k = "reject" -> closeProtocol([t EXCEPT !.phase = "complete"])
             [] OTHER -> t
    [] s.phase = "after" ->
         IF derivePiTurnUsage(k) THEN closeProtocol([s EXCEPT !.phase = "complete"]) ELSE fail(s)
    [] s.phase \in {"complete", "failed"} -> s

-----------------------------------------------------------------------------
(* The framer.  A limit that is passed is fatal and nothing more is read.    *)
Fatal(s) == [s EXCEPT !.fatal = TRUE, !.held = <<>>]

decodeJsonFrame(held) == IF Len(held) = 1 THEN held[1] ELSE "garbage"

emit(s) ==
  IF s.frames >= MaxFrames THEN Fatal(s)
  ELSE LET k == decodeJsonFrame(s.held)
           t == [s EXCEPT !.frames = @ + 1, !.held = <<>>]
       IN IF grammar = "acp" THEN AcpV1SessionCodec(t, k) ELSE PiRpcSessionCodec(t, k)

take(s, b) ==
  IF s.fatal THEN s ELSE IF b = "nl" THEN emit(s)
  ELSE IF Len(s.held) + 1 > MaxFrameBytes THEN Fatal(s)
  ELSE [s EXCEPT !.held = Append(@, b)]

push(s, chunk) ==
  LET remaining == MaxTotalBytes - s.total
      size == IF Len(chunk) < remaining THEN Len(chunk) ELSE remaining
      read[i \in 0 .. size] ==
        IF i = 0 THEN [s EXCEPT !.total = @ + size] ELSE take(read[i - 1], chunk[i])
  IN IF s.fatal THEN s ELSE IF size < Len(chunk) THEN Fatal(read[size]) ELSE read[size]

finishCodec(s) ==
  IF s.fatal THEN "fatal"
  ELSE IF s.phase \in {"turn", "complete"} /\ ~s.uncertain /\ s.terminal # "none"
    THEN s.terminal
  ELSE "uncertain"

-----------------------------------------------------------------------------
(* Actions.  The provider answers what it was asked, in order; an oddity is  *)
(* any record at any time, or half of one.                                   *)
Count(k) == Cardinality({i \in 1 .. Len(sent) : sent[i] = k})
Requested(m) == \E i \in 1 .. Len(stdoutStream.written) : stdoutStream.written[i] = m
Done(k) == Count(k) > 0

Script ==
  IF ~Done("init") THEN {"init"}
  ELSE IF ~Done("session") THEN {k \in {"session"} : Requested("session")}
  ELSE IF ~Requested("prompt") THEN {}
  ELSE IF grammar = "acp"
    THEN IF Done("end") \/ Done("cancelled") \/ Done("error") THEN {}
         ELSE {"update", "permission", "end", "error"}
                \cup {k \in {"cancelled"} : Requested("cancel")}
  ELSE IF Done("reject") \/ Done("after") THEN {}
  ELSE IF ~Done("accept") THEN {"accept", "reject"}
  ELSE {k \in {"abort"} : Requested("cancel") /\ ~Done("abort")}
         \cup (IF Done("settled") THEN {k \in {"after"} : Requested("after")}
               ELSE {"update", "assistant", "failing", "settled"})

provider ==
  /\ verdict = "none" /\ Len(sent) - fed < MaxPipe
  /\ \/ \E k \in Script : sent' = sent \o <<k, "nl">> /\ UNCHANGED oddities
     \/ /\ oddities < MaxOddities /\ oddities' = oddities + 1
        /\ \E k \in Kinds[grammar] : sent' \in {sent \o <<k>>, sent \o <<k, "nl">>}
     \/ /\ oddities < MaxOddities /\ oddities' = oddities + 1
        /\ sent' = Append(sent, "nl")
  /\ Len(sent') <= MaxSent
  /\ UNCHANGED <<grammar, fed, stdoutStream, cancelAsked, verdict>>

onData ==
  /\ verdict = "none" /\ fed < Len(sent)
  /\ \E upTo \in fed + 1 .. Len(sent) :
       /\ stdoutStream' = push(stdoutStream, SubSeq(sent, fed + 1, upTo))
       /\ fed' = upTo
  /\ UNCHANGED <<grammar, sent, cancelAsked, oddities, verdict>>

(* The poll that notices a cancelled run.                                    *)
requestCancel ==
  /\ verdict = "none" /\ ~cancelAsked /\ cancelAsked' = TRUE
  /\ LET s == [stdoutStream EXCEPT !.cancel = "pending"]
     IN stdoutStream' = IF Requested("prompt") THEN sendCancel(s) ELSE s
  /\ UNCHANGED <<grammar, sent, fed, oddities, verdict>>

(* The provider's output ended: the last record may lack its newline.        *)
finish ==
  /\ verdict = "none" /\ fed = Len(sent)
  /\ LET s == IF stdoutStream.held # <<>> THEN emit(stdoutStream) ELSE stdoutStream
     IN stdoutStream' = s /\ verdict' = finishCodec(s)
  /\ UNCHANGED <<grammar, sent, fed, cancelAsked, oddities>>

AdapterDone == verdict # "none" /\ UNCHANGED adapterVars

AdapterNext == provider \/ onData \/ requestCancel \/ finish \/ AdapterDone

AdapterSpec == AdapterInit /\ [][AdapterNext]_adapterVars

-----------------------------------------------------------------------------
(* The records of a whole transcript, cut at its newlines.                   *)
Records(bytes) ==
  LET last == IF bytes # <<>> /\ bytes[Len(bytes)] # "nl" THEN {Len(bytes) + 1} ELSE {}
      cuts == {i \in 1 .. Len(bytes) : bytes[i] = "nl"} \cup last
      cut(n) == CHOOSE i \in cuts \cup {0} : Cardinality({j \in cuts : j <= i}) = n
  IN [n \in 1 .. Cardinality(cuts) |-> SubSeq(bytes, cut(n - 1) + 1, cut(n) - 1)]

Within(bytes) ==
  /\ Len(bytes) <= MaxTotalBytes /\ Len(Records(bytes)) <= MaxFrames
  /\ \A n \in 1 .. Len(Records(bytes)) : Len(Records(bytes)[n]) <= MaxFrameBytes

SuccessfulAcp(ks) ==
  /\ Len(ks) >= 3 /\ ks[1] = "init" /\ ks[2] = "session" /\ ks[Len(ks)] = "end"
  /\ \A i \in 3 .. Len(ks) - 1 : ks[i] \in {"update", "permission"}

SuccessfulPi(ks) ==
  \E a, m, s \in 3 .. Len(ks) :
    /\ a < m /\ m < s /\ s < Len(ks) /\ ks[1] = "init" /\ ks[2] = "session"
    /\ ks[a] = "accept" /\ ks[m] = "assistant" /\ ks[s] = "settled" /\ ks[s + 1] = "after"
    /\ \A i \in 3 .. a - 1 : ks[i] = "abort"
    /\ \A i \in a + 1 .. s - 1 : ks[i] \in {"update", "assistant", "failing", "abort"}
    /\ \A i \in m + 1 .. s - 1 : ks[i] # "failing"
    /\ Cardinality({i \in 3 .. s - 1 : ks[i] = "abort"}) <= 1

(* A turn succeeds exactly when the transcript as a whole, cut at its        *)
(* newlines and not at the chunks it arrived in, is a complete conversation  *)
(* within the limits; then the prompt and at most one cancel were written,   *)
(* the cancel after it (StdoutStream.finish, replayAdapter).                 *)
VerdictIsTheTranscript ==
  verdict # "none" =>
    LET ks == [n \in 1 .. Len(Records(sent)) |-> decodeJsonFrame(Records(sent)[n])]
        Sent(m) == {i \in 1 .. Len(stdoutStream.written) : stdoutStream.written[i] = m}
    IN /\ verdict = "success" <=>
            /\ Within(sent)
            /\ IF grammar = "acp" THEN SuccessfulAcp(ks) ELSE SuccessfulPi(ks)
       /\ verdict = "success" => Cardinality(Sent("prompt")) = 1
       /\ Cardinality(Sent("cancel")) <= 1
       /\ \A i \in Sent("cancel") : \E j \in Sent("prompt") : j < i

=============================================================================
