----------------------------- MODULE Normalizer -----------------------------
(* The verdict on a turn of a provider without a protocol driver: the        *)
(* streaming normalizers of normalize.ts read the records of its output once *)
(* and decide success, failure and whether the paid fallback may be called.  *)
(* A record is its kind.                                                     *)
EXTENDS Integers, Sequences

CONSTANTS MaxLines   \* records of a turn

ASSUME NormalizerBounds == MaxLines \in Nat

VARIABLES
  dialect,   \* "claude", "codex" or "raw"
  lines,     \* the records so far
  norm,      \* the normalizer
  turnEnd    \* NoTurnEnd, or [success, terminal, limit]: limit is the record that
             \* proves the rejection, 0 for none
normVars == <<dialect, lines, norm, turnEnd>>

(* init: system/init; badInit: one without a session; foreign: a record of   *)
(* another session; allowed, rejected, badRate: rate_limit_event; success,   *)
(* failing, odd: result, odd being no documented one; user: telemetry.       *)
asRecord ==
  [claude |-> {"init", "badInit", "assistant", "foreign", "user", "allowed", "rejected",
               "badRate", "success", "failing", "odd", "garbage"},
   codex |-> {"thread", "turn", "item", "message", "badItem", "completed", "failed",
              "error", "garbage"},
   raw |-> {"text", "object", "errorObject", "badObject"}]

isClaudeAuthoritative(k) ==
  k \in {"assistant", "foreign", "allowed", "rejected", "badRate", "success", "failing", "odd"}

NewNormalizer == [drift |-> FALSE, inits |-> 0, bound |-> FALSE, early |-> FALSE,
                  terminal |-> "none", rate |-> "none", rateFrame |-> 0, message |-> FALSE,
                  phase |-> "init"]
NoTurnEnd == [success |-> FALSE, terminal |-> FALSE, limit |-> -1]

NormalizerInit == /\ dialect \in {"claude", "codex", "raw"} /\ lines = <<>>
                  /\ norm = NewNormalizer /\ turnEnd = NoTurnEnd

Drift(n) == [n EXCEPT !.drift = TRUE]

(* A rate record that does not validate is drift; a valid one replaces the   *)
(* snapshot and the frame that evidences it.                                 *)
(* Variant: an allowed snapshot does not clear an earlier rejection.         *)
rateLimitEvent_Sticky(n, k, i) ==
  IF k = "badRate" THEN Drift(n)
  ELSE IF k = "allowed" /\ n.rate = "rejected" THEN n
  ELSE [n EXCEPT !.rate = k, !.rateFrame = i]

rateLimitEvent(n, k, i) ==
  IF k = "badRate" THEN Drift(n) ELSE [n EXCEPT !.rate = k, !.rateFrame = i]

StreamingClaudeNormalizer(n, k, i) ==
  CASE k = "garbage" -> Drift(n)
    [] k = "init" -> [n EXCEPT !.inits = @ + 1, !.bound = TRUE]
    [] k = "badInit" -> Drift(n)
    [] ~n.bound /\ k \notin {"garbage", "init", "badInit"} ->
         [n EXCEPT !.early = @ \/ isClaudeAuthoritative(k)]
    [] n.bound /\ n.terminal # "none" /\ k \notin {"garbage", "init", "badInit"} -> Drift(n)
    [] n.bound /\ n.terminal = "none" /\ k = "foreign" -> Drift(n)
    [] n.bound /\ n.terminal = "none" /\ k \in {"success", "failing", "odd"} ->
         [n EXCEPT !.terminal = k]
    [] n.bound /\ n.terminal = "none" /\ k \in {"allowed", "rejected", "badRate"} ->
         rateLimitEvent(n, k, i)
    [] n.bound /\ n.terminal = "none" /\ k \in {"assistant", "user"} -> n

finishClaude(n) ==
  LET clean == ~n.drift /\ n.inits = 1 /\ ~n.early
      failure == clean /\ n.terminal = "failing"
  IN [success |-> clean /\ n.terminal = "success",
      terminal |-> clean /\ n.terminal \in {"success", "failing"},
      limit |-> IF failure /\ n.rate = "rejected" THEN n.rateFrame ELSE 0]

validCodexItem(k) == k \in {"item", "message"}

StreamingCodexNormalizer(n, k) ==
  CASE k = "garbage" \/ n.phase = "done" -> Drift(n)
    [] n.phase # "done" /\ k = "error" -> [n EXCEPT !.phase = "done", !.terminal = "failed"]
    [] n.phase # "done" /\ k = "thread" ->
         IF n.phase = "init" THEN [n EXCEPT !.phase = "thread"] ELSE Drift(n)
    [] n.phase # "done" /\ k = "turn" ->
         IF n.phase = "thread" THEN [n EXCEPT !.phase = "turn"] ELSE Drift(n)
    [] n.phase # "done" /\ k \in {"item", "message", "badItem"} ->
         IF n.phase # "turn" \/ ~validCodexItem(k) THEN Drift(n)
         ELSE [n EXCEPT !.message = @ \/ k = "message"]
    [] n.phase # "done" /\ k \in {"completed", "failed"} ->
         [n EXCEPT !.drift = @ \/ n.phase # "turn", !.phase = "done", !.terminal = k]

finishCodex(n) ==
  LET clean == ~n.drift /\ n.phase = "done"
  IN [success |-> clean /\ n.terminal = "completed" /\ n.message,
      terminal |-> clean, limit |-> 0]

(* Only the last record of a raw dialect counts.                             *)
StreamingRawNormalizer(n, k) == [n EXCEPT !.terminal = k]

normalizeRaw(n) ==
  [success |-> n.terminal \in {"text", "object"},
   terminal |-> n.terminal \in {"text", "object", "errorObject"}, limit |-> 0]

pushLine ==
  /\ turnEnd = NoTurnEnd /\ Len(lines) < MaxLines
  /\ \E k \in asRecord[dialect] :
       /\ lines' = Append(lines, k)
       /\ norm' = CASE dialect = "claude" -> StreamingClaudeNormalizer(norm, k, Len(lines) + 1)
                    [] dialect = "codex" -> StreamingCodexNormalizer(norm, k)
                    [] dialect = "raw" -> StreamingRawNormalizer(norm, k)
  /\ UNCHANGED <<dialect, turnEnd>>

finishNormalizer ==
  /\ turnEnd = NoTurnEnd
  /\ turnEnd' = CASE dialect = "claude" -> finishClaude(norm)
                  [] dialect = "codex" -> finishCodex(norm)
                  [] dialect = "raw" -> normalizeRaw(norm)
  /\ UNCHANGED <<dialect, lines, norm>>

NormalizerDone == turnEnd # NoTurnEnd /\ UNCHANGED normVars

NormalizerNext == pushLine \/ finishNormalizer \/ NormalizerDone

NormalizerSpec == NormalizerInit /\ [][NormalizerNext]_normVars

-----------------------------------------------------------------------------
(* A conversation: telemetry, one init, records of its session, one result   *)
(* and nothing after it.                                                     *)
ClaudeConversation(last) ==
  \E p \in 1 .. Len(lines) :
    /\ p < Len(lines) /\ lines[p] = "init" /\ lines[Len(lines)] = last
    /\ \A i \in 1 .. p - 1 : lines[i] = "user"
    /\ \A i \in p + 1 .. Len(lines) - 1 :
         lines[i] \in {"assistant", "user", "allowed", "rejected"}

CodexConversation ==
  /\ Len(lines) >= 4 /\ lines[1] = "thread" /\ lines[2] = "turn"
  /\ lines[Len(lines)] = "completed"
  /\ \A i \in 3 .. Len(lines) - 1 : lines[i] \in {"item", "message"}
  /\ \E i \in 3 .. Len(lines) - 1 : lines[i] = "message"

(* The paid fallback is authorised exactly by a complete conversation that   *)
(* failed while the last rate snapshot of its session said rejected, and the *)
(* frame offered as evidence is that snapshot; success needs a complete      *)
(* conversation too, whatever corrupt, foreign or trailing record a provider *)
(* writes (StreamingNormalizer.finish).                                      *)
FallbackIsEvidenced ==
  turnEnd # NoTurnEnd =>
    LET rates == {i \in 1 .. Len(lines) : lines[i] \in {"allowed", "rejected"}}
        Latest(i) == i \in rates /\ \A j \in rates : j <= i
    IN /\ (turnEnd.limit > 0) <=>
            (dialect = "claude" /\ ClaudeConversation("failing")
               /\ \E i \in rates : Latest(i) /\ lines[i] = "rejected")
       /\ turnEnd.limit > 0 => Latest(turnEnd.limit)
       /\ dialect = "claude" => (turnEnd.success <=> ClaudeConversation("success"))
       /\ dialect = "codex" => (turnEnd.success <=> CodexConversation)

=============================================================================
