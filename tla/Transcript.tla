----------------------------- MODULE Transcript -----------------------------
(* The live read model of a provider's transcript (src/observability): the   *)
(* parent writes the transcript, polls it through a pinned descriptor and    *)
(* commits the records it finds together with its cursor to the control      *)
(* store.  A byte is "a" (text), "z" (text the parser refuses), "r" (carriage *)
(* return) or "n" (newline); a digest of a prefix is the prefix.             *)
EXTENDS Integers, Sequences, FiniteSets, SequencesExt

CONSTANTS
  MaxTranscript,         \* bytes the provider writes
  MaximumChunkBytes,     \* read by one poll
  MaximumRecordBytes,
  MaximumRecordsPerPoll,
  RequiredQuietPolls,
  MaxFinalPolls,         \* polls of one finalization
  MaxMutations           \* changes of the file by somebody else
ASSUME TranscriptBounds ==
  /\ {MaxTranscript, MaximumChunkBytes, MaximumRecordBytes, MaximumRecordsPerPoll,
      RequiredQuietPolls, MaxFinalPolls, MaxMutations} \subseteq Nat
  /\ 0 < MaximumRecordBytes /\ MaximumRecordBytes < MaximumChunkBytes
  /\ 0 < MaximumRecordsPerPoll /\ 0 < RequiredQuietPolls

VARIABLES
  transcript,   \* the bytes of the pinned file
  pathState,    \* what its path names: "current" or "replaced"
  writing,      \* "yes" while the transport writes, then "durable" or "torn"
  checkpoint,   \* the ingestor state of the source, durable once it was committed
  observed,     \* durable: the observations recorded for it, in order
  currentTarget,\* the attempt observed is still the session's current one
  handle,       \* "open", "finishing", "closed", or "dead" after a crash
  dirty,        \* a progress hint not yet polled
  polling,      \* NoPoll, or the poll under way
  finalPolls,   \* polls of the finalization so far
  degraded,     \* a failure was noted
  mutations
transcriptVars == <<transcript, pathState, writing, checkpoint, observed, currentTarget,
                    handle, dirty, polling, finalPolls, degraded, mutations>>

NoPoll == [step |-> "none"]
Losses == {"oversize", "malformed"}

createTranscriptIngestorState ==
  [prefix |-> <<>>, ordinal |-> 1, discarding |-> FALSE, discarded |-> 0, quiet |-> 0,
   size |-> 0, dropped |-> 0, droppedBytes |-> 0, integrity |-> "live"]

TranscriptInit ==
  /\ transcript = <<>> /\ pathState = "current" /\ writing = "yes"
  /\ checkpoint = createTranscriptIngestorState /\ observed = <<>> /\ currentTarget = TRUE
  /\ handle = "open" /\ dirty = FALSE /\ polling = NoPoll /\ finalPolls = 0
  /\ degraded = FALSE /\ mutations = 0

(***************************************************************************)
(* One poll over the bytes read                                            *)
(***************************************************************************)
Trimmed(line) == IF line # <<>> /\ Last(line) = "r" THEN Front(line) ELSE line
Malformed(line) == \E i \in DOMAIN line : line[i] = "z"
Newlines(bytes, from) == {i \in from + 1 .. Len(bytes) : bytes[i] = "n"}

(* What the loop carries: position, the observations so far, the checkpoint  *)
(* fields it updates, and whether it left the loop.                          *)
Push(s, obs, next) ==
  [s EXCEPT !.out = Append(@, [obs EXCEPT !.id = s.ordinal]), !.ordinal = @ + 1, !.pos = next,
            !.dropped = @ + (IF obs.kind \in Losses THEN 1 ELSE 0),
            !.droppedBytes = @ + (IF obs.kind \in Losses THEN obs.bytes ELSE 0),
            !.integrity = IF obs.kind \in Losses THEN "degraded"
                          ELSE IF obs.integrity = "quiescent_final" THEN "quiescent_final" ELSE @]
lossObservation(kind, bytes) ==
  [id |-> 0, kind |-> kind, bytes |-> bytes, text |-> <<>>, integrity |-> "degraded"]
parseOne(line, bytes, integrity) ==
  IF Malformed(line) THEN lossObservation("malformed", bytes)
  ELSE [id |-> 0, kind |-> "record", bytes |-> 0, text |-> line, integrity |-> integrity]

QuietPolls(size) ==
  IF checkpoint.size = size
  THEN IF checkpoint.quiet < RequiredQuietPolls THEN checkpoint.quiet + 1 ELSE RequiredQuietPolls
  ELSE 1

DiscardMore(s, bytes, nl) ==
  IF nl = {} THEN [s EXCEPT !.discarded = @ + Len(bytes) - s.pos, !.pos = Len(bytes), !.stop = TRUE]
  ELSE LET end == CHOOSE i \in nl : \A j \in nl : i <= j
           total == s.discarded + end - s.pos
       IN [Push(s, lossObservation("oversize", total), end) EXCEPT !.discarded = 0, !.discarding = FALSE]

(* Bytes without a newline: too many are discarded; at the end of a quiet    *)
(* file they are the final record; otherwise they wait.                      *)
Unterminated(s, bytes) ==
  LET rest == SubSeq(bytes, s.pos + 1, Len(bytes))
      atEnd == Len(checkpoint.prefix) + Len(bytes) = polling.size
      quiet == QuietPolls(polling.size)
      left == [s EXCEPT !.stop = TRUE]
  IN IF Len(rest) > MaximumRecordBytes
     THEN [left EXCEPT !.discarding = TRUE, !.discarded = Len(rest), !.pos = Len(bytes)]
     ELSE IF ~(atEnd /\ polling.quiescent) THEN left
     ELSE IF quiet < RequiredQuietPolls THEN [left EXCEPT !.quiet = quiet]
     ELSE Push(left, parseOne(Trimmed(rest), Len(Trimmed(rest)), "quiescent_final"), Len(bytes))

Terminated(s, bytes, nl) ==
  LET end == CHOOSE i \in nl : \A j \in nl : i <= j
      line == Trimmed(SubSeq(bytes, s.pos + 1, end - 1))
      consumed == end - s.pos
  IN IF line = <<>> THEN [s EXCEPT !.pos = end]
     ELSE IF Len(line) > MaximumRecordBytes
     THEN Push(s, lossObservation("oversize", consumed), end)
     ELSE Push(s, parseOne(line, consumed, s.integrity), end)

IngestStep(s, bytes) ==
  LET nl == Newlines(bytes, s.pos)
  IN IF s.stop \/ s.pos >= Len(bytes) \/ Len(s.out) >= MaximumRecordsPerPoll THEN s
     ELSE IF s.discarding THEN DiscardMore(s, bytes, nl)
     ELSE IF nl = {} THEN Unterminated(s, bytes) ELSE Terminated(s, bytes, nl)

(* Every turn of the loop consumes a byte or leaves it.                      *)
IngestLoop(bytes, path) ==
  LET start == [pos |-> 0, out |-> <<>>, stop |-> FALSE, quiet |-> 0,
                ordinal |-> checkpoint.ordinal, discarding |-> checkpoint.discarding,
                discarded |-> checkpoint.discarded, dropped |-> checkpoint.dropped,
                droppedBytes |-> checkpoint.droppedBytes,
                integrity |-> IF path = "current" THEN checkpoint.integrity ELSE "replaced"]
      after[turn \in 0 .. Len(bytes) + 1] ==
        IF turn = 0 THEN start ELSE IngestStep(after[turn - 1], bytes)
  IN after[Len(bytes) + 1]

(* An oversized record still open at the end of a quiet file is closed.      *)
CloseDiscarded(s, size) ==
  LET quiet == QuietPolls(size)
  IN IF ~(/\ s.discarding /\ Len(checkpoint.prefix) + s.pos = size /\ polling.quiescent
          /\ Len(s.out) < MaximumRecordsPerPoll) THEN s
     ELSE IF quiet < RequiredQuietPolls THEN [s EXCEPT !.quiet = quiet]
     ELSE [Push(s, lossObservation("oversize", s.discarded), s.pos)
             EXCEPT !.discarded = 0, !.discarding = FALSE, !.quiet = 0]

nextState(s, bytes, size) ==
  [prefix |-> checkpoint.prefix \o SubSeq(bytes, 1, s.pos), ordinal |-> s.ordinal,
   discarding |-> s.discarding, discarded |-> s.discarded, quiet |-> s.quiet, size |-> size,
   dropped |-> s.dropped, droppedBytes |-> s.droppedBytes, integrity |-> s.integrity]

(***************************************************************************)
(* The pinned descriptor                                                   *)
(***************************************************************************)
hashPrefix(prefix) == IsPrefix(prefix, transcript)

verifyExtension(prefix, bytes) == IsPrefix(prefix \o bytes, transcript)

(***************************************************************************)
(* Polls                                                                   *)
(***************************************************************************)
Refuse == degraded' = TRUE /\ UNCHANGED <<checkpoint, observed>>

(* A progress poll reports and the handle goes on; a failed or complete      *)
(* finalization closes it, and so does the last poll it is allowed, as a     *)
(* failure.                                                                  *)
Exhausted == polling.quiescent /\ finalPolls + 1 = MaxFinalPolls
PollEnds(complete, ok) ==
  /\ polling' = NoPoll
  /\ finalPolls' = IF polling.quiescent THEN finalPolls + 1 ELSE finalPolls
  /\ handle' = IF polling.quiescent /\ (~ok \/ complete \/ Exhausted) THEN "closed" ELSE handle
PollSucceeds(next) ==
  LET complete == Len(next.prefix) = Len(transcript) /\ ~next.discarding
  IN PollEnds(complete, TRUE) /\ degraded' = (degraded \/ (Exhausted /\ ~complete))

Unmoved == UNCHANGED <<transcript, pathState, writing, currentTarget, dirty, mutations>>

(* refreshState takes the state from the store; then the path, the size and  *)
(* the committed prefix are checked.                                         *)
pollTranscript(quiescent) ==
  /\ polling' = IF pathState = "current" /\ hashPrefix(checkpoint.prefix)
                THEN [step |-> "read", quiescent |-> quiescent, size |-> Len(transcript)]
                ELSE [step |-> "failed", quiescent |-> quiescent]
  /\ UNCHANGED <<transcript, pathState, writing, checkpoint, observed, currentTarget, handle,
                 finalPolls, degraded, mutations>>

pollProgress ==
  /\ handle \in {"open", "finishing"} /\ polling = NoPoll /\ dirty
  /\ dirty' = FALSE /\ pollTranscript(FALSE)

finalizePoll ==
  /\ handle = "finishing" /\ polling = NoPoll /\ ~dirty /\ writing = "durable"
  /\ UNCHANGED dirty /\ pollTranscript(TRUE)

PollFails ==
  /\ polling.step = "failed" /\ Refuse /\ PollEnds(FALSE, FALSE) /\ Unmoved

readSource ==
  /\ polling.step = "read"
  /\ LET from == Len(checkpoint.prefix)
         count == Min({MaximumChunkBytes, polling.size - from, Len(transcript) - from})
     IN polling' = IF Len(transcript) < from
                   THEN [step |-> "failed", quiescent |-> polling.quiescent]
                   ELSE [step |-> "commit", quiescent |-> polling.quiescent, size |-> polling.size,
                         bytes |-> SubSeq(transcript, from + 1, from + count)]
  /\ UNCHANGED <<checkpoint, observed, handle, finalPolls, degraded>> /\ Unmoved

(* The transaction of the control store: state and records together, fenced  *)
(* by the state they build on and by the attempt.                            *)
\* Mutant: the checkpoint may be saved without the records.
appendBatchIf_StateFirst(next, out) ==
  \/ checkpoint' = next /\ observed' = observed \o out
  \/ checkpoint' = next /\ UNCHANGED observed
  \/ UNCHANGED <<checkpoint, observed>>

appendBatchIf(next, out) ==
  \/ checkpoint' = next /\ observed' = observed \o out
  \/ UNCHANGED <<checkpoint, observed>>

(* The answer of a transaction may be lost whether or not it committed.      *)
Transact(next, out) ==
  /\ appendBatchIf(next, out)
  /\ \/ checkpoint' = next /\ PollSucceeds(next)
     \/ degraded' = TRUE /\ PollEnds(FALSE, FALSE)

pollCommits ==
  /\ polling.step = "commit"
  /\ LET ended == CloseDiscarded(IngestLoop(polling.bytes, pathState), polling.size)
         next == nextState(ended, polling.bytes, polling.size)
     IN IF ~verifyExtension(checkpoint.prefix, polling.bytes) \/ pathState # "current"
        THEN Refuse /\ PollEnds(FALSE, FALSE)
        ELSE IF next = checkpoint
        THEN PollSucceeds(next) /\ UNCHANGED <<checkpoint, observed>>
        ELSE IF ~currentTarget THEN Refuse /\ PollEnds(FALSE, FALSE)
        ELSE Transact(next, ended.out)
  /\ Unmoved

(***************************************************************************)
(* The transport, the authority and everybody else                         *)
(***************************************************************************)
(* The transport writes and hints; a poll runs to its end before it returns. *)
onTranscriptProgress(byte) ==
  /\ writing = "yes" /\ polling = NoPoll /\ Len(transcript) < MaxTranscript
  /\ transcript' = Append(transcript, byte) /\ dirty' = (handle = "open" \/ dirty)
  /\ UNCHANGED <<pathState, writing, checkpoint, observed, currentTarget, handle, polling,
                 finalPolls, degraded, mutations>>

transportEnds ==
  /\ writing = "yes" /\ polling = NoPoll
  /\ writing' \in {"durable", "torn"} /\ handle' = (IF handle = "open" THEN "finishing" ELSE handle)
  /\ UNCHANGED <<transcript, pathState, checkpoint, observed, currentTarget, dirty, polling,
                 finalPolls, degraded, mutations>>

(* finalize(false): a torn transcript, or a run that ends, is not finalized. *)
forceClose ==
  /\ polling = NoPoll
  /\ \/ handle = "open" /\ handle' = "finishing" /\ writing' = "torn"
     \/ handle = "finishing" /\ ~dirty /\ writing = "torn" /\ handle' = "closed" /\ UNCHANGED writing
  /\ UNCHANGED <<transcript, pathState, checkpoint, observed, currentTarget, dirty, polling,
                 finalPolls, degraded, mutations>>

(* The constructor takes up the persisted state of the same file, or starts  *)
(* over with the size it finds.                                              *)
parentCrash ==
  /\ handle \in {"open", "finishing"} /\ handle' = "dead" /\ polling' = NoPoll /\ dirty' = FALSE
  /\ writing' = IF writing = "yes" THEN "torn" ELSE writing
  /\ UNCHANGED <<transcript, pathState, checkpoint, observed, currentTarget, finalPolls,
                 degraded, mutations>>
reopen ==
  /\ handle = "dead" /\ pathState = "current" /\ currentTarget
  /\ handle' = (IF writing = "durable" THEN "finishing" ELSE "open")
  /\ dirty' = TRUE /\ finalPolls' = 0
  /\ checkpoint' = IF checkpoint = createTranscriptIngestorState
                   THEN [checkpoint EXCEPT !.size = Len(transcript)] ELSE checkpoint
  /\ UNCHANGED <<transcript, pathState, writing, observed, currentTarget, polling, degraded,
                 mutations>>

newAttempt ==
  /\ currentTarget /\ currentTarget' = FALSE
  /\ UNCHANGED <<transcript, pathState, writing, checkpoint, observed, handle, dirty, polling,
                 finalPolls, degraded, mutations>>

mutateSource ==
  /\ mutations < MaxMutations /\ mutations' = mutations + 1
  /\ \/ /\ transcript # <<>> /\ UNCHANGED pathState
        /\ \/ transcript' = Front(transcript)
           \/ \E i \in DOMAIN transcript, b \in {"a", "n"} :
                transcript[i] # b /\ transcript' = [transcript EXCEPT ![i] = b]
     \/ pathState = "current" /\ pathState' = "replaced" /\ UNCHANGED transcript
  /\ UNCHANGED <<writing, checkpoint, observed, currentTarget, handle, dirty, polling,
                 finalPolls, degraded>>

TranscriptNext ==
  \/ \E b \in {"a", "z", "r", "n"} : onTranscriptProgress(b)
  \/ transportEnds \/ forceClose \/ parentCrash \/ reopen \/ newAttempt \/ mutateSource
  \/ pollProgress \/ finalizePoll \/ PollFails \/ readSource \/ pollCommits

TranscriptSpec == TranscriptInit /\ [][TranscriptNext]_transcriptVars

(***************************************************************************)
(* What the read model promises                                            *)
(***************************************************************************)
(* Where the lines of a prefix that say something begin and end; the last    *)
(* one may be unterminated.                                                  *)
TextLines(bytes) ==
  {l \in [from : 0 .. Len(bytes), to : 1 .. Len(bytes) + 1] :
     /\ l.from < l.to /\ \A i \in l.from + 1 .. l.to - 1 : bytes[i] # "n"
     /\ l.from = 0 \/ bytes[l.from] = "n"
     /\ l.to = Len(bytes) + 1 \/ bytes[l.to] = "n"
     /\ \/ Trimmed(SubSeq(bytes, l.from + 1, l.to - 1)) # <<>>
        \/ l.to = Len(bytes) + 1 /\ l.from + 1 < l.to}

(* Their texts in order.                                                     *)
Lines(bytes) ==
  LET texts == TextLines(bytes)
      Before(l) == {other \in texts : other.from < l.from}
  IN [k \in 1 .. Cardinality(texts) |->
        LET l == CHOOSE x \in texts : Cardinality(Before(x)) = k - 1
        IN SubSeq(bytes, l.from + 1, l.to - 1)]

(* An oversized line keeps its kind but loses its text; a line at the limit  *)
(* with a carriage return may be cut off before its newline arrives.         *)
Tells(obs, line) ==
  CASE obs.kind = "record" -> obs.text = Trimmed(line) /\ Len(obs.text) <= MaximumRecordBytes
    [] obs.kind = "malformed" -> Malformed(line)
    [] obs.kind = "oversize" -> Len(line) > MaximumRecordBytes

(* Whatever polls failed, answers were lost, parents crashed or bytes were   *)
(* rewritten under the poll, the durable observations are the records of the *)
(* committed prefix, in order, each once and each lost one counted; and a    *)
(* durable transcript whose handle closed without a failure is read to its   *)
(* end.                                                                      *)
TranscriptAccountedFor ==
  LET all == Lines(checkpoint.prefix)
      told == IF checkpoint.discarding THEN Front(all) ELSE all
  IN /\ Len(observed) = Len(told)
     /\ checkpoint.ordinal = Len(observed) + 1
     /\ \A i \in DOMAIN observed : observed[i].id = i /\ Tells(observed[i], told[i])
     /\ checkpoint.dropped = Cardinality({i \in DOMAIN observed : observed[i].kind \in Losses})
     /\ (handle = "closed" /\ writing = "durable" /\ ~degraded /\ mutations = 0) =>
          checkpoint.prefix = transcript /\ ~checkpoint.discarding
=============================================================================
