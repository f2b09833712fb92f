----------------------------- MODULE ScmObserver -----------------------------
(***************************************************************************)
(* Feedback from the hosting service: a poll reads the checks and reviews  *)
(* of a published pull request, accepts what may replace the known facts,  *)
(* and turns unresolved evidence into reactions, each of which admits one  *)
(* steering command for the next prompt (src/scm/observer.ts, evidence.ts, *)
(* reconcile.ts, github.ts and the scm cases of src/control/reducer.ts).   *)
(*                                                                         *)
(* A fact of kind k is an open (failing or unresolved) item.  A window is  *)
(* the set of items an answer covers: all of them in a complete answer.    *)
(* A reaction is identified by its kind and its whole evidence set.        *)
(* Everything between two awaits is one process turn; the dispatcher runs  *)
(* only while the poll waits for its answer or no poll is under way.       *)
(***************************************************************************)
EXTENDS Naturals, Sequences

CONSTANTS
  Items,          \* checks, or review threads
  MaxFeedback     \* bound: items opened or resolved by people and checks

ASSUME FeedbackBound == MaxFeedback \in Nat

(* The kinds that make reactions, in the order they are planned. *)
KindOrder == <<"ci", "review">>
FactKinds == {"ci", "review"}

ReactionKeys == FactKinds \X ((SUBSET Items) \ {{}})
NoKey == <<>>

VARIABLES
  hosted,      \* [FactKinds -> items open at the service now]
  buckets,     \* [FactKinds -> accepted facts]
  unproven,    \* history: open items the last answer dropped without covering them
  pollFact,    \* durable poll: "ended" (none yet, completed or to be retried),
               \*   "started" or "exhausted"
  obsStep,     \* where the poll is
  headKept,    \* no event was appended since the poll captured the head
  reactions,   \* [ReactionKeys -> reaction]
  created,     \* keys of the active reactions in order of creation
  command,     \* [ReactionKeys -> status of the steering command]
  feedbacks

obsVars == <<hosted, buckets, unproven, pollFact, obsStep, headKept, reactions,
             created, command, feedbacks>>

Unknown == [complete |-> FALSE, open |-> {}]

ObserverInit ==
  /\ hosted = [k \in FactKinds |-> {}]
  /\ buckets = [k \in FactKinds |-> Unknown]
  /\ unproven = {}
  /\ pollFact = "ended" /\ obsStep = "idle" /\ headKept = TRUE
  /\ reactions = [r \in ReactionKeys |-> [state |-> "absent", replaces |-> NoKey]]
  /\ created = <<>>
  /\ command = [r \in ReactionKeys |-> "none"]
  /\ feedbacks = 0

Finished == {"observation_resolved", "superseded", "refused"}
Active(r) == reactions[r].state \notin Finished \cup {"absent"}

scmReactionTransitions ==
  [ pending          |-> {"command_admitted", "refused", "superseded", "failed_retryable"},
    command_admitted |-> {"included", "refused", "superseded", "failed_retryable"},
    included         |-> {"observation_resolved", "superseded"},
    failed_retryable |-> {"command_admitted", "refused", "superseded", "failed_retryable"} ]

(* The reducer refuses a transition to command_admitted without an exact    *)
(* pending command.                                                         *)
Reduces(r, to) ==
  /\ to \in scmReactionTransitions[reactions[r].state]
  /\ to = "command_admitted" => command[r] = "pending"
  /\ to = "included" => command[r] = "included"

-----------------------------------------------------------------------------
(* reconcileReactions: one pass looks at the oldest reaction that is not    *)
(* settled, admits its command or moves it after its command, and goes      *)
(* round again.  An admission and the event that records it are two appends.*)
Unsettled == {n \in DOMAIN created :
               reactions[created[n]].state \in {"pending", "command_admitted", "failed_retryable"}}

After(status) == CASE status \in {"pending", "included"} -> "command_admitted"
                   [] status = "refused" -> "refused"
                   [] OTHER -> "superseded"

Proceed == obsStep' = IF obsStep = "reconcile" THEN "start" ELSE "idle"

(* SteeringService.admit: a command that replaces another needs it pending. *)
reactionAdmission(r) ==
  LET old == reactions[r].replaces
  IN \/ /\ (old # NoKey) => command[old] = "pending"
        /\ command' = [s \in ReactionKeys |-> IF s = r THEN "pending"
                         ELSE IF s = old THEN "superseded" ELSE command[s]]
     \/ command' = [command EXCEPT ![r] = "refused"]

reactionTransition(r, to) ==
  IF Reduces(r, to)
  THEN /\ reactions' = [reactions EXCEPT ![r].state = to]
       /\ IF to = "failed_retryable" THEN Proceed ELSE UNCHANGED obsStep
  ELSE obsStep' = "dead" /\ UNCHANGED reactions

reconcileReactions ==
  /\ obsStep \in {"reconcile", "settle"}
  /\ IF Unsettled = {} THEN Proceed /\ UNCHANGED <<reactions, command>>
     ELSE \E n \in Unsettled : (\A m \in Unsettled : n <= m) /\
          LET r == created[n]
              admitted == reactions[r].state = "command_admitted"
          IN \/ /\ admitted /\ command[r] = "pending"
                /\ Proceed /\ UNCHANGED <<reactions, command>>
             \/ /\ admitted /\ command[r] # "pending"
                /\ reactionTransition(r, IF command[r] = "included" THEN "included"
                                         ELSE After(command[r]))
                /\ UNCHANGED command
             \/ /\ ~admitted /\ command[r] # "none"
                /\ reactionTransition(r, After(command[r])) /\ UNCHANGED command
             \/ /\ ~admitted /\ command[r] = "none"
                /\ reactionAdmission(r) /\ UNCHANGED <<reactions, obsStep>>
             \/ /\ ~admitted /\ command[r] = "none"
                /\ reactionTransition(r, "failed_retryable") /\ UNCHANGED command
  /\ UNCHANGED <<hosted, buckets, unproven, pollFact, headKept, created, feedbacks>>

(* A poll that ended is repeated unless its failure was final.              *)
Eligible == pollFact # "exhausted"

(* The scan of the parent polls every published target in turn; an error    *)
(* other than a lost race stops it until the parent is restarted.           *)
scanPublished ==
  /\ obsStep = "idle" /\ Eligible
  /\ obsStep' = "reconcile"
  /\ UNCHANGED <<hosted, buckets, unproven, pollFact, headKept, reactions, created,
                 command, feedbacks>>

(* A started poll is resumed; any other is started once it is eligible.     *)
pollStarted ==
  /\ obsStep = "start"
  /\ pollFact' = "started" /\ obsStep' = "observe" /\ headKept' = TRUE
  /\ UNCHANGED <<hosted, buckets, unproven, reactions, created, command, feedbacks>>

(* A retryable failure is retried after a delay until its attempts are used. *)
planScmRetry == {"ended", "exhausted"}

persistPollFailure ==
  /\ obsStep = "observe" /\ obsStep' = "idle"
  /\ IF headKept THEN pollFact' \in planScmRetry ELSE UNCHANGED pollFact
  /\ headKept' = TRUE
  /\ UNCHANGED <<hosted, buckets, unproven, reactions, created, command, feedbacks>>

-----------------------------------------------------------------------------
(* The answer of one endpoint covers a window of the items, or fails.       *)
Fetched == [ok : {TRUE}, covers : SUBSET Items] \cup {[ok |-> FALSE, covers |-> {}]}

(* A partial answer is merged into complete facts; otherwise what was       *)
(* fetched replaces what was known.  Late or conflicting answers count as   *)
(* failed.                                                                  *)
decideBucketUpdate(prior, fetched) ==
  IF ~fetched.ok THEN "preserve"
  ELSE IF fetched.covers # Items /\ prior.complete THEN "merge" ELSE "accept"

mergePartialFacts(prior, covers, seen) == (prior.open \ covers) \cup seen

mergedPartial(prior, covers, seen) ==
  [complete |-> FALSE, open |-> mergePartialFacts(prior, covers, seen)]

(* The newest run of each check decides; open are the failing ones.  Of the *)
(* reviews, open are the unresolved ones that people wrote.                 *)
normalizeCheckWindow(covers) == hosted["ci"] \cap covers
normalizeReviewWindow(covers) == hosted["review"] \cap covers

bucketPlan(k, fetched) ==
  LET decision == decideBucketUpdate(buckets[k], fetched)
      seen == IF k = "ci" THEN normalizeCheckWindow(fetched.covers)
                          ELSE normalizeReviewWindow(fetched.covers)
  IN CASE decision = "preserve" -> buckets[k]
       [] decision = "merge" -> mergedPartial(buckets[k], fetched.covers, seen)
       [] decision = "accept" ->
            [complete |-> fetched.covers = Items, open |-> seen]

(* A kind whose facts were accepted gets a reaction for its evidence, unless *)
(* that very evidence had one; the active one it replaces is named.          *)
planScmReactions(k, open) ==
  {r \in {<<k, open>>} : open # {} /\ reactions[r].state = "absent"}

Prior(k) == {r \in ReactionKeys : r[1] = k /\ Active(r)}

(* Active reactions to evidence that is no longer what is open.             *)
(* Variant: only those whose command was admitted are retired.              *)
Retired_Admitted(accepted, facts) ==
  {r \in ReactionKeys : /\ r[1] \in accepted /\ r[2] # facts[r[1]].open
                        /\ reactions[r].state \in {"command_admitted", "included"}}

Retired(accepted, facts) ==
  {r \in ReactionKeys : r[1] \in accepted /\ r[2] # facts[r[1]].open /\ Active(r)}

Successor(r) ==
  LET prior == {p \in Prior(r[1]) : reactions[p].state # "included"}
  IN [state |-> "pending",
      replaces |-> IF prior = {} THEN NoKey ELSE CHOOSE p \in prior : TRUE]

(* planScmObservationAcceptance and the commit: poll result, accepted facts *)
(* and reactions in one batch against the captured head.                    *)
commitObservation ==
  /\ obsStep = "observe"
  /\ \E answer \in [FactKinds -> Fetched] :
       LET accepted == {k \in FactKinds : answer[k].ok}
           facts == [k \in FactKinds |-> bucketPlan(k, answer[k])]
           retired == Retired(accepted, facts)
           new == UNION {planScmReactions(k, facts[k].open) : k \in accepted}
       IN IF headKept
          THEN /\ pollFact' = "ended" /\ obsStep' = "settle"
               /\ buckets' = facts
               /\ unproven' = {i \in FactKinds \X Items :
                    i[2] \in buckets[i[1]].open \ (facts[i[1]].open \cup answer[i[1]].covers)}
               /\ reactions' = [r \in ReactionKeys |->
                    IF r \in new THEN Successor(r)
                    ELSE IF r \notin retired THEN reactions[r]
                    ELSE [reactions[r] EXCEPT !.state =
                            IF @ = "included" THEN "observation_resolved" ELSE "superseded"]]
               /\ created' = SelectSeq(created, LAMBDA r : Active(r) /\ r \notin retired) \o
                    SelectSeq([n \in 1 .. 2 |-> <<KindOrder[n], facts[KindOrder[n]].open>>],
                              LAMBDA r : r \in new)
          ELSE /\ obsStep' = "idle"
               /\ UNCHANGED <<pollFact, buckets, unproven, reactions, created>>
  /\ headKept' = TRUE
  /\ UNCHANGED <<hosted, command, feedbacks>>

-----------------------------------------------------------------------------
(* The dispatcher takes a pending command into a prompt, or refuses it.     *)
CommandResolved(r) ==
  /\ obsStep \in {"idle", "observe", "dead"} /\ command[r] = "pending"
  /\ \E status \in {"included", "refused", "superseded"} :
       command' = [command EXCEPT ![r] = status]
  /\ headKept' = (obsStep # "observe")
  /\ UNCHANGED <<hosted, buckets, unproven, pollFact, obsStep, reactions, created, feedbacks>>

Feedback(k, i) ==
  /\ feedbacks < MaxFeedback /\ feedbacks' = feedbacks + 1
  /\ hosted' = [hosted EXCEPT ![k] = IF i \in @ THEN @ \ {i} ELSE @ \cup {i}]
  /\ UNCHANGED <<buckets, unproven, pollFact, obsStep, headKept, reactions, created, command>>

ObserverRestart ==
  /\ obsStep # "idle" /\ obsStep' = "idle" /\ headKept' = TRUE
  /\ UNCHANGED <<hosted, buckets, unproven, pollFact, reactions, created,
                 command, feedbacks>>

ObserverNext ==
  \/ scanPublished \/ reconcileReactions \/ pollStarted \/ persistPollFailure
  \/ commitObservation \/ ObserverRestart
  \/ \E r \in ReactionKeys : CommandResolved(r)
  \/ \E k \in FactKinds, i \in Items : Feedback(k, i)

ObserverSpec == ObserverInit /\ [][ObserverNext]_obsVars

-----------------------------------------------------------------------------
(* Readiness to merge needs complete facts without anything open.            *)
deriveScmReadiness == \A k \in FactKinds : buckets[k].complete /\ buckets[k].open = {}

(* The reactions follow the facts: one that is still active is about exactly *)
(* the evidence that is known to be open, so at most one per kind, and open  *)
(* evidence has been given a reaction, whatever answers failed, whatever was *)
(* included meanwhile and wherever the parent died; a ready pull request has *)
(* no reaction left (poll, reconcileReactions and planScmReactions).         *)
FeedbackTracksFacts ==
  /\ \A r \in ReactionKeys : Active(r) => r[2] = buckets[r[1]].open
  /\ \A k \in FactKinds : buckets[k].open # {} =>
       reactions[<<k, buckets[k].open>>].state # "absent"
  /\ deriveScmReadiness => \A r \in ReactionKeys : ~Active(r)

(* ADR 004: a partial bucket may retain known blockers but cannot prove      *)
(* their absence, so one that disappears was covered by the accepted answer. *)
KnownBlockersKept == unproven = {}
=============================================================================
