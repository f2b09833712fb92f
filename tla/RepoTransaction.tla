--------------------------- MODULE RepoTransaction ---------------------------
(***************************************************************************)
(* The recoverable transaction that lands one candidate vector: candidates *)
(* are prepared in every repository, verified together, applied one target *)
(* ref at a time by compare-and-set, compensated in reverse when a later   *)
(* one is refused (src/multirepo/integration.ts, git-transaction.ts,       *)
(* verification.ts), receipted, and then published remotely, branches      *)
(* before pull requests before cross links (publication.ts), all driven by *)
(* the canonical journal of orchestration.ts.                              *)
(*                                                                         *)
(* Each step of the code performs at most one external action and then     *)
(* appends one event.  The two are separate here, so a crash may fall      *)
(* between them.  A target ref is "base" (the reviewed anchor), "cand",    *)
(* "other" (someone's commit on the anchor) or "candother" (someone's      *)
(* commit on top of the candidate).                                        *)
(***************************************************************************)
EXTENDS Naturals

CONSTANTS
  Repositories,      \* how many repositories the vector spans
  MaxVectorCrashes,  \* bound: crashes of the parent
  MaxRefMoves        \* bound: pushes by others to target refs

ASSUME RepositoriesAssumption == Repositories \in Nat \ {0}

Entries == 1 .. Repositories

VARIABLES
  vector,      \* projection of the integration events
  targetRef,   \* [Entries -> commit of the target ref]
  pending,     \* the event whose external action has been performed
  lease,       \* integration authority: "free", "held" or "stale"
  localReceipt,\* the durable local-integration receipt exists
  published,   \* projection of the publication events
  remote,      \* [Entries -> remote artifacts that exist: 0 none, 1 branch,
               \*   2 pull request, 3 cross link]
  vectorCrashes,
  refMoves

vectorVars == <<vector, targetRef, pending, lease, localReceipt, published,
                remote, vectorCrashes, refMoves>>

-----------------------------------------------------------------------------

IntegrationTerminal == {"applied", "compensated", "recovery_required"}

Nothing == [type |-> "none"]

createMultiRepoIntegrationEvent ==
  [state |-> "preparing", candidate |-> {}, applied |-> {}, undone |-> {}]

createMultiRepoPublicationEvent ==
  [state |-> "none", recorded |-> [e \in Entries |-> 0]]

VectorInit ==
  /\ vector = createMultiRepoIntegrationEvent
  /\ targetRef = [e \in Entries |-> "base"]
  /\ pending = Nothing
  /\ lease = "free"
  /\ localReceipt = FALSE
  /\ published = createMultiRepoPublicationEvent
  /\ remote = [e \in Entries |-> 0]
  /\ vectorCrashes = 0
  /\ refMoves = 0

First(S) == CHOOSE e \in S : \A f \in S : e <= f
Last(S)  == CHOOSE e \in S : \A f \in S : e >= f

Propose(event) == pending = Nothing /\ pending' = event
Event(type) == [type |-> type, entry |-> 0]
EntryEvent(type, e) == [type |-> type, entry |-> e]

-----------------------------------------------------------------------------
(* The authority over every repository of the vector is taken before the    *)
(* first step, from nobody or from a predecessor that is proved dead.       *)
acquireAuthority ==
  /\ lease \in {"free", "stale"} /\ ~localReceipt
  /\ lease' = "held"
  /\ UNCHANGED <<vector, targetRef, pending, localReceipt, published, remote,
                 vectorCrashes, refMoves>>

MayStep == lease = "held" /\ vector.state \notin IntegrationTerminal

(* prepareRepositoryCandidate makes objects only; the ref must be at the    *)
(* anchor before and after, and the merge may conflict.                     *)
prepareRepositoryCandidate ==
  /\ MayStep /\ vector.state = "preparing"
  /\ IF vector.candidate = Entries
     THEN Propose(Event("prepared"))
     ELSE LET e == First(Entries \ vector.candidate)
          IN \/ targetRef[e] = "base" /\ Propose(EntryEvent("candidate_prepared", e))
             \/ Propose(Event("recovery_required"))
  /\ UNCHANGED <<vector, targetRef, lease, localReceipt, published, remote,
                 vectorCrashes, refMoves>>

(* Combined verification runs the commands over the whole vector. *)
executeCombinedVerification ==
  /\ MayStep
  /\ \/ vector.state = "prepared" /\ Propose(Event("verification_started"))
     \/ vector.state = "verifying" /\ Propose(Event("verified"))
     \/ vector.state = "verifying" /\ Propose(Event("recovery_required"))
     \/ vector.state = "verified" /\ Propose(Event("applying_started"))
  /\ UNCHANGED <<vector, targetRef, lease, localReceipt, published, remote,
                 vectorCrashes, refMoves>>

(* applyRepositoryCandidate: compare-and-set from the anchor, then observe  *)
(* again.  A ref that shows anything but the candidate is a refusal, which  *)
(* undoes the vector if an earlier entry is recorded as applied; a ref that *)
(* cannot be read back leaves the outcome unknown.                          *)
(* Variant: a refused entry is looked at again, without an event.           *)
Refusal_Waits == Nothing

Refusal == IF vector.applied # {} THEN Event("compensation_started")
                                  ELSE Event("recovery_required")

applyRepositoryCandidate ==
  /\ MayStep /\ vector.state = "applying"
  /\ IF vector.applied = Entries
     THEN Propose(Event("applied")) /\ UNCHANGED <<targetRef, refMoves>>
     ELSE LET e == First(Entries \ vector.applied)
          IN \/ /\ targetRef[e] = "cand"
                /\ Propose(EntryEvent("entry_applied", e))
                /\ UNCHANGED <<targetRef, refMoves>>
             \/ /\ targetRef[e] \in {"other", "candother"}
                /\ Propose(Refusal)
                /\ UNCHANGED <<targetRef, refMoves>>
             \/ /\ targetRef[e] = "base"
                /\ targetRef' = [targetRef EXCEPT ![e] = "cand"]
                /\ \/ Propose(EntryEvent("entry_applied", e))
                   \/ Propose(Event("recovery_required"))
                /\ UNCHANGED refMoves
             \/ /\ targetRef[e] = "base" /\ refMoves < MaxRefMoves
                /\ targetRef' = [targetRef EXCEPT ![e] = "other"]
                /\ Propose(Refusal)
                /\ refMoves' = refMoves + 1
  /\ UNCHANGED <<vector, lease, localReceipt, published, remote, vectorCrashes>>

(* compensateRepositoryCandidate: only a ref still at the candidate is set  *)
(* back; any other commit needs an operator.                                *)
compensateRepositoryCandidate ==
  /\ MayStep /\ vector.state = "compensating"
  /\ IF vector.applied = vector.undone
     THEN Propose(Event("compensated")) /\ UNCHANGED targetRef
     ELSE LET e == Last(vector.applied \ vector.undone)
          IN \/ /\ targetRef[e] = "base"
                /\ Propose(EntryEvent("entry_compensated", e))
                /\ UNCHANGED targetRef
             \/ /\ targetRef[e] = "cand"
                /\ targetRef' = [targetRef EXCEPT ![e] = "base"]
                /\ \/ Propose(EntryEvent("entry_compensated", e))
                   \/ Propose(Event("recovery_required"))
             \/ /\ targetRef[e] \in {"other", "candother"}
                /\ Propose(Event("recovery_required"))
                /\ UNCHANGED targetRef
  /\ UNCHANGED <<vector, lease, localReceipt, published, remote, vectorCrashes,
                 refMoves>>

(* The reducer of the integration events. *)
applyMultiRepoIntegrationEvent(v, ev) ==
  CASE ev.type = "candidate_prepared" -> [v EXCEPT !.candidate = @ \cup {ev.entry}]
    [] ev.type = "prepared" -> [v EXCEPT !.state = "prepared"]
    [] ev.type = "verification_started" -> [v EXCEPT !.state = "verifying"]
    [] ev.type = "verified" -> [v EXCEPT !.state = "verified"]
    [] ev.type = "applying_started" -> [v EXCEPT !.state = "applying"]
    [] ev.type = "entry_applied" -> [v EXCEPT !.applied = @ \cup {ev.entry}]
    [] ev.type = "compensation_started" -> [v EXCEPT !.state = "compensating"]
    [] ev.type = "entry_compensated" -> [v EXCEPT !.undone = @ \cup {ev.entry}]
    [] ev.type = "applied" -> [v EXCEPT !.state = "applied"]
    [] ev.type = "compensated" -> [v EXCEPT !.state = "compensated"]
    [] ev.type = "recovery_required" -> [v EXCEPT !.state = "recovery_required"]

appendIntegrationFact ==
  /\ pending # Nothing /\ ~localReceipt
  /\ vector' = applyMultiRepoIntegrationEvent(vector, pending)
  /\ pending' = Nothing
  /\ UNCHANGED <<targetRef, lease, localReceipt, published, remote,
                 vectorCrashes, refMoves>>

(* The receipt binds a fully applied, verified vector; then the authority   *)
(* is released.  A compensated vector releases it too, an uncertain one     *)
(* keeps it for the operator.                                               *)
localReceiptFact ==
  /\ lease = "held" /\ vector.state = "applied" /\ ~localReceipt
  /\ localReceipt' = TRUE
  /\ UNCHANGED <<vector, targetRef, pending, lease, published, remote,
                 vectorCrashes, refMoves>>

releaseAuthority ==
  /\ lease = "held"
  /\ localReceipt \/ vector.state = "compensated"
  /\ lease' = "free"
  /\ UNCHANGED <<vector, targetRef, pending, localReceipt, published, remote,
                 vectorCrashes, refMoves>>

-----------------------------------------------------------------------------
(* A restart that finds the receipt takes the authority again, as proof     *)
(* that the predecessor is gone, before it releases it and goes on.         *)
reacquireForFinish ==
  /\ lease = "stale" /\ localReceipt
  /\ lease' = "held"
  /\ UNCHANGED <<vector, targetRef, pending, localReceipt, published, remote,
                 vectorCrashes, refMoves>>

MayPublish == localReceipt /\ lease = "free" /\ pending = Nothing

startPublication ==
  /\ MayPublish /\ published.state = "none"
  /\ published' = [published EXCEPT !.state = "publishing"]
  /\ UNCHANGED <<vector, targetRef, pending, lease, localReceipt, remote,
                 vectorCrashes, refMoves>>

(* The next remote step: all branches, then all pull requests, then all     *)
(* cross links; 3 * Repositories steps in all.                              *)
Behind(k) == {e \in Entries : published.recorded[e] < k}

(* Variant: repository by repository.                                       *)
NextArtifact_ByEntry ==
  IF Behind(3) = {} THEN <<0, 0>>
  ELSE LET e == First(Behind(3)) IN <<published.recorded[e] + 1, e>>

NextArtifact ==
  IF Behind(1) # {} THEN <<1, First(Behind(1))>>
  ELSE IF Behind(2) # {} THEN <<2, First(Behind(2))>>
  ELSE IF Behind(3) # {} THEN <<3, First(Behind(3))>>
  ELSE <<0, 0>>

(* The adapter's step is idempotent: it finishes what is missing, or fails  *)
(* before or after the remote effect, to be retried or to be recovered.     *)
reconcileMultiRepoPublicationOnce ==
  /\ MayPublish /\ published.state \in {"publishing", "partial"}
  /\ LET k == NextArtifact[1]
         e == NextArtifact[2]
     IN IF k = 0
        THEN Propose(Event("completed")) /\ UNCHANGED remote
        ELSE \/ /\ remote' = [remote EXCEPT ![e] = k]
                /\ \/ Propose([type |-> "recorded", entry |-> e, kind |-> k])
                   \/ Propose(Event("retryable_failure"))
             \/ /\ UNCHANGED remote
                /\ \/ Propose(Event("retryable_failure"))
                   \/ Propose(Event("recovery_required"))
  /\ UNCHANGED <<vector, targetRef, lease, localReceipt, published,
                 vectorCrashes, refMoves>>

applyMultiRepoPublicationEvent(p, ev) ==
  CASE ev.type = "recorded" -> [p EXCEPT !.recorded[ev.entry] = ev.kind]
    [] ev.type = "retryable_failure" -> [p EXCEPT !.state = "partial"]
    [] ev.type = "recovery_required" -> [p EXCEPT !.state = "recovery_required"]
    [] ev.type = "completed" -> [p EXCEPT !.state = "published"]

appendPublicationFact ==
  /\ pending # Nothing /\ localReceipt
  /\ published' = applyMultiRepoPublicationEvent(published, pending)
  /\ pending' = Nothing
  /\ UNCHANGED <<vector, targetRef, lease, localReceipt, remote,
                 vectorCrashes, refMoves>>

-----------------------------------------------------------------------------
VectorCrash ==
  /\ vectorCrashes < MaxVectorCrashes
  /\ vectorCrashes' = vectorCrashes + 1
  /\ pending' = Nothing
  /\ lease' = IF lease = "held" THEN "stale" ELSE lease
  /\ UNCHANGED <<vector, targetRef, localReceipt, published, remote, refMoves>>

OthersPush(e) ==
  /\ refMoves < MaxRefMoves
  /\ targetRef[e] \in {"base", "cand"}
  /\ targetRef' = [targetRef EXCEPT ![e] = IF @ = "base" THEN "other" ELSE "candother"]
  /\ refMoves' = refMoves + 1
  /\ UNCHANGED <<vector, pending, lease, localReceipt, published, remote, vectorCrashes>>

VectorNext ==
  \/ acquireAuthority \/ prepareRepositoryCandidate \/ executeCombinedVerification
  \/ applyRepositoryCandidate \/ compensateRepositoryCandidate
  \/ appendIntegrationFact \/ localReceiptFact \/ releaseAuthority
  \/ reacquireForFinish \/ startPublication
  \/ reconcileMultiRepoPublicationOnce \/ appendPublicationFact
  \/ VectorCrash \/ \E e \in Entries : OthersPush(e)

(* The parent keeps reconciling while it runs. *)
VectorProgress ==
  \/ acquireAuthority \/ prepareRepositoryCandidate
  \/ executeCombinedVerification \/ applyRepositoryCandidate
  \/ compensateRepositoryCandidate

VectorFairness == WF_vectorVars(VectorProgress) /\ WF_vectorVars(appendIntegrationFact)

VectorSpec == VectorInit /\ [][VectorNext]_vectorVars /\ VectorFairness

-----------------------------------------------------------------------------
CarriesCandidate(e) == targetRef[e] \in {"cand", "candother"}

(* No target ref carries a candidate before the whole vector is verified in  *)
(* the journal, "applied" means every ref took its candidate, and no remote  *)
(* artifact exists before the local receipt, nor a pull request before all   *)
(* branches or a cross link before all pull requests, with crashes between   *)
(* each action and its event (reconcileMultiRepoIntegrationOnce and          *)
(* reconcileMultiRepoPublicationOnce).                                       *)
EffectsFollowTheJournal ==
  /\ (\E e \in Entries : CarriesCandidate(e)) =>
        vector.state \in {"applying", "applied", "compensating", "compensated",
                          "recovery_required"} /\ vector.candidate = Entries
  /\ vector.state = "applied" => \A e \in Entries : CarriesCandidate(e)
  /\ (\E e \in Entries : remote[e] > 0) => localReceipt /\ vector.state = "applied"
  /\ \A e \in Entries : remote[e] > 1 => \A f \in Entries : remote[f] >= remote[e] - 1
  /\ published.state = "published" => \A e \in Entries : remote[e] = 3

(* A vector does not hang half applied: once a ref moves, the transaction    *)
(* ends applied, compensated or in operator recovery, however often the      *)
(* parent is restarted (runIntegration, orchestration.ts).                   *)
VectorSettles ==
  (\E e \in Entries : CarriesCandidate(e)) ~> vector.state \in IntegrationTerminal

(* What ADR 007 says of compensation: a vector reported as compensated has   *)
(* no repository left that carries its candidate, because an uncertain       *)
(* earlier result goes to recovery instead.                                  *)
CompensatedMeansUndone ==
  vector.state = "compensated" => \A e \in Entries : ~CarriesCandidate(e)
=============================================================================
