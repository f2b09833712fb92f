----------------------------- MODULE ScmProvider -----------------------------
(***************************************************************************)
(* One observation of the hosting service: listings are read page by page  *)
(* under page, item, byte and request budgets, conditionally on the entity *)
(* tag of the first page, through a cache of complete listings that is     *)
(* bypassed once it is too old (src/scm/github.ts).                        *)
(*                                                                         *)
(* The entity tag of the first page says nothing of the later ones, so a   *)
(* "not modified" answer may hide what was posted there; only the age      *)
(* limit bounds how long.  A page is abstracted to whether it shows the    *)
(* feedback posted to it, and time to ticks, fractions of the age limit    *)
(* that are longer than an observation.                                    *)
(***************************************************************************)
EXTENDS Naturals

CONSTANTS
  Listings,     \* the paginated listings a bucket is made of
  Pages,        \* pages of a listing
  MaxGuardAge,  \* GITHUB_MAX_GUARD_AGE_MS, in ticks
  MaxTicks      \* bound: ticks of the clock

ASSUME ProviderBounds ==
  Pages \in Nat \ {0} /\ MaxGuardAge \in Nat \ {0} /\ MaxTicks \in Nat

PageNumbers == 1 .. Pages
Never == MaxTicks + 1

VARIABLES
  posted,    \* [Listings -> [PageNumbers -> tick of the post, or Never]]
  cache,     \* [Listings -> the last complete listing and the tick it was read]
  listing,   \* [Listings -> outcome in this observation]
  reading,   \* the listing being read: its next page and what it showed so far
  threads,   \* the review threads, read by cursor and never cached
  logs,      \* [outcome of the failure logs, kept per failure]
  bucket,    \* the bucket the last observation returned
  clock

providerVars == <<posted, cache, listing, reading, threads, logs, bucket, clock>>

Unread == [state |-> "unread", shows |-> {}]
NotReading == [page |-> 0, shows |-> {}]

ProviderInit ==
  /\ posted = [l \in Listings |-> [p \in PageNumbers |-> Never]]
  /\ cache = [l \in Listings |-> [kept |-> FALSE, shows |-> {}, at |-> 0]]
  /\ listing = [l \in Listings |-> Unread]
  /\ reading = [l \in Listings |-> NotReading]
  /\ threads = "unread" /\ logs = "unread"
  /\ bucket = [state |-> "none", shows |-> [l \in Listings |-> {}], at |-> 0]
  /\ clock = 0

Shown(l) == {p \in PageNumbers : posted[l][p] # Never}

(* The cache is bypassed when there is none and at its age.                 *)
shouldForce(l) == ~cache[l].kept \/ clock - cache[l].at >= MaxGuardAge

(* Only a listing that was read is remembered, with the time of the read.   *)
(* Variant: one confirmed by "not modified" counts as read just now.        *)
rememberConfirmed_Renewed(l) == [cache[l] EXCEPT !.at = clock]

rememberConfirmed(l) == cache[l]

rememberEndpoint(l, shows) == [kept |-> TRUE, shows |-> shows, at |-> clock]

NotModified(l) == ~shouldForce(l) /\ (1 \in cache[l].shows) = (1 \in Shown(l))

(* The first request of a listing, conditional unless a full refresh was    *)
(* asked for.  "Not modified" makes the cached listing the answer; a        *)
(* failure, a budget or a timeout fails the listing.                        *)
requestFirstPage(l) ==
  /\ listing[l].state = "unread" /\ reading[l] = NotReading
  /\ \/ /\ NotModified(l)
        /\ listing' = [listing EXCEPT ![l] = [state |-> "complete", shows |-> cache[l].shows]]
        /\ cache' = [cache EXCEPT ![l] = rememberConfirmed(l)]
        /\ UNCHANGED reading
     \/ /\ reading' = [reading EXCEPT ![l] = [page |-> 1, shows |-> {}]]
        /\ UNCHANGED <<cache, listing>>
     \/ /\ listing' = [listing EXCEPT ![l].state = "failed"]
        /\ UNCHANGED <<cache, reading>>
  /\ UNCHANGED <<posted, threads, logs, bucket, clock>>

(* paginated: each page is taken as it is now; a ceiling, a cycle, a        *)
(* foreign link or a failure on the way leaves a partial window.            *)
paginated(l) ==
  /\ reading[l].page > 0
  /\ LET shows == reading[l].shows \cup ({reading[l].page} \cap Shown(l))
     IN \/ /\ reading[l].page < Pages
           /\ reading' = [reading EXCEPT ![l] = [page |-> @.page + 1, shows |-> shows]]
           /\ UNCHANGED <<cache, listing>>
        \/ /\ reading[l].page = Pages
           /\ listing' = [listing EXCEPT ![l] = [state |-> "complete", shows |-> shows]]
           /\ cache' = [cache EXCEPT ![l] = rememberEndpoint(l, shows)]
           /\ reading' = [reading EXCEPT ![l] = NotReading]
        \/ /\ listing' = [listing EXCEPT ![l] = [state |-> "partial", shows |-> reading[l].shows]]
           /\ reading' = [reading EXCEPT ![l] = NotReading]
           /\ UNCHANGED cache
  /\ UNCHANGED <<posted, threads, logs, bucket, clock>>

reviewThreads ==
  /\ threads = "unread" /\ threads' \in {"complete", "partial"}
  /\ UNCHANGED <<posted, cache, listing, reading, logs, bucket, clock>>

(* The logs of a failure are fetched once; a truncated or missing one makes *)
(* them incomplete for as long as the failure is the same.                  *)
failureLogs ==
  /\ logs = "unread" /\ logs' \in {"complete", "partial"}
  /\ UNCHANGED <<posted, cache, listing, reading, threads, bucket, clock>>

-----------------------------------------------------------------------------
Read == /\ \A l \in Listings : listing[l].state # "unread"
        /\ threads # "unread" /\ logs # "unread"

(* A bucket, of checks or of reviews, is complete when all it draws on is   *)
(* complete and was understood and kept within the ceilings.                *)
completeness ==
  IF /\ \A l \in Listings : listing[l].state = "complete"
     /\ threads = "complete" /\ logs = "complete"
  THEN {"complete", "partial"} ELSE {"partial"}

reviewBucket ==
  /\ Read
  /\ \/ /\ \A l \in Listings : listing[l].state = "failed"
        /\ UNCHANGED bucket
     \/ \E state \in completeness :
          bucket' = [state |-> state, at |-> clock, shows |-> [l \in Listings |-> listing[l].shows]]
  /\ listing' = [l \in Listings |-> Unread] /\ threads' = "unread"
  /\ logs' \in {logs, "unread"}
  /\ UNCHANGED <<posted, cache, reading, clock>>

(* A cancelled or timed out observation returns nothing; the cache stays.   *)
observeCancelled ==
  /\ \E l \in Listings : reading[l] # NotReading
  /\ listing' = [l \in Listings |-> Unread]
  /\ reading' = [l \in Listings |-> NotReading] /\ threads' = "unread"
  /\ UNCHANGED <<posted, cache, logs, bucket, clock>>

Post(l, p) ==
  /\ posted[l][p] = Never
  /\ posted' = [posted EXCEPT ![l][p] = clock]
  /\ UNCHANGED <<cache, listing, reading, threads, logs, bucket, clock>>

Tick ==
  /\ clock < MaxTicks /\ clock' = clock + 1
  /\ \A l \in Listings : listing[l] = Unread /\ reading[l] = NotReading
  /\ UNCHANGED <<posted, cache, listing, reading, threads, logs, bucket>>

ProviderNext ==
  \/ \E l \in Listings : requestFirstPage(l) \/ paginated(l)
  \/ reviewThreads \/ failureLogs \/ reviewBucket \/ observeCancelled
  \/ \E l \in Listings, p \in PageNumbers : Post(l, p)
  \/ Tick

ProviderSpec == ProviderInit /\ [][ProviderNext]_providerVars

-----------------------------------------------------------------------------
(* How stale "complete" can be: a complete bucket shows everything that was  *)
(* posted an age limit before it was made, on whatever page, although        *)
(* "not modified" only speaks of the first one (paginated, shouldForce).     *)
StalenessBounded ==
  bucket.state = "complete" =>
    \A l \in Listings, p \in PageNumbers :
      posted[l][p] + MaxGuardAge <= bucket.at => p \in bucket.shows[l]
=============================================================================
