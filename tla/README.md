# A TLA+ verification of RelayForge

RelayForge runs coding agents (provider command-line tools) against a project: a
parent process dispatches tasks to providers, reviews what they deliver, merges
it, and keeps three promises while anything may crash: it does not spend more
than its budget, it never loses control of an agent it started, and every task
ends accepted or in front of a human. This directory holds TLA+ models of the
code that keeps those promises, the TLC runs that check them on small
instances, and TLAPS proofs of the ones that matter most. Source paths below are
relative to the repository (`src/ledger.ts` and so on).

## 1. The system

| component | state it keeps | operations | what is hard | what makes it correct |
|---|---|---|---|---|
| budget ledger (`ledger.ts`, `settlement-kernel.ts`, `attest.ts`, `money.ts`, `flock.ts`) | a hash-chained journal of reservations and settlements, a write-ahead log, a manifest, a key; the kernel lock | reserve, settle, reconcile, read; open, initialise, migrate | several processes; every write and fsync may fail or be cut; power loss | spend within the budget, acknowledged records survive, unproven ones are never believed, one generation, no balance forgotten |
| delivery loop (`orchestrator.ts`, `board.ts`) | loop state in memory, worktrees, the scope journal | start-up gate, reap, reclaim, dispatch, launch, settle, review, escalate | parallel dispatches, death of the parent at any point, agents that outlive it | no agent unknown to the parent that runs, none on work under review, each failed attempt counted once, every task ends |
| provider turn (`orchestrator.ts`, `routing.ts`, `scope.ts`) | the call in the ledger, cgroups, the launch gate, provider health, the route epoch | route, reserve, launch, tear down, settle, fall back, reap | a process that survives its deadline, callbacks in any order, crash between gate and journal | a provider can always be found and killed; a second one is billed only on proven rejection |
| provider output (`streaming.ts`, `normalize.ts`, `adapters/`) | per-turn protocol state, byte budgets | frame, decode, correlate, normalise | chunks, limits, foreign and trailing records | the verdict is a function of the transcript |
| transcript read model (`observability/`) | cursor and records in the control store, a pinned descriptor | poll, finalize, commit, reopen | lost answers, rewritten files, crash | each record told once, losses counted |
| steering (`steering/`) | commands, attempts, prompt manifests, settlement cursor in the control store; prompt artifacts; socket and locator | admit, supersede, withdraw, expire, prepare, plan, start, settle, recover; publish an endpoint, send, answer | commands arrive while a prompt is composed; lost answers; two parents at one endpoint | a command is delivered once, in order, or resolved otherwise; what the operator was told holds |
| control store (`control/store.ts`, `events.ts`, `reducer.ts`) | an append-only event log in SQLite, projections, consumer cursors, snapshots | append (with versions, fences, cursors), read, snapshot, rebuild | retries, concurrent connections, crash between file and schema | the projection is the fold of the log; an event is applied once |
| control lease, service, server, streams (`control/`) | lease database, discovery file, port, store handles, event streams | acquire, probe, serve, stop, stream | closes that fail, successors, slow subscribers | stores only behind the lease; a subscriber never skips silently |
| live views (`control-room/`, `dashboard/`) | the snapshot shown, the request in flight, the stream | fetch, wake, poll, reconnect | answers overtaken by frames and restarts | a quiet view shows the head |
| cutover (`control/cutover.ts`, `legacy.ts`) | legacy files, import receipt, archive, marker | plan, import, verify, archive, mark | crash between rename and sync, sources that change | the marker is proof of the import |
| worktrees and integration (`worktree.ts`, review pass) | attempt worktrees, the integration worktree and branch | create, build a candidate, verify, publish by compare-and-set, remove | crash with a detached candidate, branch moved from outside | only verified candidates are published, nothing is clobbered |
| provisioning (`provision.ts`) | staged copy, replaced tree, mode marker | stage, move aside, publish, roll back, reconcile | crash between two renames | the tree is never lost |
| multi-repository (`multirepo/`) | worktree receipts, vectors, worker leases, publications, repository locks | schedule, work, integrate, compensate, publish, recover | partial failure, lost answers, contenders | effects follow the journal; one worker; receipts tell the truth |
| source control (`scm/`) | publications, observed facts, reactions, listing cache | push, open, link, poll, react | late and repeated answers, foreign writes | no foreign commit overwritten; reactions follow the facts; staleness bounded |
| command line, configuration, tmux, prompts, helpers | none that outlives a command | parse, print | - | - |

The parent calls the ledger around each provider call (reserve before launch,
settle after the end), the steering modules around each attempt, and the control
store for each fact; the operator reaches the steering service over a local
socket of the parent. Viewers read the control service. Other runs, and an operator's
`reconcile` or migration, share the ledger directory through the file system only.

`PROJECT.json` lists every component with its status, and every hazard with the
line where it bites.

## 2. The modules

| module | models | role |
|---|---|---|
| `DurableFile` | the file operations the ledger uses | contents of a file now and after a power loss, the outcomes of an append |
| `Ledger` | `LedgerHandle` of `ledger.ts`, `settlement-kernel.ts`, the call path of `orchestrator.ts` | the journal, its write-ahead log, transactions, settlement, reconciliation, providers that charge |
| `LedgerOpen` | the opening half of `ledger.ts` | how a generation is published, and the legacy migration |
| `Dispatch` | `orchestrator.ts`, `board.ts`, `steering/`, task transitions of `control/reducer.ts` | the delivery loop with steering, crash and recovery |
| `ControlReducer` | `control/reducer.ts`, the event types of `control/events.ts`, fences and row updates of `control/store.ts` | what an event does to the projection and when it is refused, as operators |
| `ControlStore` | `control/store.ts` and how its callers compose batches | processes on one store: creation, appends in transactions, retries, cursor, snapshots, rebuild, death |
| `EventLog` | - | the abstract specification that `ControlStore` implements |
| `WorktreeGroup`, `RepoTransaction`, `RepoTask`, `RepoAuthority` | `multirepo/` | worktrees of an attempt; the vector; a task over several incarnations; the lock of a repository |
| `ScmPublication`, `ScmObserver`, `ScmProvider` | `scm/` | publication of one commit; polls, facts and reactions; listings and their cache |
| `ControlCutover` | `control/cutover.ts`, `legacy.ts`, the start of a run | the one-way switch to the control store |
| `Integration` | `worktree.ts`, the review pass | attempts, candidates and the integration branch |
| `Provision` | `provision.ts` | replacing a provisioned tree |
| `ProviderTurn` | `runRoutedTurnCore`, `runHeadlessChild`, `routing.ts`, `scope.ts` | physical calls with their processes |
| `AdapterSession`, `Normalizer` | `streaming.ts`, `adapters/acp-v1.ts`, `pi-rpc.ts`, `codec.ts`, `normalize.ts` | the verdict on a turn |
| `Transcript` | `observability/` | the read model of a transcript |
| `ControlService` | `control/lease.ts`, `service.ts`, `runfile.ts`, `client.ts` | who holds the stores and who serves |
| `Sse`, `LiveView` | `control/sse.ts`, `control-room/client.ts`, `dashboard/render.ts` | the event stream, and the two programs over it (`LiveView` extends `Sse`) |
| `SteeringIpc` | `steering/ipc.ts`, `service.ts`, `reducer.ts`, `cli.ts` | the operator's way into a run |
| `LedgerProofs`, `LedgerOpenProofs`, `DispatchProofs`, `ControlStoreProofs` | - | theorems about the ledger, its opening, the delivery loop, the control store |
| `MultiRepoProofs`, `DeliveryProofs`, `ServiceProofs`, `OperatorProofs` | - | theorems about `multirepo/`; provisioning, integration, cutover, `scm/` and the transcript; the control service, the provider turn, the adapters and the normalizers; the operator's endpoint, the answers it gives and the views |
| `MCLedger`, `MCDispatch`, `MCControlStore`, `MCMultiRepo`, `MCServices`, `MCWatch`, `MCLive` | - | instances for TLC |

The last four put several components side by side. Those components meet only
through their outcomes, which each module has as nondeterministic answers of its
surroundings; so a behaviour has one subject (`focus`) and the others stand still.
Every component module also states its own specification (`VectorSpec`, `TurnSpec` and so on).

### DurableFile and Ledger

A file is a sequence of records, a tail (`clean`, `torn`, `noeol`, `junk`) and a
set `may` of the contents a power loss may leave. `AppendOutcomes` gives what one
append with its fsync can end in: done, failed with none, part or all of the bytes in
the page cache, synced or not. `torn` is part of a record, `noeol` a whole record
without its newline, `junk` a file the fold refuses.

A transaction (`LedgerHandle.txn`) is taken apart into `LockAndDecide` (lock,
re-verify the visible leaf, fold both files, decide on what was folded),
`WalIntent`, `LeafAppend`, `assertPublishedAfterFsync`, `WalCommit` and, after any failure,
`Poison`. Between these a crash, a power loss or a move of the leaf's
name may strike; other handles are kept out by `lock`. `Reserve` starts a
transaction before a launch; `SettleCompleted` starts the settlement that
`settleCompletedCall` decides on from the transcript (`Evidence`) and the scope;
`Retry` is the `finally` block of the call path. `assertMintable` is evaluated inside
the decision, as in the code. Providers charge (`ProviderCharges`), write a terminal record
(`TerminalRecord`) and end (`ScopeEmpties`) at any time; a process may
outlive the terminal record and go on charging.

`acked` and `trusted` are history: records whose transaction returned, and
records proven at their path or accepted by a reconciliation.

Abstracted: hashes and MACs (a record is its own hash), the binding of a call (its
id), amounts (small naturals).

### LedgerOpen

The directory is one record: which names exist and which inode or generation they
denote, and `debris`, the second names a crash leaves between `link` and `unlink`. `dir.may` holds,
name by name, what a power loss may leave; `fsyncDir` settles it. Openers and
migrators are processes with a program counter at each directory operation. A
reservation, which `Ledger` models in full, is one durable step here.

`Overlap` says whether an opener may be between its check and the end of its
open while a migration publishes its intent. With `FALSE` the operator starts no run until the
intent is out, and everything holds; with `TRUE` the run `open_race` shows what the
code does not exclude.

Three error branches of the code cannot be reached with files only this protocol
writes (a manifest without its leaf or key; a loser of the race finding no new leaf). They are kept where
a mutant of the model reaches them.

### Dispatch

The projection of the control store is the state: task statuses and repair counts
(`status`, `repairs`), attempts (`att`), commands (`cmd`), the settlement cursor. The parent's memory
(`phase`, `busy`, `worked`, `disp`, `kept`) is lost by `Crash`; prompt artifacts, the scope journal and live agents
are not. `busy` names the task whose synchronous section runs: Node
interleaves only at an `await`, a crash anywhere.

A dispatch goes `selected`, `claimed`, `boundary` (waiting observation), `fed` (feedback
admitted), `published` (artifact written), `prepared` (manifest and inclusions committed), `planned`,
`recorded` (scope journalled), `started`, `running` (released to exec), `gone` (turn resolved), `settled`, `verifying`, `review`;
each step has its failure (`CannotClaim`, `Throws`, `CannotPublish`, `Refused`, `LaunchFails`). A restart goes
`reap`, `recover`, `ready`, `reclaim`, then iterations `top`, `dispatch`, `review`, `escalate`, `post`; `post` runs the same
recovery code as `recover`, as the loop does.

`Exit` resolves a turn, with its scope empty or not: `doFinish` is called whatever the reap of a timeout
(`orchestrator.ts:2571`) or of a close (2538) answered, and with no teardown at all after the two-second grace
for standard input (2554). Such an attempt joins `unproven`; its result is not ok, so it is settled as exited and
its task blocked, and nothing keeps the loop from dispatching the task again beside what lives in the old scope. `live` holds every attempt
with a process in its scope, `OrphanExit` is the end of one no turn waits for, the teardown of finalize included.

Assumptions: one role per task and one session per task, generations 1 (no
code reopens a task); one parent at a time (`ControlService`); a scope read empty (`scope.alive()` false after the
leader closed) holds no process, whether or not its cgroup could be removed; the limits of a
run (budget, iterations, repeated failure, cancellation) are subsumed by `Crash`; task dependencies
are left out. Fallback providers are in `ProviderTurn`, git publication in `Integration`.

### ControlReducer, ControlStore and EventLog

`ControlReducer` has two operators per event family: when `applyControlEvent`
accepts an event (`TaskAllows`, `AttemptAllows`, ...) and what it makes of the
state (`ReduceTask`, ...). `Replay` is `reduceControlEvents`. Next to it stand the
checks of the store (`validateFences`) and `persistProjectionDelta`, which rewrites the
rows of one event; that patched tables and replayed log stay equal is a property,
not a definition.

In `ControlStore` a write is one SQLite IMMEDIATE transaction, `tx`: begun from the
committed tables, extended by one event per step (`MeetEvent` for an id that is
already logged, `InsertEvent` for a new one), committed with the cursor or rolled
back. Other processes see nothing of it before `Commit`; a death or an I/O error
drops it. A caller composes its batch from a projection it has read
(`Compose`), so the generations, versions, head and cursor it sends are those of its reading and may be
stale when the transaction begins. Attempts, steering and runtime
observations go through `appendBatchIf` (mode `head`), settlement through
`appendBatchWithCursor` (mode `cursor`), the rest through `appendBatch`. After
a death the call is forgotten or made again with the same ids, before or after the
first one reached the disk. `rebuildProjections` reads log and snapshot outside the transaction in
which it replaces the tables, as the code does.

`EventLog` says what callers rely on: the log only grows, no event id and no
external source occurs twice, the cursor moves only forward and only over events that
were there before.

Abstracted: texts, digests and clocks; the counters of a checkpoint. A
logged event carries `range`, which the code does not have: the events the effect of a consumer
stands for. Source control, observation and multi-repository facts have no tables of their own and
are modelled with the components that write them. `task.reopened` and
`rebuildProjections` have no caller in the product; they are operations of the
store and are modelled as such.

### WorktreeGroup, RepoTransaction, RepoTask, RepoAuthority

`WorktreeGroup`: the receipt file (`receipt`) is replaced before each destructive Git command; the
parent works on its copy (`draft`), member by member (`at`, `step`). A member is directory,
registration, branch commit and dirtiness, and others may edit it (`OthersEdit`). Preparation, adoption
after a crash, provisioning, rollback and reclaim are one action per Git command and per receipt.

`RepoTransaction`: each step of `reconcileMultiRepoIntegrationOnce` and
`reconcileMultiRepoPublicationOnce` performs one external action and appends one event; the two are
separate actions (`pending`), so a crash may fall between. Target refs can be moved by others.

`RepoTask`: one task from admission over preparation, dispatch acknowledgement, worker, attested settlement,
heads, vector, receipt and reclaim, for any number of incarnations of the parent. Vector and
worktree group appear by their outcomes.

`RepoAuthority`: contenders stage a claim, rename it onto the live name, and take the directory of a
dead owner by renaming it away; each rename acts on a name, each check on a pinned inode.

### ScmPublication, ScmObserver, ScmProvider

`ScmPublication`: each remote call is separate from the event that records it; a call given up on may
still take effect (`inFlight`), others push to the branch and edit the pull request.
`ScmObserver`: one poll from scan to commit, answers complete, partial or failed, reactions
identified by kind and evidence, their steering commands resolved by the dispatcher while the poll
waits. `ScmProvider`: listings by page, conditional requests, the cache and its age limit, budgets
and cancellation; time is ticks of the age limit.

### ControlCutover, Integration, Provision

`ControlCutover`: the legacy files are a version and the status history of one task; `unsynced` holds
the renames a crash may undo. The import's projection is computed from the history and compared with
the board's own fold. Assumed: a rename that another process has seen is not undone.

`Integration`: a commit is the set of changes it holds; the integration worktree is attached or
detached at a candidate. The board survives the parent, its map of attempts does not. `tip` can be moved
by others once.

`Provision`: the transaction slot of a path (staged copy, tree moved aside, mode marker) is shared by all
worktrees of a run; crashes fall between any two renames and mode changes.

### ProviderTurn, AdapterSession, Normalizer, Transcript

`ProviderTurn`: call n owns scope n. The child's callbacks (close, stdin, fatal output, timeout) come in any
order; teardown may fail (a process that ignores SIGKILL); the fallback call follows a settlement with
authority. A crash may fall anywhere, and the next incarnation reaps what the journal names.

`AdapterSession`: `sent` is what the provider wrote, pushed in chunks of any size; framer, codec (ACP or
Pi) and driver are operators folded over the symbols. `Normalizer`: the Claude, Codex and raw
dialects, a record being its kind. Both properties compare the incremental verdict with a definition over the
whole transcript.

`Transcript`: bytes are text, refused text, carriage return and newline; a digest of a prefix is the
prefix. A poll is three steps (open, read, commit) with rewrites, truncation and replacement between
them; a commit may be lost with or without effect.

### ControlService, Sse, LiveView, SteeringIpc

`ControlService`: three processes, each a standalone service or a run, take the lease, open stores,
listen, publish the discovery file and unwind in the code's order, with a close that may fail; `loop serve stop` inspects,
inspects again and signals. `Sse`: one connection with wake, replay, back-pressure and the broker's
terminations. `LiveView`: control room and page with requests in flight, delays as timers that may
fire at any moment.

`SteeringIpc`: two incarnations of a parent prepare, link, serve, close and die over one socket name and one
locator, while a CLI process connects, times out and retries; a decision is a compare-and-append
over a log that the other parent and the delivery loop extend.

## 3. What the runs check

| run | instance | states | shows |
|---|---|---|---|
| `ledger` | 2 handles, 2 calls of worst case 1, budget 1, 2 faults, 1 reconciliation | 976 k | `BudgetHeld`, `AckedSurvives`, `NothingLaundered`, `SettlementsLawful` |
| `ledger_live` | the same, 1 fault, fair | 108 k | `NothingStuck` |
| `open` | 2 openers, 2 migrators, 2 crashes or power losses, with and without a v1 journal | 23 k | `GenerationsSound`, `BalanceNeverForgotten`, `RecoveryCompletes` |
| `dispatch` | 2 tasks in parallel, 1 repair, 1 crash | 1.08 M | `AgentsKnown`, `AttemptsCounted` |
| `steering` | 1 task, feedback and 1 operator command, prompts of at most 1 command, 2 crashes | 129 k | `DeliveredOnce`, `WorkEnds` |
| `store` | 2 processes, 2 new event ids, 3 histories (none, an assigned session with a command, two attempts and an escalated task), 1 snapshot or death | 400 k | `ProjectionIsFold`, `ReceiptsHold`, `WritersFenced`, `ImplementsEventLog` |
| `multirepo` | group of 2, vector of 2, 2 crashes each, 2 edits, 1 foreign ref move; a task with 3 crashes; 4 contenders | 360 k | `ReceiptTellsTruth`, `WorkSurvivesCleanup`, `EffectsFollowTheJournal`, `VectorSettles`, `OneWorkerEver`, `CompletedMeansDelivered`, `DispatchedIsSettled`, `DisplacerNeverHolds` |
| `services` | 2 foreign pushes, 2 items per kind of feedback, 2 pages and an age limit of 2 ticks, histories of 3 events by 2 roles, 2 tasks with 1 repair and 1 outside move, 5 provisionings; 2 crashes each (provisioning 3) | 918 k | `PublicationIsTrue`, `ForeignBranchKept`, `FeedbackTracksFacts`, `StalenessBounded`, `MarkerIsProof`, `NothingClobbered`, `TreeNeverLost` |
| `watch` | 2 calls and 1 crash; outputs of 14 symbols with 6 frames and 1 oddity; 5 records; 4 bytes in chunks of 3 and records of 1, 1 rewrite; 3 processes, 1 failing close | 2.85 M | `ProvidersAccountedFor`, `FallbackStandsAlone`, `VerdictIsTheTranscript`, `FallbackIsEvidenced`, `TranscriptAccountedFor`, `StoresBehindLease` |
| `live` | 2 events per epoch, 2 service processes, replay of 1, a socket of 1 frame, 2 refetches; 2 parents, 1 CLI process sending twice out of 4 requests | 2.02 M | `ViewsCatchUp`, `AnswersHold`, `ActiveEndpointKept` |

Several properties are conjunctions of named parts, which the modules state and comment one by one:
`SettlementsLawful` is `JournalWellFormed` and `AuthorityNeedsEmptyScope`; `NothingStuck` is `NeverStranded` and
`LockReleased`; `GenerationsSound` joins `OneGeneration`, `GenerationComplete`, `LegacyKept` and `CompletionMeansCarried`;
`RecoveryCompletes` joins `EventuallyOpens` and `MigrationCompletes`; `AgentsKnown` joins `RunningIsRecorded`, `NoGhost` and `ReviewedIsQuiet`;
`AttemptsCounted` joins `CursorMeansSettled` and `OneRepairPerDispatch`; `DeliveredOnce` joins `IncludedOnce`, `NoLeapfrog` and
`PromptIsManifest`; `WorkEnds` joins `TasksEnd` and `CommandsResolve`; `WritersFenced` joins `HeadFenced`, `StaleWritersFenced` and `ConsumedOnce`.
The type invariants of the modules (`TypeOK`, `GroupTypeOK`, `TaskTypeOK`, `LockTypeOK`, `PublicationTypeOK`) hold on the same instances; those of
`Ledger` and `ControlStore` are theorems, and the inductive invariants of the other proofs contain one.

Bounds. Two handles and two calls are the least in which reservations race and a
budget admits one of them; two faults allow a failure inside the handling of a
failure, or a crash after a torn append. Two openers race for the publication, two migrators for the
resume, and two crashes cut a recovery. Two tasks interleave
dispatches; one repair takes a task through attempt, repair and escalation; a
boundary limit of 1 makes a command wait while another is taken. On the store one
process commits between the read and the write of the other; two new ids are
enough for a batch that is half there, a reused id and a retry; the histories save the steps
that lead to an inclusion, a settlement and a reopened task. Two members or repositories are one done and one
to do; four contenders are a dead owner, two that take its place and one that displaces the winner. An age limit of two
ticks lets a confirmed listing age once before it must be read again. Limits of one byte or one frame put every output at the
limit; 14 symbols hold the shortest complete conversation of either protocol with a cancel and one odd record.
A socket of one frame is full after the first event, a replay of one is exceeded by the second.

Deadlock is not checked where the system may stop: all calls
settled, a run finished, a ledger that refuses to be read, a store whose creation
was cut (no later open accepts the file), a component at its bounds.

### Disagreements with the repository's own statements

Two are runs that must fail (`findings`):

| run | property | what happens |
|---|---|---|
| `open_race` | `BalanceNeverForgotten` | an opener past its check initialises over a migration |
| `shipped` | `RejectedNeverShips` | a crash after the merge and before the board event: the merged task is rejected and done again; the journalled merge intent is never read |

Further ones are stated in the modules and shown by the configurations whose names end in `Known`,
which are diagnostic and not part of the runs (`tlc -continue -config MCLedgerKnown.cfg MCLedger`, and so on):

| configuration | property | code | what happens, and what is said |
|---|---|---|---|
| `MCLedgerKnown` | `TailIsRecoverable` | `ledger.ts:668` | an append cut just before its newline is folded as whole and the next append starts one byte past the end, which makes the file unreadable; "ONLY an unterminated final tail ... may be recovered, by truncation" (665-666) |
| `MCLedgerKnown` | `AcceptedStays` | `ledger.ts:1767` | `reconcile` counts records the disk does not hold yet and clears their intent; "the operator is accepting this as the truth" (1784) |
| `MCDispatchKnown` | `LocatorFree` | `steering/prompt-manifest.ts:117` | no recovery removes an unreferenced artifact ("Recovery may remove it", 209-210), and the locator of the next attempt is the same, so each repair fails until the task escalates |
| `MCDispatchKnown` | `StoppedMeansNoWork` | `orchestrator.ts:4581` | the run stops with "no dispatchable work found" although its last review rejected a task that can be repaired (4504-4505) |
| `MCDispatchKnown` | `OneAgentPerTask` | `orchestrator.ts:2571` | a turn whose scope cannot be proven empty resolves all the same and its task is dispatched again, so two agents can work on one task in one incarnation (the old one in a worktree the loop has given up); the comments say "a timed-out turn must not resolve ... while ANY descendant is still alive" (2566-2567) and call two agents on one task the reason to refuse (4171) |
| `MCMultiRepoKnown` | `CompensatedMeansUndone` | `multirepo/git-transaction.ts:186` | a ref that somebody moved on top of the candidate after a crash counts as refused, and the vector as compensated; ADR 007: an "uncertain previous result enters `recovery_required`" |
| `MCMultiRepoKnown` | `ReconcileFinishes` | `multirepo/scheduler.ts:88` | a reconciliation whose parent died is not taken up again by a restart that ends early; ADR 007:127-128 |
| `MCServicesKnown` | `KnownBlockersKept` | `scm/reconcile.ts:213` | a partial answer does not replace a complete one, but it replaces a partial one and drops what it does not cover; ADR 004:81-82: a partial bucket "may retain known blockers but cannot prove their absence" |
| `MCServicesKnown` | `RetryStaysPossible` | `orchestrator.ts:4615` | `cutoverStarted` is per process: after a crash in an import, a restart that fails earlier rewrites a legacy source, and the retry reports SOURCE_CHANGED, which the comment above (4612-4613) excludes |
| `MCWatchKnown` | `ResolvedAfterTeardown` | `orchestrator.ts:2554` | the two-second grace for standard input resolves the call without waiting for the teardown; the comment at 2516-2517 says "never over a live provider-owned scope" |
| `MCLiveKnown` | `OverlapDiscarded` | `dashboard/render.ts:475` | the page treats a replayed notification behind its snapshot as a protocol failure and starts over; the control-plane audit says overlap "is discarded by durable sequence" |
| `MCLiveKnown` | `CrashLeftIsReclaimable` | `steering/ipc.ts:489` | a crash between `link` and `unlink` leaves a locator with two links, which every successor refuses; `docs/session-steering.md:93-95` |

One more needs an action that never becomes possible: when the repair of a rejected task throws before
its claim, the handler reports "blocked", `allowedTransitions` (`control/reducer.ts:434`) has no such step from rejected,
and no repair is counted. `TasksEnd` fails for that under `Spec` and holds under `SteadySpec` (below).

Other observations made while modelling, not stated as properties: an observer whose reaction was admitted
while its command is superseded waits for a resolution that no event brings (`scm/observer.ts` near 1395); more than 32 unresolved
items are refused by the reducer for good; a request for a pull request answered with an unreadable
success is retried as a failure (`scm/github.ts` near 1535); the cross-link writer overwrites a body edited by hand between its read and its
write (`scm/github-crosslinks.ts:120`); a crash between worktree preparation and dispatch acknowledgement is met by
`BRANCH_CONFLICT` (`multirepo/worktrees.ts:691`); a legacy task finished under the reviewer's role cannot be imported; an agent that commits
its own work is blocked as having made no changes; a provisioning cut after publication leaves mode 0700;
`reapAbandonedScopes` takes any read error for an empty journal; the source generations of an attempt must be consecutive, so one
transcript that never opened silences the later ones (`control/reducer.ts:1501`); a record of exactly the limit followed by a carriage return
is dropped when it is polled before its newline.

## 4. Fairness

- `Ledger!FairSpec`: a started transaction is synchronous code (weak fairness); the
  end of a turn is delivered even when the event loop serves others in between
  (strong fairness of `SettleCompleted`). `NeverStranded` promises nothing after a
  fault: the code leaves such a call outstanding on purpose, at its worst case.
- `LedgerOpen!Spec`: a refused open is tried again, and an operator re-runs a
  migration until it is done.
- `Dispatch!Spec`: ready callbacks run, providers end by their timeout, an operator starts a
  stopped run again; a pid in use or a scope that does not empty may send
  the parent back any number of times but not for ever (strong fairness of
  `Reap` and `Recovery`). `SteadySpec` adds that a worktree can be made now and then
  (strong fairness of `Claim`), without which `TasksEnd` fails as described above.
- `RepoTransaction!VectorFairness`, `RepoTask!TaskFairness`: the parent's code runs on, an unfinished run is
  started again, and the deadline of a turn stops every worker (weak fairness).
- All other specifications are without fairness and are used for safety only. `ViewsCatchUp` states catching up
  as a state property: whenever nothing is on its way to a view, it shows the head or has a timer or request left.

## 5. What is proved

Each theorem holds for every value of the constants that the modules' `ASSUME`s
allow: any number of processes, tasks, calls, repositories, crashes and so on. In
each case the property as such is not inductive, and the proof module defines the
invariant that is, as a conjunction of named and commented parts; TLC has checked its
parts on small instances, or the property they give where a part quantifies over all functions. A proof has one lemma per invariant, with one step per action,
under which stand the parts the action can disturb.

| module | theorem | property |
|---|---|---|
| `LedgerProofs` | `LedgerTypeCorrect`, `NeverLaundered`, `AckedNeverLost`, `BudgetAlwaysHeld`, `JournalAlwaysWellFormed`, `SettlementsAlwaysLawful` | `TypeOK`, `NothingLaundered`, `AckedSurvives`, `BudgetHeld`, `JournalWellFormed`, `SettlementsLawful` |
| `LedgerOpenProofs` | `OpenTypeCorrect`, `GenerationsAlwaysSound`, `BalanceAlwaysKept` | `TypeOK`, `GenerationsSound`, `BalanceNeverForgotten` |
| `DispatchProofs` | `AgentsAlwaysKnown`, `AttemptsAlwaysCounted`, `AlwaysDeliveredOnce` | `AgentsKnown`, `AttemptsCounted`, `DeliveredOnce` |
| `ControlStoreProofs` | `StoreTypeCorrect`, `ReceiptsAlwaysHold`, `HeadAlwaysFenced`, `ProjectionAlwaysFold`, `WritersAlwaysFenced`, `StoreImplementsEventLog` | `TypeOK`, `ReceiptsHold`, `HeadFenced`, `ProjectionIsFold`, `WritersFenced`, the refinement `ImplementsEventLog` |
| `MultiRepoProofs` | `OneWorkerAlways`, `CompletedAlwaysDelivered`, `DisplacerNeverEverHolds`, `EffectsAlwaysFollowTheJournal`, `ReceiptAlwaysTellsTruth`, `WorkAlwaysSurvivesCleanup` | `OneWorkerEver`, `CompletedMeansDelivered`, `DisplacerNeverHolds`, `EffectsFollowTheJournal`, `ReceiptTellsTruth`, the action property `WorkSurvivesCleanup` |
| `DeliveryProofs` | `TreeNeverEverLost`, `NothingEverClobbered`, `MarkerAlwaysProof`, `PublicationAlwaysTrue`, `ForeignBranchAlwaysKept`, `StalenessAlwaysBounded`, `FeedbackAlwaysTracksFacts`, `TranscriptAlwaysAccountedFor` | `TreeNeverLost`, the action property `NothingClobbered`, `MarkerIsProof`, `PublicationIsTrue`, the action property `ForeignBranchKept`, `StalenessBounded`, `FeedbackTracksFacts`, `TranscriptAccountedFor` |
| `ServiceProofs` | `StoresAlwaysBehindLease`, `ProvidersAlwaysAccountedFor`, `FallbackAlwaysStandsAlone`, `FallbackAlwaysEvidenced`, `VerdictAlwaysTheTranscript` | `StoresBehindLease`, `ProvidersAccountedFor`, `FallbackStandsAlone`, `FallbackIsEvidenced`, `VerdictIsTheTranscript` |
| `OperatorProofs` | `ActiveEndpointAlwaysKept`, `AnswersAlwaysHold`, `ViewsAlwaysCatchUp` | `ActiveEndpointKept`, `AnswersHold`, `ViewsCatchUp` |

**Ledger.** The properties speak of the content that is shown now, while a power
loss may show any other content in `may`, and a write after a missing newline
takes back the line before it. `IInv` adds, over every
content either file may have: only the handle inside a transaction holds the
lock (`Locked`); whichever pair of contents survives, an unproven leaf comes with
a write-ahead log that refuses (`Guarded`); a reconciliation that accepts the
current leaf accepts whatever may survive of it (`Covered`); acknowledged records
are in each readable leaf even after its last unterminated line is cut off
(`Kept`); and, per step of the transaction, which file can still be believed
(`Phase`).

**Money.** `BudgetInv` adds to `IInv` that each journal that may survive is sound and within
the budget (`SoundJournals`), that what a provider may charge is backed by an acknowledged reservation
(`Backed`, `LaunchedAcked`), that what was charged is known to whoever settles (`OutlayKnown`, `TrueOps`,
`Scoped`), and what a handle has decided under the lock (`Decided`). The ledger sums with a fold
over a set, which the prover cannot unfold; the proof counts instead: a sum of amounts is the
cardinality of a set of units (`Units`), and the fold is shown equal to it with the least-number principle in
place of induction. `SettlementsAlwaysLawful` has the hypothesis `StrongScope`, as the run has: with the
process-group backend a daemon that left its group can outlive a settlement, which the code records as
settled without that authority.

**Opening.** `IInv` of `LedgerOpenProofs` follows one directory through every name that may be there
after a power loss: a manifest stands only over a durable leaf and key (`Sealing`), a handle holds the generation
the directory shows (`Publishing`), the archive of the v1 journal is durable before its name goes (`Archiving`), and a
receipt is published only over a carried balance (`Carrying`). `BalanceAlwaysKept` adds that wherever
an intent may be missing the v1 leaf is in place (`Holding`), under the hypothesis `Overlap = FALSE`;
`open_race` shows that it is needed.

**Delivery loop.** The invariant has layers, each used by the next. `Control`: only an iteration
dispatches, and the task of a synchronous section is the busy one. `Counts`: where a
dispatch is determines the status of its task, dispatches are repairs plus the one that is under way or accepted, and a
prompt takes a new attempt only on a claim that has none. `Launches`: an attempt that is prepared or active
is the last of its task, and its dispatch holds it or the run has not recovered yet. A live process (`Living`) is journalled,
started and planned; unless its parent is dead, it is the one its dispatch waits for or one whose turn was resolved over a live scope;
and its attempt, while it is the last, is not under review. The last part needs the second: work goes to verification only with a result that is ok. `Exits`: every exit has a place of its own in the log, which is why settling the oldest one
passes no other. `Carried` and `Published`: a command is in one manifest of its own task, no
manifest overtook an older command, and between the artifact and its commit nothing else runs. A boundary takes the commands
with fewer than `BoundaryMax` older ones; that this is a prefix rests on finite cardinalities (`SelectedPrefix`).

**Control store.** What a transaction does becomes visible only at its commit, so each property needs to
know what an open one holds. `IInv`: the log is well formed and
without repetition (`LogInv`); a pending call is well formed and its receipts
are already true (`CallInv`); the log inside a transaction extends the committed one, is itself
free of repetition, and each event of the batch is in it or still to come
(`TxInv`); and the histories keep what they recorded (`RestInv`). The refinement reads its steps from the same
invariant. `FoldInv`: tables and the memory of a writer are what the reducer makes of the log, a row
patched for an event equals the row of the whole reduction (`DeltaIsReduction`), a snapshot is the replay of a prefix, and a rebuild
that has read an older log is refused. `FenceInv`: a generation that was reopened stays ended, consumed ranges lie below the cursor, and
what a caller composed still belongs to the range it read. `Replay` and
`ComposeAll` recurse over sequences; their values are given by the unique run of the recursion
(`RunExists`, `RunUnique`), again by the least-number principle.

**Multi-repository runs.** `TaskInv`: a lease on which a program was started is never given back, and facts, steps and the
group follow one order. `LockInv`: a claim is in one place, and where its owner is says
what may be archived. `VectorInv`: a remote effect has its receipt before the next repository begins. `GroupInv`: the phase of a call, the receipt and the
members agree, and a member called reclaimed is gone.

**Source control, delivery, service.** `PublicationInv` ties the step of a saga to the canonical state and each claim to what
was seen; `ProviderInv` bounds the age of every cached page and of a listing in the making;
`ObserverInv` relates reactions to open facts. `ProvisionInv` says who owns the slot and what a backup is;
`IntegrationInv` that a candidate contains the tip it was built on; `CutoverInv` which renames are durable at each
phase. `ServiceInv` reads what a process holds from its phase; `TurnInv` orders gate, journal, start and settlement of
each call. `NormInv` says that a normalizer which found nothing wrong has read a conversation, and which one, for any
number of records.

**Transcript.** `TranscriptInv`: the observations account for the lines of the committed prefix (`CheckpointTold`); a poll
works behind the checkpoint and within the size it found (`PollSound`, `QuietPollSound`); a handle that closed without a failure
was at the end (`ClosedRead`). The accounting is by where lines begin and end rather than by their texts: a list of the
spans with a newline behind them, in order, one observation telling each, and what is told of the rest behind them, nothing, a
record too long to keep, or the record itself at the end of the file. That form passes from one turn of the loop over a poll's bytes to
the next, and the least turn that lost it would contradict that, so it holds of the state the poll commits; counting the spans before each
one leads back to the lines of the property. It needs that the writer is gone before the unterminated rest may be told.

**Structured turns.** `AdapterInv`: the framer's state is what the symbols pushed so far determine, wherever the chunks were cut
(`Read`): the records cut so far with the open one held, or a limit that every transcript beginning that way passes
(`Overrun`). The codec's state says of the records it heard (`HeardAcp`, `HeardPi`) which part of a complete conversation they
are, or that no continuation of them is one (`Doomed`): a doubt, a failure and a cancellation are final. One record at a time keeps that,
one symbol at a time keeps `Read`, and the least symbol of a chunk that lost it would contradict that. `Driven` is the driver's side: before the
turn neither prompt nor cancel is written and the input is open, the turn has one prompt, and a cancel waits for it. At the end of the output the records of
the framer are those the property cuts out of the whole transcript (`RecordsList`).

**Operator's endpoint.** `EndpointInv`: every listener bound the socket at the path and every open connection leads to a listener.
`AnswersInv`: between two batches the projection can be replayed (`Replayable`: the reducer's own consistency
check holds, every manifest's inclusions are in, and commands that wait were admitted one by one); a decision in progress belongs
to a client that still waits for it on a connection to that parent (`JobInv`); and every reply on its way, like every
result already printed, names what the log records (`Told`). Each event of the reducer keeps that and forgets nothing
recorded (`Recorded`), which is why a reply computed before a lost answer or by a displaced parent stays true. A prompt's batch
passes through projections that are not replayable by themselves; `Mid` says what they are after the manifest
and its first k inclusions, and the least-number principle takes the batch to its end. That a boundary lists the waiting commands in the
order of their admission needs that such an order exists (`WaitingInOrder`, by the cardinality of the set).

**Views.** `StreamInv` is about the broker and its socket: a backlog within its limit, every view frame on the wire about the
store's run and not past its head, and a stream that has not read the head woken for it. `RoomInv` and `PageInv`
are about the two client programs: what the stream has told is on the wire, asked for or shown (`RoomTold`, `PageTold`),
and a client that is behind has a fetch, a debounce, a retry or a poll left.

Assumptions. For the ledger, finite calls, natural amounts and bounds. For the
delivery loop, a finite board and finitely many command ids. For the store, that the history it starts from is one that
the reducer and `validateFences` accept event by event, with no repeated ids or
sources, and that a batch is not empty (`SeedsAssumption`, `BatchesAssumption`). TLC evaluates
each of them in the runs.

Only model-checked:

- liveness (`NothingStuck`, `RecoveryCompletes`, `WorkEnds`, `VectorSettles`, `DispatchedIsSettled`): the prover has no fairness.

Every invariant and every action property of a passing run is a theorem.

## 6. Plan

Modelled in this order: ledger, opening, delivery loop, control store; then multi-repository, source control,
cutover, integration, provisioning, provider turn, output, transcript, service, views, steering endpoint (all done).

Left:

1. The delegation of a cgroup subtree (`cgroup-delegation*.ts`), the several tasks of a multi-repository plan
   (`multirepo/dag.ts`, `runtime.ts`), the read routes of the control server with their quotas.
2. `Money` operators against a reference definition.

## 7. Not modelled

Rendering, projections for display, configuration, tmux, starter files and prompt text have no state
the properties are about. The contained-evidence probes and the egress proxy of `adapters/` prepare and inspect third-party
binaries under seccomp and network namespaces; what they decide appears as an available or unavailable provider
(`ProviderTurn!exactNativeAvailability`). Provider binaries, git, SQLite, the kernel's
cgroups and the remote forges are external: they appear only through what the
code observes of them. `presentation-ring.ts` and `initializeFreshStore` have no caller in the product.
`PROJECT.json` gives the reason for each component.
